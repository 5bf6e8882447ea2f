------------------------------- MODULE MCServices -------------------------------
(***************************************************************************)
(* Instances for TLC of the components around trading: EodReports,         *)
(* ExpiryCalendar, CandidateRules, HeuristicRules, SpotSignals and         *)
(* SuperTrendTrail.  They share no variable and no action of one looks at  *)
(* another, so the run explores each alone, as MCControlPlane does: a      *)
(* component moves only while the others are where they started, at one of *)
(* their initial states.                                                   *)
(***************************************************************************)
EXTENDS EodReports, ExpiryCalendar, CandidateRules, CandidateCases, HeuristicCases,
        SignalCases, SuperTrendTrail, TLC
CONSTANTS t1, t2, t3, s1, s2, h1, h2, m1, x1, x2

\* Two trades of one strategy and one of another.
ThreeTrades == {t1, t2, t3}
TwoPlans == [t \in ThreeTrades |-> IF t = t3 THEN s2 ELSE s1]
TwoHourly == {h1, h2}
OneAdmin == {m1}
TwoSamplers == {x1, x2}

\* More symmetry costs TLC more than it saves.
ServiceSymmetry ==
    Permutations({t1, t2}) \cup Permutations(TwoHourly)

\* The trades are closed on the first day, that of the second strategy before 15:25; the
\* second day is there for runs that cross midnight.  Samples and reports do not meet,
\* so samples are followed while no report runs.
Sampling == \E k \in Samplers : sampler[k] # NoSample
EodBound ==
    /\ \A t \in ClosedTrades : exit[t].day <= 1
    /\ clock.hour > 0 => exit[t3] # NotYet
    /\ clock.day = 2 => clock.hour = 0
    /\ Sampling \/ (\E t \in ClosedTrades : late[t] > 0) =>
         marker = NotYet /\ \A r \in Runs : run[r] = RestingRun

\* Weeklies on Tuesdays with one moved by a holiday, on Thursdays, both, sparse monthlies.
SomeListings ==
    {{}, {1, 8, 15, 22, 29, 36}, {1, 7, 10, 15, 17, 22}, {1, 3, 8, 10, 15, 17}, {29, 57}}
SomeHolidays == {{}, {7, 8}, {14, 15, 16}}
SomeNeeds == {0, 2, 5, 9}

\* A refresh forgets the one before, so one is enough; what it stored is looked at after
\* an edit of the catalog and a move of VIX.
CandidateBound == made = NotMade \/ vixNow = made.board.vix
CandidateStep ==
    \/ made = NotMade /\ \E board \in Boards : Generate(board)
    \/ /\ made # NotMade
       /\ (\E p \in Catalogs : EditCatalog(p)) \/ (\E v \in Vixes : MoveVix(v))

ServicesBound == EodBound /\ CandidateBound

\* A flat index, two bars around it and one twice as restless; prices at a rupee, on both
\* sides of it and of the entry.
SomeBars ==
    {[mid |-> 240, reach |-> 3, close |-> 240], [mid |-> 244, reach |-> 3, close |-> 245],
     [mid |-> 235, reach |-> 3, close |-> 234], [mid |-> 240, reach |-> 20, close |-> 240]}
SomePremiums == {40, 100, 400, 1000}
SomeAverages == {80, 900}

\* Where a component waits while another moves.
CalendarRest ==
    today = 0 /\ holidays = {} /\ feed = "fyers" /\ published = {}
CandidateRest ==
    catalog = Plain /\ vixNow = NoValue /\ made = NotMade /\ stored = {}
VoteRest ==
    poll = [p |-> Untuned, market |-> PollMarket(<<>>, 1, 0)] /\ votes = NotVoted
SignalRest ==
    view = (CHOOSE v \in SuperTrendViews : TRUE) /\ offers = {} /\ scanned = {}
TrailRest ==
    /\ bands = [upper |-> 243, lower |-> 237, dir |-> Bull, close |-> 240]
    /\ ended = FALSE /\ offer = Nothing /\ trade = NoTrade

ServicesInit ==
    /\ EodInit
    /\ \/ CalendarRest /\ CandidateRest /\ VoteRest /\ SignalRest /\ TrailRest
       \/ CalendarInit /\ CandidateRest /\ VoteRest /\ SignalRest /\ TrailRest
       \/ CalendarRest /\ CandidateInit /\ VoteRest /\ SignalRest /\ TrailRest
       \/ CalendarRest /\ CandidateRest /\ VoteInit /\ SignalRest /\ TrailRest
       \/ CalendarRest /\ CandidateRest /\ VoteRest /\ SignalInit /\ TrailRest
       \/ CalendarRest /\ CandidateRest /\ VoteRest /\ SignalRest /\ TrailInit

ServicesNext ==
    \/ /\ CalendarRest /\ CandidateRest /\ VoteRest /\ SignalRest /\ TrailRest
       /\ EodNext
       /\ UNCHANGED <<calendarVars, candidateVars, voteVars, signalVars, trailVars>>
    \/ /\ EodInit /\ CandidateRest /\ VoteRest /\ SignalRest /\ TrailRest
       /\ CalendarNext
       /\ UNCHANGED <<eodVars, candidateVars, voteVars, signalVars, trailVars>>
    \/ /\ EodInit /\ CalendarRest /\ VoteRest /\ SignalRest /\ TrailRest
       /\ CandidateStep
       /\ UNCHANGED <<eodVars, calendarVars, voteVars, signalVars, trailVars>>
    \/ /\ EodInit /\ CalendarRest /\ CandidateRest /\ SignalRest /\ TrailRest
       /\ Vote
       /\ UNCHANGED <<eodVars, calendarVars, candidateVars, signalVars, trailVars>>
    \/ /\ EodInit /\ CalendarRest /\ CandidateRest /\ VoteRest /\ TrailRest
       /\ SignalNext
       /\ UNCHANGED <<eodVars, calendarVars, candidateVars, voteVars, trailVars>>
    \/ /\ EodInit /\ CalendarRest /\ CandidateRest /\ VoteRest /\ SignalRest
       /\ TrailNext
       /\ UNCHANGED <<eodVars, calendarVars, candidateVars, voteVars, signalVars>>

servicesVars == <<eodVars, calendarVars, candidateVars, voteVars, signalVars, trailVars>>

ServicesSpec == ServicesInit /\ [][ServicesNext]_servicesVars
=============================================================================
