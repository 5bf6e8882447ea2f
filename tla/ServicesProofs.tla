------------------------------- MODULE ServicesProofs -------------------------------
(***************************************************************************)
(* Theorems about the components around trading: EodReports,               *)
(* ExpiryCalendar, SuperTrendTrail and HeuristicRules.  They share no      *)
(* variable, so each theorem is about the specification of one of them.    *)
(*                                                                         *)
(*  - EodReports: a report run that a marked hour or day stands for has    *)
(*    counted every trade that was closed before it began; the lock and    *)
(*    the claim keep the runs apart, and the argument follows what each    *)
(*    run has read.                                                        *)
(*  - ExpiryCalendar: the choice of an expiry is the nearest that serves   *)
(*    the need or, up to five days on, that on the weekday; written as a   *)
(*    function of the list and a date, that choice never moves back when   *)
(*    the list is the same or only rolls forward.                          *)
(*  - SuperTrendTrail: the peg puts the stop above the price, the trail    *)
(*    only ever lowers it.                                                 *)
(*  - HeuristicRules: a rounded weighted mean lies between what was said,  *)
(*    and each stage of a row says what a signal has passed; the choice of *)
(*    the best is there to be made, as strikes near the money are finitely *)
(*    many.                                                                *)
(***************************************************************************)
EXTENDS EodReports, ExpiryCalendar, SuperTrendTrail, HeuristicRules,
        FiniteSetTheorems, WellFoundedInduction, TLAPS

-----------------------------------------------------------------------------
(* EodReports *)

\* The initial state has its types.
LEMMA EodTypeInit == EodInit => EodTypeOK
  BY EodAssumption DEF EodInit, EodTypeOK, Clocks, Days

\* A trade's plan is one of the plans.
LEMMA PlanIsPlan == \A t \in ClosedTrades : PlanOf[t] \in Plans
  BY DEF Plans

\* The steps of a run keep the types.
LEMMA RunTypeStep ==
    ASSUME EodTypeOK, NEW r \in Runs,
           \/ r \in HourlyRuns /\ (StartHourly(r) \/ EnterHourly(r) \/ FinishHourly(r))
           \/ \E d \in Days : r \in AdminRuns /\ StartAdmin(r, d)
           \/ ReadClosed(r) \/ EndRun(r) \/ \E s \in Plans : UpsertReport(r, s)
    PROVE  EodTypeOK'
<1>0. run[r] \in {RestingRun} \cup RunStates /\ run \in [Runs -> {RestingRun} \cup RunStates]
  BY DEF EodTypeOK
<1>1. ASSUME NEW new \in {RestingRun} \cup RunStates
      PROVE  [run EXCEPT ![r] = new] \in [Runs -> {RestingRun} \cup RunStates]
  BY <1>0
<1>2. RestingRun \in {RestingRun} \cup RunStates
  OBVIOUS
<1>3. CASE r \in HourlyRuns /\ StartHourly(r)
  <2>1. [stage |-> "wait", at |-> clock, rows |-> {}, left |-> {}] \in RunStates
    BY DEF RunStates, EodTypeOK
  <2>. QED
    BY <1>1, <1>3, <2>1 DEF StartHourly, EodTypeOK
<1>4. CASE r \in HourlyRuns /\ EnterHourly(r)
  <2>1. [run[r] EXCEPT !.stage = "read"] \in RunStates
    BY <1>0, <1>4 DEF EnterHourly, RunAt, RunStates
  <2>2. run' \in [Runs -> {RestingRun} \cup RunStates]
    BY <1>1, <1>2, <1>4, <2>1 DEF EnterHourly
  <2>3. eodHolder' \in HourlyRuns \cup {NoRun}
    BY <1>4 DEF EnterHourly, EodTypeOK
  <2>. QED
    BY <1>4, <2>2, <2>3 DEF EnterHourly, EodTypeOK
<1>5. CASE r \in HourlyRuns /\ FinishHourly(r)
  <2>1. run[r].at \in Clocks
    BY <1>0, <1>5 DEF FinishHourly, RunAt, RunStates
  <2>2. run' \in [Runs -> {RestingRun} \cup RunStates]
    BY <1>1, <1>2, <1>5 DEF FinishHourly
  <2>. QED
    BY <1>5, <2>1, <2>2 DEF FinishHourly, EodTypeOK
<1>6. ASSUME NEW d \in Days, StartAdmin(r, d)
      PROVE  EodTypeOK'
  <2>1. [stage |-> "read", at |-> [day |-> d, hour |-> 0], rows |-> {}, left |-> {}]
          \in RunStates
    BY EodAssumption DEF RunStates, Clocks
  <2>. QED
    BY <1>1, <1>6, <2>1 DEF StartAdmin, EodTypeOK
<1>7. CASE ReadClosed(r)
  <2> DEFINE closed == ClosedOn(run[r].at.day)
             plans == {PlanOf[t] : t \in closed}
  <2>1. closed \subseteq ClosedTrades /\ plans \subseteq Plans
    BY DEF ClosedOn, Plans
  <2>2. run' = [run EXCEPT ![r] = [run[r] EXCEPT !.stage = "write", !.rows = closed,
                                                 !.left = plans]]
    BY <1>0, <1>7 DEF ReadClosed
  <2> HIDE DEF closed, plans
  <2>3. [run[r] EXCEPT !.stage = "write", !.rows = closed, !.left = plans] \in RunStates
    BY <1>0, <1>7, <2>1 DEF ReadClosed, RunAt, RunStates
  <2>. QED
    BY <1>1, <1>7, <2>2, <2>3, ZenonT(60) DEF ReadClosed, EodTypeOK
<1>8. CASE EndRun(r)
  BY <1>1, <1>2, <1>8 DEF EndRun, EodTypeOK
<1>9. ASSUME NEW s \in Plans, UpsertReport(r, s)
      PROVE  EodTypeOK'
  <2> DEFINE d == run[r].at.day
             rows == {t \in run[r].rows : PlanOf[t] = s}
  <2>1. run[r] \in RunStates
    BY <1>0, <1>9 DEF UpsertReport, RunAt
  <2>2. d \in Days /\ rows \in SUBSET ClosedTrades
    BY <2>1 DEF RunStates, Clocks
  <2>3. [run[r] EXCEPT !.left = run[r].left \ {s}] \in RunStates
    BY <2>1, SMTT(60) DEF RunStates
  <2>4. run' \in [Runs -> {RestingRun} \cup RunStates]
    BY <1>1, <1>9, <2>3, ZenonT(60) DEF UpsertReport
  <2>5. report' = [report EXCEPT ![d] = [report[d] EXCEPT ![s] = rows]]
    BY <1>9, ZenonT(60) DEF UpsertReport
  <2>6. undercut' \subseteq undercut \cup {<<d, s>>}
    BY <1>9 DEF UpsertReport
  <2> HIDE DEF d, rows
  <2>7. report' \in [Days -> [Plans -> SUBSET ClosedTrades]]
    BY <2>2, <2>5 DEF EodTypeOK
  <2>8. undercut' \subseteq Days \X Plans
    BY <2>2, <2>6 DEF EodTypeOK
  <2>. QED
    BY <1>9, <2>4, <2>7, <2>8, ZenonT(60) DEF UpsertReport, EodTypeOK
<1>. QED
  BY <1>3, <1>4, <1>5, <1>6, <1>7, <1>8, <1>9

\* The other steps keep the types.
LEMMA SampleTypeStep ==
    ASSUME EodTypeOK,
           \/ Tick \/ RestartServer \/ UNCHANGED eodVars
           \/ \E t \in ClosedTrades : CloseTrade(t)
           \/ \E k \in Samplers : StartSample(k) \/ \E t \in ClosedTrades : InsertSample(k, t)
    PROVE  EodTypeOK'
<1>1. CASE Tick
  <2>1. clock' \in Clocks
    <3>1. clock \in Clocks
      BY DEF EodTypeOK
    <3>. QED
      BY <1>1, <3>1, EodAssumption DEF Tick, Clocks, Days
  <2>. QED
    BY <1>1, <2>1 DEF Tick, EodTypeOK
<1>2. CASE RestartServer
  BY <1>2 DEF RestartServer, EodTypeOK
<1>3. CASE UNCHANGED eodVars
  BY <1>3 DEF eodVars, EodTypeOK
<1>4. ASSUME NEW t \in ClosedTrades, CloseTrade(t)
      PROVE  EodTypeOK'
  BY <1>4 DEF CloseTrade, EodTypeOK
<1>5. ASSUME NEW k \in Samplers, StartSample(k)
      PROVE  EodTypeOK'
  <2>1. [stage |-> "insert", left |-> Open] \in SampleStates
    BY DEF SampleStates, Open
  <2>2. sampler' \in [Samplers -> {NoSample} \cup SampleStates]
    BY <1>5, <2>1 DEF StartSample, EodTypeOK
  <2>. QED
    BY <1>5, <2>2 DEF StartSample, EodTypeOK
<1>6. ASSUME NEW k \in Samplers, NEW t \in ClosedTrades, InsertSample(k, t)
      PROVE  EodTypeOK'
  <2>1. sampler[k] \in SampleStates
    BY <1>6 DEF InsertSample, EodTypeOK
  <2>2. [sampler[k] EXCEPT !.left = sampler[k].left \ {t}] \in SampleStates
    BY <2>1 DEF SampleStates
  <2>3. sampler' \in [Samplers -> {NoSample} \cup SampleStates]
    BY <1>6, <2>2 DEF InsertSample, EodTypeOK
  <2>4. late' \in [ClosedTrades -> Nat]
    BY <1>6 DEF InsertSample, EodTypeOK
  <2>. QED
    BY <1>6, <2>3, <2>4 DEF InsertSample, EodTypeOK
<1>. QED
  BY <1>1, <1>2, <1>3, <1>4, <1>5, <1>6

\* Every step keeps the types.
LEMMA EodTypeStep == EodTypeOK /\ [EodNext]_eodVars => EodTypeOK'
  BY RunTypeStep, SampleTypeStep DEF EodNext, Runs

\* The reports keep their types.
THEOREM EodTypeCorrect == EodSpec => []EodTypeOK
  BY EodTypeInit, EodTypeStep, PTL DEF EodSpec

\* The hour c is over or under way when the clock shows now.
Begun(c, now) == c.day < now.day \/ (c.day = now.day /\ c.hour <= now.hour)

\* The trades that a run for the hour c has to find, if e are the exits and m is marked:
\* those closed on the day before that hour, and before the hour that is already marked.
Due(c, e, m) ==
    {t \in ClosedTrades :
        e[t].day = c.day /\ (e[t].hour < c.hour \/ (m.day = c.day /\ e[t].hour < m.hour))}

\* Trade t is counted in the rows rep of day d, but for what an admin's runs undercut.
InReport(rep, cut, d, t) == t \in rep[d][PlanOf[t]] \/ <<d, PlanOf[t]>> \in cut

\* The lock is held by the one hourly run that reads or writes.
LockHeld ==
    \A r \in HourlyRuns : run[r].stage \in {"read", "write"} <=> eodHolder = r

\* Nothing is done for an hour, or closed in one, that has not begun.
NothingAhead ==
    /\ \A r \in HourlyRuns : run[r] # RestingRun => Begun(run[r].at, clock)
    /\ marker # NotYet => Begun(marker, clock)

\* An hourly run that has read has the trades it needs, and has put them into the report,
\* bucket by bucket.
RunReads ==
    \A r \in HourlyRuns :
        run[r].stage = "write" =>
            /\ Due(run[r].at, exit, marker) \subseteq run[r].rows
            /\ \A t \in run[r].rows :
                  PlanOf[t] \in run[r].left \/ InReport(report, undercut, run[r].at.day, t)

\* Inductive.
EodInv == EodTypeOK /\ LockHeld /\ NothingAhead /\ RunReads /\ MarkedHourIsDone

\* The hour of a run that is under way.
LEMMA RunShape ==
    ASSUME EodTypeOK, NEW r \in Runs, run[r] # RestingRun
    PROVE  /\ run[r] \in RunStates
           /\ run[r].at \in Clocks /\ run[r].at.day \in Days /\ run[r].at.day \in Nat \ {0}
           /\ run[r].at.hour \in Nat
           /\ run[r].rows \subseteq ClosedTrades
<1>1. run[r] \in RunStates
  BY DEF EodTypeOK
<1>. QED
  BY <1>1, EodAssumption DEF RunStates, Clocks, Days

\* The clock, the exits and the mark are days and hours.
LEMMA ClockShape ==
    ASSUME EodTypeOK
    PROVE  /\ clock.day \in Nat \ {0} /\ clock.hour \in Nat
           /\ marker.day \in Nat /\ marker.hour \in Nat
           /\ marker # NotYet => marker.day \in Days
           /\ \A t \in ClosedTrades : exit[t].day \in Nat /\ exit[t].hour \in Nat
<1>1. /\ clock \in Clocks /\ marker \in Clocks \cup {NotYet}
      /\ \A t \in ClosedTrades : exit[t] \in Clocks \cup {NotYet}
  BY DEF EodTypeOK
<1>2. \A c \in Clocks : c.day \in Days /\ c.day \in Nat \ {0} /\ c.hour \in Nat
  BY EodAssumption DEF Clocks, Days
<1>3. NotYet.day \in Nat /\ NotYet.hour \in Nat
  BY DEF NotYet
<1>. QED
  BY <1>1, <1>2, <1>3

\* Runs that stay as they are, while reports, exits and the mark do.
LEMMA RunsKept ==
    ASSUME EodInv, EodTypeOK', \A q \in HourlyRuns : run'[q] = run[q],
           UNCHANGED <<clock, exit, marker, eodHolder>>,
           \A d \in Days, t \in ClosedTrades :
              InReport(report, undercut, d, t) => InReport(report', undercut', d, t)
    PROVE  EodInv'
<1>1. LockHeld' /\ NothingAhead'
  BY DEF EodInv, LockHeld, NothingAhead
<1>2. ASSUME NEW q \in HourlyRuns, run'[q].stage = "write"
      PROVE  /\ Due(run'[q].at, exit', marker') \subseteq run'[q].rows
             /\ \A t \in run'[q].rows :
                   PlanOf[t] \in run'[q].left \/ InReport(report', undercut', run'[q].at.day, t)
  <2>1. run'[q] = run[q] /\ exit' = exit /\ marker' = marker /\ q \in Runs
    BY DEF Runs
  <2>2. run[q] # RestingRun
    BY <1>2, <2>1 DEF RestingRun
  <2>3. run[q].at.day \in Days /\ run[q].rows \subseteq ClosedTrades
    BY <2>1, <2>2, RunShape DEF EodInv
  <2>4. /\ Due(run[q].at, exit, marker) \subseteq run[q].rows
        /\ \A t \in run[q].rows :
              PlanOf[t] \in run[q].left \/ InReport(report, undercut, run[q].at.day, t)
    BY <1>2, <2>1 DEF EodInv, RunReads
  <2>. QED
    BY <2>1, <2>3, <2>4
<1>3. RunReads'
  BY <1>2 DEF RunReads
<1>4. MarkedHourIsDone'
  <2>1. marker # NotYet => marker.day \in Days
    BY ClockShape DEF EodInv
  <2>2. marker # NotYet =>
          \A t \in ClosedTrades : exit[t].day = marker.day /\ exit[t].hour < marker.hour =>
              InReport(report, undercut, marker.day, t)
    BY DEF EodInv, MarkedHourIsDone, ClosedOn, InReport
  <2>3. marker' # NotYet =>
          \A t \in ClosedTrades : exit'[t].day = marker'.day /\ exit'[t].hour < marker'.hour =>
              InReport(report', undercut', marker'.day, t)
    BY <2>1, <2>2
  <2>. QED
    BY <2>3 DEF MarkedHourIsDone, ClosedOn, InReport
<1>. QED
  BY <1>1, <1>3, <1>4 DEF EodInv

\* The clock only goes on, and a trade is closed no earlier than anything was started.
LEMMA EodTimeStep ==
    ASSUME EodInv, EodTypeOK', Tick \/ \E t \in ClosedTrades : CloseTrade(t)
    PROVE  EodInv'
<1>1. UNCHANGED <<run, marker, eodHolder, report, undercut>>
  BY DEF Tick, CloseTrade
<1>2. LockHeld'
  BY <1>1 DEF EodInv, LockHeld
<1>3. \/ exit' = exit /\ (clock'.day > clock.day
                          \/ (clock'.day = clock.day /\ clock'.hour > clock.hour))
      \/ clock' = clock /\ \A t \in ClosedTrades : exit'[t] = exit[t] \/ exit'[t] = clock
  <2>1. CASE Tick
    <3>1. clock \in [day : Days, hour : 0..LastHour]
      BY DEF EodInv, EodTypeOK, Clocks
    <3>. QED
      BY <2>1, <3>1, EodAssumption DEF Tick, Days
  <2>2. ASSUME NEW t \in ClosedTrades, CloseTrade(t)
        PROVE  clock' = clock /\ \A u \in ClosedTrades : exit'[u] = exit[u] \/ exit'[u] = clock
    BY <2>2 DEF CloseTrade, EodInv, EodTypeOK
  <2>. QED
    BY <2>1, <2>2
<1>4. \A r \in HourlyRuns : run[r] # RestingRun =>
          /\ run[r].at.day \in Nat \ {0} /\ run[r].at.hour \in Nat /\ Begun(run[r].at, clock)
  BY RunShape DEF EodInv, NothingAhead, Runs
<1>5. /\ clock.day \in Nat \ {0} /\ clock.hour \in Nat
      /\ clock'.day \in Nat \ {0} /\ clock'.hour \in Nat
      /\ marker.day \in Nat /\ marker.hour \in Nat
      /\ marker # NotYet => Begun(marker, clock)
  <2>1. clock' \in Clocks
    BY DEF EodTypeOK
  <2>2. clock'.day \in Nat \ {0} /\ clock'.hour \in Nat
    BY <2>1, EodAssumption DEF Clocks, Days
  <2>. QED
    BY <2>2, ClockShape DEF EodInv, NothingAhead
<1>6. NothingAhead'
  BY <1>1, <1>3, <1>4, <1>5 DEF NothingAhead, Begun
<1>7. ASSUME NEW r \in HourlyRuns, run[r] # RestingRun
      PROVE  Due(run[r].at, exit', marker) \subseteq Due(run[r].at, exit, marker)
  <2>1. marker = NotYet => marker.hour = 0
    BY DEF NotYet
  <2>. QED
    BY <1>3, <1>4, <1>5, <1>7, <2>1 DEF Due, Begun
<1>8. RunReads'
  <2>1. \A r \in HourlyRuns : run[r].stage = "write" => run[r] # RestingRun
    BY DEF RestingRun
  <2>. QED
    BY <1>1, <1>7, <2>1 DEF EodInv, RunReads
<1>9. MarkedHourIsDone'
  <2>1. \A t \in ClosedTrades :
          marker # NotYet /\ exit'[t].day = marker.day /\ exit'[t].hour < marker.hour =>
              exit'[t] = exit[t]
    BY <1>3, <1>5 DEF Begun
  <2>. QED
    BY <1>1, <2>1 DEF EodInv, MarkedHourIsDone, ClosedOn
<1>. QED
  BY <1>2, <1>6, <1>8, <1>9 DEF EodInv

\* An hourly run starts, and gets the lock.
LEMMA HourlyStart ==
    ASSUME EodInv, EodTypeOK', NEW r \in HourlyRuns, StartHourly(r) \/ EnterHourly(r)
    PROVE  EodInv'
<1>0. /\ run \in [Runs -> {RestingRun} \cup RunStates] /\ r \in Runs
      /\ eodHolder \in HourlyRuns \cup {NoRun} /\ NoRun \notin Runs
      /\ \A q \in HourlyRuns : q \in Runs
  BY EodAssumption DEF EodInv, EodTypeOK, Runs
<1>1. UNCHANGED <<clock, exit, report, marker, undercut>>
  BY DEF StartHourly, EnterHourly
<1>2. \A q \in HourlyRuns \ {r} : run'[q] = run[q]
  BY <1>0 DEF StartHourly, EnterHourly
<1>3. run[r].stage \notin {"read", "write"} /\ eodHolder # r
  BY <1>0 DEF StartHourly, EnterHourly, RunAt, RestingRun, EodInv, LockHeld
<1>4. \/ run'[r].stage = "wait" /\ run'[r].at = clock /\ eodHolder' = eodHolder
      \/ run'[r] = RestingRun /\ eodHolder' = eodHolder
      \/ /\ run'[r].stage = "read" /\ run'[r].at = run[r].at /\ run[r] # RestingRun
         /\ eodHolder = NoRun /\ eodHolder' = r
  <2>1. CASE StartHourly(r)
    BY <1>0, <2>1 DEF StartHourly
  <2>2. CASE EnterHourly(r)
    <3>1. run[r] \in RunStates
      BY <1>0, <2>2 DEF EnterHourly, RunAt
    <3>. QED
      BY <1>0, <2>2, <3>1 DEF EnterHourly, RunAt, RunStates
  <2>. QED
    BY <2>1, <2>2
<1>5. LockHeld'
  <2>1. RestingRun.stage \notin {"read", "write"}
    BY DEF RestingRun
  <2>2. \A q \in HourlyRuns \ {r} : run[q].stage \in {"read", "write"} <=> eodHolder = q
    BY DEF EodInv, LockHeld
  <2>3. \A q \in HourlyRuns : q # NoRun
    BY <1>0
  <2>4. \A q \in HourlyRuns \ {r} : run'[q].stage \in {"read", "write"} <=> eodHolder' = q
    BY <1>2, <1>3, <1>4, <2>2, <2>3
  <2>5. run'[r].stage \in {"read", "write"} <=> eodHolder' = r
    BY <1>3, <1>4, <2>1
  <2>. QED
    BY <2>4, <2>5 DEF LockHeld
<1>6. NothingAhead'
  <2>1. clock.day \in Nat /\ clock.hour \in Nat
    BY ClockShape DEF EodInv
  <2>2. Begun(clock, clock)
    BY <2>1 DEF Begun
  <2>3. \A q \in HourlyRuns : run'[q] # RestingRun => Begun(run'[q].at, clock)
    BY <1>2, <1>4, <2>2 DEF EodInv, NothingAhead
  <2>. QED
    BY <1>1, <2>3 DEF EodInv, NothingAhead
<1>7. RunReads'
  <2>1. run'[r].stage # "write"
    BY <1>4 DEF RestingRun
  <2>. QED
    BY <1>1, <1>2, <2>1 DEF EodInv, RunReads
<1>8. MarkedHourIsDone'
  BY <1>1 DEF EodInv, MarkedHourIsDone, ClosedOn
<1>. QED
  BY <1>5, <1>6, <1>7, <1>8 DEF EodInv

\* A run ends half-way, or with its hour done.
LEMMA RunEnd ==
    ASSUME EodInv, EodTypeOK', NEW r \in Runs,
           EndRun(r) \/ (r \in HourlyRuns /\ FinishHourly(r))
    PROVE  EodInv'
<1>0. /\ run \in [Runs -> {RestingRun} \cup RunStates]
      /\ eodHolder \in HourlyRuns \cup {NoRun} /\ NoRun \notin Runs
      /\ \A q \in HourlyRuns : q \in Runs
  BY EodAssumption DEF EodInv, EodTypeOK, Runs
<1>1. UNCHANGED <<clock, exit, report, undercut>> /\ run' = [run EXCEPT ![r] = RestingRun]
  BY DEF EndRun, FinishHourly
<1>2. run'[r] = RestingRun /\ \A q \in HourlyRuns \ {r} : run'[q] = run[q]
  BY <1>0, <1>1
<1>3. run[r].stage \in {"read", "write"} /\ run[r] # RestingRun
  BY DEF EndRun, FinishHourly, RunAt, RestingRun
<1>4. eodHolder' = (IF eodHolder = r THEN NoRun ELSE eodHolder)
  <2>1. r \in HourlyRuns => eodHolder = r
    BY <1>3 DEF EodInv, LockHeld
  <2>. QED
    BY <2>1 DEF EndRun, FinishHourly
<1>5. LockHeld'
  <2>1. \A q \in HourlyRuns : q # NoRun
    BY <1>0
  <2>. QED
    BY <1>2, <1>4, <2>1 DEF EodInv, LockHeld, RestingRun
<1>6. RestingRun.stage # "write"
  BY DEF RestingRun
<1>7. CASE marker' = marker
  <2>1. NothingAhead'
    BY <1>1, <1>2, <1>7 DEF EodInv, NothingAhead
  <2>2. RunReads'
    BY <1>1, <1>2, <1>6, <1>7 DEF EodInv, RunReads
  <2>3. MarkedHourIsDone'
    BY <1>1, <1>7 DEF EodInv, MarkedHourIsDone, ClosedOn
  <2>. QED
    BY <1>5, <2>1, <2>2, <2>3 DEF EodInv
<1>8. CASE r \in HourlyRuns /\ FinishHourly(r)
  <2>1. marker' = run[r].at /\ run[r].left = {} /\ run[r].stage = "write" /\ eodHolder = r
    BY <1>3, <1>8 DEF FinishHourly, RunAt, EodInv, LockHeld
  <2>2. \A q \in HourlyRuns : run'[q].stage # "write"
    BY <1>2, <1>6, <2>1 DEF EodInv, LockHeld
  <2>3. RunReads'
    BY <2>2 DEF RunReads
  <2>4. NothingAhead'
    BY <1>1, <1>2, <1>3, <1>8, <2>1 DEF EodInv, NothingAhead
  <2>5. \A t \in ClosedTrades :
          exit[t].day = run[r].at.day /\ exit[t].hour < run[r].at.hour =>
              InReport(report, undercut, run[r].at.day, t)
    BY <1>8, <2>1 DEF EodInv, RunReads, Due
  <2>6. MarkedHourIsDone'
    BY <1>1, <2>1, <2>5 DEF MarkedHourIsDone, ClosedOn, InReport
  <2>. QED
    BY <1>5, <2>3, <2>4, <2>6 DEF EodInv
<1>. QED
  BY <1>7, <1>8 DEF EndRun

\* A run reads the closed trades of its day.
LEMMA RunRead ==
    ASSUME EodInv, EodTypeOK', NEW r \in Runs, ReadClosed(r)
    PROVE  EodInv'
<1>0. /\ run \in [Runs -> {RestingRun} \cup RunStates]
      /\ \A q \in HourlyRuns : q \in Runs
  BY DEF EodInv, EodTypeOK, Runs
<1>1. UNCHANGED <<clock, exit, report, undercut, marker, eodHolder>>
  BY DEF ReadClosed
<1>2. run[r] \in RunStates /\ run[r].stage = "read" /\ run[r] # RestingRun
  BY <1>0 DEF ReadClosed, RunAt
<1>3. \A q \in HourlyRuns \ {r} : run'[q] = run[q]
  BY <1>0 DEF ReadClosed
<1>4. /\ run'[r].stage = "write" /\ run'[r].at = run[r].at /\ run'[r] # RestingRun
      /\ run'[r].rows = ClosedOn(run[r].at.day)
      /\ run'[r].left = {PlanOf[t] : t \in ClosedOn(run[r].at.day)}
  BY <1>0, <1>2 DEF ReadClosed, RunStates, RestingRun
<1>5. LockHeld'
  BY <1>1, <1>2, <1>3, <1>4 DEF EodInv, LockHeld
<1>6. NothingAhead'
  BY <1>1, <1>2, <1>3, <1>4 DEF EodInv, NothingAhead
<1>7. /\ Due(run'[r].at, exit, marker) \subseteq run'[r].rows
      /\ \A t \in run'[r].rows : PlanOf[t] \in run'[r].left
  BY <1>4 DEF Due, ClosedOn
<1>8. RunReads'
  BY <1>1, <1>3, <1>7 DEF EodInv, RunReads
<1>9. MarkedHourIsDone'
  BY <1>1 DEF EodInv, MarkedHourIsDone, ClosedOn
<1>. QED
  BY <1>5, <1>6, <1>8, <1>9 DEF EodInv

\* A run writes one bucket: an hourly one has every trade that was due, an admin's one
\* leaves a mark where it lost one.
LEMMA RunWrite ==
    ASSUME EodInv, EodTypeOK', NEW r \in Runs, NEW s \in Plans, UpsertReport(r, s)
    PROVE  EodInv'
<1> DEFINE d == run[r].at.day
           rows == {t \in run[r].rows : PlanOf[t] = s}
<1>0. /\ run \in [Runs -> {RestingRun} \cup RunStates]
      /\ report \in [Days -> [Plans -> SUBSET ClosedTrades]]
      /\ \A q \in HourlyRuns : q \in Runs
  BY DEF EodInv, EodTypeOK, Runs
<1>1. UNCHANGED <<clock, exit, marker, eodHolder>>
  BY DEF UpsertReport
<1>2. run[r] \in RunStates /\ run[r].stage = "write" /\ run[r] # RestingRun
  BY <1>0 DEF UpsertReport, RunAt
<1>3. d \in Days /\ run[r].rows \subseteq ClosedTrades
  BY <1>2, RunShape DEF EodInv
<1>4. report' = [report EXCEPT ![d] = [report[d] EXCEPT ![s] = rows]]
  BY DEF UpsertReport
<1>5. undercut' = IF r \in HourlyRuns THEN undercut \ {<<d, s>>}
                  ELSE IF ~(report[d][s] \subseteq rows) THEN undercut \cup {<<d, s>>}
                  ELSE undercut
  BY DEF UpsertReport
<1>6. /\ \A q \in HourlyRuns \ {r} : run'[q] = run[q]
      /\ run'[r].stage = "write" /\ run'[r].at = run[r].at /\ run'[r] # RestingRun
      /\ run'[r].rows = run[r].rows /\ run'[r].left = run[r].left \ {s}
  <2>1. run' = [run EXCEPT ![r] = [run[r] EXCEPT !.left = run[r].left \ {s}]]
    BY DEF UpsertReport
  <2>. QED
    BY <1>0, <1>2, <2>1 DEF RunStates, RestingRun
<1>7. \A e \in Days, p \in Plans :
          report'[e][p] = IF e = d /\ p = s THEN rows ELSE report[e][p]
  <2> HIDE DEF d, rows
  <2>. QED
    BY <1>0, <1>3, <1>4
<1>8. CASE r \notin HourlyRuns
  <2>1. \A e \in Days, t \in ClosedTrades :
            InReport(report, undercut, e, t) => InReport(report', undercut', e, t)
    <3> HIDE DEF d, rows
    <3>. QED
      BY <1>5, <1>7, <1>8, PlanIsPlan DEF InReport
  <2>. QED
    BY <1>1, <1>6, <1>8, <2>1, RunsKept
<1>9. CASE r \in HourlyRuns
  <2>1. \A e \in Days, t \in ClosedTrades :
            InReport(report, undercut, e, t) /\ ~(e = d /\ PlanOf[t] = s) =>
                InReport(report', undercut', e, t)
    <3> HIDE DEF d, rows
    <3>. QED
      BY <1>5, <1>7, <1>9, PlanIsPlan DEF InReport
  <2>2. \A t \in run[r].rows : PlanOf[t] = s => InReport(report', undercut', d, t)
    BY <1>3, <1>7, PlanIsPlan DEF InReport
  <2>3. eodHolder = r
    BY <1>2, <1>9 DEF EodInv, LockHeld
  <2>4. \A q \in HourlyRuns \ {r} : run'[q].stage # "write"
    BY <1>6, <2>3 DEF EodInv, LockHeld
  <2>5. LockHeld'
    BY <1>1, <1>2, <1>6 DEF EodInv, LockHeld
  <2>6. NothingAhead'
    BY <1>1, <1>2, <1>6 DEF EodInv, NothingAhead
  <2>7. Due(run[r].at, exit, marker) \subseteq run[r].rows
        /\ \A t \in run[r].rows : PlanOf[t] \in run[r].left \/ InReport(report, undercut, d, t)
    BY <1>2, <1>9 DEF EodInv, RunReads
  <2>8. \A t \in run[r].rows :
            PlanOf[t] \in run[r].left \ {s} \/ InReport(report', undercut', d, t)
    BY <1>3, <2>1, <2>2, <2>7
  <2>9. RunReads'
    BY <1>1, <1>6, <2>4, <2>7, <2>8 DEF RunReads
  <2>10. ASSUME marker # NotYet, NEW t \in ClosedTrades, exit[t].day = marker.day,
                exit[t].hour < marker.hour
         PROVE  InReport(report', undercut', marker.day, t)
    <3>1. InReport(report, undercut, marker.day, t) /\ marker.day \in Days
      BY <2>10, ClockShape DEF EodInv, MarkedHourIsDone, ClosedOn, InReport
    <3>2. CASE marker.day = d /\ PlanOf[t] = s
      <4>1. t \in run[r].rows
        BY <2>7, <2>10, <3>2 DEF Due
      <4>. QED
        BY <2>2, <3>2, <4>1
    <3>. QED
      BY <2>1, <3>1, <3>2
  <2>11. MarkedHourIsDone'
    BY <1>1, <2>10 DEF MarkedHourIsDone, ClosedOn, InReport
  <2>. QED
    BY <2>5, <2>6, <2>9, <2>11 DEF EodInv
<1>. QED
  BY <1>8, <1>9

\* Every step.
LEMMA EodStep ==
    ASSUME EodInv, EodTypeOK', [EodNext]_eodVars
    PROVE  EodInv'
<1>1. ASSUME \A q \in HourlyRuns : run'[q] = run[q],
             UNCHANGED <<clock, exit, marker, eodHolder, report, undercut>>
      PROVE  EodInv'
  BY <1>1, RunsKept
<1>2. ASSUME NEW r \in AdminRuns, NEW d \in Days, StartAdmin(r, d)
      PROVE  EodInv'
  <2>1. \A q \in HourlyRuns : q # r /\ q \in Runs
    BY EodAssumption DEF Runs
  <2>2. \A q \in HourlyRuns : run'[q] = run[q]
    BY <1>2, <2>1 DEF StartAdmin, EodInv, EodTypeOK
  <2>. QED
    BY <1>1, <1>2, <2>2 DEF StartAdmin
<1>3. ASSUME NEW k \in Samplers,
             StartSample(k) \/ \E t \in ClosedTrades : InsertSample(k, t)
      PROVE  EodInv'
  BY <1>1, <1>3 DEF StartSample, InsertSample
<1>4. CASE UNCHANGED eodVars
  BY <1>1, <1>4 DEF eodVars
<1>5. CASE RestartServer
  <2>1. /\ \A q \in HourlyRuns : run'[q] = RestingRun
        /\ eodHolder' = NoRun /\ marker' = NotYet
    BY <1>5 DEF RestartServer, Runs
  <2>2. \A q \in HourlyRuns : q # NoRun
    BY EodAssumption DEF Runs
  <2>3. LockHeld'
    BY <2>1, <2>2 DEF LockHeld, RestingRun
  <2>4. NothingAhead'
    BY <2>1 DEF NothingAhead
  <2>5. RunReads'
    BY <2>1 DEF RunReads, RestingRun
  <2>6. MarkedHourIsDone'
    BY <2>1 DEF MarkedHourIsDone
  <2>. QED
    BY <2>3, <2>4, <2>5, <2>6 DEF EodInv
<1>. QED
  BY <1>2, <1>3, <1>4, <1>5, EodTimeStep, HourlyStart, RunEnd, RunRead, RunWrite
     DEF EodNext, Runs

\* For any number of tasks, admins, trades, hours and days: an hour that the loop has
\* marked as done is done, whatever waits, fails, is recomputed or crosses midnight.
THEOREM MarkedHourIsDoneHolds == EodSpec => []MarkedHourIsDone
<1>1. EodInit => EodInv
  BY EodTypeInit, EodAssumption DEF EodInit, EodInv, LockHeld, NothingAhead, RunReads,
     MarkedHourIsDone, RestingRun, Runs
<1>2. EodInv /\ [EodNext]_eodVars => EodInv'
  BY EodTypeStep, EodStep DEF EodInv
<1>3. EodInv => MarkedHourIsDone
  BY DEF EodInv
<1>. QED
  BY <1>1, <1>2, <1>3, PTL DEF EodSpec

\* One cycle at a time has trades left to sample, and none of these has a late sample.
SampleInv ==
    /\ EodTypeOK
    /\ \A t \in ClosedTrades : late[t] <= 1 /\ (t \in Open => late[t] = 0)
    /\ \A k \in Samplers : sampler[k] # NoSample =>
         /\ \A j \in Samplers \ {k} : sampler[j] = NoSample
         /\ \A t \in sampler[k].left : late[t] = 0

\* A cycle writes its next sample.
LEMMA SampleInsert ==
    ASSUME SampleInv, EodTypeOK', NEW k \in Samplers, NEW t \in ClosedTrades,
           InsertSample(k, t)
    PROVE  SampleInv'
<1>0. /\ late \in [ClosedTrades -> Nat]
      /\ sampler \in [Samplers -> {NoSample} \cup SampleStates] /\ exit' = exit
  BY DEF SampleInv, EodTypeOK, InsertSample
<1>1. sampler[k] \in SampleStates /\ sampler[k] # NoSample /\ t \in sampler[k].left
  BY <1>0 DEF InsertSample
<1>2. late[t] = 0 /\ \A j \in Samplers \ {k} : sampler[j] = NoSample
  BY <1>1 DEF SampleInv
<1>3. \A u \in ClosedTrades :
          /\ u # t => late'[u] = late[u]
          /\ u = t => late'[u] \in {0, 1} /\ (u \in Open => late'[u] = 0)
  BY <1>0, <1>2 DEF InsertSample
<1>4. /\ \A j \in Samplers \ {k} : sampler'[j] = sampler[j]
      /\ \/ sampler'[k] = NoSample
         \/ sampler'[k].left = sampler[k].left \ {t}
  BY <1>0, <1>1 DEF InsertSample, SampleStates
<1>5. sampler[k].left \subseteq ClosedTrades
  BY <1>1 DEF SampleStates
<1>6. \A u \in ClosedTrades : late'[u] <= 1 /\ (u \in Open' => late'[u] = 0)
  BY <1>0, <1>3 DEF SampleInv, Open
<1>7. \A j \in Samplers : sampler'[j] # NoSample =>
          /\ \A i \in Samplers \ {j} : sampler'[i] = NoSample
          /\ \A u \in sampler'[j].left : late'[u] = 0
  BY <1>1, <1>2, <1>3, <1>4, <1>5, SMTT(60) DEF SampleInv
<1>. QED
  BY <1>6, <1>7 DEF SampleInv

\* Every step.
LEMMA SampleStep ==
    ASSUME SampleInv, EodTypeOK', [EodNext]_eodVars
    PROVE  SampleInv'
<1>0. /\ sampler \in [Samplers -> {NoSample} \cup SampleStates]
      /\ exit \in [ClosedTrades -> Clocks \cup {NotYet}]
  BY DEF SampleInv, EodTypeOK
<1>1. ASSUME UNCHANGED <<exit, sampler, late>>
      PROVE  SampleInv'
  BY <1>1 DEF SampleInv, Open
<1>2. ASSUME NEW k \in Samplers, StartSample(k)
      PROVE  SampleInv'
  <2>1. /\ late' = late /\ exit' = exit
        /\ \A j \in Samplers \ {k} : sampler'[j] = NoSample
        /\ sampler'[k].left = Open
    BY <1>0, <1>2 DEF StartSample, PreviousDone
  <2>. QED
    BY <2>1 DEF SampleInv, Open
<1>3. ASSUME NEW t \in ClosedTrades, CloseTrade(t)
      PROVE  SampleInv'
  <2>1. clock # NotYet
    BY ClockShape DEF SampleInv, NotYet
  <2>2. Open' \subseteq Open
    BY <1>0, <1>3, <2>1 DEF CloseTrade, Open
  <2>3. late' = late /\ sampler' = sampler
    BY <1>3 DEF CloseTrade
  <2>. QED
    BY <2>2, <2>3 DEF SampleInv
<1>4. CASE RestartServer
  <2>1. /\ late' = late /\ exit' = exit
        /\ \A j \in Samplers : sampler'[j] = NoSample
    BY <1>4 DEF RestartServer
  <2>. QED
    BY <2>1 DEF SampleInv, Open
<1>5. ASSUME NEW k \in Samplers, NEW t \in ClosedTrades, InsertSample(k, t)
      PROVE  SampleInv'
  BY <1>5, SampleInsert
<1>. QED
  BY <1>1, <1>2, <1>3, <1>4, <1>5 DEF EodNext, eodVars, Tick, StartHourly, EnterHourly,
     FinishHourly, StartAdmin, ReadClosed, EndRun, UpsertReport

\* For any number of trades and tasks: at most one sample of a trade is written after its
\* exit.
THEOREM OneLateSampleHolds == EodSpec => []OneLateSample
<1>1. EodInit => SampleInv
  BY EodTypeInit DEF EodInit, SampleInv
<1>2. SampleInv /\ [EodNext]_eodVars => SampleInv'
  BY EodTypeStep, SampleStep DEF SampleInv
<1>3. SampleInv => OneLateSample
  BY DEF SampleInv, OneLateSample
<1>. QED
  BY <1>1, <1>2, <1>3, PTL DEF EodSpec

-----------------------------------------------------------------------------
(* Least and greatest numbers *)

\* The order of the naturals as a well-founded set of pairs.
LEMMA NaturalOrder ==
    \E R : IsWellFoundedOn(R, Nat) /\ \A x, y \in Nat : <<x, y>> \in R <=> x < y
<1> DEFINE R == OpToRel(<, Nat)
<1>1. IsWellFoundedOn(R, Nat)
  BY NatLessThanWellFounded
<1>2. \A x, y \in Nat : <<x, y>> \in R <=> x < y
  BY DEF OpToRel
<1> HIDE DEF R
<1>. QED
  BY <1>1, <1>2

\* A set of naturals that is not empty has a least element.
LEMMA LeastNatural ==
    ASSUME NEW S, S \subseteq Nat, S # {}
    PROVE  \E m \in S : \A k \in S : m <= k
<1>1. PICK R : IsWellFoundedOn(R, Nat) /\ \A x, y \in Nat : <<x, y>> \in R <=> x < y
  BY NaturalOrder
<1>2. IsWellFoundedOn(R, Nat)
  BY <1>1
<1>3. \E m \in S : \A y \in S : <<y, m>> \notin R
  BY <1>2, WFMin, Zenon
<1>4. PICK m \in S : \A y \in S : <<y, m>> \notin R
  BY <1>3
<1>5. \A k \in S : k \in Nat /\ m \in Nat /\ ~(k < m)
  BY <1>1, <1>4
<1>. QED
  BY <1>5

\* A set of integers that is not empty and bounded above has a greatest element.
LEMMA GreatestInteger ==
    ASSUME NEW S, S \subseteq Int, S # {}, NEW b \in Int, \A k \in S : k <= b
    PROVE  \E m \in S : \A k \in S : k <= m
<1> DEFINE T == {n \in Nat : b - n \in S}
<1>1. T \subseteq Nat /\ T # {}
  <2>1. PICK k \in S : TRUE
    OBVIOUS
  <2>2. b - k \in Nat /\ b - (b - k) = k
    BY <2>1
  <2>3. b - k \in T
    BY <2>1, <2>2
  <2>. QED
    BY <2>3
<1>2. PICK n \in T : \A j \in T : n <= j
  BY <1>1, LeastNatural
<1>3. b - n \in S
  BY <1>2
<1>4. ASSUME NEW k \in S
      PROVE  k <= b - n
  <2>1. b - k \in Nat /\ b - (b - k) = k
    BY <1>4
  <2>2. n <= b - k
    BY <1>2, <2>1
  <2>. QED
    BY <1>2, <2>2
<1>. QED
  BY <1>3, <1>4

-----------------------------------------------------------------------------
(* ExpiryCalendar: the choice *)

\* EarliestOf is the earliest.
LEMMA Earliest ==
    ASSUME NEW S, S \subseteq Nat, S # {}
    PROVE  /\ EarliestOf(S) \in S /\ EarliestOf(S) \in Nat
           /\ \A d \in S : EarliestOf(S) <= d
<1>1. \E m \in S : \A k \in S : m <= k
  BY LeastNatural
<1>. QED
  BY <1>1 DEF EarliestOf

\* The days of L from day k on, those that fall on a weekday, and the choice among them.
Fit(L, k) == {d \in L : d >= k}
FitOn(L, k, wd) == {d \in Fit(L, k) : Weekday(d) = wd}
Choice(L, k, wd) ==
    LET any == OrNone(Fit(L, k))
        on == OrNone(FitOn(L, k, wd))
    IN IF on = NoExpiry \/ (any < on /\ on - any >= 6) THEN any ELSE on

\* Days from a natural number on are naturals.
LEMMA FitNat ==
    ASSUME NEW L \in SUBSET Int, NEW k \in Nat
    PROVE  Fit(L, k) \subseteq Nat
<1>1. \A d \in Int : d >= k => d \in Nat
  OBVIOUS
<1>2. \A d \in Fit(L, k) : d \in Int /\ d >= k
  BY DEF Fit
<1>. QED
  BY <1>1, <1>2

\* The choice is one of the days that fit, at or after the earliest, and later by at most
\* five days; without a day that fits there is none.
LEMMA ChoiceFits ==
    ASSUME NEW L \in SUBSET Int, NEW k \in Nat, NEW wd
    PROVE  /\ Fit(L, k) = {} => Choice(L, k, wd) = NoExpiry
           /\ Fit(L, k) # {} =>
                /\ Choice(L, k, wd) \in Fit(L, k)
                /\ Choice(L, k, wd) >= EarliestOf(Fit(L, k))
                /\ Choice(L, k, wd) - EarliestOf(Fit(L, k)) <= 5
                /\ EarliestOf(Fit(L, k)) \in Fit(L, k)
                /\ \A d \in Fit(L, k) : EarliestOf(Fit(L, k)) <= d
           /\ FitOn(L, k, wd) # {} =>
                /\ EarliestOf(FitOn(L, k, wd)) \in FitOn(L, k, wd)
                /\ \A d \in FitOn(L, k, wd) : EarliestOf(FitOn(L, k, wd)) <= d
                /\ EarliestOf(FitOn(L, k, wd)) - EarliestOf(Fit(L, k)) <= 5 =>
                      Choice(L, k, wd) = EarliestOf(FitOn(L, k, wd))
           /\ \/ Choice(L, k, wd) = OrNone(Fit(L, k))
              \/ FitOn(L, k, wd) # {} /\ Choice(L, k, wd) = EarliestOf(FitOn(L, k, wd))
<1> DEFINE F == Fit(L, k)
           O == FitOn(L, k, wd)
           any == OrNone(F)
           on == OrNone(O)
<1>1. F \subseteq Nat /\ O \subseteq F
  BY FitNat DEF FitOn
<1>2. Choice(L, k, wd) = IF on = NoExpiry \/ (any < on /\ on - any >= 6) THEN any ELSE on
  BY DEF Choice
<1> HIDE DEF F, O
<1>3. F = {} => O = {} /\ any = NoExpiry /\ on = NoExpiry
  BY <1>1 DEF OrNone
<1>4. F # {} => any = EarliestOf(F) /\ any \in F /\ any \in Nat /\ \A d \in F : any <= d
  BY <1>1, Earliest DEF OrNone
<1>5. O # {} => on = EarliestOf(O) /\ on \in O /\ on \in Nat /\ \A d \in O : on <= d
  BY <1>1, Earliest DEF OrNone
<1>6. O = {} => on = NoExpiry
  BY DEF OrNone
<1> HIDE DEF any, on
<1>7. F = {} => Choice(L, k, wd) = NoExpiry
  BY <1>2, <1>3
<1>8. ASSUME F # {}
      PROVE  /\ Choice(L, k, wd) \in F /\ Choice(L, k, wd) >= any
             /\ Choice(L, k, wd) - any <= 5
  BY <1>1, <1>2, <1>4, <1>5, <1>6, <1>8
<1>9. O # {} => F # {} /\ (on - any <= 5 => Choice(L, k, wd) = on)
  BY <1>1, <1>2, <1>4, <1>5 DEF NoExpiry
<1>10. Choice(L, k, wd) = any \/ (O # {} /\ Choice(L, k, wd) = on)
  BY <1>2, <1>6
<1>11. any = OrNone(F)
  BY DEF any
<1>. QED
  BY <1>4, <1>5, <1>7, <1>8, <1>9, <1>10, <1>11 DEF F, O

\* If the days that M adds to L come after all of L, and M keeps the days of L from the
\* day after k on, then the choice from that day on is not before the choice from k on.
LEMMA ChoiceRolls ==
    ASSUME NEW L \in SUBSET Int, NEW M \in SUBSET Int, NEW k \in Nat, NEW wd,
           \A e \in M : e \in L \/ \A d \in L : d <= e,
           \A d \in L : d >= k + 1 => d \in M,
           Choice(M, k + 1, wd) # NoExpiry
    PROVE  Choice(M, k + 1, wd) >= Choice(L, k, wd)
<1> DEFINE F == Fit(L, k)
           G == Fit(M, k + 1)
           now == Choice(L, k, wd)
           next == Choice(M, k + 1, wd)
<1>1. G # {} /\ next \in G /\ next >= EarliestOf(G) /\ EarliestOf(G) \in G
      /\ \A d \in G : EarliestOf(G) <= d
  BY ChoiceFits
<1>2. G \subseteq Nat /\ F \subseteq Nat
  BY FitNat
<1>3. CASE F = {}
  <2>1. now = -1
    BY <1>3, ChoiceFits DEF NoExpiry
  <2>. QED
    BY <1>1, <1>2, <2>1
<1>4. CASE F # {}
  <2>1. /\ now \in F /\ EarliestOf(F) \in F /\ now - EarliestOf(F) <= 5
        /\ \A d \in F : EarliestOf(F) <= d
    BY <1>4, ChoiceFits
  <2>2. EarliestOf(G) >= EarliestOf(F)
    BY <1>1, <1>2, <2>1 DEF Fit
  <2>3. CASE now = OrNone(F)
    BY <1>1, <1>2, <1>4, <2>1, <2>2, <2>3 DEF OrNone
  <2>4. CASE FitOn(L, k, wd) # {} /\ now = EarliestOf(FitOn(L, k, wd))
    <3>1. /\ now \in FitOn(L, k, wd)
          /\ \A d \in FitOn(L, k, wd) : now <= d
      BY <2>4, ChoiceFits
    <3>2. CASE now >= k + 1
      <4>1. now \in L /\ Weekday(now) = wd
        BY <3>1 DEF FitOn, Fit
      <4>2. now \in FitOn(M, k + 1, wd) /\ now \in G
        BY <3>2, <4>1 DEF FitOn, Fit
      <4> DEFINE on == EarliestOf(FitOn(M, k + 1, wd))
      <4>3. /\ on \in FitOn(M, k + 1, wd) /\ on <= now
            /\ on - EarliestOf(G) <= 5 => next = on
        BY <4>2, ChoiceFits
      <4>4. on \in M /\ Weekday(on) = wd /\ on >= k + 1 /\ on \in Nat
        BY <1>2, <4>3 DEF FitOn, Fit
      <4>5. on >= now
        <5>1. CASE on \in L
          <6>1. on \in FitOn(L, k, wd)
            BY <4>4, <5>1 DEF FitOn, Fit
          <6>. QED
            BY <3>1, <4>4, <6>1
        <5>2. CASE on \notin L
          BY <4>1, <4>4, <5>2
        <5>. QED
          BY <5>1, <5>2
      <4> HIDE DEF on
      <4>6. on = now
        BY <1>2, <2>1, <4>3, <4>4, <4>5
      <4>. QED
        BY <1>1, <1>2, <2>1, <2>2, <4>3, <4>6
    <3>3. CASE ~(now >= k + 1)
      BY <1>1, <1>2, <2>1, <3>3 DEF Fit
    <3>. QED
      BY <3>2, <3>3
  <2>. QED
    BY <2>3, <2>4, ChoiceFits
<1>. QED
  BY <1>3, <1>4

-----------------------------------------------------------------------------
(* ExpiryCalendar: the lists, for a day t, a set P of published expiries and a *)
(* set H of holidays *)

Shut(d, H) == Weekday(d) > Friday \/ d \in H
LastOpen(d, H) == CHOOSE e \in (d - 21) .. d : ~Shut(e, H) /\ \A f \in (e + 1) .. d : Shut(f, H)
Tuesdays(t) == {d \in (t + 1) .. (t + 56) : Weekday(d) = Tuesday}
AllEstimates(t, H) == {e \in {LastOpen(d, H) : d \in Tuesdays(t)} : e > t}
Estimates(t, H) == FirstOf(6, AllEstimates(t, H))
Upcoming(t, P) == {d \in P : d >= t}
KiteList(t, P, H) ==
    IF FirstOf(16, Upcoming(t, P)) # {} THEN FirstOf(16, Upcoming(t, P)) ELSE Estimates(t, H)

\* Fewer days up to one day than up to another.
LEMMA UpTo ==
    ASSUME NEW S, S \subseteq Nat, NEW T, T \subseteq Nat, NEW d \in Nat, NEW e \in Nat,
           \A f \in T : f <= e => f \in S /\ f <= d
    PROVE  /\ Cardinality({f \in T : f <= e}) \in Nat /\ Cardinality({f \in S : f <= d}) \in Nat
           /\ Cardinality({f \in T : f <= e}) <= Cardinality({f \in S : f <= d})
<1> DEFINE E == {f \in T : f <= e}
           D == {f \in S : f <= d}
<1>1. \A f \in D : f \in 0 .. d
  BY DEF D
<1>2. \A f \in E : f \in D
  BY DEF D, E
<1> HIDE DEF E, D
<1>3. D \in SUBSET (0 .. d) /\ E \in SUBSET D
  BY <1>1, <1>2
<1>4. IsFiniteSet(0 .. d)
  BY FS_Interval
<1>5. IsFiniteSet(D)
  BY <1>3, <1>4, FS_Subset
<1>6. IsFiniteSet(E) /\ Cardinality(E) <= Cardinality(D)
  BY <1>3, <1>5, FS_Subset
<1>7. Cardinality(E) \in Nat /\ Cardinality(D) \in Nat
  BY <1>5, <1>6, FS_CardinalityType
<1>. QED
  BY <1>6, <1>7 DEF E, D

\* A list keeps the days of its set up to any day that it has.
LEMMA FirstOfInitial ==
    ASSUME NEW n \in Nat, NEW S, S \subseteq Nat, NEW d \in FirstOf(n, S), NEW e \in S, e <= d
    PROVE  e \in FirstOf(n, S)
<1> DEFINE ce == Cardinality({f \in S : f <= e})
           cd == Cardinality({f \in S : f <= d})
<1>1. d \in S /\ cd <= n
  BY DEF FirstOf
<1>2. d \in Nat /\ e \in Nat /\ \A f \in S : f \in Nat
  BY <1>1
<1>3. \A f \in S : f <= e => f \in S /\ f <= d
  BY <1>2
<1>4. ce \in Nat /\ cd \in Nat /\ ce <= cd
  BY <1>2, <1>3, UpTo
<1> HIDE DEF ce, cd
<1>5. ce <= n
  BY <1>1, <1>4
<1>. QED
  BY <1>5 DEF FirstOf, ce

\* A day of a list is listed from another set too that has the day and no more before it.
LEMMA FirstOfMoved ==
    ASSUME NEW n \in Nat, NEW S, S \subseteq Nat, NEW T, T \subseteq Nat,
           NEW d \in FirstOf(n, S), d \in T, \A e \in T : e <= d => e \in S
    PROVE  d \in FirstOf(n, T)
<1> DEFINE ct == Cardinality({f \in T : f <= d})
           cd == Cardinality({f \in S : f <= d})
<1>1. d \in S /\ cd <= n
  BY DEF FirstOf
<1>2. d \in Nat
  BY <1>1
<1>3. ct \in Nat /\ cd \in Nat /\ ct <= cd
  BY <1>2, UpTo
<1> HIDE DEF ct, cd
<1>4. ct <= n
  BY <1>1, <1>3
<1>. QED
  BY <1>4 DEF FirstOf, ct

\* Where there is something to list, something is listed.
LEMMA FirstOfSome ==
    ASSUME NEW n \in Nat \ {0}, NEW S, S \subseteq Nat, S # {}
    PROVE  FirstOf(n, S) # {}
<1>1. PICK m \in S : \A k \in S : m <= k
  BY LeastNatural
<1>2. \A f \in S : f \in Nat /\ (f <= m <=> f = m)
  <2>1. \A f \in S : f \in Nat /\ m \in Nat /\ m <= f
    BY <1>1
  <2>. QED
    BY <2>1
<1>3. {f \in S : f <= m} = {m}
  BY <1>2
<1>4. Cardinality({f \in S : f <= m}) = 1
  BY <1>3, FS_Singleton
<1>5. m \in FirstOf(n, S)
  BY <1>4 DEF FirstOf
<1>. QED
  BY <1>5

\* The last open day exists, and is no later than the day it is looked for from.
LEMMA MovedType ==
    ASSUME NEW H \in HolidaySets, NEW d \in 1 .. (LastDay + 56)
    PROVE  /\ LastOpen(d, H) \in Int /\ LastOpen(d, H) <= d /\ LastOpen(d, H) >= d - 21
           /\ ~Shut(LastOpen(d, H), H)
           /\ \A f \in (LastOpen(d, H) + 1) .. d : Shut(f, H)
<1> DEFINE S == {e \in (d - 21) .. d : ~Shut(e, H)}
<1>0. d \in Int
  BY CalendarAssumption
<1>1. S # {}
  <2>1. PICK e \in (d - 21) .. d : e % 7 <= 4 /\ e \notin H
    BY CalendarAssumption
  <2>2. e % 7 \in Int
    BY <1>0, <2>1
  <2>3. ~Shut(e, H)
    BY <2>1, <2>2 DEF Shut, Weekday, Friday
  <2>. QED
    BY <2>1, <2>3
<1>2. S \subseteq Int /\ \A e \in S : e <= d
  BY <1>0
<1>3. PICK m \in S : \A e \in S : e <= m
  BY <1>0, <1>1, <1>2, GreatestInteger
<1>4. m \in (d - 21) .. d /\ ~Shut(m, H) /\ \A f \in (m + 1) .. d : Shut(f, H)
  BY <1>0, <1>3
<1>5. \E e \in (d - 21) .. d : ~Shut(e, H) /\ \A f \in (e + 1) .. d : Shut(f, H)
  BY <1>4
<1>6. /\ LastOpen(d, H) \in (d - 21) .. d /\ ~Shut(LastOpen(d, H), H)
      /\ \A f \in (LastOpen(d, H) + 1) .. d : Shut(f, H)
  BY <1>5 DEF LastOpen
<1>. QED
  BY <1>0, <1>6

\* A later day is not moved before an earlier one.
LEMMA MovedMonotone ==
    ASSUME NEW H \in HolidaySets, NEW c \in 1 .. (LastDay + 56),
           NEW d \in 1 .. (LastDay + 56), c <= d
    PROVE  LastOpen(c, H) <= LastOpen(d, H)
<1>0. c \in Int /\ d \in Int
  BY CalendarAssumption
<1>1. /\ LastOpen(c, H) \in Int /\ LastOpen(c, H) <= c /\ ~Shut(LastOpen(c, H), H)
      /\ LastOpen(d, H) \in Int /\ \A f \in (LastOpen(d, H) + 1) .. d : Shut(f, H)
  BY MovedType
<1>2. LastOpen(d, H) < LastOpen(c, H) => LastOpen(c, H) \in (LastOpen(d, H) + 1) .. d
  BY <1>0, <1>1
<1>. QED
  BY <1>1, <1>2

\* The days of the lists are days to come.
LEMMA ListsType ==
    ASSUME NEW t \in 0 .. LastDay, NEW P \in SUBSET Int, NEW H \in HolidaySets
    PROVE  /\ AllEstimates(t, H) \subseteq Nat /\ Upcoming(t, P) \subseteq Nat
           /\ \A e \in AllEstimates(t, H) : e > t
           /\ Estimates(t, H) \subseteq AllEstimates(t, H)
           /\ KiteList(t, P, H) \subseteq Nat
           /\ \A e \in KiteList(t, P, H) : e >= t
<1>0. t \in Nat
  BY CalendarAssumption
<1>1. \A d \in Tuesdays(t) : d \in 1 .. (LastDay + 56)
  BY CalendarAssumption DEF Tuesdays
<1>2. \A e \in AllEstimates(t, H) : e \in Int /\ e > t
  BY <1>1, MovedType DEF AllEstimates
<1>3. \A e \in Int : e >= t => e \in Nat
  BY <1>0
<1>4. \A e \in Upcoming(t, P) : e \in Int /\ e >= t
  BY DEF Upcoming
<1>5. \A n, S : FirstOf(n, S) \subseteq S
  BY DEF FirstOf
<1>6. /\ AllEstimates(t, H) \subseteq Nat /\ Upcoming(t, P) \subseteq Nat
      /\ Estimates(t, H) \subseteq AllEstimates(t, H)
  BY <1>0, <1>2, <1>3, <1>4, <1>5 DEF Estimates
<1>7. \A e \in KiteList(t, P, H) : e \in AllEstimates(t, H) \/ e \in Upcoming(t, P)
  BY <1>5, <1>6 DEF KiteList
<1>. QED
  BY <1>0, <1>2, <1>4, <1>6, <1>7

\* What a day changes in the estimate: its new days come last, and no other goes.
LEMMA EstimatesRoll ==
    ASSUME NEW t \in 0 .. LastDay, t + 1 <= LastDay, NEW H \in HolidaySets
    PROVE  /\ \A e \in Estimates(t + 1, H) :
                 e \in Estimates(t, H) \/ \A d \in Estimates(t, H) : d <= e
           /\ \A d \in Estimates(t, H) : d >= t + 2 => d \in Estimates(t + 1, H)
<1> DEFINE S == AllEstimates(t, H)
           T == AllEstimates(t + 1, H)
<1>0. t \in Nat /\ t + 1 \in 0 .. LastDay /\ LastDay \in Nat
  BY CalendarAssumption
<1>1. S \subseteq Nat /\ T \subseteq Nat
  BY <1>0, ListsType
<1>2. \A e \in T : e \in S \/ \A d \in S : d <= e
  <2> SUFFICES ASSUME NEW e \in T, e \notin S, NEW d \in S
               PROVE  d <= e
    OBVIOUS
  <2>1. PICK x \in Tuesdays(t + 1) : e = LastOpen(x, H) /\ e > t + 1
    BY DEF AllEstimates
  <2>2. PICK y \in Tuesdays(t) : d = LastOpen(y, H)
    BY DEF AllEstimates
  <2>3. x \in Int /\ x >= t + 2 /\ x <= t + 57 /\ Weekday(x) = Tuesday
    BY <1>0, <2>1 DEF Tuesdays
  <2>4. y \in Int /\ y >= t + 1 /\ y <= t + 56
    BY <1>0, <2>2 DEF Tuesdays
  <2>5. e > t
    BY <1>0, <1>1, <2>1
  <2>6. x = t + 57
    <3>1. x \in Tuesdays(t) => e \in S
      BY <2>1, <2>5 DEF AllEstimates
    <3>2. x <= t + 56 => x \in Tuesdays(t)
      BY <1>0, <2>3 DEF Tuesdays
    <3>. QED
      BY <1>0, <2>3, <3>1, <3>2
  <2>7. x \in 1 .. (LastDay + 56) /\ y \in 1 .. (LastDay + 56) /\ y <= x
    BY <1>0, <2>3, <2>4, <2>6
  <2>. QED
    BY <2>1, <2>2, <2>7, MovedMonotone
<1>3. \A d \in S : d >= t + 2 => d \in T
  <2> SUFFICES ASSUME NEW d \in S, d >= t + 2
               PROVE  d \in T
    OBVIOUS
  <2>1. PICK y \in Tuesdays(t) : d = LastOpen(y, H)
    BY DEF AllEstimates
  <2>2. y \in Int /\ y >= t + 1 /\ y <= t + 56 /\ Weekday(y) = Tuesday
    BY <1>0, <2>1 DEF Tuesdays
  <2>3. y \in 1 .. (LastDay + 56)
    BY <1>0, <2>2
  <2>4. d <= y /\ d \in Int
    BY <2>1, <2>3, MovedType
  <2>5. y \in Tuesdays(t + 1)
    BY <1>0, <2>2, <2>4 DEF Tuesdays
  <2>6. d > t + 1
    BY <1>0, <2>4
  <2>. QED
    BY <2>1, <2>5, <2>6 DEF AllEstimates
<1>4. Estimates(t, H) = FirstOf(6, S) /\ Estimates(t + 1, H) = FirstOf(6, T)
  BY DEF Estimates
<1>5. FirstOf(6, S) \subseteq S /\ FirstOf(6, T) \subseteq T
  BY DEF FirstOf
<1> HIDE DEF S, T
<1>6. ASSUME NEW e \in FirstOf(6, T), e \notin FirstOf(6, S), NEW d \in FirstOf(6, S)
      PROVE  d <= e
  <2>1. CASE e \notin S
    BY <1>2, <1>5, <1>6, <2>1
  <2>2. CASE e \in S
    <3>1. e <= d => e \in FirstOf(6, S)
      BY <1>1, <1>5, <2>2, FirstOfInitial
    <3>2. e \in Nat /\ d \in Nat
      BY <1>1, <1>5, <1>6
    <3>. QED
      BY <1>6, <3>1, <3>2
  <2>. QED
    BY <2>1, <2>2
<1>7. ASSUME NEW d \in FirstOf(6, S), d >= t + 2
      PROVE  d \in FirstOf(6, T)
  <2>1. d \in S /\ d \in T
    BY <1>3, <1>5, <1>7
  <2>2. ASSUME NEW e \in T, e <= d
        PROVE  e \in S
    <3>1. e \in S \/ d <= e
      BY <1>2, <2>1
    <3>2. e \in Nat /\ d \in Nat
      BY <1>1, <2>1
    <3>. QED
      BY <2>1, <2>2, <3>1, <3>2
  <2>. QED
    BY <1>1, <2>1, <2>2, FirstOfMoved
<1>. QED
  BY <1>4, <1>6, <1>7

\* What a day changes in the list of a caller on Kite, the estimate of a broker that lists
\* nothing included.
LEMMA KiteRolls ==
    ASSUME NEW t \in 0 .. LastDay, t + 1 <= LastDay, NEW P \in SUBSET Int,
           NEW H \in HolidaySets
    PROVE  /\ \A e \in KiteList(t + 1, P, H) :
                 e \in KiteList(t, P, H) \/ \A d \in KiteList(t, P, H) : d <= e
           /\ \A d \in KiteList(t, P, H) : d >= t + 2 => d \in KiteList(t + 1, P, H)
<1> DEFINE S == Upcoming(t, P)
           T == Upcoming(t + 1, P)
           L == KiteList(t, P, H)
           M == KiteList(t + 1, P, H)
<1>0. t \in Nat /\ t + 1 \in 0 .. LastDay /\ LastDay \in Nat /\ 16 \in Nat \ {0}
  BY CalendarAssumption
<1>1. S \subseteq Nat /\ T \subseteq Nat /\ L \subseteq Nat /\ M \subseteq Nat
  BY <1>0, ListsType
<1>2. /\ \A d \in T : d \in S /\ d >= t + 1
      /\ \A d \in S : d >= t /\ (d >= t + 1 => d \in T)
  BY <1>0 DEF Upcoming
<1>3. FirstOf(16, S) \subseteq S /\ FirstOf(16, T) \subseteq T
  BY DEF FirstOf
<1>4. /\ S # {} => FirstOf(16, S) # {}
      /\ T # {} => FirstOf(16, T) # {}
  BY <1>0, <1>1, FirstOfSome
<1>5. /\ L = IF FirstOf(16, S) # {} THEN FirstOf(16, S) ELSE Estimates(t, H)
      /\ M = IF FirstOf(16, T) # {} THEN FirstOf(16, T) ELSE Estimates(t + 1, H)
  BY DEF KiteList
<1> HIDE DEF S, T, L, M
<1>6. CASE T # {}
  <2>1. L = FirstOf(16, S) /\ M = FirstOf(16, T)
    BY <1>2, <1>4, <1>5, <1>6
  <2>2. ASSUME NEW e \in M, e \notin L, NEW d \in L
        PROVE  d <= e
    <3>1. e \in S /\ d \in S
      BY <1>2, <1>3, <2>1, <2>2
    <3>2. e <= d => e \in FirstOf(16, S)
      BY <1>0, <1>1, <2>1, <2>2, <3>1, FirstOfInitial
    <3>. QED
      BY <1>1, <2>1, <2>2, <3>1, <3>2
  <2>3. ASSUME NEW d \in L, d >= t + 2
        PROVE  d \in M
    <3>1. d \in S /\ d \in T
      BY <1>0, <1>1, <1>2, <1>3, <2>1, <2>3
    <3>2. \A e \in T : e <= d => e \in S
      BY <1>2
    <3>. QED
      BY <1>0, <1>1, <2>1, <2>3, <3>1, <3>2, FirstOfMoved
  <2>. QED
    BY <2>2, <2>3 DEF L, M
<1>7. CASE T = {} /\ S # {}
  <2>1. M = Estimates(t + 1, H) /\ L = FirstOf(16, S)
    BY <1>3, <1>4, <1>5, <1>7
  <2>2. \A d \in L : d \in Nat /\ d = t
    BY <1>0, <1>1, <1>2, <1>3, <1>7, <2>1
  <2>3. \A e \in M : e \in Nat /\ e > t + 1
    BY <1>0, <1>1, <2>1, ListsType
  <2>. QED
    BY <1>0, <2>2, <2>3 DEF L, M
<1>8. CASE T = {} /\ S = {}
  <2>1. M = Estimates(t + 1, H) /\ L = Estimates(t, H)
    BY <1>3, <1>5, <1>8
  <2>. QED
    BY <2>1, EstimatesRoll DEF L, M
<1>. QED
  BY <1>6, <1>7, <1>8

\* The choice of an expiry in the words of the lemmas above.
LEMMA PickIsChoice ==
    ASSUME CalendarTypeOK, NEW L \in SUBSET Int, NEW need \in Int, need > 0, NEW wd
    PROVE  PickExpiry(L, need, wd) = Choice(L, today + need, wd)
<1>0. today \in Int /\ \A d \in L : d \in Int
  BY CalendarAssumption DEF CalendarTypeOK
<1>1. Qualified(L, need) = Fit(L, today + need)
  BY <1>0 DEF Qualified, Fit
<1>2. {d \in Qualified(L, need) : Weekday(d) = wd} = FitOn(L, today + need, wd)
  BY <1>1 DEF FitOn
<1>. QED
  BY <1>1, <1>2 DEF PickExpiry, Resolve, EarliestListed, EarliestOn, Choice

\* What every caller is given are integers.
LEMMA ListedType ==
    ASSUME CalendarTypeOK
    PROVE  /\ EstimatedWeeklies(Tuesday) = Estimates(today, holidays)
           /\ feed = "kite" => ListedExpiries = KiteList(today, published, holidays)
           /\ ListedExpiries \in SUBSET Int
<1>0. published \in SUBSET Int /\ today \in 0 .. LastDay /\ holidays \in HolidaySets
  BY CalendarAssumption DEF CalendarTypeOK
<1>1. EstimatedWeeklies(Tuesday) = Estimates(today, holidays)
  BY DEF EstimatedWeeklies, Estimates, AllEstimates, Tuesdays, Preponed, LastOpen, Closed, Shut
<1>2. KiteListing = FirstOf(16, Upcoming(today, published))
  BY DEF KiteListing, Upcoming
<1>3. feed = "kite" => ListedExpiries = KiteList(today, published, holidays)
  BY <1>1, <1>2 DEF ListedExpiries, KiteList
<1>4. feed = "fyers" => ListedExpiries \in {published, Estimates(today, holidays)}
  BY <1>1 DEF ListedExpiries, FyersListing
<1>5. /\ Estimates(today, holidays) \subseteq Nat
      /\ KiteList(today, published, holidays) \subseteq Nat
  BY <1>0, ListsType
<1>6. \A S : S \subseteq Nat => S \in SUBSET Int
  OBVIOUS
<1>7. ListedExpiries \in {published, Estimates(today, holidays),
                          KiteList(today, published, holidays)}
  BY <1>3, <1>4 DEF CalendarTypeOK
<1>8. ListedExpiries \in SUBSET Int
  BY <1>0, <1>5, <1>6, <1>7
<1>. QED
  BY <1>1, <1>3, <1>8

\* The calendar keeps its types.
THEOREM CalendarTypeCorrect == CalendarSpec => []CalendarTypeOK
<1>1. CalendarInit => CalendarTypeOK
  BY CalendarAssumption DEF CalendarInit, CalendarTypeOK
<1>2. CalendarTypeOK /\ [CalendarNext]_calendarVars => CalendarTypeOK'
  BY CalendarAssumption DEF CalendarTypeOK, CalendarNext, NextDay, Publish, calendarVars
<1>. QED
  BY <1>1, <1>2, PTL DEF CalendarSpec

\* For any listings, holidays and needs: the expiry taken serves the strategy, and is at
\* most five days later than the earliest that does.
THEOREM ServesNeedHolds == CalendarSpec => []ServesNeed
<1>1. ASSUME CalendarTypeOK
      PROVE  ServesNeed
  <2> DEFINE L == ListedExpiries
  <2>1. L \in SUBSET Int /\ today \in Nat /\ \A d \in L : d \in Int
    BY <1>1, ListedType, CalendarAssumption DEF CalendarTypeOK
  <2> HIDE DEF L
  <2> SUFFICES ASSUME NEW need \in Needs, need > 0, {d \in L : d - today >= need} # {},
                      NEW wd \in 0 .. Friday
               PROVE  /\ PickExpiry(L, need, wd) \in {d \in L : d - today >= need}
                      /\ PickExpiry(L, need, wd)
                           - EarliestOf({d \in L : d - today >= need}) <= 5
    BY DEF ServesNeed, L
  <2>2. need \in Int /\ today + need \in Nat
    BY <2>1, CalendarAssumption
  <2>3. {d \in L : d - today >= need} = Fit(L, today + need)
    BY <2>1, <2>2 DEF Fit
  <2>4. PickExpiry(L, need, wd) = Choice(L, today + need, wd)
    BY <1>1, <2>1, <2>2, PickIsChoice
  <2>. QED
    BY <2>1, <2>2, <2>3, <2>4, ChoiceFits
<1>. QED
  BY <1>1, CalendarTypeCorrect, PTL

\* The open days after day t up to day d, and the expiry two of them ahead.
Sessions(t, H, d) == Cardinality({e \in (t + 1) .. d : ~Shut(e, H)})
TwoAhead(L, t, H) == {d \in L : d > t /\ Sessions(t, H, d) = 2}
TwoTuesdays(L, t, H) == {d \in TwoAhead(L, t, H) : Weekday(d) = Tuesday}
TwoPick(L, t, H) ==
    OrNone(IF TwoTuesdays(L, t, H) # {} THEN TwoTuesdays(L, t, H) ELSE TwoAhead(L, t, H))

\* There are no fewer open days up to a later day; a day that passes takes one if it was
\* open.
LEMMA SessionsCount ==
    ASSUME NEW t \in Nat, NEW H, NEW d \in Nat
    PROVE  /\ Sessions(t, H, d) \in Nat
           /\ \A e \in Nat : e <= d => Sessions(t, H, e) <= Sessions(t, H, d)
           /\ d > t => Sessions(t + 1, H, d) = IF Shut(t + 1, H) THEN Sessions(t, H, d)
                                               ELSE Sessions(t, H, d) - 1
<1> DEFINE D == {e \in (t + 1) .. d : ~Shut(e, H)}
<1>1. IsFiniteSet((t + 1) .. d)
  BY FS_Interval
<1>2. D \in SUBSET ((t + 1) .. d)
  OBVIOUS
<1>3. IsFiniteSet(D) /\ Cardinality(D) \in Nat
  <2> HIDE DEF D
  <2>. QED
    BY <1>1, <1>2, FS_Subset, FS_CardinalityType
<1>4. ASSUME NEW e \in Nat, e <= d
      PROVE  Sessions(t, H, e) <= Sessions(t, H, d)
  <2> DEFINE E == {f \in (t + 1) .. e : ~Shut(f, H)}
  <2>1. E \in SUBSET D
    BY <1>4
  <2> HIDE DEF D, E
  <2>2. Cardinality(E) <= Cardinality(D)
    BY <1>3, <2>1, FS_Subset
  <2>. QED
    BY <2>2 DEF D, E, Sessions
<1>5. ASSUME d > t
      PROVE  Sessions(t + 1, H, d) = IF Shut(t + 1, H) THEN Sessions(t, H, d)
                                     ELSE Sessions(t, H, d) - 1
  <2> DEFINE E == {f \in (t + 2) .. d : ~Shut(f, H)}
  <2>1. E = D \ {t + 1} /\ (t + 1 \in D <=> ~Shut(t + 1, H))
    BY <1>5
  <2>2. Sessions(t + 1, H, d) = Cardinality(E) /\ Sessions(t, H, d) = Cardinality(D)
    <3>1. (t + 1) + 1 = t + 2
      OBVIOUS
    <3>. QED
      BY <3>1 DEF Sessions
  <2> HIDE DEF D, E
  <2>3. Cardinality(E) = IF t + 1 \in D THEN Cardinality(D) - 1 ELSE Cardinality(D)
    BY <1>3, <2>1, FS_RemoveElement
  <2>. QED
    BY <2>1, <2>2, <2>3
<1>. QED
  BY <1>3, <1>4, <1>5 DEF Sessions

\* The expiry two sessions ahead does not step back either.
LEMMA TwoRolls ==
    ASSUME NEW t \in Nat, NEW H, NEW L, L \subseteq Nat, NEW M, M \subseteq Nat,
           \A e \in M : e \in L \/ \A d \in L : d <= e,
           \A d \in L : d >= t + 2 => d \in M,
           TwoPick(M, t + 1, H) # NoExpiry
    PROVE  TwoPick(M, t + 1, H) >= TwoPick(L, t, H)
<1> DEFINE A == TwoAhead(L, t, H)
           B == TwoAhead(M, t + 1, H)
           AT == TwoTuesdays(L, t, H)
           BT == TwoTuesdays(M, t + 1, H)
           now == TwoPick(L, t, H)
           next == TwoPick(M, t + 1, H)
<1>1. A \subseteq L /\ A \subseteq Nat /\ B \subseteq M /\ B \subseteq Nat
      /\ AT \subseteq A /\ BT \subseteq B
  BY DEF TwoAhead, TwoTuesdays
<1>2. /\ now = OrNone(IF AT # {} THEN AT ELSE A)
      /\ next = OrNone(IF BT # {} THEN BT ELSE B)
  BY DEF TwoPick
<1>3. /\ \A d \in AT : d \in A /\ Weekday(d) = Tuesday
      /\ \A d \in A : Weekday(d) = Tuesday => d \in AT
      /\ \A d \in BT : d \in B /\ Weekday(d) = Tuesday
      /\ \A d \in B : Weekday(d) = Tuesday => d \in BT
  BY DEF TwoTuesdays
<1>4. /\ \A d \in A : d \in Nat /\ d > t /\ Sessions(t, H, d) = 2
      /\ \A d \in L : d \in Nat /\ d > t /\ Sessions(t, H, d) = 2 => d \in A
      /\ \A d \in B : d \in Nat /\ d > t + 1 /\ Sessions(t + 1, H, d) = 2
      /\ \A d \in M : d > t + 1 /\ Sessions(t + 1, H, d) = 2 => d \in B
  BY <1>1 DEF TwoAhead
<1> HIDE DEF A, B, AT, BT, now, next
<1>5. /\ AT # {} => now \in AT /\ \A d \in AT : now <= d
      /\ AT = {} /\ A # {} => now \in A /\ \A d \in A : now <= d
      /\ A = {} => now = NoExpiry
      /\ BT # {} => next \in BT /\ \A d \in BT : next <= d
      /\ BT = {} /\ B # {} => next \in B /\ \A d \in B : next <= d
  <2>1. AT \subseteq Nat /\ BT \subseteq Nat
    BY <1>1
  <2>. QED
    BY <1>1, <1>2, <2>1, Earliest DEF OrNone
<1>6. next \in B /\ next \in Nat
  <2>1. B # {}
    BY <1>1, <1>2 DEF OrNone, TwoPick, next
  <2>. QED
    BY <1>1, <1>5, <2>1
<1>7. CASE A = {}
  BY <1>5, <1>6, <1>7 DEF NoExpiry, now, next
<1>8. CASE A # {} /\ ~Shut(t + 1, H)
  <2>1. now \in A
    BY <1>1, <1>5, <1>8
  <2>2. Sessions(t, H, next) = 3 /\ Sessions(t, H, now) = 2
    <3>1. next > t + 1 /\ Sessions(t + 1, H, next) = 2 /\ next > t
      BY <1>4, <1>6
    <3>2. Sessions(t + 1, H, next) = Sessions(t, H, next) - 1 /\ Sessions(t, H, next) \in Nat
      BY <1>6, <1>8, <3>1, SessionsCount
    <3>. QED
      BY <1>4, <2>1, <3>1, <3>2
  <2>3. now \in Nat
    BY <1>1, <2>1
  <2>4. ~(next <= now)
    BY <1>6, <2>2, <2>3, SessionsCount
  <2>. QED
    BY <1>6, <2>3, <2>4 DEF now, next
<1>9. CASE A # {} /\ Shut(t + 1, H)
  <2>1. \A d \in Nat : d > t => Sessions(t + 1, H, d) = Sessions(t, H, d)
    BY <1>9, SessionsCount
  <2>2. \A d \in A : d # t + 1
    <3>1. (t + 1) .. (t + 1) = {t + 1}
      OBVIOUS
    <3>2. {e \in (t + 1) .. (t + 1) : ~Shut(e, H)} = {}
      BY <1>9, <3>1
    <3>3. Sessions(t, H, t + 1) = 0
      BY <3>2, FS_EmptySet DEF Sessions
    <3>. QED
      BY <1>4, <3>3
  <2>3. \A d \in A : d \in B
    <3> SUFFICES ASSUME NEW d \in A
                 PROVE  d \in B
      OBVIOUS
    <3>1. d \in L /\ d \in Nat /\ d > t /\ d # t + 1 /\ Sessions(t, H, d) = 2
      BY <1>1, <1>4, <2>2
    <3>2. d >= t + 2 /\ d > t + 1
      BY <3>1
    <3>3. d \in M /\ Sessions(t + 1, H, d) = 2
      BY <2>1, <3>1, <3>2
    <3>. QED
      BY <1>4, <3>2, <3>3
  <2>4. \A d \in B : d \in A \/ \A c \in L : c <= d
    <3> SUFFICES ASSUME NEW d \in B, d \in L
                 PROVE  d \in A
      BY <1>1
    <3>1. d \in Nat /\ d > t /\ Sessions(t, H, d) = 2
      BY <1>4, <2>1
    <3>. QED
      BY <1>4, <3>1
  <2>5. now \in A /\ now \in L /\ now \in Nat
    BY <1>1, <1>5, <1>9
  <2>6. CASE next \in A
    <3>1. CASE AT # {}
      <4>1. now \in B /\ now \in AT /\ now \in BT
        BY <1>3, <1>5, <2>3, <2>5, <3>1
      <4>2. next \in BT
        BY <1>5, <4>1
      <4>3. next \in AT
        BY <1>3, <2>6, <4>2
      <4>. QED
        BY <1>5, <4>3 DEF now, next
    <3>2. CASE AT = {}
      BY <1>5, <1>9, <2>6, <3>2 DEF now, next
    <3>. QED
      BY <3>1, <3>2
  <2>7. CASE next \notin A
    BY <1>6, <2>4, <2>5, <2>7 DEF now, next
  <2>. QED
    BY <2>6, <2>7
<1>. QED
  BY <1>7, <1>8, <1>9

\* The choice two sessions ahead in the words of the lemmas above.
LEMMA PickTwoIsTwoPick ==
    PickTwoSessions = TwoPick(ListedExpiries, today, holidays)
<1>1. \A d : SessionsTo(d) = Sessions(today, holidays, d)
  BY DEF SessionsTo, Sessions, Closed, Shut
<1>2. {d \in ListedExpiries : d > today /\ SessionsTo(d) = 2}
        = TwoAhead(ListedExpiries, today, holidays)
  BY <1>1 DEF TwoAhead
<1>. QED
  BY <1>2 DEF PickTwoSessions, TwoPick, TwoTuesdays

\* In any state of the calendar a caller on Kite chooses from its list with these.
LEMMA ChoicesOfState ==
    CalendarTypeOK /\ feed = "kite" =>
        /\ ListedExpiries = KiteList(today, published, holidays)
        /\ PickTwoSessions = TwoPick(ListedExpiries, today, holidays)
        /\ \A need \in Needs, wd \in 0 .. Friday :
              PickExpiry(ListedExpiries, need, wd) =
                  IF need <= 0 THEN OrNone(ListedExpiries)
                  ELSE Choice(ListedExpiries, today + need, wd)
<1> SUFFICES ASSUME CalendarTypeOK, feed = "kite"
             PROVE  \A need \in Needs, wd \in 0 .. Friday :
                        PickExpiry(ListedExpiries, need, wd) =
                            IF need <= 0 THEN OrNone(ListedExpiries)
                            ELSE Choice(ListedExpiries, today + need, wd)
  BY ListedType, PickTwoIsTwoPick
<1> TAKE need \in Needs, wd \in 0 .. Friday
<1>1. need \in Int /\ ListedExpiries \in SUBSET Int
  BY CalendarAssumption, ListedType
<1>2. CASE need <= 0
  BY <1>2 DEF PickExpiry
<1>3. CASE need > 0
  BY <1>1, <1>3, PickIsChoice
<1>. QED
  BY <1>1, <1>2, <1>3

\* For any listings, holidays and needs: as days pass no choice of a caller on Kite goes
\* back to a nearer expiry.
THEOREM RollsForwardHolds == CalendarSpec => RollsForward
<1> DEFINE Rolls ==
             today' # today /\ feed = "kite" =>
               /\ \A need \in Needs, wd \in 0..Friday :
                    LET now == PickExpiry(ListedExpiries, need, wd)
                    IN now' # NoExpiry => now' >= now
               /\ PickTwoSessions' # NoExpiry => PickTwoSessions' >= PickTwoSessions
           Choices ==
             CalendarTypeOK /\ feed = "kite" =>
               /\ ListedExpiries = KiteList(today, published, holidays)
               /\ PickTwoSessions = TwoPick(ListedExpiries, today, holidays)
               /\ \A need \in Needs, wd \in 0 .. Friday :
                     PickExpiry(ListedExpiries, need, wd) =
                         IF need <= 0 THEN OrNone(ListedExpiries)
                         ELSE Choice(ListedExpiries, today + need, wd)
<1>1. Choices
  BY ChoicesOfState
<1>2. Choices'
  BY <1>1, PTL
<1>3. ASSUME CalendarTypeOK, CalendarTypeOK', [CalendarNext]_calendarVars, Choices, Choices'
      PROVE  Rolls
  <2> SUFFICES ASSUME today' # today, feed = "kite"
               PROVE  /\ \A need \in Needs, wd \in 0..Friday :
                           PickExpiry(ListedExpiries, need, wd)' # NoExpiry =>
                             PickExpiry(ListedExpiries, need, wd)'
                               >= PickExpiry(ListedExpiries, need, wd)
                      /\ PickTwoSessions' # NoExpiry => PickTwoSessions' >= PickTwoSessions
    OBVIOUS
  <2> DEFINE t == today
             L == KiteList(t, published, holidays)
             M == KiteList(t + 1, published, holidays)
  <2>1. /\ today' = t + 1 /\ t + 1 <= LastDay /\ t \in 0 .. LastDay /\ t + 1 \in 0 .. LastDay
        /\ holidays' = holidays /\ feed' = "kite" /\ published' = published
        /\ holidays \in HolidaySets /\ published \in SUBSET Int
    BY <1>3, CalendarAssumption DEF CalendarNext, NextDay, Publish, calendarVars,
       CalendarTypeOK
  <2>2. ListedExpiries = L /\ ListedExpiries' = M
    BY <1>3, <2>1
  <2>3. /\ \A e \in M : e \in L \/ \A d \in L : d <= e
        /\ \A d \in L : d >= t + 2 => d \in M
    BY <2>1, KiteRolls
  <2>4. L \subseteq Nat /\ M \subseteq Nat
    BY <2>1, ListsType
  <2> HIDE DEF L, M
  <2>5. t \in Nat
    BY <2>1, CalendarAssumption
  <2>6. ASSUME NEW need \in Needs, NEW wd \in 0..Friday,
               PickExpiry(ListedExpiries, need, wd)' # NoExpiry
        PROVE  PickExpiry(ListedExpiries, need, wd)' >= PickExpiry(ListedExpiries, need, wd)
    <3>1. PickExpiry(ListedExpiries, need, wd) =
            IF need <= 0 THEN OrNone(L) ELSE Choice(L, t + need, wd)
      BY <1>3, <2>2
    <3>2. PickExpiry(ListedExpiries, need, wd)' =
            IF need <= 0 THEN OrNone(M) ELSE Choice(M, t + 1 + need, wd)
      BY <1>3, <2>1, <2>2
    <3>3. need \in Int
      BY CalendarAssumption
    <3>4. CASE need > 0
      <4>1. /\ t + need \in Nat /\ (t + need) + 1 = t + 1 + need
            /\ \A d \in L : d >= (t + need) + 1 => d \in M
        BY <2>3, <2>4, <2>5, <3>3, <3>4
      <4>2. L \in SUBSET Int /\ M \in SUBSET Int
        BY <2>4
      <4>3. Choice(M, (t + need) + 1, wd) # NoExpiry
        BY <2>6, <3>2, <3>3, <3>4, <4>1
      <4>4. Choice(M, (t + need) + 1, wd) >= Choice(L, t + need, wd)
        BY <2>3, <4>1, <4>2, <4>3, ChoiceRolls
      <4>. QED
        BY <3>1, <3>2, <3>3, <3>4, <4>1, <4>4
    <3>5. CASE need <= 0
      <4>1. M # {} /\ OrNone(M) \in M /\ OrNone(M) \in Nat
        BY <2>4, <2>6, <3>2, <3>5, Earliest DEF OrNone
      <4>2. CASE L = {}
        BY <3>1, <3>2, <3>5, <4>1, <4>2 DEF OrNone, NoExpiry
      <4>3. CASE L # {}
        <5>1. OrNone(L) \in L /\ \A d \in L : OrNone(L) <= d
          BY <2>4, <4>3, Earliest DEF OrNone
        <5>2. OrNone(M) >= OrNone(L)
          BY <2>3, <4>1, <5>1
        <5>. QED
          BY <3>1, <3>2, <3>5, <5>2
      <4>. QED
        BY <4>2, <4>3
    <3>. QED
      BY <3>3, <3>4, <3>5
  <2>7. ASSUME PickTwoSessions' # NoExpiry
        PROVE  PickTwoSessions' >= PickTwoSessions
    <3>1. PickTwoSessions = TwoPick(L, t, holidays)
      BY <1>3, <2>2
    <3>2. PickTwoSessions' = TwoPick(M, t + 1, holidays)
      BY <1>3, <2>1, <2>2
    <3>. QED
      BY <2>3, <2>4, <2>5, <2>7, <3>1, <3>2, TwoRolls
  <2>. QED
    BY <2>6, <2>7
<1> HIDE DEF Choices, Rolls
<1>4. ASSUME CalendarTypeOK, CalendarTypeOK', [CalendarNext]_calendarVars
      PROVE  [Rolls]_calendarVars
  BY <1>1, <1>2, <1>3, <1>4
<1>. QED
  BY <1>4, CalendarTypeCorrect, PTL DEF CalendarSpec, RollsForward, Rolls

-----------------------------------------------------------------------------
(* SuperTrendTrail *)


\* The larger and the smaller of two integers are integers and bounds of both.
LEMMA Extremes ==
    ASSUME NEW x \in Int, NEW y \in Int
    PROVE  /\ Larger(x, y) \in Int /\ Larger(x, y) >= x /\ Larger(x, y) >= y
           /\ Smaller(x, y) \in Int
BY DEF Larger, Smaller

\* The bands stay bands, one bar further.
LEMMA BandsStay ==
    ASSUME bands \in Bands, NEW b \in Bars
    PROVE  Next1(b) \in Bands
<1>1. b.mid \in Nat /\ b.reach \in Nat /\ b.close \in Nat \ {0}
  BY TrailAssumption
<1>2. UpperBand(b) \in Int /\ LowerBand(b) \in Int /\ Direction(b) \in {Bull, Bear}
  BY <1>1 DEF UpperBand, LowerBand, Direction, Tops, Bottom, Bands
<1> QED BY <1>1, <1>2 DEF Next1, Bands

\* The pegged stop is at least half a percent above the price.
LEMMA PegAbovePrice ==
    ASSUME NEW entry \in Nat \ {0}, NEW p \in Nat \ {0}, NEW snap \in Bands
    PROVE  Pegged(entry, p, snap) \in Int /\ Pegged(entry, p, snap) >= 10050 * p
<1> DEFINE width == Larger(snap.upper - snap.lower, 1)
           share == (4000 * entry * width) \div snap.close
           wanted == Larger(Larger(10200 * p, Unit * p + share), 10200 * entry)
<1>1. snap.upper \in Int /\ snap.lower \in Int /\ snap.close \in Nat \ {0}
  BY DEF Bands
<1>2. width \in Int
  <2>1. snap.upper - snap.lower \in Int
    BY <1>1
  <2> QED BY <2>1, Extremes
<1>3. 4000 * entry * width \in Int
  BY <1>2
<1>4. share \in Int
  <2> HIDE DEF width
  <2> QED BY <1>1, <1>3
<1>5. wanted \in Int
  <2> HIDE DEF share
  <2>1. Unit * p + share \in Int
    BY <1>4 DEF Unit
  <2>2. Larger(10200 * p, Unit * p + share) \in Int
    BY <2>1, Extremes
  <2> QED BY <2>2, Extremes
<1>6. Smaller(wanted, 25000 * entry) \in Int
  <2> HIDE DEF wanted
  <2> QED BY <1>5, Extremes
<1>7. Pegged(entry, p, snap) = Larger(Smaller(wanted, 25000 * entry), 10050 * p)
  BY DEF Pegged
<1> HIDE DEF wanted
<1> QED BY <1>6, <1>7, Extremes

\* The trailed stop is an integer above nothing.
LEMMA TrailPositive ==
    ASSUME NEW p \in Nat \ {0}, NEW v \in Nat, NEW stop \in Nat
    PROVE  Trailed(p, v, stop) \in Int /\ Trailed(p, v, stop) >= 10050 * p
<1>1. (Unit + StepPct) * v \in Int
  BY TrailAssumption DEF Unit
<1>2. Unit * p + Larger(Unit, 100 * p) \in Int
  <2>1. 100 * p \in Int /\ Unit \in Int
    BY DEF Unit
  <2>2. Larger(Unit, 100 * p) \in Int
    BY <2>1, Extremes
  <2> QED BY <2>1, <2>2
<1>3. Larger(Unit * p + Larger(Unit, 100 * p), (Unit + StepPct) * v) \in Int
  BY <1>1, <1>2, Extremes
<1>4. Unit * stop \in Int
  BY DEF Unit
<1>5. Smaller(Larger(Unit * p + Larger(Unit, 100 * p), (Unit + StepPct) * v), Unit * stop)
        \in Int
  BY <1>3, <1>4, Extremes
<1> DEFINE most == Smaller(Larger(Unit * p + Larger(Unit, 100 * p), (Unit + StepPct) * v),
                            Unit * stop)
<1>6. Trailed(p, v, stop) = Larger(most, 10050 * p)
  BY DEF Trailed
<1>7. most \in Int
  BY <1>5
<1> HIDE DEF most
<1> QED BY <1>6, <1>7, Extremes

\* A trailed stop that is worth a write is lower than the current one, in paise too.
LEMMA StepDown ==
    ASSUME NEW x \in Int, NEW stop \in Nat, StepTaken(x, stop)
    PROVE  \A n \in ToPaise(x) : n <= stop
BY DEF StepTaken, ToPaise, Unit

\* What a cycle does to the stop: the peg puts it above a price of more than a rupee, and
\* nothing else raises it.
LEMMA HybridStopMoves ==
    ASSUME NEW t, t.entry \in Nat \ {0}, t.stop \in Nat,
           NEW p \in Nat \ {0}, NEW v \in Nat,
           NEW snap, snap = NoSnap \/ snap \in Bands,
           NEW h \in HybridStops(t, p, v, snap)
    PROVE  /\ h \in Nat
           /\ (Phase(t.entry, v) = "ST" /\ snap # NoSnap /\ p > 100) => h > p
           /\ h > t.stop => Phase(t.entry, v) = "ST" /\ snap # NoSnap
<1> DEFINE stop == t.stop
           peg == Pegged(t.entry, p, snap)
           low == Trailed(p, v, stop)
<1>1. CASE Phase(t.entry, v) = "ST" /\ snap # NoSnap
  <2>1. peg \in Int /\ peg >= 10050 * p
    <3>1. snap \in Bands
      BY <1>1
    <3>2. \A e \in Nat \ {0}, q \in Nat \ {0}, b \in Bands :
            Pegged(e, q, b) \in Int /\ Pegged(e, q, b) >= 10050 * q
      BY PegAbovePrice
    <3>3. PICK e \in Nat \ {0} : e = t.entry
      OBVIOUS
    <3>4. Pegged(e, p, snap) \in Int /\ Pegged(e, p, snap) >= 10050 * p
      BY <3>1, <3>2
    <3> QED BY <3>3, <3>4
  <2>2. h \in IF Away(peg, Unit * stop) < Unit \div 2 THEN {stop} ELSE ToPaise(peg)
    BY <1>1 DEF HybridStops
  <2> HIDE DEF peg
  <2>3. \A n \in ToPaise(peg) : n \in Nat /\ (p > 100 => n > p)
    BY <2>1 DEF ToPaise, Unit
  <2>4. Away(peg, Unit * stop) < Unit \div 2 /\ p > 100 => stop > p
    BY <2>1 DEF Away, Unit
  <2> QED BY <1>1, <2>2, <2>3, <2>4
<1>2. CASE Phase(t.entry, v) = "ST" /\ snap = NoSnap
  <2>1. h = stop
    BY <1>2 DEF HybridStops
  <2> QED BY <1>2, <2>1
<1>3. CASE Phase(t.entry, v) # "ST"
  <2>1. low \in Int /\ low >= 10050 * p
    <3>1. \A q \in Nat \ {0} : \A w \in Nat : \A n \in Nat : Trailed(q, w, n) \in Int
      BY TrailPositive
    <3>2. \A q \in Nat \ {0} : \A w \in Nat : \A n \in Nat :
            Trailed(q, w, n) >= 10050 * q
      BY TrailPositive
    <3>3. PICK n \in Nat : n = t.stop
      OBVIOUS
    <3>4. Trailed(p, v, n) \in Int
      BY <3>1, Zenon
    <3>5. Trailed(p, v, n) >= 10050 * p
      BY <3>2, <3>4, SMTT(30)
    <3> QED BY <3>3, <3>4, <3>5
  <2>2. h \in IF StepTaken(low, stop) THEN ToPaise(low) ELSE {stop}
    BY <1>3 DEF HybridStops
  <2> HIDE DEF low
  <2>3. \A n \in ToPaise(low) : n \in Nat
    BY <2>1 DEF ToPaise, Unit
  <2>4. StepTaken(low, stop) => \A n \in ToPaise(low) : n <= stop
    BY <2>1, StepDown
  <2> QED BY <1>3, <2>2, <2>3, <2>4
<1> QED BY <1>1, <1>2, <1>3

-----------------------------------------------------------------------------
(* Steps *)

\* What a cycle sees of the index.
Seen(b, sight) == IF sight \in {"all", "noRec"} THEN Next1(b) ELSE NoSnap

\* The facts about the stop of a cycle, for the trade after Moved.
LEMMA MovedStop ==
    ASSUME TrailTypeOK, IsOpen, NEW p \in Premiums, NEW v \in Averages \cup {NoAverage},
           NEW b \in Bars, NEW sight \in Sights,
           NEW snap, snap = Seen(b, sight),
           NEW t \in Moved(p, v, snap, sight)
    PROVE  /\ t \in Trades
           /\ t.reason = trade.reason
           /\ t.mode = "ST" /\ p > 100 => t.stop > p
           /\ t.stop > trade.stop => t.mode = "ST"
<1> DEFINE stops == HybridStops(trade, p, v, snap)
           phase == Phase(trade.entry, v)
<1>1. trade \in Trades
  BY DEF TrailTypeOK, IsOpen, NoTrade
<1>2. trade.entry \in Nat \ {0} /\ trade.stop \in Nat /\ p \in Nat \ {0}
  <2>1. Premiums \subseteq Nat \ {0}
    BY TrailAssumption
  <2>2. trade.entry \in Premiums /\ trade.stop \in Nat
    BY <1>1 DEF Trades
  <2> QED BY <2>1, <2>2
<1>3. v \in Nat
  <2>1. Averages \subseteq Nat
    BY TrailAssumption
  <2> QED BY <2>1 DEF NoAverage
<1>4. snap = NoSnap \/ snap \in Bands
  BY BandsStay DEF Seen, TrailTypeOK
<1>5. \A h \in stops :
         /\ h \in Nat
         /\ (phase = "ST" /\ snap # NoSnap /\ p > 100) => h > p
         /\ h > trade.stop => phase = "ST" /\ snap # NoSnap
  BY <1>2, <1>3, <1>4, HybridStopMoves
<1>6. CASE sight = "none"
  <2>1. t = [trade EXCEPT !.mode = "blind"]
    BY <1>6 DEF Moved
  <2>2. t \in Trades /\ t.stop = trade.stop /\ t.mode = "blind" /\ t.reason = trade.reason
    BY <1>1, <2>1 DEF Trades
  <2> QED BY <1>2, <2>2
<1>7. CASE sight # "none"
  <2> DEFINE mode == IF snap = NoSnap /\ phase = "ST" THEN "blind" ELSE phase
  <2>1. PICK h \in stops : t = [trade EXCEPT !.stop = h, !.mode = mode]
    BY <1>7 DEF Moved
  <2>2. mode \in {"ST", "VWAP", "blind"} /\ (mode = "ST" <=> phase = "ST" /\ snap # NoSnap)
    BY DEF Phase
  <2> HIDE DEF stops, mode, phase
  <2>3. t \in Trades /\ t.stop = h /\ t.mode = mode /\ t.reason = trade.reason
    BY <1>1, <1>5, <2>1, <2>2 DEF Trades
  <2> QED BY <1>5, <2>2, <2>3
<1> QED BY <1>6, <1>7

\* What the rest of the cycle makes of a trade: it stays one, its stop is not raised, its
\* method stays, and it is closed at the stop only by a price at or beyond it.
LEMMA SettledTrade ==
    ASSUME NEW t \in Trades, NEW p \in Premiums, NEW u, u = Settled(t, p)
    PROVE  /\ u \in Trades /\ u.mode = t.mode /\ u.stop <= t.stop
           /\ u.reason = "SL_HIT" => t.reason = "SL_HIT" \/ (p >= t.stop /\ u.price = p)
           /\ u.reason # t.reason => u.state = "EXIT"
<1> DEFINE tighter == p + TrailPoints < t.stop
           breakeven == 100 * (t.entry - p) >= BreakevenPct * t.entry
<1>1. p \in Nat \ {0} /\ TrailPoints \in Nat /\ t.stop \in Nat
  BY TrailAssumption DEF Trades
<1>2. CASE p <= t.target
  <2>1. u = Exit(t, p, "TARGET_HIT")
    BY <1>2 DEF Settled
  <2>2. /\ u \in Trades /\ u.mode = t.mode /\ u.stop = t.stop /\ u.reason = "TARGET_HIT"
        /\ u.state = "EXIT"
    BY <2>1 DEF Exit, Trades
  <2> QED BY <1>1, <2>2
<1>3. CASE ~(p <= t.target) /\ p >= t.stop
  <2>1. u = Exit(t, p, "SL_HIT")
    BY <1>3 DEF Settled
  <2>2. /\ u \in Trades /\ u.mode = t.mode /\ u.stop = t.stop /\ u.price = p
        /\ u.state = "EXIT"
    BY <2>1 DEF Exit, Trades
  <2> QED BY <1>1, <1>3, <2>2
<1>4. CASE ~(p <= t.target) /\ ~(p >= t.stop) /\ tighter /\ (t.state = "TRAIL" \/ breakeven)
  <2>1. u = [t EXCEPT !.state = "TRAIL", !.stop = p + TrailPoints, !.price = p]
    BY <1>4 DEF Settled
  <2>2. p + TrailPoints \in Nat
    BY <1>1
  <2>3. u \in Trades /\ u.mode = t.mode /\ u.stop = p + TrailPoints /\ u.reason = t.reason
    BY <2>1, <2>2 DEF Trades
  <2> QED BY <1>1, <1>4, <2>3
<1>5. CASE ~(p <= t.target) /\ ~(p >= t.stop)
           /\ ~(tighter /\ (t.state = "TRAIL" \/ breakeven))
  <2>1. u = [t EXCEPT !.price = p]
    BY <1>5 DEF Settled
  <2>2. u \in Trades /\ u.mode = t.mode /\ u.stop = t.stop /\ u.reason = t.reason
    BY <2>1 DEF Trades
  <2> QED BY <1>1, <2>2
<1> QED BY <1>2, <1>3, <1>4, <1>5

-----------------------------------------------------------------------------
(* The invariant *)

\* What a cycle reads of an open trade besides its type: it has no reason yet.
OpenHasNoReason == trade # NoTrade /\ IsOpen => trade.reason = "open"
TrailInv == TrailTypeOK /\ PeggedNeverStops /\ OpenHasNoReason

\* What a cycle may make of the trade.
Rightly(u) ==
    /\ u \in Trades
    /\ u.reason = "SL_HIT" /\ u.mode = "ST" => u.price <= 100
    /\ u.stop > trade.stop => u.mode = "ST"
    /\ u.state \in {"ACTIVE", "TRAIL"} => u.reason = "open"

\* A cycle keeps the invariant and raises the stop only when the index pegged it.
LEMMA CycleStep ==
    ASSUME TrailInv, NEW p \in Premiums, NEW v \in Averages \cup {NoAverage},
           NEW b \in Bars, NEW sight \in Sights, Cycle(p, v, b, sight)
    PROVE  Rightly(trade')
<1> DEFINE snap == Seen(b, sight)
<1>1. trade \in Trades /\ trade.reason = "open" /\ IsOpen
  BY DEF TrailInv, TrailTypeOK, OpenHasNoReason, Cycle, IsOpen, NoTrade
<1>2. PICK t \in Moved(p, v, snap, sight) :
         \/ trade' = Exit(trade, p, "TRADE_SESSION_END")
         \/ trade' = Exit(t, p, "SUPERTREND_FLIP")
         \/ trade' = Settled(t, p)
  BY DEF Cycle, Seen
<1>3. /\ t \in Trades /\ t.reason = trade.reason
      /\ t.mode = "ST" /\ p > 100 => t.stop > p
      /\ t.stop > trade.stop => t.mode = "ST"
  BY <1>1, MovedStop DEF TrailInv
<1>4. CASE trade' = Exit(trade, p, "TRADE_SESSION_END")
  <2>1. /\ trade' \in Trades /\ trade'.stop = trade.stop /\ trade'.state = "EXIT"
        /\ trade'.reason = "TRADE_SESSION_END"
    BY <1>1, <1>4 DEF Exit, Trades
  <2>2. trade.stop \in Nat
    BY <1>1 DEF Trades
  <2> QED BY <2>1, <2>2 DEF Rightly
<1>5. CASE trade' = Exit(t, p, "SUPERTREND_FLIP")
  <2>1. /\ trade' \in Trades /\ trade'.stop = t.stop /\ trade'.mode = t.mode
        /\ trade'.state = "EXIT" /\ trade'.reason = "SUPERTREND_FLIP"
    BY <1>3, <1>5 DEF Exit, Trades
  <2> QED BY <1>3, <2>1 DEF Rightly
<1>6. CASE trade' = Settled(t, p)
  <2>1. /\ trade' \in Trades /\ trade'.mode = t.mode /\ trade'.stop <= t.stop
        /\ trade'.reason = "SL_HIT" => p >= t.stop /\ trade'.price = p
        /\ trade'.state \in {"ACTIVE", "TRAIL"} => trade'.reason = "open"
    BY <1>1, <1>3, <1>6, SettledTrade
  <2>2. t.stop \in Nat /\ trade.stop \in Nat /\ trade'.stop \in Nat
    BY <1>1, <1>3, <2>1 DEF Trades
  <2>3. p \in Nat
    BY TrailAssumption
  <2>4. trade'.stop > trade.stop => trade'.mode = "ST"
    BY <1>3, <2>1, <2>2
  <2>5. trade'.reason = "SL_HIT" /\ trade'.mode = "ST" => trade'.price <= 100
    BY <1>3, <2>1, <2>2, <2>3
  <2> QED BY <2>1, <2>4, <2>5 DEF Rightly
<1> QED BY <1>2, <1>4, <1>5, <1>6

\* The trade a user enters is one, with nothing decided about it yet.
LEMMA EnterStep ==
    ASSUME TrailInv, NEW p \in Premiums, Enter(p)
    PROVE  trade' \in Trades /\ trade'.reason = "open"
<1>1. p \in Nat /\ p + SlPoints \in Nat /\ p - TargetPoints \in Int
  BY TrailAssumption
<1>2. offer \in {"PE", "CE"}
  BY DEF TrailInv, TrailTypeOK, Enter
<1> QED BY <1>1, <1>2 DEF Enter, Trades

\* The four facts every step leaves behind, in one place: each action of the next-state
\* relation, and the stuttering step.
LEMMA TrailStep ==
    ASSUME TrailInv, [TrailNext]_trailVars
    PROVE  TrailInv' /\ (trade # NoTrade /\ trade'.stop > trade.stop => trade'.mode = "ST")
<1>1. TrailTypeOK /\ (trade = NoTrade \/ trade \in Trades)
  BY DEF TrailInv, TrailTypeOK
<1>2. ASSUME trade' = trade, bands' \in Bands, ended' \in BOOLEAN,
             offer' \in {Nothing, "PE", "CE"}
      PROVE  TrailInv' /\ (trade # NoTrade /\ trade'.stop > trade.stop => trade'.mode = "ST")
  <2>1. trade # NoTrade => trade.stop \in Nat
    BY <1>1 DEF Trades
  <2>2. ~(trade # NoTrade /\ trade.stop > trade.stop)
    BY <2>1
  <2>3. TrailTypeOK'
    BY <1>1, <1>2 DEF TrailTypeOK
  <2>4. PeggedNeverStops' /\ OpenHasNoReason'
    BY <1>2 DEF TrailInv, PeggedNeverStops, OpenHasNoReason, IsOpen
  <2> QED BY <1>2, <2>2, <2>3, <2>4 DEF TrailInv
<1>3. ASSUME NEW b \in Bars, CloseBar(b)
      PROVE  TrailInv' /\ (trade # NoTrade /\ trade'.stop > trade.stop => trade'.mode = "ST")
  <2>1. bands' \in Bands
    BY <1>1, <1>3, BandsStay DEF CloseBar, TrailTypeOK
  <2> QED BY <1>1, <1>2, <1>3, <2>1 DEF CloseBar, TrailTypeOK
<1>4. ASSUME NEW b \in Bars, Recommend(b)
      PROVE  TrailInv' /\ (trade # NoTrade /\ trade'.stop > trade.stop => trade'.mode = "ST")
  <2>1. offer' \in {Nothing, "PE", "CE"}
    BY <1>4 DEF Recommend
  <2> QED BY <1>1, <1>2, <1>4, <2>1 DEF Recommend, TrailTypeOK
<1>5. CASE EndSession
  BY <1>1, <1>2, <1>5 DEF EndSession, TrailTypeOK
<1>6. ASSUME NEW p \in Premiums, Enter(p)
      PROVE  TrailInv' /\ (trade # NoTrade /\ trade'.stop > trade.stop => trade'.mode = "ST")
  <2>1. trade = NoTrade /\ offer' = Nothing /\ UNCHANGED <<bands, ended>>
    BY <1>6 DEF Enter
  <2>2. trade' \in Trades /\ trade'.reason = "open"
    BY <1>6, EnterStep
  <2>3. TrailTypeOK'
    BY <1>1, <2>1, <2>2 DEF TrailTypeOK
  <2> QED BY <2>1, <2>2, <2>3 DEF TrailInv, PeggedNeverStops, OpenHasNoReason
<1>7. ASSUME NEW p \in Premiums, NEW v \in Averages \cup {NoAverage}, NEW b \in Bars,
             NEW sight \in Sights, Cycle(p, v, b, sight)
      PROVE  TrailInv' /\ (trade # NoTrade /\ trade'.stop > trade.stop => trade'.mode = "ST")
  <2>1. Rightly(trade')
    BY <1>7, CycleStep
  <2>2. TrailTypeOK'
    BY <1>1, <1>7, <2>1 DEF Cycle, Rightly, TrailTypeOK
  <2> QED BY <2>1, <2>2 DEF Rightly, TrailInv, PeggedNeverStops, OpenHasNoReason, IsOpen
<1>8. CASE UNCHANGED trailVars
  BY <1>1, <1>2, <1>8 DEF trailVars, TrailTypeOK
<1> QED BY <1>3, <1>4, <1>5, <1>6, <1>7, <1>8 DEF TrailNext

\* The invariant holds to begin with.
LEMMA TrailStart == TrailInit => TrailInv
<1> SUFFICES ASSUME TrailInit PROVE TrailInv
  OBVIOUS
<1>1. PICK b \in Bars :
        bands = [upper |-> Tops(b), lower |-> Bottom(b),
                 dir |-> IF b.close > Bottom(b) THEN Bull ELSE Bear, close |-> b.close]
  BY DEF TrailInit
<1>2. b.mid \in Nat /\ b.reach \in Nat /\ b.close \in Nat \ {0}
  BY TrailAssumption
<1>3. bands \in Bands
  BY <1>1, <1>2 DEF Bands, Tops, Bottom
<1> QED
  BY <1>3 DEF TrailInit, TrailInv, TrailTypeOK, PeggedNeverStops, OpenHasNoReason, NoTrade

\* The invariant holds throughout.
LEMMA TrailInvariant == TrailSpec => []TrailInv
<1>1. TrailInv /\ [TrailNext]_trailVars => TrailInv'
  BY TrailStep
<1> QED BY TrailStart, <1>1, PTL DEF TrailSpec

\* A cycle that saw the index never closes a trade at its stop at a price above a rupee,
\* whatever the bars, prices and settings: the stop the settings place at the entry (execute_recommendation) is
\* replaced by one above the price that was just read (compute_hybrid_sl_short_sell).
THEOREM PeggedHolds == TrailSpec => []PeggedNeverStops
<1>1. TrailInv => PeggedNeverStops
  BY DEF TrailInv
<1> QED BY TrailInvariant, <1>1, PTL

\* The stop of an open trade is raised by the ST phase only: the VWAP phase and the trail
\* by points (run_monitor_cycle) only lower it.
THEOREM StopRisesHolds == TrailSpec => StopRisesOnlyWhilePegged
<1>1. TrailInv /\ [TrailNext]_trailVars
        => [trade # NoTrade /\ trade'.stop > trade.stop => trade'.mode = "ST"]_trailVars
  BY TrailStep
<1> QED BY TrailInvariant, <1>1, PTL DEF TrailSpec, StopRisesOnlyWhilePegged

-----------------------------------------------------------------------------
(* HeuristicRules: numbers *)

\* What division gives.
LEMMA DivBounds ==
    ASSUME NEW n \in Int, NEW d \in Nat \ {0}
    PROVE  n \div d \in Int /\ d * (n \div d) <= n /\ n < d * (n \div d) + d
  BY SMT

\* A number times a greater one, and the same for a negative difference.
LEMMA Grows ==
    ASSUME NEW d \in Nat, NEW a \in Int, NEW b \in Int, a <= b
    PROVE  d * a <= d * b
  BY SMT

\* A quotient is no less than a whole number the dividend has room for, and no more than
\* one it does not pass by a whole divisor.
LEMMA DivAtLeast ==
    ASSUME NEW n \in Int, NEW d \in Nat \ {0}, NEW c \in Int, d * c <= n
    PROVE  c <= n \div d
<1> DEFINE q == n \div d
<1>1. q \in Int /\ n < d * q + d
  BY DivBounds
<1> HIDE DEF q
<1>2. SUFFICES ASSUME q + 1 <= c PROVE FALSE
  BY <1>1 DEF q
<1>3. d * (q + 1) <= d * c
  BY <1>1, <1>2, Grows
<1>4. d * (q + 1) = d * q + d
  BY <1>1
<1>5. d * q \in Int /\ d * c \in Int
  BY <1>1
<1>. QED
  BY <1>1, <1>3, <1>4, <1>5

LEMMA DivAtMost ==
    ASSUME NEW n \in Int, NEW d \in Nat \ {0}, NEW c \in Int, n < d * c + d
    PROVE  n \div d <= c
<1> DEFINE q == n \div d
<1>1. q \in Int /\ d * q <= n
  BY DivBounds
<1> HIDE DEF q
<1>2. SUFFICES ASSUME c + 1 <= q PROVE FALSE
  BY <1>1 DEF q
<1>3. d * (c + 1) <= d * q
  BY <1>1, <1>2, Grows
<1>4. d * (c + 1) = d * c + d
  OBVIOUS
<1>5. d * q \in Int /\ d * c \in Int
  BY <1>1
<1>. QED
  BY <1>1, <1>3, <1>4, <1>5

\* Rounding keeps to the side of a whole number.
LEMMA NearestBounds ==
    ASSUME NEW n \in Int, NEW d \in Nat \ {0}
    PROVE  /\ Nearest(n, d) \in Int
           /\ \A c \in Int : d * c <= n => c <= Nearest(n, d)
           /\ \A c \in Int : n <= d * c => Nearest(n, d) <= c
<1>1. 2 * n + d \in Int /\ 2 * d \in Nat \ {0}
  OBVIOUS
<1>2. Nearest(n, d) \in Int
  BY <1>1, DivBounds DEF Nearest
<1>3. ASSUME NEW c \in Int, d * c <= n
      PROVE  c <= Nearest(n, d)
  <2>1. (2 * d) * c = 2 * (d * c) /\ d * c \in Int
    OBVIOUS
  <2>2. (2 * d) * c <= 2 * n + d
    BY <1>3, <2>1
  <2>. QED
    BY <1>1, <2>2, DivAtLeast DEF Nearest
<1>4. ASSUME NEW c \in Int, n <= d * c
      PROVE  Nearest(n, d) <= c
  <2>1. (2 * d) * c = 2 * (d * c) /\ d * c \in Int
    OBVIOUS
  <2>2. 2 * n + d < (2 * d) * c + 2 * d
    BY <1>4, <2>1
  <2>. QED
    BY <1>1, <2>2, DivAtMost DEF Nearest
<1>. QED
  BY <1>2, <1>3, <1>4

\* The nine heuristics by name.
LEMMA Nine ==
    Heuristics = {"oiBuildup", "ivr", "volumeSpike", "rsi", "emaAlignment", "primaryVwap",
                  "deltaFit", "oiChange", "ltpChange"}
  BY DEF Heuristics, DefaultWeights

\* A sum grows with its summands.
LEMMA OverAllGrows ==
    ASSUME NEW f, NEW g, \A h \in Heuristics : f[h] \in Int /\ g[h] \in Int /\ f[h] <= g[h]
    PROVE  OverAll(f) \in Int /\ OverAll(g) \in Int /\ OverAll(f) <= OverAll(g)
  BY Nine DEF OverAll

\* A factor of all summands is one of the sum.
LEMMA OverAllScales ==
    ASSUME NEW f, NEW g, NEW c \in Int, \A h \in Heuristics : f[h] \in Int /\ g[h] = f[h] * c
    PROVE  OverAll(g) = OverAll(f) * c
<1>1. /\ f["oiBuildup"] \in Int /\ f["ivr"] \in Int /\ f["volumeSpike"] \in Int
      /\ f["rsi"] \in Int /\ f["emaAlignment"] \in Int /\ f["primaryVwap"] \in Int
      /\ f["deltaFit"] \in Int /\ f["oiChange"] \in Int /\ f["ltpChange"] \in Int
  BY Nine
<1>2. OverAll(g) = f["oiBuildup"] * c + f["ivr"] * c + f["volumeSpike"] * c + f["rsi"] * c
                   + f["emaAlignment"] * c + f["primaryVwap"] * c + f["deltaFit"] * c
                   + f["oiChange"] * c + f["ltpChange"] * c
  BY Nine DEF OverAll
<1>. QED
  BY <1>1, <1>2, SMT DEF OverAll

-----------------------------------------------------------------------------
(* HeuristicRules: votes and weights *)

\* A graded score is one of the lines' or the least.
IsLines(lines) == DOMAIN lines \subseteq Nat /\ \A i \in DOMAIN lines : lines[i][2] \in Int

LEMMA GradedIsNumber ==
    ASSUME NEW x, NEW lines, IsLines(lines), NEW least \in Int
    PROVE  Graded(x, lines, least) \in Int
<1> DEFINE met == {i \in DOMAIN lines : x >= lines[i][1]}
<1>1. CASE met = {}
  BY <1>1 DEF Graded
<1>2. CASE met # {}
  <2>1. met \subseteq Nat
    BY DEF IsLines
  <2>2. \E i \in met : \A j \in met : i <= j
    BY <1>2, <2>1, LeastNatural
  <2> DEFINE i == CHOOSE i \in met : \A j \in met : i <= j
  <2>3. i \in met
    BY <2>2
  <2> HIDE DEF i
  <2>4. i \in DOMAIN lines
    BY <2>3
  <2>5. lines[i][2] \in Int
    BY <2>4 DEF IsLines
  <2>6. Graded(x, lines, least) = lines[i][2]
    BY <1>2 DEF Graded, i
  <2>. QED
    BY <2>5, <2>6
<1>. QED
  BY <1>1, <1>2

\* What a heuristic says is a number.
LEMMA BallotNumbers ==
    ASSUME NEW leg, NEW side, NEW p
    PROVE  \A h \in Heuristics : Ballot(leg, side, p)[h] \in Int
<1>1. BuildupVote(leg, side) \in Int
  BY DEF BuildupVote
<1>2. IvrVote(leg) \in Int
  <2> DEFINE lines == <<<<80, 10>>, <<60, 20>>, <<40, 30>>, <<20, 40>>>>
  <2>1. IsLines(lines)
    BY DEF IsLines
  <2> HIDE DEF lines
  <2>2. Graded(leg.ivr, lines, 50) \in Int
    BY <2>1, GradedIsNumber
  <2>. QED
    BY <2>2 DEF IvrVote, lines
<1>3. VolumeVote(leg) \in Int
  <2> DEFINE lines == <<<<20, 50>>, <<15, 40>>, <<12, 30>>, <<10, 20>>>>
  <2>1. IsLines(lines)
    BY DEF IsLines
  <2> HIDE DEF lines
  <2>2. Graded(leg.ratio, lines, 10) \in Int
    BY <2>1, GradedIsNumber
  <2>. QED
    BY <2>2 DEF VolumeVote, lines
<1>4. RsiVote(leg, p) \in Int
  <2> DEFINE lines == <<<<p.rsiMin, 50>>, <<p.rsiMin - 10, 30>>>>
  <2>1. IsLines(lines)
    BY DEF IsLines
  <2> HIDE DEF lines
  <2>2. Graded(leg.rsi, lines, 15) \in Int
    BY <2>1, GradedIsNumber
  <2>. QED
    BY <2>2 DEF RsiVote, lines
<1>5. EmaVote(leg) \in Int
  <2> DEFINE lines == <<<<1, 50>>, <<0, 30>>>>
  <2>1. IsLines(lines)
    BY DEF IsLines
  <2> HIDE DEF lines
  <2>2. Graded(leg.ema9 - leg.ema21, lines, 10) \in Int
    BY <2>1, GradedIsNumber
  <2>. QED
    BY <2>2 DEF EmaVote, lines
<1>6. VwapVote(leg, side) \in Int
  BY DEF VwapVote
<1>7. DeltaVote(leg, side, p) \in Int
  <2> DEFINE lines == <<<<-5, 50>>, <<-10, 40>>, <<-15, 30>>, <<-25, 20>>>>
  <2>1. IsLines(lines)
    BY DEF IsLines
  <2> HIDE DEF lines
  <2>2. Graded(-Size(leg.delta - p.delta[side]), lines, 10) \in Int
    BY <2>1, GradedIsNumber
  <2>. QED
    BY <2>2 DEF DeltaVote, lines
<1>8. OiVote(leg) \in Int
  <2> DEFINE lines == <<<<1000, 50>>, <<500, 45>>, <<200, 40>>, <<0, 30>>, <<-500, 20>>>>
  <2>1. IsLines(lines)
    BY DEF IsLines
  <2> HIDE DEF lines
  <2>2. Graded(leg.oiChg, lines, 10) \in Int
    BY <2>1, GradedIsNumber
  <2>. QED
    BY <2>2 DEF OiVote, lines
<1>9. LtpVote(leg) \in Int
  <2> DEFINE lines == <<<<500, 50>>, <<200, 40>>, <<0, 30>>, <<-300, 20>>>>
  <2>1. IsLines(lines)
    BY DEF IsLines
  <2> HIDE DEF lines
  <2>2. Graded(leg.ltpChg, lines, 15) \in Int
    BY <2>1, GradedIsNumber
  <2>. QED
    BY <2>2 DEF LtpVote, lines
<1>. QED
  BY <1>1, <1>2, <1>3, <1>4, <1>5, <1>6, <1>7, <1>8, <1>9, Nine DEF Ballot

\* The numbers among the enhancements.
Tuned(e) ==
    /\ e.jointMin \in Int /\ e.jointMax \in Int /\ e.churnMult \in Int
    /\ e.oiWeight \in Int /\ e.pairShare \in Int /\ e.minGap \in Int /\ e.minSpread \in Int
    /\ \A c \in DOMAIN e.cells : e.cells[c].cap \in Int

LEMMA EnhancementsTuned ==
    ASSUME NEW p, IsTuning(p.enhancements)
    PROVE  Tuned(Enhancements(p))
<1> DEFINE given == p.enhancements
           e == Enhancements(p)
           keys == {"jointMin", "jointMax", "churnMult", "oiWeight", "pairShare", "minGap",
                    "minSpread"}
<1>1. \A key \in keys : e[key] = IF key \in DOMAIN given THEN given[key]
                                                          ELSE EnhancementDefaults[key]
  BY DEF Enhancements, EnhancementDefaults
<1>2. \A key \in keys : EnhancementDefaults[key] \in Int
  BY DEF EnhancementDefaults
<1>3. \A key \in keys : e[key] \in Int
  BY <1>1, <1>2 DEF IsTuning
<1>4. e.cells = IF "cells" \in DOMAIN given THEN given["cells"] ELSE <<>>
  BY DEF Enhancements, EnhancementDefaults
<1>5. \A c \in DOMAIN e.cells : e.cells[c].cap \in Int
  BY <1>4 DEF IsTuning
<1>. QED
  BY <1>3, <1>5 DEF Tuned

\* Weights stay numbers, and none falls below zero, on their way to the score.
NoneBelowZero(weights) == \A h \in DOMAIN weights : weights[h] >= 0

LEMMA CountedWeights ==
    ASSUME NEW e, Tuned(e), NEW leg, NEW config, IsWeights(config)
    PROVE  /\ IsWeights(Counted(e, leg, config))
           /\ Weighing(e, config) => NoneBelowZero(Counted(e, leg, config))
<1> DEFINE counted == Counted(e, leg, config)
<1>1. DOMAIN counted \subseteq DOMAIN config /\ \A h \in DOMAIN counted : config[h] # Off
  BY DEF Counted
<1>2. \A h \in DOMAIN counted :
        counted[h] = config[h] \/ counted[h] = Percent(config[h], e.oiWeight)
  BY DEF Counted
<1>3. e.oiWeight \in Int /\ \A h \in DOMAIN config : config[h] \in Int
  BY DEF Tuned, IsWeights
<1>4. \A w, x \in Int : Percent(w, x) \in Int
  BY DivBounds DEF Percent
<1>5. ASSUME NEW w \in Nat, NEW x \in Nat PROVE Percent(w, x) >= 0
  <2>1. w * x \in Nat
    OBVIOUS
  <2>. QED
    BY <2>1, DivAtLeast DEF Percent
<1> HIDE DEF counted
<1>6. IsWeights(counted)
  BY <1>1, <1>2, <1>3, <1>4 DEF IsWeights
<1>7. ASSUME Weighing(e, config), NEW h \in DOMAIN counted
      PROVE  counted[h] >= 0
  <2>1. config[h] \in Nat /\ e.oiWeight \in Nat
    BY <1>1, <1>3, <1>7 DEF Weighing
  <2>. QED
    BY <1>2, <1>5, <2>1
<1>. QED
  BY <1>6, <1>7 DEF NoneBelowZero, counted

\* The sum of weights is one of weights, none or not none of them below zero.
LEMMA WeightsOf ==
    ASSUME NEW weights, IsWeights(weights)
    PROVE  /\ \A h \in Heuristics : WeightOf(weights, h) \in Int
           /\ TotalWeight(weights) \in Int
           /\ NoneBelowZero(weights) => \A h \in Heuristics : WeightOf(weights, h) >= 0
<1>1. \A h \in Heuristics : WeightOf(weights, h) \in Int
  BY DEF WeightOf, IsWeights
<1> DEFINE f == [h \in Heuristics |-> WeightOf(weights, h)]
<1>2. \A h \in Heuristics : f[h] \in Int
  BY <1>1
<1>3. OverAll(f) \in Int
  <2> HIDE DEF f
  <2>. QED
    BY <1>2, OverAllGrows
<1>. QED
  BY <1>1, <1>3 DEF TotalWeight, WeightOf, NoneBelowZero

LEMMA SharedWeights ==
    ASSUME NEW e, Tuned(e), NEW weights, IsWeights(weights)
    PROVE  /\ IsWeights(Shared(e, weights))
           /\ NoneBelowZero(weights) => NoneBelowZero(Shared(e, weights))
<1> DEFINE pairWeight == WeightOf(weights, "ltpChange") + WeightOf(weights, "oiChange")
           most == Percent(TotalWeight(weights), e.pairShare)
<1>1. Shared(e, weights) = weights \/ /\ pairWeight > most /\ most > 0
                                      /\ Shared(e, weights) = Scaled(weights, pairWeight, most)
  BY DEF Shared
<1>2. pairWeight \in Int /\ most \in Int
  <2>1. pairWeight \in Int
    BY WeightsOf, Nine
  <2>2. TotalWeight(weights) \in Int /\ e.pairShare \in Int
    BY WeightsOf DEF Tuned
  <2>3. TotalWeight(weights) * e.pairShare \in Int
    BY <2>2
  <2>. QED
    BY <2>1, <2>3, DivBounds DEF Percent
<1> HIDE DEF pairWeight, most
<1>3. CASE pairWeight > most /\ most > 0
  <2> DEFINE scaled == Scaled(weights, pairWeight, most)
  <2>1. DOMAIN scaled = DOMAIN weights
    BY DEF Scaled
  <2>2. \A h \in DOMAIN weights :
          scaled[h] = weights[h] \/ scaled[h] = (weights[h] * most) \div pairWeight
    BY DEF Scaled
  <2> HIDE DEF scaled
  <2>3. pairWeight \in Nat \ {0} /\ most \in Nat
    BY <1>2, <1>3
  <2>4. \A w \in Int : (w * most) \div pairWeight \in Int
    BY <2>3, DivBounds
  <2>5. ASSUME NEW w \in Nat PROVE (w * most) \div pairWeight >= 0
    <3>1. w * most \in Nat
      BY <2>3
    <3>. QED
      BY <2>3, <3>1, DivAtLeast
  <2>6. IsWeights(scaled)
    BY <2>1, <2>2, <2>4 DEF IsWeights
  <2>7. NoneBelowZero(weights) => NoneBelowZero(scaled)
    BY <2>1, <2>2, <2>5 DEF IsWeights, NoneBelowZero
  <2>. QED
    BY <1>1, <2>6, <2>7 DEF scaled
<1>. QED
  BY <1>1, <1>3

\* The weights of a side, numbers, and those that a vote is taken with.
LEMMA FinalWeightsTypes ==
    ASSUME NEW x \in Polls, NEW leg, NEW side \in Sides
    PROVE  LET e == Enhancements(x.p)
               weights == FinalWeights(x.p, e, leg, side)
           IN /\ IsWeights(weights)
              /\ Weighing(e, WeightsFor(x.p, side)) => NoneBelowZero(weights)
<1> DEFINE e == Enhancements(x.p)
           config == WeightsFor(x.p, side)
           counted == Counted(e, leg, config)
<1>1. IsPoll(x)
  BY PollAssumption
<1>2. Tuned(e)
  BY <1>1, EnhancementsTuned DEF IsPoll
<1>3. IsWeights(config)
  <2>1. IsWeights(x.p.sideWeights[side]) /\ IsWeights(x.p.weights)
    BY <1>1 DEF IsPoll
  <2>2. IsWeights(DefaultWeights)
    BY DEF IsWeights, DefaultWeights
  <2>. QED
    BY <2>1, <2>2 DEF WeightsFor
<1> HIDE DEF e, config
<1>4. IsWeights(counted) /\ (Weighing(e, config) => NoneBelowZero(counted))
  BY <1>2, <1>3, CountedWeights
<1> HIDE DEF counted
<1>5. /\ IsWeights(Shared(e, counted))
      /\ NoneBelowZero(counted) => NoneBelowZero(Shared(e, counted))
  BY <1>2, <1>4, SharedWeights
<1>. QED
  BY <1>4, <1>5 DEF FinalWeights, e, config, counted

\* A mean vote is a number, and lies between what the heuristics with a weight said: were
\* all of them above it, so would the sum of what they said be above its share.
LEMMA MeanVoteHolds ==
    ASSUME NEW ballot, \A h \in Heuristics : ballot[h] \in Int,
           NEW weights, IsWeights(weights)
    PROVE  /\ MeanVote(ballot, weights) \in Int
           /\ NoneBelowZero(weights) =>
                IsMean(MeanVote(ballot, weights), SaidOf(ballot, weights))
<1> DEFINE w == [h \in Heuristics |-> WeightOf(weights, h)]
           said == [h \in Heuristics |-> WeightOf(weights, h) * ballot[h]]
           total == OverAll(w)
           vote == MeanVote(ballot, weights)
<1>1. \A h \in Heuristics :
        w[h] \in Int /\ said[h] = w[h] * ballot[h] /\ w[h] = WeightOf(weights, h)
  BY WeightsOf
<1>2. vote = IF total <= 0 THEN 300 ELSE Nearest(10 * OverAll(said), total)
  BY DEF MeanVote, TotalWeight
<1>3. SaidOf(ballot, weights) = {10 * ballot[h] : h \in {h \in Heuristics : w[h] > 0}}
  BY <1>1 DEF SaidOf
<1>4. NoneBelowZero(weights) => \A h \in Heuristics : w[h] >= 0
  BY <1>1, WeightsOf
<1>5. ASSUME NEW h \in Heuristics, w[h] > 0
      PROVE  10 * ballot[h] \in SaidOf(ballot, weights)
  <2>1. h \in {j \in Heuristics : w[j] > 0}
    BY <1>5
  <2>. QED
    BY <1>3, <2>1, Zenon
<1> HIDE DEF w, said, vote
<1>6. \A h \in Heuristics : said[h] \in Int
  BY <1>1
<1>7. total \in Int /\ OverAll(said) \in Int
  BY <1>1, <1>6, OverAllGrows
<1> HIDE DEF total
<1>8. vote \in Int
  BY <1>2, <1>7, NearestBounds
<1>9. ASSUME NoneBelowZero(weights)
      PROVE  IsMean(vote, SaidOf(ballot, weights))
  <2>1. \A h \in Heuristics : w[h] \in Nat
    BY <1>1, <1>4, <1>9
  <2>2. CASE SaidOf(ballot, weights) = {}
    <3>1. \A h \in Heuristics : w[h] = 0
      BY <1>5, <2>1, <2>2
    <3>2. total = 0
      BY <3>1, Nine DEF total, OverAll
    <3>. QED
      BY <1>2, <2>2, <3>2 DEF IsMean
  <2>3. CASE SaidOf(ballot, weights) # {}
    <3>1. PICK g \in Heuristics : w[g] > 0
      BY <1>3, <2>3
    <3>2. total > 0
      BY <2>1, <3>1, Nine DEF total, OverAll
    <3>3. vote = Nearest(10 * OverAll(said), total) /\ total \in Nat \ {0}
      BY <1>2, <1>7, <3>2
    <3>4. ASSUME \A v \in SaidOf(ballot, weights) : ~(v <= vote)
          PROVE  FALSE
      <4>1. \A h \in Heuristics : w[h] > 0 => vote + 1 <= 10 * ballot[h]
        BY <1>5, <1>8, <3>4
      <4> DEFINE f == [h \in Heuristics |-> w[h] * (vote + 1)]
                 g2 == [h \in Heuristics |-> said[h] * 10]
      <4>2. ASSUME NEW h \in Heuristics
            PROVE  f[h] \in Int /\ g2[h] \in Int /\ f[h] <= g2[h]
        <5>1. f[h] = w[h] * (vote + 1) /\ g2[h] = (w[h] * ballot[h]) * 10
          BY <1>1
        <5>2. (w[h] * ballot[h]) * 10 = w[h] * (10 * ballot[h])
          BY <1>1
        <5>3. CASE w[h] = 0
          BY <1>8, <5>1, <5>2, <5>3
        <5>4. CASE w[h] > 0
          BY <1>8, <2>1, <4>1, <5>1, <5>2, <5>4, Grows
        <5>. QED
          BY <2>1, <5>3, <5>4
      <4>3. \A h \in Heuristics : f[h] = w[h] * (vote + 1) /\ g2[h] = said[h] * 10
        OBVIOUS
      <4> HIDE DEF f, g2
      <4>4. OverAll(f) <= OverAll(g2)
        BY <4>2, OverAllGrows
      <4>5. OverAll(f) = total * (vote + 1)
        BY <1>1, <1>8, <4>3, OverAllScales DEF total
      <4>6. OverAll(g2) = OverAll(said) * 10
        BY <1>6, <4>3, OverAllScales
      <4>7. total * (vote + 1) <= 10 * OverAll(said)
        BY <1>7, <4>4, <4>5, <4>6
      <4>8. vote + 1 <= vote
        BY <1>7, <1>8, <3>3, <4>7, NearestBounds
      <4>. QED
        BY <1>8, <4>8
    <3>5. ASSUME \A v \in SaidOf(ballot, weights) : ~(v >= vote)
          PROVE  FALSE
      <4>1. \A h \in Heuristics : w[h] > 0 => 10 * ballot[h] <= vote - 1
        BY <1>5, <1>8, <3>5
      <4> DEFINE f == [h \in Heuristics |-> w[h] * (vote - 1)]
                 g2 == [h \in Heuristics |-> said[h] * 10]
      <4>2. ASSUME NEW h \in Heuristics
            PROVE  f[h] \in Int /\ g2[h] \in Int /\ g2[h] <= f[h]
        <5>1. f[h] = w[h] * (vote - 1) /\ g2[h] = (w[h] * ballot[h]) * 10
          BY <1>1
        <5>2. (w[h] * ballot[h]) * 10 = w[h] * (10 * ballot[h])
          BY <1>1
        <5>3. CASE w[h] = 0
          BY <1>8, <5>1, <5>2, <5>3
        <5>4. CASE w[h] > 0
          BY <1>8, <2>1, <4>1, <5>1, <5>2, <5>4, Grows
        <5>. QED
          BY <2>1, <5>3, <5>4
      <4>3. \A h \in Heuristics : f[h] = w[h] * (vote - 1) /\ g2[h] = said[h] * 10
        OBVIOUS
      <4> HIDE DEF f, g2
      <4>4. OverAll(g2) <= OverAll(f)
        BY <4>2, OverAllGrows
      <4>5. OverAll(f) = total * (vote - 1)
        BY <1>1, <1>8, <4>3, OverAllScales DEF total
      <4>6. OverAll(g2) = OverAll(said) * 10
        BY <1>6, <4>3, OverAllScales
      <4>7. 10 * OverAll(said) <= total * (vote - 1)
        BY <1>7, <4>4, <4>5, <4>6
      <4>8. vote <= vote - 1
        BY <1>7, <1>8, <3>3, <4>7, NearestBounds
      <4>. QED
        BY <1>8, <4>8
    <3>. QED
      BY <2>3, <3>4, <3>5 DEF IsMean
  <2>. QED
    BY <2>2, <2>3
<1>. QED
  BY <1>8, <1>9 DEF vote

\* Every vote is a number and such a mean.
LEMMA LegVoteHolds ==
    ASSUME NEW x \in Polls, NEW leg, NEW side \in Sides
    PROVE  LET e == Enhancements(x.p)
               vote == LegVote(x.p, e, leg, side)
           IN /\ vote \in Int
              /\ Weighing(e, WeightsFor(x.p, side)) =>
                   IsMean(vote, SaidOf(Ballot(leg, side, x.p), FinalWeights(x.p, e, leg, side)))
<1> DEFINE e == Enhancements(x.p)
           weights == FinalWeights(x.p, e, leg, side)
           ballot == Ballot(leg, side, x.p)
<1>1. IsWeights(weights) /\ (Weighing(e, WeightsFor(x.p, side)) => NoneBelowZero(weights))
  BY FinalWeightsTypes
<1>2. \A h \in Heuristics : ballot[h] \in Int
  BY BallotNumbers
<1>3. LegVote(x.p, e, leg, side) = MeanVote(ballot, weights)
  BY DEF LegVote
<1> HIDE DEF e, weights, ballot
<1>4. /\ MeanVote(ballot, weights) \in Int
      /\ NoneBelowZero(weights) => IsMean(MeanVote(ballot, weights), SaidOf(ballot, weights))
  BY <1>1, <1>2, MeanVoteHolds
<1>. QED
  BY <1>1, <1>3, <1>4 DEF e, weights, ballot

-----------------------------------------------------------------------------
(* HeuristicRules: rows *)

\* The directions an index or open interest takes.
LEMMA JointIsNumber ==
    ASSUME NEW e, Tuned(e), NEW side, NEW c, NEW d, NEW flat, NEW flatter
    PROVE  JointMult(e, side, Towards(c, flat), Towards(d, flatter)) \in Int
<1> DEFINE ways == {"up", "down", "flat"}
<1>1. Towards(c, flat) \in ways /\ Towards(d, flatter) \in ways
  BY DEF Towards
<1>2. \A a \in ways : Opposite[a] \in ways
  BY DEF Opposite
<1>3. \A a, b \in ways : JointTable[a][b] \in Int
  BY DEF JointTable
<1>4. e.jointMin \in Int /\ e.jointMax \in Int
  BY DEF Tuned
<1>. QED
  BY <1>1, <1>2, <1>3, <1>4 DEF JointMult, Higher, Lower

\* The cap of a cell is a number.
LEMMA CapsAreNumbers ==
    ASSUME NEW e, Tuned(e), NEW where, NEW when
    PROVE  Cell(e, where, when).cap \in Int
<1>1. DefaultCell(where, when).cap \in Int
  BY DEF DefaultCell, NoCap, Missing
<1>. QED
  BY <1>1 DEF Cell, Tuned

\* The multipliers leave a number, which the cap bounds if there is one.
LEMMA EnhancedVoteHolds ==
    ASSUME NEW m, NEW e, Tuned(e), NEW leg, NEW k, NEW side, NEW vote \in Int
    PROVE  /\ EnhancedVote(m, e, leg, k, side, vote) \in Int
           /\ e.enabled /\ CellOf(m, e, k).cap # NoCap =>
                EnhancedVote(m, e, leg, k, side, vote) <= CellOf(m, e, k).cap
<1> DEFINE joint == JointMult(e, side, Towards(m.change, e.flatSpot),
                              Towards(leg.oiChg, e.flatOi))
           churn == ChurnMult(e, leg)
           cap == CellOf(m, e, k).cap
           churned == Nearest(Nearest(vote * joint, 10) * churn, 100)
<1>1. joint \in Int
  BY JointIsNumber
<1>2. churn \in Int
  BY DEF ChurnMult, Tuned
<1>3. cap \in Int
  BY CapsAreNumbers DEF CellOf
<1>4. EnhancedVote(m, e, leg, k, side, vote) =
        IF e.enabled THEN Nearest(UnderCap(churned, cap), 10) ELSE vote
  BY DEF EnhancedVote
<1> HIDE DEF joint, churn, cap
<1>5. churned \in Int
  <2>1. vote * joint \in Int
    BY <1>1
  <2>2. Nearest(vote * joint, 10) \in Int
    BY <2>1, NearestBounds
  <2>3. Nearest(vote * joint, 10) * churn \in Int
    BY <1>2, <2>2
  <2>. QED
    BY <2>3, NearestBounds
<1> HIDE DEF churned
<1>6. /\ UnderCap(churned, cap) \in Int
      /\ cap # NoCap => UnderCap(churned, cap) <= 10 * cap
  BY <1>3, <1>5 DEF UnderCap, Lower
<1>7. /\ Nearest(UnderCap(churned, cap), 10) \in Int
      /\ cap # NoCap => Nearest(UnderCap(churned, cap), 10) <= cap
  BY <1>3, <1>6, NearestBounds
<1>. QED
  BY <1>4, <1>7 DEF cap

\* What is on the screen is a number.
LEMMA ShownHolds ==
    ASSUME NEW p, p.scoreMax \in Int, NEW vote \in Int, NEW bonus
    PROVE  Shown(p, vote, bonus) \in Int
  BY DEF Shown, Lower, Higher

\* A row of a pass is one of a leg that the pass lets through.
LEMMA RowOfLeg ==
    ASSUME NEW x \in Polls, NEW relaxed,
           NEW r \in RowsOf(x.p, x.market, Enhancements(x.p),
                            Polled(x.p, x.market, Enhancements(x.p)), relaxed)
    PROVE  LET p == x.p
               m == x.market
               e == Enhancements(p)
               leg == m.chain[r.k][r.side]
               vote == LegVote(p, e, leg, r.side)
               seen == EnhancedVote(m, e, leg, r.k, r.side, vote)
           IN /\ r.k \in DOMAIN m.chain /\ r.side \in Sides /\ Size(r.k) <= p.maxOtm
              /\ r.score = Shown(p, seen, VolumeBonus(leg.ratio))
              /\ r.sig = (~relaxed /\ Verdict(p, m, e, r.k, r.side, seen, r.score))
              /\ relaxed \/ Liquid(p, leg)
              /\ e.enabled => /\ GateOpen(e, r.side, m.change)
                              /\ NearEnough(e, StrikeOf(m, r.k), m.spot, vote)
<1> DEFINE p == x.p
           m == x.market
           e == Enhancements(p)
<1> HIDE DEF p, m, e
<1>1. PICK l \in Passed(p, m, e, Polled(p, m, e), relaxed) : r = VotedRow(p, m, e, l, relaxed)
  BY DEF RowsOf, p, m, e
<1>2. l \in Polled(p, m, e)
  BY <1>1 DEF Passed
<1>3. PICK k \in {k \in DOMAIN m.chain : Size(k) <= p.maxOtm}, side \in Sides :
        l = [k |-> k, side |-> side, vote |-> LegVote(p, e, m.chain[k][side], side)]
  BY <1>2 DEF Polled
<1>4. l.k = k /\ l.side = side /\ l.vote = LegVote(p, e, m.chain[k][side], side)
  BY <1>3
<1>5. /\ r.k = k /\ r.side = side
      /\ r.score = Shown(p, EnhancedVote(m, e, m.chain[k][side], k, side, l.vote),
                         VolumeBonus(m.chain[k][side].ratio))
      /\ r.sig = (~relaxed /\ Verdict(p, m, e, k, side,
                    EnhancedVote(m, e, m.chain[k][side], k, side, l.vote), r.score))
  BY <1>1, <1>4 DEF VotedRow, RowWith
<1>6. /\ relaxed \/ Liquid(p, m.chain[k][side])
      /\ e.enabled => /\ GateOpen(e, side, m.change)
                      /\ NearEnough(e, StrikeOf(m, k), m.spot, l.vote)
  BY <1>1, <1>4 DEF Passed
<1>. QED
  BY <1>3, <1>4, <1>5, <1>6 DEF p, m, e

-----------------------------------------------------------------------------
(* HeuristicRules: the best of a side *)

Better(q, r) == q.score > r.score \/ (q.score = r.score /\ q.k < r.k)
Best(S, r) == \A q \in S : \/ q.score < r.score
                           \/ q.score = r.score /\ q.k >= r.k

\* Rows of finitely many strikes, each of which has one score on each side.
Ranked(S, K) ==
    /\ IsFiniteSet(K) /\ K \subseteq Int
    /\ \A r \in S : r.score \in Int /\ r.k \in K
    /\ \A q, r \in S : (q.side = r.side /\ q.k = r.k) => q.score = r.score

\* Of the rows of one side one is the best: that which the fewest strikes are ahead of.
LEMMA BestExists ==
    ASSUME NEW S, S # {}, NEW K, Ranked(S, K), \A q, r \in S : q.side = r.side
    PROVE  \E r \in S : Best(S, r)
<1> DEFINE ahead(r) == {k \in K : \E q \in S : q.k = k /\ Better(q, r)}
           sizes == {n \in Nat : \E r \in S : n = Cardinality(ahead(r))}
<1>1. \A r \in S : r.score \in Int /\ r.k \in Int /\ r.k \in K
  BY DEF Ranked
<1>2. \A q, r \in S : q.k = r.k => q.score = r.score
  BY DEF Ranked
<1>3. ASSUME NEW r \in S
      PROVE  IsFiniteSet(ahead(r)) /\ Cardinality(ahead(r)) \in Nat
  <2>1. IsFiniteSet(K) /\ ahead(r) \in SUBSET K
    BY DEF Ranked
  <2> HIDE DEF ahead
  <2>2. IsFiniteSet(ahead(r))
    BY <2>1, FS_Subset
  <2>. QED
    BY <2>2, FS_CardinalityType
<1>4. sizes \subseteq Nat /\ sizes # {}
  <2>1. PICK r \in S : TRUE
    OBVIOUS
  <2>2. Cardinality(ahead(r)) \in sizes
    BY <1>3, <2>1
  <2>. QED
    BY <2>2
<1>5. PICK n \in sizes : \A j \in sizes : n <= j
  BY <1>4, LeastNatural
<1>6. PICK r \in S : n = Cardinality(ahead(r))
  BY <1>5
<1>7. ASSUME NEW q \in S, Better(q, r)
      PROVE  FALSE
  <2>1. ahead(q) \subseteq ahead(r)
    BY <1>1, <1>6, <1>7 DEF Better
  <2>2. q.k \in ahead(r)
    BY <1>1, <1>7
  <2>3. q.k \notin ahead(q)
    BY <1>1, <1>2 DEF Better
  <2>4. Cardinality(ahead(q)) \in sizes
    BY <1>3, <1>7
  <2>5. n <= Cardinality(ahead(q))
    BY <1>5, <2>4
  <2>6. /\ IsFiniteSet(ahead(r)) /\ Cardinality(ahead(r)) = n
        /\ n \in Nat /\ Cardinality(ahead(q)) \in Nat
    BY <1>3, <1>4, <1>5, <1>6, <1>7
  <2> HIDE DEF ahead, sizes
  <2>7. /\ Cardinality(ahead(q)) <= Cardinality(ahead(r))
        /\ Cardinality(ahead(r)) = Cardinality(ahead(q)) => ahead(r) = ahead(q)
    BY <2>1, <2>6, FS_Subset
  <2>. QED
    BY <2>2, <2>3, <2>5, <2>6, <2>7
<1>8. Best(S, r)
  BY <1>1, <1>6, <1>7 DEF Best, Better
<1>. QED
  BY <1>6, <1>8

\* At most the best of a side is taken, and it is clear of the others.
LEMMA BestOfHolds ==
    ASSUME NEW e, Tuned(e), NEW S, NEW K, Ranked(S, K), \A q, r \in S : q.side = r.side,
           NEW r \in BestOf(e, S)
    PROVE  /\ r \in S /\ BestOf(e, S) = {r}
           /\ \A q \in S : q.k # r.k => r.score - q.score >= e.minGap
<1> DEFINE top == CHOOSE t \in S : Best(S, t)
<1>1. BestOf(e, S) = IF S # {} /\ Clear(e, S, top) THEN {top} ELSE {}
  BY Zenon DEF BestOf, Best
<1>2. S # {} /\ Clear(e, S, top) /\ r = top /\ BestOf(e, S) = {r}
  BY <1>1
<1>3. \E t \in S : Best(S, t)
  BY <1>2, BestExists
<1>4. r \in S /\ Best(S, r)
  BY <1>2, <1>3
<1> HIDE DEF top
<1>5. Clear(e, S, r)
  BY <1>2
<1>6. ASSUME NEW q \in S, q.k # r.k
      PROVE  r.score - q.score >= e.minGap
  <2>1. q.score \in Int /\ r.score \in Int /\ e.minGap \in Int
    BY <1>4 DEF Tuned, Ranked
  <2>2. CASE e.minGap > 0
    BY <1>5, <1>6, <2>2 DEF Clear
  <2>3. CASE ~(e.minGap > 0)
    <3>1. q.score <= r.score
      BY <1>4, <2>1 DEF Best
    <3>. QED
      BY <2>1, <2>3, <3>1
  <2>. QED
    BY <2>2, <2>3
<1>. QED
  BY <1>2, <1>4, <1>6

\* The rows of a poll are of the strikes near the money.
LEMMA RowsRanked ==
    ASSUME NEW x \in Polls, NEW relaxed
    PROVE  \E K : Ranked(RowsOf(x.p, x.market, Enhancements(x.p),
                                Polled(x.p, x.market, Enhancements(x.p)), relaxed), K)
<1> DEFINE p == x.p
           m == x.market
           e == Enhancements(p)
           rows == RowsOf(p, m, e, Polled(p, m, e), relaxed)
           scoreAt(k, side) ==
             Shown(p, EnhancedVote(m, e, m.chain[k][side], k, side,
                                   LegVote(p, e, m.chain[k][side], side)),
                   VolumeBonus(m.chain[k][side].ratio))
           K == {k \in DOMAIN m.chain : Size(k) <= p.maxOtm}
<1>1. IsPoll(x) /\ Tuned(e)
  BY PollAssumption, EnhancementsTuned DEF IsPoll
<1>2. p.maxOtm \in Int /\ p.scoreMax \in Int /\ DOMAIN m.chain \subseteq Int
  BY <1>1 DEF IsPoll
<1>3. ASSUME NEW r \in rows
      PROVE  r.score \in Int /\ r.k \in K /\ r.score = scoreAt(r.k, r.side)
  <2> DEFINE leg == m.chain[r.k][r.side]
             vote == LegVote(p, e, leg, r.side)
             seen == EnhancedVote(m, e, leg, r.k, r.side, vote)
  <2>1. /\ r.k \in DOMAIN m.chain /\ r.side \in Sides /\ Size(r.k) <= p.maxOtm
        /\ r.score = Shown(p, seen, VolumeBonus(leg.ratio))
    BY RowOfLeg
  <2>2. vote \in Int
    BY <2>1, LegVoteHolds
  <2>3. seen \in Int
    BY <1>1, <2>2, EnhancedVoteHolds
  <2>4. r.score \in Int
    <3> HIDE DEF p, m, e, seen
    <3>. QED
      BY <1>2, <2>1, <2>3, ShownHolds
  <2>. QED
    BY <2>1, <2>4
<1>4. IsFiniteSet(K) /\ K \subseteq Int
  <2>1. K \in SUBSET (-p.maxOtm .. p.maxOtm)
    BY <1>2 DEF Size
  <2>2. IsFiniteSet(-p.maxOtm .. p.maxOtm)
    BY <1>2, FS_Interval
  <2>3. K \subseteq Int
    BY <1>2
  <2> HIDE DEF p, m, K
  <2>. QED
    BY <2>1, <2>2, <2>3, FS_Subset
<1> HIDE DEF rows, scoreAt, K
<1>5. \A q, r \in rows : (q.side = r.side /\ q.k = r.k) => q.score = r.score
  BY <1>3
<1>6. Ranked(rows, K)
  BY <1>3, <1>4, <1>5 DEF Ranked
<1>. QED
  BY <1>6 DEF rows

\* With the enhancements, what is kept are signals, one of a side at most, clear of the
\* others of their side, and of both sides only where neither leads.
LEMMA SelectedHolds ==
    ASSUME NEW e, Tuned(e), NEW rows, NEW K, Ranked(rows, K)
    PROVE  /\ \A r \in Selected(e, rows) :
                /\ r \in rows /\ r.sig
                /\ \A q \in rows : (q.sig /\ q.side = r.side /\ q.k # r.k)
                                     => r.score - q.score >= e.minGap
           /\ \A r, q \in Selected(e, rows) : r # q =>
                r.side # q.side /\ (e.single => Size(r.score - q.score) < e.minSpread)
<1> DEFINE of(side) == {r \in rows : r.sig /\ r.side = side}
           calls == BestOf(e, of("call"))
           puts == BestOf(e, of("put"))
<1>1. ASSUME NEW side, NEW r \in BestOf(e, of(side))
      PROVE  /\ r \in of(side) /\ BestOf(e, of(side)) = {r}
             /\ \A q \in of(side) : q.k # r.k => r.score - q.score >= e.minGap
  <2>1. Ranked(of(side), K) /\ \A q, t \in of(side) : q.side = t.side
    BY DEF Ranked
  <2> HIDE DEF of
  <2>. QED
    BY <1>1, <2>1, BestOfHolds
<1>2. Selected(e, rows) = OneDirection(e, calls, puts)
  BY DEF Selected
<1>3. OneDirection(e, calls, puts) \subseteq calls \cup puts
  BY DEF OneDirection
<1>4. ASSUME NEW r \in calls \cup puts
      PROVE  /\ r \in rows /\ r.sig /\ r.side \in Sides
             /\ \A q \in rows : (q.sig /\ q.side = r.side /\ q.k # r.k)
                                  => r.score - q.score >= e.minGap
  <2>1. PICK side \in Sides : r \in BestOf(e, of(side))
    BY DEF Sides
  <2>2. r \in of(side) /\ \A q \in of(side) : q.k # r.k => r.score - q.score >= e.minGap
    BY <1>1, <2>1
  <2>. QED
    BY <2>2
<1>5. ASSUME NEW r \in OneDirection(e, calls, puts), NEW q \in OneDirection(e, calls, puts),
             r # q
      PROVE  r.side # q.side /\ (e.single => Size(r.score - q.score) < e.minSpread)
  <2>1. \A s, t \in calls : s = t
    BY DEF BestOf
  <2>2. \A s, t \in puts : s = t
    BY DEF BestOf
  <2>3. (r \in calls /\ q \in puts) \/ (r \in puts /\ q \in calls)
    BY <1>3, <1>5, <2>1, <2>2
  <2>4. (\A s \in calls : s.side = "call") /\ (\A t \in puts : t.side = "put")
    BY <1>1
  <2>5. ASSUME e.single
        PROVE  \A s \in calls, t \in puts : /\ ~(s.score - t.score >= e.minSpread)
                                            /\ ~(t.score - s.score >= e.minSpread)
    <3> HIDE DEF calls, puts
    <3>. QED
      BY <1>5, <2>1, <2>2, <2>3, <2>5 DEF OneDirection
  <2>6. r.score \in Int /\ q.score \in Int /\ e.minSpread \in Int
    BY <1>3, <1>4 DEF Tuned, Ranked
  <2>7. r.side # q.side
    BY <2>3, <2>4
  <2>8. ASSUME e.single PROVE Size(r.score - q.score) < e.minSpread
    <3>1. ~(r.score - q.score >= e.minSpread) /\ ~(q.score - r.score >= e.minSpread)
      BY <2>3, <2>5, <2>8
    <3>. QED
      BY <2>6, <3>1 DEF Size
  <2>. QED
    BY <2>7, <2>8
<1>. QED
  BY <1>2, <1>3, <1>4, <1>5

\* A row that signals earned it, the others of its side left aside.
LEMMA SignalEarned ==
    ASSUME NEW x \in Polls, NEW relaxed,
           NEW r \in RowsOf(x.p, x.market, Enhancements(x.p),
                            Polled(x.p, x.market, Enhancements(x.p)), relaxed),
           r.sig
    PROVE  LET p == x.p
               m == x.market
               e == Enhancements(p)
               leg == m.chain[r.k][r.side]
               vote == LegVote(p, e, leg, r.side)
           IN /\ ~relaxed
              /\ (e.enabled => \A q \in Rivals(p, m, e, r) :
                                 q.sig => r.score - q.score >= e.minGap)
                   => Earned(p, m, e, r, leg, vote, CellOf(m, e, r.k))
<1> DEFINE p == x.p
           m == x.market
           e == Enhancements(p)
           leg == m.chain[r.k][r.side]
           vote == LegVote(p, e, leg, r.side)
           seen == EnhancedVote(m, e, leg, r.k, r.side, vote)
           bar == ThresholdOf(p, e, r.side)
           cell == CellOf(m, e, r.k)
<1>1. IsPoll(x) /\ Tuned(e)
  BY PollAssumption, EnhancementsTuned DEF IsPoll
<1>2. /\ r.side \in Sides
      /\ r.sig = (~relaxed /\ Verdict(p, m, e, r.k, r.side, seen, r.score))
      /\ relaxed \/ Liquid(p, leg)
      /\ e.enabled => /\ GateOpen(e, r.side, m.change)
                      /\ NearEnough(e, StrikeOf(m, r.k), m.spot, vote)
  BY RowOfLeg
<1>3. bar \in Int
  BY <1>1, <1>2 DEF IsPoll, ThresholdOf
<1>4. vote \in Int
  BY <1>2, LegVoteHolds
<1>5. seen \in Int /\ (e.enabled /\ cell.cap # NoCap => seen <= cell.cap)
  BY <1>1, <1>4, EnhancedVoteHolds
<1>6. cell.cap \in Int
  BY <1>1, CapsAreNumbers DEF CellOf
<1>7. ~relaxed /\ Liquid(p, leg) /\ seen >= bar /\ (e.enabled => cell.ok)
  BY <1>2 DEF Verdict
<1> HIDE DEF p, m, e, leg, vote, seen, bar, cell
<1>8. e.enabled /\ cell.cap # NoCap => cell.cap >= bar
  BY <1>3, <1>5, <1>6, <1>7
<1>9. e.enabled =>
        /\ Within(StrikeOf(m, r.k), m.spot, e.maxMoneyness) \/ vote >= e.overrideMin
        /\ (r.side = "call" /\ e.ceNotDown /\ m.change # Missing) => m.change >= -e.gateBand
        /\ (r.side = "put" /\ e.peNotUp /\ m.change # Missing) => m.change <= e.gateBand
  BY <1>2 DEF NearEnough, GateOpen
<1>. QED
  BY <1>7, <1>8, <1>9 DEF Earned, p, m, e, leg, vote, seen, bar, cell

-----------------------------------------------------------------------------
(* HeuristicRules: a refresh *)

\* The votes are those of one poll.
VoteInv == poll \in Polls /\ (votes # NotVoted => votes = VotesFor(poll.p, poll.market))

LEMMA VoteInvariant == VoteSpec => []VoteInv
<1>1. VoteInit => VoteInv
  BY DEF VoteInit, VoteInv
<1>2. VoteInv /\ [Vote]_voteVars => VoteInv'
  BY DEF VoteInv, Vote, voteVars
<1>. QED
  BY <1>1, <1>2, PTL DEF VoteSpec

\* What a refresh offers: rows of its first pass, as the enhancements keep them, or
\* without enhancements rows of either pass.
LEMMA VotesAreRows ==
    ASSUME NEW p, NEW m
    PROVE  LET e == Enhancements(p)
               rows(relaxed) == RowsOf(p, m, e, Polled(p, m, e), relaxed)
               offered == VotesFor(p, m)
           IN IF e.enabled
                THEN offered = Selected(e, rows(FALSE)) \/ offered = Selected(e, rows(TRUE))
                ELSE offered = rows(FALSE) \/ offered = rows(TRUE)
  BY DEF VotesFor, VotesWith, OrRelaxed, Kept

\* Signals stand out by their own merits, whatever the market and the strategy's
\* parameters are (score_leg, apply_moneyness_dte_rules, select_best_per_side).
THEOREM SignalsStandOutHolds == VoteSpec => []SignalsStandOut
<1>1. ASSUME VoteInv, votes # NotVoted
      PROVE  StandsOut(poll.p, poll.market, Enhancements(poll.p))
  <2> DEFINE p == poll.p
             m == poll.market
             e == Enhancements(p)
             rows(relaxed) == RowsOf(p, m, e, Polled(p, m, e), relaxed)
             legOf(r) == m.chain[r.k][r.side]
  <2>1. poll \in Polls /\ Tuned(e)
    BY <1>1, PollAssumption, EnhancementsTuned DEF VoteInv, IsPoll
  <2>2. ASSUME NEW x \in Polled(p, m, e), Weighing(e, WeightsFor(p, x.side))
        PROVE  IsMean(x.vote, SaidOf(Ballot(legOf(x), x.side, p),
                                     FinalWeights(p, e, legOf(x), x.side)))
    <3>1. PICK k \in {k \in DOMAIN m.chain : Size(k) <= p.maxOtm}, side \in Sides :
            x = [k |-> k, side |-> side, vote |-> LegVote(p, e, m.chain[k][side], side)]
      BY <2>2 DEF Polled
    <3>2. x.side \in Sides /\ x.vote = LegVote(p, e, legOf(x), x.side)
      BY <3>1
    <3>. QED
      BY <2>1, <2>2, <3>2, LegVoteHolds
  <2>3. IF e.enabled
          THEN votes = Selected(e, rows(FALSE)) \/ votes = Selected(e, rows(TRUE))
          ELSE votes = rows(FALSE) \/ votes = rows(TRUE)
    BY <1>1, VotesAreRows DEF VoteInv
  <2>4. ASSUME e.enabled, NEW relaxed, votes = Selected(e, rows(relaxed))
        PROVE  /\ \A r \in votes :
                    /\ r \in rows(relaxed) /\ r.sig
                    /\ \A q \in rows(relaxed) : (q.sig /\ q.side = r.side /\ q.k # r.k)
                                                   => r.score - q.score >= e.minGap
               /\ \A r, q \in votes : r # q =>
                    r.side # q.side /\ (e.single => Size(r.score - q.score) < e.minSpread)
    <3>1. PICK K : Ranked(rows(relaxed), K)
      BY <2>1, RowsRanked
    <3> HIDE DEF p, m, e, rows
    <3>. QED
      BY <2>1, <2>4, <3>1, SelectedHolds
  <2>5. ASSUME NEW relaxed, NEW r \in rows(relaxed), r.sig
        PROVE  /\ ~relaxed
               /\ (e.enabled => \A q \in Rivals(p, m, e, r) :
                                  q.sig => r.score - q.score >= e.minGap)
                    => Earned(p, m, e, r, legOf(r), LegVote(p, e, legOf(r), r.side),
                              CellOf(m, e, r.k))
    BY <2>1, <2>5, SignalEarned
  <2>6. ASSUME NEW r \in votes, r.sig
        PROVE  Earned(p, m, e, r, legOf(r), LegVote(p, e, legOf(r), r.side), CellOf(m, e, r.k))
    <3>1. CASE ~e.enabled
      <4>1. PICK relaxed \in BOOLEAN : r \in rows(relaxed)
        BY <2>3, <2>6, <3>1
      <4>. QED
        BY <2>5, <2>6, <3>1, <4>1
    <3>2. CASE e.enabled
      <4>1. PICK relaxed \in BOOLEAN : votes = Selected(e, rows(relaxed))
        BY <2>3, <3>2
      <4>2. /\ r \in rows(relaxed)
            /\ \A q \in rows(relaxed) : (q.sig /\ q.side = r.side /\ q.k # r.k)
                                           => r.score - q.score >= e.minGap
        BY <2>4, <3>2, <4>1
      <4>3. ~relaxed
        BY <2>5, <2>6, <4>2
      <4>4. relaxed = FALSE
        BY <4>1, <4>3
      <4>5. \A q \in Rivals(p, m, e, r) : q.sig => r.score - q.score >= e.minGap
        <5>1. \A q \in Rivals(p, m, e, r) : q \in rows(FALSE) /\ q.side = r.side /\ q.k # r.k
          BY DEF Rivals
        <5> HIDE DEF rows
        <5>. QED
          BY <4>2, <4>4, <5>1
      <4>. QED
        BY <2>5, <2>6, <4>2, <4>5
    <3>. QED
      BY <3>1, <3>2
  <2>7. ASSUME e.enabled
        PROVE  /\ \A r \in votes : r.sig
               /\ \A r, q \in votes : r # q =>
                    r.side # q.side /\ (e.single => Size(r.score - q.score) < e.minSpread)
    <3>1. PICK relaxed \in BOOLEAN : votes = Selected(e, rows(relaxed))
      BY <2>3, <2>7
    <3> HIDE DEF p, m, e, rows
    <3>. QED
      BY <2>4, <2>7, <3>1
  <2>. QED
    BY <2>2, <2>6, <2>7 DEF StandsOut
<1>2. VoteInv => SignalsStandOut
  BY <1>1 DEF SignalsStandOut
<1>. QED
  BY <1>2, VoteInvariant, PTL
=============================================================================
