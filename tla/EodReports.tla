------------------------------ MODULE EodReports -------------------------------
(***************************************************************************)
(* The end-of-day report rows and the chain snapshots of the open trades:  *)
(* strategy_eod_report_service, trade_chain_snapshot_service and the task  *)
(* that every cycle of the auto-execute loop starts for them.              *)
(*                                                                         *)
(* Within a day the clock stands at hour 0 until 15:25 and then at one     *)
(* hour after the other.  A report row of a strategy and a day is the set  *)
(* of trades its aggregates were computed from: the sums, the rates, the   *)
(* exit reasons and the suggestions follow from that set.                  *)
(***************************************************************************)
EXTENDS Integers, FiniteSets

CONSTANTS
    ClosedTrades,    \* trades, closed during the run of the model
    PlanOf,          \* the strategy of each trade
    HourlyRuns,      \* maintenance tasks of the loop
    AdminRuns,       \* POST /strategy-eod-reports/run
    Samplers,        \* tasks that may run a sample cycle
    LastHour, FinalDay   \* bounds on the clock

Runs == HourlyRuns \cup AdminRuns
NoRun == "none"

\* The maintenance tasks and the requests of admins are different tasks.
ASSUME EodAssumption ==
    /\ LastHour \in Nat \ {0} /\ FinalDay \in Nat \ {0}
    /\ HourlyRuns \cap AdminRuns = {} /\ NoRun \notin Runs

VARIABLES
    clock,           \* day and hour, IST
    exit,            \* day and hour each trade was closed at, NotYet before
    report,          \* rows of s004_strategy_eod_reports by day and strategy
    marker,          \* _LAST_EOD_UPSERT_IST
    eodHolder,       \* _EOD_RUN_LOCK
    run,             \* what each run of the report is doing
    sampler,         \* what each sample cycle is doing: the trades it has yet to write
    late,            \* history: samples of a trade written after its exit
    undercut         \* history: rows that an admin's run wrote from an older read

eodVars == <<clock, exit, report, marker, eodHolder, run, sampler, late,
             undercut>>

Days == 1..FinalDay
Clocks == [day : Days, hour : 0..LastHour]
Plans == {PlanOf[t] : t \in ClosedTrades}
NotYet == [day |-> 0, hour |-> 0]

RestingRun == [stage |-> "idle"]
RunStates == [stage : {"wait", "read", "write"}, at : Clocks,
              rows : SUBSET ClosedTrades, left : SUBSET Plans]
NoSample == [stage |-> "idle"]
SampleStates == [stage : {"insert"}, left : SUBSET ClosedTrades]

Open == {t \in ClosedTrades : exit[t] = NotYet}
ClosedOn(d) == {t \in ClosedTrades : exit[t].day = d}

EodInit ==
    /\ clock = [day |-> 1, hour |-> 0]
    /\ exit = [t \in ClosedTrades |-> NotYet]
    /\ report = [d \in Days |-> [s \in Plans |-> {}]]
    /\ marker = NotYet
    /\ eodHolder = NoRun
    /\ run = [r \in Runs |-> RestingRun]
    /\ sampler = [k \in Samplers |-> NoSample]
    /\ late = [t \in ClosedTrades |-> 0]
    /\ undercut = {}

-----------------------------------------------------------------------------
(* Time and trades *)

Tick ==
    /\ \/ clock.hour < LastHour /\ clock' = [clock EXCEPT !.hour = @ + 1]
       \/ clock.day < FinalDay /\ clock' = [day |-> clock.day + 1, hour |-> 0]
    /\ UNCHANGED <<exit, report, marker, eodHolder, run, sampler, late, undercut>>

\* A trade is closed (PositionMonitor).
CloseTrade(t) ==
    /\ t \in Open
    /\ exit' = [exit EXCEPT ![t] = clock]
    /\ UNCHANGED <<clock, report, marker, eodHolder, run, sampler, late, undercut>>

-----------------------------------------------------------------------------
(* run_strategy_eod_for_ist_date *)

RunAt(r, stage) == run[r] # RestingRun /\ run[r].stage = stage

\* maybe_run_strategy_eod_reports up to the lock: nothing before 15:25.
StartHourly(r) ==
    /\ run[r] = RestingRun
    /\ clock.hour > 0
    /\ run' = [run EXCEPT ![r] = [stage |-> "wait", at |-> clock, rows |-> {},
                                  left |-> {}]]
    /\ UNCHANGED <<clock, exit, report, marker, eodHolder, sampler, late, undercut>>

\* Mutant of EnterHourly: the hour is marked before the rows are written.
EnterHourlyMarked(r) ==
    /\ RunAt(r, "wait")
    /\ eodHolder = NoRun
    /\ IF marker = run[r].at
         THEN run' = [run EXCEPT ![r] = RestingRun] /\ UNCHANGED <<eodHolder, marker>>
         ELSE /\ run' = [run EXCEPT ![r].stage = "read"] /\ eodHolder' = r
              /\ marker' = run[r].at
    /\ UNCHANGED <<clock, exit, report, sampler, late, undercut>>

\* The lock is free; the hour it was started in may have been done meanwhile.
EnterHourly(r) ==
    /\ RunAt(r, "wait")
    /\ eodHolder = NoRun
    /\ IF marker = run[r].at
         THEN run' = [run EXCEPT ![r] = RestingRun] /\ UNCHANGED eodHolder
         ELSE run' = [run EXCEPT ![r].stage = "read"] /\ eodHolder' = r
    /\ UNCHANGED <<clock, exit, report, marker, sampler, late, undercut>>

\* An admin recomputes the report of a day: no lock, no marker.
StartAdmin(r, d) ==
    /\ run[r] = RestingRun
    /\ run' = [run EXCEPT ![r] = [stage |-> "read", at |-> [day |-> d, hour |-> 0],
                                  rows |-> {}, left |-> {}]]
    /\ UNCHANGED <<clock, exit, report, marker, eodHolder, sampler, late, undercut>>

\* The trades closed on the day; the average VIX of their entry snapshots is read next.
ReadClosed(r) ==
    LET closed == ClosedOn(run[r].at.day) IN
    /\ RunAt(r, "read")
    /\ run' = [run EXCEPT
                 ![r].stage = "write",
                 ![r].rows = closed,
                 ![r].left = {PlanOf[t] : t \in closed}]
    /\ UNCHANGED <<clock, exit, report, marker, eodHolder, sampler, late, undercut>>

\* One bucket: INSERT ... ON CONFLICT DO UPDATE.
UpsertReport(r, s) ==
    LET d == run[r].at.day
        rows == {t \in run[r].rows : PlanOf[t] = s}
        lost == ~(report[d][s] \subseteq rows) IN
    /\ RunAt(r, "write") /\ s \in run[r].left
    /\ report' = [report EXCEPT ![d] = [report[d] EXCEPT ![s] = rows]]
    /\ run' = [run EXCEPT ![r].left = @ \ {s}]
    /\ undercut' = IF r \in HourlyRuns THEN undercut \ {<<d, s>>}
                   ELSE IF lost THEN undercut \cup {<<d, s>>} ELSE undercut
    /\ UNCHANGED <<clock, exit, marker, eodHolder, sampler, late>>

\* All buckets are written: the hour is done.
FinishHourly(r) ==
    /\ RunAt(r, "write") /\ run[r].left = {} /\ r \in HourlyRuns
    /\ marker' = run[r].at
    /\ eodHolder' = NoRun
    /\ run' = [run EXCEPT ![r] = RestingRun]
    /\ UNCHANGED <<clock, exit, report, sampler, late, undercut>>

\* An exception (the lock is released, the hour stays open), or the end of an admin's
\* request.
EndRun(r) ==
    /\ run[r].stage \in {"read", "write"}
    /\ run' = [run EXCEPT ![r] = RestingRun]
    /\ eodHolder' = IF eodHolder = r THEN NoRun ELSE eodHolder
    /\ UNCHANGED <<clock, exit, report, marker, sampler, late, undercut>>

-----------------------------------------------------------------------------
(* Sample cycles *)

\* schedule_chain_snapshot_sample_cycle: the task of the previous cycle has ended.
PreviousDone == \A x \in Samplers : sampler[x] = NoSample

\* Mutant of StartSample: the task of the previous cycle is not looked at.
StartSampleAnyway(k) ==
    /\ sampler[k] = NoSample
    /\ Open # {}
    /\ sampler' = [sampler EXCEPT ![k] = [stage |-> "insert", left |-> Open]]
    /\ UNCHANGED <<clock, exit, report, marker, eodHolder, run, late, undercut>>

\* run_chain_snapshot_sample_cycle reads the open trades.
StartSample(k) ==
    /\ PreviousDone
    /\ Open # {}
    /\ sampler' = [sampler EXCEPT ![k] = [stage |-> "insert", left |-> Open]]
    /\ UNCHANGED <<clock, exit, report, marker, eodHolder, run, late, undercut>>

\* One row is written, or skipped (no session, no chain, an exception).
InsertSample(k, t) ==
    /\ sampler[k] # NoSample /\ t \in sampler[k].left
    /\ sampler' = [sampler EXCEPT ![k] =
                     IF sampler[k].left = {t} THEN NoSample
                     ELSE [sampler[k] EXCEPT !.left = @ \ {t}]]
    /\ \/ late' = [late EXCEPT ![t] = IF t \in Open THEN @ ELSE @ + 1]
       \/ UNCHANGED late
    /\ UNCHANGED <<clock, exit, report, marker, eodHolder, run, undercut>>

\* The process is restarted: tasks, lock and marker are gone, the rows stay.
RestartServer ==
    /\ run' = [r \in Runs |-> RestingRun]
    /\ sampler' = [k \in Samplers |-> NoSample]
    /\ eodHolder' = NoRun
    /\ marker' = NotYet
    /\ UNCHANGED <<clock, exit, report, late, undercut>>

EodNext ==
    \/ Tick \/ RestartServer
    \/ \E t \in ClosedTrades : CloseTrade(t)
    \/ \E r \in HourlyRuns : StartHourly(r) \/ EnterHourly(r) \/ FinishHourly(r)
    \/ \E r \in AdminRuns, d \in Days : StartAdmin(r, d)
    \/ \E r \in Runs :
         ReadClosed(r) \/ EndRun(r) \/ \E s \in Plans : UpsertReport(r, s)
    \/ \E k \in Samplers :
         StartSample(k) \/ \E t \in ClosedTrades : InsertSample(k, t)

EodSpec == EodInit /\ [][EodNext]_eodVars

-----------------------------------------------------------------------------
(* Properties *)

\* Every variable keeps its shape.
EodTypeOK ==
    /\ clock \in Clocks
    /\ exit \in [ClosedTrades -> Clocks \cup {NotYet}]
    /\ report \in [Days -> [Plans -> SUBSET ClosedTrades]]
    /\ marker \in Clocks \cup {NotYet}
    /\ eodHolder \in HourlyRuns \cup {NoRun}
    /\ run \in [Runs -> {RestingRun} \cup RunStates]
    /\ sampler \in [Samplers -> {NoSample} \cup SampleStates]
    /\ late \in [ClosedTrades -> Nat]
    /\ undercut \subseteq Days \X Plans

\* An hour that is marked as done is done: every trade that was closed before that hour
\* began is in the day's report, though runs fail half-way, wait for the lock past the
\* hour they were started in, or cross midnight.  Only an admin's recompute, which
\* takes no lock, can put an older aggregate over a newer one.
MarkedHourIsDone ==
    marker # NotYet =>
        \A t \in ClosedOn(marker.day) :
            exit[t].hour < marker.hour =>
                \/ t \in report[marker.day][PlanOf[t]]
                \/ <<marker.day, PlanOf[t]>> \in undercut

\* A cycle that read a trade as open may write its sample after the trade's exit, but
\* only one does: the next cycle starts when it has ended.
OneLateSample == \A t \in ClosedTrades : late[t] <= 1
=============================================================================
