------------------------------ MODULE AutoExecute ------------------------------
(***************************************************************************)
(* trades_service.run_auto_execute_cycle for one user, on top of           *)
(* TradeEntry: the loop is one of the tasks that run                       *)
(* execute_recommendation, the POST /execute handlers are the others.  The *)
(* cycle counts the open trades and the trades of the day once, each with  *)
(* a SELECT of its own, and then executes a batch on these counts.         *)
(*                                                                         *)
(* The settings max_parallel_trades and max_trades_day keep their value    *)
(* here; engine_running does not.                                          *)
(***************************************************************************)
EXTENDS TradeEntry, Naturals, FiniteSets

CONSTANTS
    Loop,          \* the task of the auto-execute loop
    MaxParallel,   \* max_parallel_trades
    MaxPerDay,     \* max_trades_day
    TradeModes,    \* the modes the user may choose
    LastDay        \* bound: IST days are 1 .. LastDay

ASSUME AutoAssumption ==
    /\ Loop \in Callers
    /\ MaxParallel \in Nat \ {0}
    /\ MaxPerDay \in Nat \ {0}
    /\ TradeModes \subseteq Modes
    /\ LastDay \in Nat \ {0}
    /\ IsFiniteSet(Refs) /\ IsFiniteSet(Recs)

VARIABLES
    engine,      \* engine_running of s004_user_master_settings
    day,         \* the current IST day
    openedOn,    \* the day in opened_at of each trade row, 0 without a row
    cycle,       \* the local variables of the cycle in progress
    afterStop    \* history: trades the loop has opened since engine_running
                 \* was last cleared

autoVars == <<engine, day, openedOn, cycle, afterStop>>
allVars == <<entryVars, autoVars>>

NoCycle == [pc |-> "idle"]
CycleStages == {"gates", "open", "today", "refresh", "symbols", "list", "batch"}
Cycle == [pc : CycleStages, mode : Modes, day : 1 .. LastDay,
          open : 0 .. MaxParallel - 1, taken : SUBSET Symbols, queue : SUBSET Recs]

OpenTrades == {t \in Refs : IsOpen(t)}
TradesOf(d) == {t \in Refs : openedOn[t] = d}

Step(pc) == cycle' = [cycle EXCEPT !.pc = pc]
Leave == cycle' = NoCycle
InCycle(pc) == cycle.pc = pc
KeepsEntry == UNCHANGED entryVars
KeepsRest == UNCHANGED <<engine, day, openedOn, afterStop>>

AutoInit ==
    /\ EntryInit
    /\ approved = Modes
    /\ engine \in BOOLEAN
    /\ day = 1
    /\ openedOn = [t \in Refs |-> 0]
    /\ cycle = NoCycle
    /\ afterStop = 0

-----------------------------------------------------------------------------
(* One iteration of the loop over the users with engine_running *)

\* Mutant of StartCycle: the WHERE engine_running = TRUE is gone.
StartCycleAnyway ==
    /\ cycle = NoCycle
    /\ \E m \in TradeModes :
         cycle' = [pc |-> "gates", mode |-> m, day |-> day, open |-> 0,
                   taken |-> {}, queue |-> {}]
    /\ KeepsEntry /\ KeepsRest

\* The settings row and the bounds of the IST day are read once, at the start.
StartCycle ==
    /\ cycle = NoCycle
    /\ engine
    /\ \E m \in TradeModes :
         cycle' = [pc |-> "gates", mode |-> m, day |-> day, open |-> 0,
                   taken |-> {}, queue |-> {}]
    /\ KeepsEntry /\ KeepsRest

\* The platform's pause, the trade window, the LIVE session and the daily limits
\* may stop the user's turn; so may an exception.
PassGates ==
    /\ InCycle("gates")
    /\ Step("open") \/ Leave
    /\ KeepsEntry /\ KeepsRest

CountOpen ==
    /\ InCycle("open")
    /\ LET n == Cardinality(OpenTrades) IN
         IF n >= MaxParallel
           THEN Leave
           ELSE cycle' = [cycle EXCEPT !.pc = "today", !.open = n]
    /\ KeepsEntry /\ KeepsRest

\* Mutant of CountToday: the count of the day is not looked at.
CountTodayIgnored ==
    /\ InCycle("today")
    /\ Step("refresh")
    /\ KeepsEntry /\ KeepsRest

CountToday ==
    /\ InCycle("today")
    /\ IF Cardinality(TradesOf(cycle.day)) >= MaxPerDay
         THEN Leave ELSE Step("refresh")
    /\ KeepsEntry /\ KeepsRest

\* ensure_recommendations and the audit: the rows change by Publish and Withdraw.
Refresh ==
    /\ InCycle("refresh")
    /\ Step("symbols") \/ Leave
    /\ KeepsEntry /\ KeepsRest

\* get_auto_execute_eligible_recommendations, first the symbols with an open
\* trade ...
ReadTaken ==
    /\ InCycle("symbols")
    /\ cycle' = [cycle EXCEPT !.pc = "list",
                              !.taken = {SymbolOfTrade(t) : t \in OpenTrades}]
    /\ KeepsEntry /\ KeepsRest

\* Mutant of ListEligible: the slice is eligible[: max_parallel].
ListEligibleWholeSlice ==
    /\ InCycle("list")
    /\ \E Q \in SUBSET {r \in Recs : rec[r] = "GENERATED"} :
         /\ \A r \in Q : SymbolOf[r] \notin cycle.taken
         /\ Cardinality(Q) <= MaxParallel
         /\ cycle' = [cycle EXCEPT !.pc = "batch", !.queue = Q]
    /\ KeepsEntry /\ KeepsRest

\* ... then the GENERATED rows: those that meet the bars of score, confidence and
\* delta (any of them may) and are not taken, the best
\* max_parallel - open_trades of them.
ListEligible ==
    /\ InCycle("list")
    /\ \E Q \in SUBSET {r \in Recs : rec[r] = "GENERATED"} :
         /\ \A r \in Q : SymbolOf[r] \notin cycle.taken
         /\ Cardinality(Q) + cycle.open <= MaxParallel
         /\ cycle' = [cycle EXCEPT !.pc = "batch", !.queue = Q]
    /\ KeepsEntry /\ KeepsRest

\* Mutant of ExecuteNext: the calls of the batch are not awaited.
ExecuteNextUnawaited ==
    /\ InCycle("batch")
    /\ \E r \in cycle.queue, t \in Refs :
         /\ Fresh(t)
         /\ call' = [call EXCEPT ![Loop] = [pc |-> "approval", rec |-> r,
                            mode |-> cycle.mode, ref |-> t, pending |-> FALSE]]
         /\ cycle' = [cycle EXCEPT !.queue = @ \ {r}]
    /\ UNCHANGED <<rec, trade, orderRows, entryEvents, filled, approved>>
    /\ KeepsRest

ExecuteNext ==
    /\ InCycle("batch")
    /\ \E r \in cycle.queue :
         /\ Begin(Loop, r, cycle.mode)
         /\ cycle' = [cycle EXCEPT !.queue = @ \ {r}]
    /\ KeepsRest

EndCycle ==
    /\ InCycle("batch")
    /\ cycle.queue = {}
    /\ call[Loop] = NoCall
    /\ Leave
    /\ KeepsEntry /\ KeepsRest

\* A step of a call in progress.  A new row gets NOW() as its opened_at; an
\* exception in the loop's call is logged and the batch goes on.
CallStep(c) ==
    /\ Execute(c) \/ Abort(c)
    /\ openedOn' = [t \in Refs |-> IF trade[t] = NoTrade /\ trade'[t] # NoTrade
                                     THEN day ELSE openedOn[t]]
    /\ afterStop' = IF c = Loop /\ ~engine /\ openedOn' # openedOn
                      THEN afterStop + 1 ELSE afterStop
    /\ UNCHANGED <<engine, day, cycle>>

\* The process stops: the cycle and all calls are gone.
StopProcess ==
    /\ Restart
    /\ Leave
    /\ KeepsRest

-----------------------------------------------------------------------------
(* Everyone else *)

ManualExecute ==
    /\ \E c \in Callers \ {Loop}, r \in Recs, m \in TradeModes : Begin(c, r, m)
    /\ KeepsRest /\ UNCHANGED cycle

\* The approvals stay as they are: a refusal for want of one is the same to the
\* rows as a refusal for risk.
OthersWrite ==
    /\ \/ \E r \in Recs : Publish(r) \/ Withdraw(r)
       \/ \E t \in Refs : Close(t)
    /\ KeepsRest /\ UNCHANGED cycle

\* PUT /dashboard/engine.
SetEngine ==
    /\ engine' = ~engine
    /\ afterStop' = 0
    /\ KeepsEntry
    /\ UNCHANGED <<day, openedOn, cycle>>

NextDay ==
    /\ day < LastDay
    /\ day' = day + 1
    /\ KeepsEntry
    /\ UNCHANGED <<engine, openedOn, cycle, afterStop>>

AutoStep ==
    \/ StartCycle \/ PassGates \/ CountOpen \/ CountToday
    \/ Refresh \/ ReadTaken \/ ListEligible \/ ExecuteNext \/ EndCycle

AutoNext ==
    \/ AutoStep
    \/ \E c \in Callers : CallStep(c)
    \/ StopProcess
    \/ ManualExecute \/ OthersWrite \/ SetEngine \/ NextDay

AutoSpec == AutoInit /\ [][AutoNext]_allVars

-----------------------------------------------------------------------------
(* Properties *)

OpenByAuto == {t \in OpenTrades : trade[t].by = Loop}
AutoTradesOf(d) == {t \in TradesOf(d) : trade[t].by = Loop}

\* The variables of the cycle keep their shape.
AutoTypeOK ==
    /\ EntryTypeOK
    /\ engine \in BOOLEAN
    /\ day \in 1 .. LastDay
    /\ openedOn \in [Refs -> 0 .. LastDay]
    /\ cycle \in {NoCycle} \cup Cycle
    /\ afterStop \in Nat

\* The loop never holds more open trades than max_parallel_trades, although the
\* count it works with is old when the batch runs and users execute, close and
\* stop the engine meanwhile.
AutoParallelCap == Cardinality(OpenByAuto) <= MaxParallel

\* What the count at the start of a batch leaves of max_trades_day: the loop
\* passes it by less than one batch, also over a change of the day.
DayOvershoot ==
    \A d \in 1 .. LastDay :
        Cardinality(AutoTradesOf(d)) <= MaxPerDay - 1 + MaxParallel

\* Once a user has stopped the engine, the batch in progress is all the loop may
\* still open.
StopBound == afterStop <= MaxParallel

\* To the rows, the loop is one more task that executes recommendations.
ImplementsEntry == EntrySpec

\* "under max parallel and max trades/day": the loop opens no trade on a day that
\* already has max_trades_day of them.
DayCap ==
    \A d \in 1 .. LastDay : Cardinality(AutoTradesOf(d)) <= MaxPerDay
=============================================================================
