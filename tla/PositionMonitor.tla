---------------------------- MODULE PositionMonitor ----------------------------
(***************************************************************************)
(* The three pieces of code that close a trade, running as tasks of one    *)
(* asyncio loop and meeting only in the rows of s004_live_trades:          *)
(*   - position_monitor.run_monitor_cycle, the background loop,            *)
(*   - routes_trades.simulate_close_trade, the user's "close" button,      *)
(*   - routes_trades.get_open_trades, a GET that also closes PAPER trades. *)
(* Every await is a point where another task may run, so an action is what *)
(* a task does between two awaits.  There is no transaction and no lock:   *)
(* each of them works on the rows it read when it started.                 *)
(*                                                                         *)
(* One unit of price is one tick and a trade is one contract.  The trades  *)
(* exist from the start (TradeEntry models how they are opened).           *)
(***************************************************************************)
EXTENDS Integers, FiniteSets

CONSTANTS
    Trades,         \* open trades
    Closers,        \* tasks that serve POST /simulate-close
    Viewers,        \* tasks that serve GET /open
    Monitor,        \* the task of position_monitor_loop
    Live,           \* the trades whose mode is LIVE, the others are PAPER
    Short,          \* the trades whose side is SELL, the others are BUY
    SuperTrend,     \* the trades of strat-supertrend-trail
    Stochastic,     \* the trades of strat-stochastic-bnf
    Pending,        \* entered without a quote: live_entry_pending is true
    MaxPx,          \* prices are 1..MaxPx, 0 is a missing quote
    EntryPx,        \* the entry price of every trade
    SlPts, TgtPts, TrailPts, BreakevenPct,   \* the user's settings
    MaxFaults       \* bound on exceptions, restarts and lost broker answers

ASSUME MonitorAssumption ==
    /\ Trades # {}
    /\ Monitor \notin Closers \cup Viewers
    /\ Closers \cap Viewers = {}
    /\ Live \subseteq Trades /\ Short \subseteq Trades /\ Pending \subseteq Trades
    /\ SuperTrend \subseteq Trades /\ Stochastic \subseteq Trades \ SuperTrend
    /\ MaxPx \in Nat /\ EntryPx \in 1..MaxPx /\ MaxFaults \in Nat
    /\ SlPts \in Nat /\ TgtPts \in Nat /\ TrailPts \in Nat /\ BreakevenPct \in Nat

Actors == {Monitor} \cup Closers \cup Viewers

VARIABLES
    trade,       \* the rows of s004_live_trades
    exitEvents,  \* number of *_EXIT / MANUAL_CLOSE rows in s004_trade_events
    trailEvents, \* number of TRAIL_ACTIVATED rows in s004_trade_events
    px,          \* the market: the last traded price of each trade's option
    task,        \* the local state of each task
    orders,      \* [actor][trade]: exit orders the broker took
    cut,         \* [actor][trade]: exits interrupted after the order was sent
    faults       \* number of faults so far

vars == <<trade, exitEvents, trailEvents, px, task, orders, cut, faults>>

Row == [state : {"ACTIVE", "TRAIL", "EXIT"}, entry : Int, current : Int,
        target : Int, sl : Int, pnl : Int, pending : BOOLEAN]

IsOpen(r) == r.state # "EXIT"

\* A row nobody has read (and, in a snapshot, a row the SELECT left out).
NoRow == [state |-> "EXIT", entry |-> EntryPx, current |-> EntryPx,
          target |-> 0, sl |-> 0, pnl |-> 0, pending |-> FALSE]

(***************************************************************************)
(* A task: where it is, the rows and quotes it read, the rows it still has *)
(* to look at, the row in hand, the exit price it decided on, and whether  *)
(* the code in progress is inside the try block of a strategy rule.        *)
(***************************************************************************)
PC == {"idle", "quotes", "rows", "align", "rule", "check", "trailEvent",
       "order", "mark", "update", "event"}

Rest == [pc |-> "idle", rows |-> [t \in Trades |-> NoRow],
         quote |-> [t \in Trades |-> 0], todo |-> {},
         cur |-> CHOOSE t \in Trades : TRUE, exitPx |-> 0, guarded |-> FALSE]

\* A task that is done with the row in hand: a closer serves one trade only.
AfterRow(a) ==
    IF a \in Closers
      THEN Rest
      ELSE [task[a] EXCEPT !.pc = "rows", !.exitPx = 0, !.guarded = FALSE]

\* Profit of a position of trade t entered at e and marked at p.
Pnl(t, e, p) == IF t \in Short THEN e - p ELSE p - e

Target(t, e) == IF t \in Short THEN e - TgtPts ELSE e + TgtPts
StopLoss(t, e) == IF t \in Short THEN e + SlPts ELSE e - SlPts

HitTarget(t, r, p) == IF t \in Short THEN p =< r.target ELSE p >= r.target
HitStop(t, r, p) == IF t \in Short THEN p >= r.sl ELSE p =< r.sl

\* The trailing stop for a quote, and when it is an improvement.
TrailStop(t, p) == IF t \in Short THEN p + TrailPts ELSE p - TrailPts
Tighter(t, new, old) == IF t \in Short THEN new < old ELSE new > old
AtBreakeven(t, r, p) ==
    r.entry > 0 /\ 100 * Pnl(t, r.entry, p) >= BreakevenPct * r.entry

Init ==
    /\ trade = [t \in Trades |->
                  [state |-> "ACTIVE", entry |-> EntryPx, current |-> EntryPx,
                   target |-> Target(t, EntryPx), sl |-> StopLoss(t, EntryPx),
                   pnl |-> 0, pending |-> t \in Pending]]
    /\ exitEvents = [t \in Trades |-> 0]
    /\ trailEvents = [t \in Trades |-> 0]
    /\ px = [t \in Trades |-> EntryPx]
    /\ task = [a \in Actors |-> Rest]
    /\ orders = [a \in Actors |-> [t \in Trades |-> 0]]
    /\ cut = [a \in Actors |-> [t \in Trades |-> 0]]
    /\ faults = 0

-----------------------------------------------------------------------------
(* Steps the tasks share *)

AtPc(a, pc) == task[a].pc = pc
Goto(a, pc) == task' = [task EXCEPT ![a].pc = pc]

\* Mutant of CloseRow: the WHERE clause does not look at current_state.
CloseRowUnguarded(t, r, p) ==
    trade' = [trade EXCEPT ![t].state = "EXIT", ![t].current = p,
                           ![t].pnl = Pnl(t, r.entry, p)]

\* Mutant of CloseRow: the P&L is taken at the row's last price.
CloseRowStalePnl(t, r, p) ==
    trade' = IF IsOpen(trade[t])
               THEN [trade EXCEPT ![t].state = "EXIT", ![t].current = p,
                                  ![t].pnl = Pnl(t, r.entry, r.current)]
               ELSE trade

\* UPDATE s004_live_trades SET current_state = 'EXIT' ... WHERE current_state
\* <> 'EXIT': the price and the P&L come from the row the task read.
CloseRow(t, r, p) ==
    trade' = IF IsOpen(trade[t])
               THEN [trade EXCEPT ![t].state = "EXIT", ![t].current = p,
                                  ![t].pnl = Pnl(t, r.entry, p)]
               ELSE trade

\* place_exit_order: no provider or a refusal leaves no order; an exception
\* after the broker took the order is reported as a failure too.
PlaceOrder(a, accepted) ==
    LET t == task[a].cur IN
    /\ AtPc(a, "order")
    /\ \/ /\ Goto(a, accepted)
          /\ orders' = [orders EXCEPT ![a][t] = @ + 1]
          /\ UNCHANGED <<cut, faults>>
       \/ /\ task' = [task EXCEPT ![a] = AfterRow(a)]
          /\ UNCHANGED <<orders, cut, faults>>
       \/ /\ faults < MaxFaults
          /\ task' = [task EXCEPT ![a] = AfterRow(a)]
          /\ orders' = [orders EXCEPT ![a][t] = @ + 1]
          /\ cut' = [cut EXCEPT ![a][t] = @ + 1]
          /\ faults' = faults + 1
    /\ UNCHANGED <<trade, exitEvents, trailEvents, px>>

\* Mutant of RecordExit: the event is written without the UPDATE.
RecordExitSkipped(a) ==
    /\ AtPc(a, "update")
    /\ Goto(a, "event")
    /\ UNCHANGED <<trade, exitEvents, trailEvents, px, orders, cut, faults>>

RecordExit(a) ==
    LET t == task[a].cur IN
    /\ AtPc(a, "update")
    /\ CloseRow(t, task[a].rows[t], task[a].exitPx)
    /\ Goto(a, "event")
    /\ UNCHANGED <<exitEvents, trailEvents, px, orders, cut, faults>>

\* The event is inserted whether or not the UPDATE found the trade open.
LogExit(a) ==
    /\ AtPc(a, "event")
    /\ exitEvents' = [exitEvents EXCEPT ![task[a].cur] = @ + 1]
    /\ task' = [task EXCEPT ![a] = AfterRow(a)]
    /\ UNCHANGED <<trade, trailEvents, px, orders, cut, faults>>

\* The exit of row t at price p starts: LIVE goes to the broker first.
ExitTask(a, t, p, guarded) ==
    [task[a] EXCEPT !.pc = IF t \in Live THEN "order" ELSE "update",
                    !.exitPx = p, !.guarded = guarded]

ReadOpen(a) ==
    /\ AtPc(a, "idle")
    /\ \E t \in Trades : IsOpen(trade[t])
    /\ task' = [task EXCEPT ![a].pc = "quotes",
                            ![a].rows = [t \in Trades |->
                                IF IsOpen(trade[t]) THEN trade[t] ELSE NoRow],
                            ![a].todo = {t \in Trades : IsOpen(trade[t])}]
    /\ UNCHANGED <<trade, exitEvents, trailEvents, px, orders, cut, faults>>

FetchQuotes(a) ==
    /\ AtPc(a, "quotes")
    /\ task' = [task EXCEPT ![a].pc = "rows", ![a].quote = px]
    /\ UNCHANGED <<trade, exitEvents, trailEvents, px, orders, cut, faults>>

FinishRows(a) ==
    /\ AtPc(a, "rows")
    /\ task[a].todo = {}
    /\ task' = [task EXCEPT ![a] = Rest]
    /\ UNCHANGED <<trade, exitEvents, trailEvents, px, orders, cut, faults>>

-----------------------------------------------------------------------------
(* run_monitor_cycle, one row at a time *)

\* The next row of the cycle; a row without a quote is passed over.
NextRow(t) ==
    LET m == task[Monitor] IN
    /\ m.pc = "rows"
    /\ t \in m.todo
    /\ task' = [task EXCEPT ![Monitor] =
                  IF m.quote[t] = 0
                    THEN [m EXCEPT !.todo = @ \ {t}]
                    ELSE [m EXCEPT !.todo = @ \ {t}, !.cur = t,
                            !.pc = IF m.rows[t].pending THEN "align"
                                   ELSE IF t \in SuperTrend \cup Stochastic
                                          THEN "rule" ELSE "check"]]
    /\ UNCHANGED <<trade, exitEvents, trailEvents, px, orders, cut, faults>>

\* Mutant of AlignEntry: the snapshot is written back with the flag still set.
AlignEntryStillPending ==
    LET m == task[Monitor]
        t == m.cur
        p == m.quote[t]
    IN
    /\ m.pc = "align"
    /\ trade' = IF IsOpen(trade[t])
                  THEN [trade EXCEPT ![t].entry = p, ![t].current = p,
                                     ![t].target = Target(t, p),
                                     ![t].sl = StopLoss(t, p)]
                  ELSE trade
    /\ task' = [task EXCEPT ![Monitor] = Rest]
    /\ UNCHANGED <<exitEvents, trailEvents, px, orders, cut, faults>>

\* A trade entered without a quote is re-anchored at the first one.  The row is
\* an asyncpg.Record, which cannot be assigned to: the assignment after the
\* UPDATE raises TypeError and ends the cycle, whatever rows are left.
AlignEntry ==
    LET m == task[Monitor]
        t == m.cur
        p == m.quote[t]
    IN
    /\ m.pc = "align"
    /\ trade' = IF IsOpen(trade[t])
                  THEN [trade EXCEPT ![t].entry = p, ![t].current = p,
                                     ![t].target = Target(t, p),
                                     ![t].sl = StopLoss(t, p),
                                     ![t].pending = FALSE]
                  ELSE trade
    /\ task' = [task EXCEPT ![Monitor] = Rest]
    /\ UNCHANGED <<exitEvents, trailEvents, px, orders, cut, faults>>

\* compute_hybrid_sl_short_sell: while VWAP is at or above the entry the stop
\* is re-pegged above the quote, in either direction; below it only comes down.
HybridStops(t) ==
    LET m == task[Monitor] IN
    {s \in (m.quote[t] + 1)..(MaxPx + SlPts) : s # m.rows[t].sl}

HybridStop(s) ==
    LET m == task[Monitor]
        t == m.cur
    IN
    /\ m.pc = "rule"
    /\ ~m.guarded
    /\ t \in SuperTrend \cap Short
    /\ s \in HybridStops(t)
    /\ trade' = IF trade[t].state \in {"ACTIVE", "TRAIL"}
                  THEN [trade EXCEPT ![t].sl = s] ELSE trade
    /\ task' = [task EXCEPT ![Monitor].rows[t].sl = s,
                            ![Monitor].guarded = TRUE]
    /\ UNCHANGED <<exitEvents, trailEvents, px, orders, cut, faults>>

\* TRADE_SESSION_END (outside the try block for SuperTrendTrail) and the two
\* structure exits, SUPERTREND_FLIP and EMA_STRUCTURE_SL (inside it).
RuleExit(guarded) ==
    LET m == task[Monitor] IN
    /\ m.pc = "rule"
    /\ guarded \/ (m.cur \in SuperTrend /\ ~m.guarded)
    /\ task' = [task EXCEPT ![Monitor] =
                  ExitTask(Monitor, m.cur, m.quote[m.cur], guarded)]
    /\ UNCHANGED <<trade, exitEvents, trailEvents, px, orders, cut, faults>>

\* No rule fires, or its data cannot be read: the price checks follow.
RulePass ==
    /\ AtPc(Monitor, "rule")
    /\ task' = [task EXCEPT ![Monitor].pc = "check", ![Monitor].guarded = FALSE]
    /\ UNCHANGED <<trade, exitEvents, trailEvents, px, orders, cut, faults>>

\* The price checks, all of them on the row as it was read: target first, then
\* stop (the reason differs, the exit does not), then the trailing stop.
CheckExit ==
    LET m == task[Monitor]
        t == m.cur
        p == m.quote[t]
    IN
    /\ m.pc = "check"
    /\ HitTarget(t, m.rows[t], p) \/ HitStop(t, m.rows[t], p)
    /\ task' = [task EXCEPT ![Monitor] = ExitTask(Monitor, t, p, FALSE)]
    /\ UNCHANGED <<trade, exitEvents, trailEvents, px, orders, cut, faults>>

\* The row stays open; p is its quote and r the row as it was read.
StaysOpen(t, r, p) ==
    /\ task[Monitor].pc = "check" /\ task[Monitor].cur = t
    /\ task[Monitor].rows[t] = r /\ task[Monitor].quote[t] = p
    /\ ~HitTarget(t, r, p) /\ ~HitStop(t, r, p)

TrailStarts(t, r, p) ==
    /\ r.state = "ACTIVE" /\ AtBreakeven(t, r, p)
    /\ Tighter(t, TrailStop(t, p), r.sl)

TrailMoves(t, r, p) ==
    r.state = "TRAIL" /\ Tighter(t, TrailStop(t, p), r.sl)

\* UPDATE ... SET current_state = 'TRAIL' ... WHERE current_state = 'ACTIVE'.
ActivateTrail ==
    LET t == task[Monitor].cur
        r == task[Monitor].rows[t]
        p == task[Monitor].quote[t]
    IN
    /\ StaysOpen(t, r, p) /\ TrailStarts(t, r, p)
    /\ trade' = IF trade[t].state = "ACTIVE"
                  THEN [trade EXCEPT ![t].state = "TRAIL",
                                     ![t].sl = TrailStop(t, p)]
                  ELSE trade
    /\ Goto(Monitor, "trailEvent")
    /\ UNCHANGED <<exitEvents, trailEvents, px, orders, cut, faults>>

\* Mutant of MoveTrail: once in TRAIL the stop follows the quote both ways.
MoveTrailLoose ==
    LET t == task[Monitor].cur
        r == task[Monitor].rows[t]
        p == task[Monitor].quote[t]
    IN
    /\ StaysOpen(t, r, p) /\ r.state = "TRAIL"
    /\ trade' = IF trade[t].state = "TRAIL"
                  THEN [trade EXCEPT ![t].sl = TrailStop(t, p)] ELSE trade
    /\ task' = [task EXCEPT ![Monitor] = AfterRow(Monitor)]
    /\ UNCHANGED <<exitEvents, trailEvents, px, orders, cut, faults>>

\* UPDATE ... SET stop_loss_price ... WHERE current_state = 'TRAIL'.
MoveTrail ==
    LET t == task[Monitor].cur
        r == task[Monitor].rows[t]
        p == task[Monitor].quote[t]
    IN
    /\ StaysOpen(t, r, p) /\ TrailMoves(t, r, p)
    /\ trade' = IF trade[t].state = "TRAIL"
                  THEN [trade EXCEPT ![t].sl = TrailStop(t, p)] ELSE trade
    /\ task' = [task EXCEPT ![Monitor] = AfterRow(Monitor)]
    /\ UNCHANGED <<exitEvents, trailEvents, px, orders, cut, faults>>

HoldRow ==
    LET t == task[Monitor].cur
        r == task[Monitor].rows[t]
        p == task[Monitor].quote[t]
    IN
    /\ StaysOpen(t, r, p) /\ ~TrailStarts(t, r, p) /\ ~TrailMoves(t, r, p)
    /\ task' = [task EXCEPT ![Monitor] = AfterRow(Monitor)]
    /\ UNCHANGED <<trade, exitEvents, trailEvents, px, orders, cut, faults>>

LogTrail ==
    /\ AtPc(Monitor, "trailEvent")
    /\ trailEvents' = [trailEvents EXCEPT ![task[Monitor].cur] = @ + 1]
    /\ task' = [task EXCEPT ![Monitor] = AfterRow(Monitor)]
    /\ UNCHANGED <<trade, exitEvents, px, orders, cut, faults>>

MonitorStep ==
    \/ ReadOpen(Monitor) \/ FetchQuotes(Monitor) \/ FinishRows(Monitor)
    \/ \E t \in Trades : NextRow(t)
    \/ AlignEntry
    \/ \E s \in 1..(MaxPx + SlPts) : HybridStop(s)
    \/ \E g \in BOOLEAN : RuleExit(g)
    \/ RulePass
    \/ CheckExit \/ ActivateTrail \/ LogTrail \/ MoveTrail \/ HoldRow
    \/ PlaceOrder(Monitor, "update")
    \/ RecordExit(Monitor) \/ LogExit(Monitor)

-----------------------------------------------------------------------------
(* simulate_close_trade *)

\* Mutant of CloseRequest: a closed trade is not refused.
CloseRequestUnchecked(c, t) ==
    /\ AtPc(c, "idle")
    /\ task' = [task EXCEPT ![c] =
                  [Rest EXCEPT !.rows[t] = trade[t], !.cur = t,
                               !.pc = IF t \in Live THEN "order" ELSE "mark"]]
    /\ UNCHANGED <<trade, exitEvents, trailEvents, px, orders, cut, faults>>

\* The row is read; a trade that is already closed is refused (400).
CloseRequest(c, t) ==
    /\ AtPc(c, "idle")
    /\ IsOpen(trade[t])
    /\ task' = [task EXCEPT ![c] =
                  [Rest EXCEPT !.rows[t] = trade[t], !.cur = t,
                               !.pc = IF t \in Live THEN "order" ELSE "mark"]]
    /\ UNCHANGED <<trade, exitEvents, trailEvents, px, orders, cut, faults>>

\* LIVE is marked at the quote, or at the row's price when there is none;
\* PAPER always makes 3 percent on the row's entry, whatever the market says
\* (rounded to a tick that is at least one tick of profit on these prices).
MarkExit(c) ==
    LET t == task[c].cur
        r == task[c].rows[t]
        mark == IF t \in Live
                  THEN IF px[t] > 0 THEN px[t] ELSE r.current
                  ELSE IF t \in Short THEN r.entry - 1 ELSE r.entry + 1
    IN
    /\ AtPc(c, "mark")
    /\ task' = [task EXCEPT ![c].pc = "update", ![c].exitPx = mark]
    /\ UNCHANGED <<trade, exitEvents, trailEvents, px, orders, cut, faults>>

CloserStep(c) ==
    \/ \E t \in Trades : CloseRequest(c, t)
    \/ PlaceOrder(c, "mark")
    \/ MarkExit(c)
    \/ RecordExit(c) \/ LogExit(c)

-----------------------------------------------------------------------------
(* get_open_trades: the response is built row by row, and a PAPER row whose *)
(* quote is through its target or stop is closed on the way.                *)

ViewRow(v, t) ==
    LET w == task[v]
        r == w.rows[t]
        p == w.quote[t]
        closes == /\ p > 0 /\ t \notin Live
                  /\ HitTarget(t, r, p) \/ HitStop(t, r, p)
    IN
    /\ w.pc = "rows"
    /\ t \in w.todo
    /\ task' = [task EXCEPT ![v] =
                  IF closes
                    THEN [w EXCEPT !.todo = @ \ {t}, !.cur = t,
                                   !.pc = "update", !.exitPx = p]
                    ELSE [w EXCEPT !.todo = @ \ {t}]]
    /\ UNCHANGED <<trade, exitEvents, trailEvents, px, orders, cut, faults>>

ViewerStep(v) ==
    \/ ReadOpen(v) \/ FetchQuotes(v) \/ FinishRows(v)
    \/ \E t \in Trades : ViewRow(v, t)
    \/ RecordExit(v) \/ LogExit(v)

-----------------------------------------------------------------------------
(* The market, failures and restarts *)

MovePrice(t) ==
    /\ \E p \in 0..MaxPx : p # px[t] /\ px' = [px EXCEPT ![t] = p]
    /\ UNCHANGED <<trade, exitEvents, trailEvents, task, orders, cut, faults>>

\* An order was sent and the task is cut off before it is through with the row.
InExit(a) ==
    task[a].cur \in Live /\ task[a].pc \in {"mark", "update", "event"}

CutOff(A) ==
    cut' = [a \in Actors |-> [t \in Trades |->
              IF a \in A /\ InExit(a) /\ t = task[a].cur
                THEN cut[a][t] + 1 ELSE cut[a][t]]]

\* An await raises (the database, twice in a row, or a lost connection).  In
\* the try block of a strategy rule the exception is logged and the same row
\* goes on to the price checks; anywhere else the cycle or the request ends.
Fail(a) ==
    /\ faults < MaxFaults
    /\ task[a].pc # "idle"
    /\ task' = [task EXCEPT ![a] =
                  IF task[a].guarded
                    THEN [task[a] EXCEPT !.pc = "check", !.exitPx = 0,
                                         !.guarded = FALSE]
                    ELSE Rest]
    /\ CutOff({a})
    /\ faults' = faults + 1
    /\ UNCHANGED <<trade, exitEvents, trailEvents, px, orders>>

\* The process is stopped and started again: every task is lost, the rows,
\* the events and the broker's book are not.
Restart ==
    /\ faults < MaxFaults
    /\ task' = [a \in Actors |-> Rest]
    /\ CutOff(Actors)
    /\ faults' = faults + 1
    /\ UNCHANGED <<trade, exitEvents, trailEvents, px, orders>>

Next ==
    \/ MonitorStep
    \/ \E c \in Closers : CloserStep(c)
    \/ \E v \in Viewers : ViewerStep(v)
    \/ \E t \in Trades : MovePrice(t)
    \/ \E a \in Actors : Fail(a)
    \/ Restart

Spec == Init /\ [][Next]_vars

\* The loop sleeps five seconds and goes on for ever, whatever a cycle raised;
\* nothing obliges a user to call or the market to move.
FairSpec == Spec /\ WF_vars(MonitorStep)

-----------------------------------------------------------------------------
(* Properties *)

\* Every variable keeps its shape.
TypeOK ==
    /\ trade \in [Trades -> Row]
    /\ exitEvents \in [Trades -> Nat]
    /\ trailEvents \in [Trades -> Nat]
    /\ px \in [Trades -> 0..MaxPx]
    /\ task \in [Actors -> [pc : PC, rows : [Trades -> Row],
                            quote : [Trades -> 0..MaxPx],
                            todo : SUBSET Trades, cur : Trades,
                            exitPx : Int, guarded : BOOLEAN]]
    /\ orders \in [Actors -> [Trades -> Nat]]
    /\ cut \in [Actors -> [Trades -> Nat]]
    /\ faults \in 0..MaxFaults

\* The audit trail never runs ahead of the book: an exit event is only ever
\* written for a trade that is EXIT, and a TRAIL_ACTIVATED event for one that
\* has left ACTIVE, however the closers and the monitor interleave.
AuditTrail ==
    \A t \in Trades :
        /\ exitEvents[t] > 0 => trade[t].state = "EXIT"
        /\ trailEvents[t] > 0 => trade[t].state # "ACTIVE"

\* One task sends one exit order for a trade, except where its exit was cut off
\* between the order and the end of the row.  (Two tasks may send one each:
\* neither looks at the row again before it goes to the broker.)
OneExitPerActor ==
    \A a \in Actors, t \in Trades : orders[a][t] =< 1 + cut[a][t]

\* The realized P&L of a closed trade is that of its own entry and exit price
\* and side, whichever task closed it.  A trade entered without a quote is left
\* out: a closer that read it before AlignEntry books the old entry.
PnlMatchesEntry ==
    \A t \in Trades \ Pending :
        trade[t].state = "EXIT" =>
            trade[t].pnl = Pnl(t, trade[t].entry, trade[t].current)

\* Except for the short SuperTrend trades, whose stop follows the spot band,
\* the stop of a trade only ever moves in its favour once its entry is fixed.
StopOnlyTightens ==
    [][\A t \in Trades \ (SuperTrend \cap Short) :
         (~trade[t].pending /\ trade'[t].sl # trade[t].sl)
            => Tighter(t, trade'[t].sl, trade[t].sl)]_vars

\* What one contract can make or lose on these prices.
Results == -(MaxPx + 1)..(MaxPx + 1)

\* Seen through their state and realized P&L the rows obey the state machine
\* of execution_state_machine.py, and a result is decided once.
Book == INSTANCE TradeBook WITH
    Results <- Results,
    state <- [t \in Trades |-> trade[t].state],
    result <- [t \in Trades |->
                 IF IsOpen(trade[t]) THEN {} ELSE {trade[t].pnl}]

RefinesBook == Book!Spec

\* A PAPER trade whose price stays through its target or stop is closed: no
\* cycle is starved by the rows before it, nor by the cycles that raise.
GapServed ==
    \A t \in Trades \ (Live \cup SuperTrend) :
        <>[](px[t] > 0 /\ (HitTarget(t, trade[t], px[t])
                             \/ HitStop(t, trade[t], px[t])))
            => <>(trade[t].state = "EXIT")
=============================================================================
