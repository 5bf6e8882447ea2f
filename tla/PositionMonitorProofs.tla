------------------------- MODULE PositionMonitorProofs -------------------------
(***************************************************************************)
(* Theorems of PositionMonitor, for any trades, tasks, prices and settings *)
(* and any number of faults: types, the order of the audit trail, the exit *)
(* orders of a task, the realized P&L, the direction of the stop, and that *)
(* the rows implement TradeBook.                                           *)
(***************************************************************************)
EXTENDS PositionMonitor, TLAPS

\* The local state of a task.
TaskState == [pc : PC, rows : [Trades -> Row], quote : [Trades -> 0 .. MaxPx],
              todo : SUBSET Trades, cur : Trades, exitPx : Int, guarded : BOOLEAN]

-----------------------------------------------------------------------------
(* Shapes *)

\* A task at rest.
LEMMA RestShape == Rest \in TaskState /\ NoRow \in Row
<1>1. (CHOOSE t \in Trades : TRUE) \in Trades
  BY MonitorAssumption
<1>2. NoRow \in Row
  BY MonitorAssumption DEF NoRow, Row
<1>3. /\ [t \in Trades |-> NoRow] \in [Trades -> Row]
      /\ [t \in Trades |-> 0] \in [Trades -> 0 .. MaxPx]
  BY <1>2, MonitorAssumption
<1>. QED
  BY <1>1, <1>2, <1>3 DEF Rest, TaskState, PC

\* What the actions change of a task keeps its shape.
LEMMA StateParts ==
    ASSUME NEW r \in TaskState
    PROVE  /\ r.pc \in PC /\ r.rows \in [Trades -> Row]
           /\ r.quote \in [Trades -> 0 .. MaxPx] /\ r.todo \in SUBSET Trades
           /\ r.cur \in Trades /\ r.exitPx \in Int /\ r.guarded \in BOOLEAN
  BY DEF TaskState

LEMMA SetPc ==
    ASSUME NEW r \in TaskState, NEW p \in PC, NEW x \in Int, NEW g \in BOOLEAN
    PROVE  /\ [r EXCEPT !.pc = p] \in TaskState
           /\ [r EXCEPT !.pc = p, !.exitPx = x] \in TaskState
           /\ [r EXCEPT !.pc = p, !.guarded = g] \in TaskState
           /\ [r EXCEPT !.pc = p, !.exitPx = x, !.guarded = g] \in TaskState
  BY DEF TaskState

LEMMA SetRead ==
    ASSUME NEW r \in TaskState, NEW p \in PC, NEW rs \in [Trades -> Row],
           NEW S \in SUBSET Trades
    PROVE  /\ [r EXCEPT !.todo = S] \in TaskState
           /\ [r EXCEPT !.pc = p, !.rows = rs, !.todo = S] \in TaskState
  BY DEF TaskState

LEMMA SetQuote ==
    ASSUME NEW r \in TaskState, NEW p \in PC, NEW q \in [Trades -> 0 .. MaxPx]
    PROVE  [r EXCEPT !.pc = p, !.quote = q] \in TaskState
  BY DEF TaskState

LEMMA SetCur ==
    ASSUME NEW r \in TaskState, NEW p \in PC, NEW S \in SUBSET Trades,
           NEW t \in Trades, NEW x \in Int
    PROVE  /\ [r EXCEPT !.todo = S, !.cur = t, !.pc = p] \in TaskState
           /\ [r EXCEPT !.todo = S, !.cur = t, !.pc = p, !.exitPx = x] \in TaskState
  BY DEF TaskState

LEMMA SetRequest ==
    ASSUME NEW r \in TaskState, NEW p \in PC, NEW rs \in [Trades -> Row],
           NEW t \in Trades
    PROVE  [r EXCEPT !.rows = rs, !.cur = t, !.pc = p] \in TaskState
  BY DEF TaskState

LEMMA SetSnapshot ==
    ASSUME NEW r \in TaskState, NEW rs \in [Trades -> Row], NEW g \in BOOLEAN
    PROVE  [r EXCEPT !.rows = rs, !.guarded = g] \in TaskState
  BY DEF TaskState

LEMMA AfterRowShape ==
    ASSUME TypeOK, NEW a \in Actors
    PROVE  AfterRow(a) \in TaskState
<1>1. task[a] \in TaskState
  BY DEF TypeOK, TaskState
<1>2. "rows" \in PC /\ 0 \in Int /\ FALSE \in BOOLEAN
  BY DEF PC
<1>3. [task[a] EXCEPT !.pc = "rows", !.exitPx = 0, !.guarded = FALSE] \in TaskState
  BY <1>1, <1>2, SetPc
<1>. QED
  BY <1>3, RestShape DEF AfterRow

\* One task takes another state.
LEMMA TaskUpdate ==
    ASSUME TypeOK, NEW a \in Actors, NEW r \in TaskState
    PROVE  [task EXCEPT ![a] = r] \in [Actors -> TaskState]
  BY DEF TypeOK, TaskState

LEMMA GotoShape ==
    ASSUME TypeOK, NEW a \in Actors, NEW pc \in PC, Goto(a, pc)
    PROVE  task' \in [Actors -> TaskState]
<1>1. task[a] \in TaskState
  BY DEF TypeOK, TaskState
<1>2. [task[a] EXCEPT !.pc = pc] \in TaskState
  BY <1>1 DEF TaskState
<1>3. task' = [task EXCEPT ![a] = [task[a] EXCEPT !.pc = pc]]
  BY DEF Goto, TypeOK
<1>. QED
  BY <1>2, <1>3, TaskUpdate

\* Prices and stops are whole ticks.
LEMMA PriceShape ==
    ASSUME NEW t \in Trades, NEW e \in Int, NEW p \in Int
    PROVE  /\ Pnl(t, e, p) \in Int /\ Target(t, e) \in Int
           /\ StopLoss(t, e) \in Int /\ TrailStop(t, p) \in Int
  BY MonitorAssumption DEF Pnl, Target, StopLoss, TrailStop

\* What an UPDATE changes of a row keeps its shape.
LEMMA RowShape ==
    ASSUME NEW r \in Row, NEW e \in Int, NEW p \in Int, NEW g \in Int,
           NEW s \in Int, NEW b \in BOOLEAN
    PROVE  /\ [r EXCEPT !.entry = e, !.current = p, !.target = g, !.sl = s,
                        !.pending = b] \in Row
           /\ [r EXCEPT !.sl = s] \in Row
           /\ [r EXCEPT !.state = "TRAIL", !.sl = s] \in Row
           /\ [r EXCEPT !.state = "EXIT", !.current = p, !.pnl = g] \in Row
  BY DEF Row

LEMMA RowParts ==
    ASSUME NEW r \in Row
    PROVE  r.entry \in Int /\ r.current \in Int /\ r.sl \in Int
  BY DEF Row

LEMMA RowUpdate ==
    ASSUME TypeOK, NEW t \in Trades, NEW r \in Row
    PROVE  [trade EXCEPT ![t] = r] \in [Trades -> Row]
  BY DEF TypeOK

\* The rows after an UPDATE to EXIT.
LEMMA CloseShape ==
    ASSUME TypeOK, NEW t \in Trades, NEW r \in Row, NEW p \in Int, CloseRow(t, r, p)
    PROVE  trade' \in [Trades -> Row]
<1>1. r.entry \in Int /\ trade[t] \in Row
  BY RowParts DEF TypeOK
<1>2. Pnl(t, r.entry, p) \in Int
  BY <1>1, PriceShape
<1>3. [trade[t] EXCEPT !.state = "EXIT", !.current = p, !.pnl = Pnl(t, r.entry, p)] \in Row
  BY <1>1, <1>2, RowShape
<1>4. \/ trade' = trade
      \/ trade' = [trade EXCEPT ![t] =
            [trade[t] EXCEPT !.state = "EXIT", !.current = p, !.pnl = Pnl(t, r.entry, p)]]
  BY DEF CloseRow, TypeOK
<1>. QED
  BY <1>3, <1>4, RowUpdate DEF TypeOK

\* Orders, events and cuts are counted.
LEMMA CountShape ==
    ASSUME NEW f \in [Trades -> Nat], NEW t \in Trades
    PROVE  [f EXCEPT ![t] = @ + 1] \in [Trades -> Nat]
  OBVIOUS

LEMMA TallyShape ==
    ASSUME NEW f \in [Actors -> [Trades -> Nat]], NEW a \in Actors, NEW t \in Trades
    PROVE  [f EXCEPT ![a][t] = @ + 1] \in [Actors -> [Trades -> Nat]]
  OBVIOUS

LEMMA CutOffShape ==
    ASSUME TypeOK, NEW A, CutOff(A)
    PROVE  cut' \in [Actors -> [Trades -> Nat]]
  BY DEF CutOff, TypeOK

-----------------------------------------------------------------------------
(* Type correctness *)

LEMMA TypeInit == Init => TypeOK
<1> SUFFICES ASSUME Init
             PROVE  TypeOK
  OBVIOUS
<1>1. task \in [Actors -> TaskState]
  BY RestShape DEF Init
<1>2. trade \in [Trades -> Row]
  <2>1. ASSUME NEW t \in Trades
        PROVE  /\ EntryPx \in Int /\ Target(t, EntryPx) \in Int
               /\ StopLoss(t, EntryPx) \in Int /\ (t \in Pending) \in BOOLEAN
    BY PriceShape, MonitorAssumption
  <2>. QED
    BY <2>1 DEF Init, Row
<1>3. px \in [Trades -> 0 .. MaxPx] /\ faults \in 0 .. MaxFaults
  BY MonitorAssumption DEF Init
<1>. QED
  BY <1>1, <1>2, <1>3 DEF Init, TypeOK, TaskState

\* A step of a task that writes nothing, and one that only closes a row.
LEMMA TaskOnly ==
    ASSUME TypeOK, task' \in [Actors -> TaskState],
           UNCHANGED <<trade, exitEvents, trailEvents, px, orders, cut, faults>>
    PROVE  TypeOK'
  BY DEF TypeOK, TaskState

LEMMA PcNames ==
    /\ PC = {"idle", "quotes", "rows", "align", "rule", "check", "trailEvent",
             "order", "mark", "update", "event"}
    /\ 0 \in Int /\ TRUE \in BOOLEAN /\ FALSE \in BOOLEAN
  BY DEF PC

LEMMA TaskParts ==
    ASSUME TypeOK, NEW a \in Actors
    PROVE  /\ task[a] \in TaskState
           /\ task[a].pc \in PC /\ task[a].rows \in [Trades -> Row]
           /\ task[a].quote \in [Trades -> 0 .. MaxPx]
           /\ task[a].todo \in SUBSET Trades
           /\ task[a].cur \in Trades /\ task[a].exitPx \in Int
           /\ task[a].guarded \in BOOLEAN
           /\ \A t \in Trades : task[a].rows[t] \in Row
           /\ \A t \in Trades : task[a].quote[t] \in Int
<1>1. task[a] \in TaskState
  BY DEF TypeOK, TaskState
<1>. QED
  BY <1>1, StateParts, MonitorAssumption

LEMMA ExitTaskShape ==
    ASSUME TypeOK, NEW a \in Actors, NEW t \in Trades, NEW p \in Int, NEW g \in BOOLEAN
    PROVE  ExitTask(a, t, p, g) \in TaskState
<1>1. (IF t \in Live THEN "order" ELSE "update") \in PC
  BY PcNames
<1>. QED
  BY <1>1, TaskParts, SetPc DEF ExitTask

LEMMA ReadOpenType ==
    ASSUME TypeOK, NEW a \in Actors, ReadOpen(a)
    PROVE  TypeOK'
<1> DEFINE rs == [t \in Trades |-> IF IsOpen(trade[t]) THEN trade[t] ELSE NoRow]
           S == {t \in Trades : IsOpen(trade[t])}
<1>1. rs \in [Trades -> Row] /\ S \in SUBSET Trades
  BY RestShape DEF TypeOK
<1>2. task' = [task EXCEPT ![a] = [task[a] EXCEPT !.pc = "quotes", !.rows = rs, !.todo = S]]
  BY DEF ReadOpen, TypeOK
<1> HIDE DEF rs, S
<1>3. [task[a] EXCEPT !.pc = "quotes", !.rows = rs, !.todo = S] \in TaskState
  BY <1>1, TaskParts, PcNames, SetRead
<1>4. task' \in [Actors -> TaskState]
  BY <1>2, <1>3, TaskUpdate
<1>. QED
  BY <1>4, TaskOnly DEF ReadOpen

LEMMA FetchQuotesType ==
    ASSUME TypeOK, NEW a \in Actors, FetchQuotes(a)
    PROVE  TypeOK'
<1>1. task' = [task EXCEPT ![a] = [task[a] EXCEPT !.pc = "rows", !.quote = px]]
  BY DEF FetchQuotes, TypeOK
<1>2. px \in [Trades -> 0 .. MaxPx]
  BY DEF TypeOK
<1>3. [task[a] EXCEPT !.pc = "rows", !.quote = px] \in TaskState
  BY <1>2, TaskParts, PcNames, SetQuote
<1>. QED
  BY <1>1, <1>3, TaskUpdate, TaskOnly DEF FetchQuotes

LEMMA FinishRowsType ==
    ASSUME TypeOK, NEW a \in Actors, FinishRows(a)
    PROVE  TypeOK'
  BY RestShape, TaskUpdate, TaskOnly DEF FinishRows

LEMMA NextRowType ==
    ASSUME TypeOK, NEW t \in Trades, NextRow(t)
    PROVE  TypeOK'
<1>0. Monitor \in Actors
  BY DEF Actors
<1> DEFINE m == task[Monitor]
           S == m.todo \ {t}
           p == IF m.rows[t].pending THEN "align"
                ELSE IF t \in SuperTrend \cup Stochastic THEN "rule" ELSE "check"
<1>1. S \in SUBSET Trades /\ p \in PC
  BY <1>0, TaskParts, PcNames
<1>2. task' = [task EXCEPT ![Monitor] =
                 IF m.quote[t] = 0 THEN [m EXCEPT !.todo = S]
                 ELSE [m EXCEPT !.todo = S, !.cur = t, !.pc = p]]
  BY <1>0 DEF NextRow
<1> HIDE DEF S, p
<1>3. /\ [m EXCEPT !.todo = S] \in TaskState
      /\ [m EXCEPT !.todo = S, !.cur = t, !.pc = p] \in TaskState
  BY <1>0, <1>1, TaskParts, SetRead, SetCur
<1>. QED
  BY <1>0, <1>2, <1>3, TaskUpdate, TaskOnly DEF NextRow

LEMMA AlignEntryType ==
    ASSUME TypeOK, AlignEntry
    PROVE  TypeOK'
<1>0. Monitor \in Actors
  BY DEF Actors
<1>1. task' \in [Actors -> TaskState]
  BY <1>0, RestShape, TaskUpdate DEF AlignEntry
<1> DEFINE t == task[Monitor].cur
           p == task[Monitor].quote[t]
<1>2. t \in Trades /\ p \in Int
  BY <1>0, TaskParts
<1>3. Target(t, p) \in Int /\ StopLoss(t, p) \in Int
  BY <1>2, PriceShape
<1> DEFINE r == [trade[t] EXCEPT !.entry = p, !.current = p,
                    !.target = Target(t, p), !.sl = StopLoss(t, p), !.pending = FALSE]
<1>4. r \in Row
  BY <1>2, <1>3, RowShape, PcNames DEF TypeOK
<1>5. trade' = trade \/ trade' = [trade EXCEPT ![t] = r]
  BY <1>2 DEF AlignEntry, TypeOK
<1> HIDE DEF r, t, p
<1>6. trade' \in [Trades -> Row]
  BY <1>2, <1>4, <1>5, RowUpdate DEF TypeOK
<1>. QED
  BY <1>1, <1>6 DEF AlignEntry, TypeOK, TaskState

\* The stop of one row moves.
LEMMA StopShape ==
    ASSUME TypeOK, NEW t \in Trades, NEW s \in Int
    PROVE  /\ [trade EXCEPT ![t].sl = s] \in [Trades -> Row]
           /\ [trade EXCEPT ![t].state = "TRAIL", ![t].sl = s] \in [Trades -> Row]
<1>1. trade[t] \in Row
  BY DEF TypeOK
<1>2. /\ [trade[t] EXCEPT !.sl = s] \in Row
      /\ [trade[t] EXCEPT !.state = "TRAIL", !.sl = s] \in Row
  BY <1>1, RowShape
<1>3. /\ [trade EXCEPT ![t] = [trade[t] EXCEPT !.sl = s]] \in [Trades -> Row]
      /\ [trade EXCEPT ![t] = [trade[t] EXCEPT !.state = "TRAIL", !.sl = s]]
           \in [Trades -> Row]
  BY <1>2, RowUpdate
<1>. QED
  BY <1>3 DEF TypeOK

LEMMA HybridStopType ==
    ASSUME TypeOK, NEW s \in 1 .. (MaxPx + SlPts), HybridStop(s)
    PROVE  TypeOK'
<1>0. Monitor \in Actors /\ s \in Int
  BY MonitorAssumption DEF Actors
<1> DEFINE m == task[Monitor]
           t == m.cur
           rs == [m.rows EXCEPT ![t].sl = s]
<1>1. t \in Trades /\ m.rows \in [Trades -> Row] /\ m \in TaskState
  BY <1>0, TaskParts
<1>2. rs \in [Trades -> Row]
  BY <1>0, <1>1 DEF Row
<1>3. task' = [task EXCEPT ![Monitor] = [m EXCEPT !.rows = rs, !.guarded = TRUE]]
  BY <1>0, <1>1 DEF HybridStop, TypeOK
<1>4. trade' \in [Trades -> Row]
  BY <1>0, <1>1, StopShape DEF HybridStop, TypeOK
<1> HIDE DEF rs
<1>5. [m EXCEPT !.rows = rs, !.guarded = TRUE] \in TaskState
  BY <1>1, <1>2, PcNames, SetSnapshot
<1>6. task' \in [Actors -> TaskState]
  BY <1>0, <1>3, <1>5, TaskUpdate
<1>. QED
  BY <1>4, <1>6 DEF HybridStop, TypeOK, TaskState

LEMMA RuleType ==
    ASSUME TypeOK, (\E g \in BOOLEAN : RuleExit(g)) \/ RulePass \/ CheckExit
    PROVE  TypeOK'
<1>0. Monitor \in Actors /\ task[Monitor] \in TaskState
  BY TaskParts DEF Actors
<1> DEFINE t == task[Monitor].cur
           p == task[Monitor].quote[t]
<1>1. t \in Trades /\ p \in Int
  BY <1>0, TaskParts
<1>2. CASE \E g \in BOOLEAN : RuleExit(g)
  <2>1. PICK g \in BOOLEAN : RuleExit(g)
    BY <1>2
  <2>2. ExitTask(Monitor, t, p, g) \in TaskState
    BY <1>0, <1>1, ExitTaskShape
  <2>. QED
    BY <1>0, <2>1, <2>2, TaskUpdate, TaskOnly DEF RuleExit
<1>3. CASE RulePass
  <2>1. task' = [task EXCEPT ![Monitor] =
                   [task[Monitor] EXCEPT !.pc = "check", !.guarded = FALSE]]
    BY <1>0, <1>3 DEF RulePass, TypeOK
  <2>2. [task[Monitor] EXCEPT !.pc = "check", !.guarded = FALSE] \in TaskState
    BY <1>0, PcNames, SetPc
  <2>. QED
    BY <1>0, <1>3, <2>1, <2>2, TaskUpdate, TaskOnly DEF RulePass
<1>4. CASE CheckExit
  <2>1. ExitTask(Monitor, t, p, FALSE) \in TaskState
    BY <1>0, <1>1, PcNames, ExitTaskShape
  <2>2. task' \in [Actors -> TaskState]
    BY <1>0, <1>4, <2>1, TaskUpdate DEF CheckExit
  <2>. QED
    BY <1>4, <2>2, TaskOnly DEF CheckExit
<1>. QED
  BY <1>2, <1>3, <1>4

LEMMA TrailType ==
    ASSUME TypeOK, ActivateTrail \/ MoveTrail \/ HoldRow \/ LogTrail
    PROVE  TypeOK'
<1>0. Monitor \in Actors
  BY DEF Actors
<1> DEFINE t == task[Monitor].cur
           p == task[Monitor].quote[t]
<1>1. t \in Trades /\ p \in Int
  BY <1>0, TaskParts
<1>2. /\ [trade EXCEPT ![t].sl = TrailStop(t, p)] \in [Trades -> Row]
      /\ [trade EXCEPT ![t].state = "TRAIL", ![t].sl = TrailStop(t, p)] \in [Trades -> Row]
  <2>1. TrailStop(t, p) \in Int
    BY <1>1, PriceShape
  <2>. QED
    BY <1>1, <2>1, StopShape
<1>3. trade' \in [Trades -> Row]
  BY <1>2 DEF ActivateTrail, MoveTrail, HoldRow, LogTrail, TypeOK
<1>4. task' \in [Actors -> TaskState]
  <2>1. AfterRow(Monitor) \in TaskState
    BY <1>0, AfterRowShape
  <2>2. [task EXCEPT ![Monitor] = AfterRow(Monitor)] \in [Actors -> TaskState]
    BY <1>0, <2>1, TaskUpdate
  <2>3. CASE ActivateTrail
    BY <1>0, <2>3, PcNames, GotoShape DEF ActivateTrail
  <2>. QED
    BY <2>2, <2>3 DEF MoveTrail, HoldRow, LogTrail
<1>5. trailEvents' \in [Trades -> Nat]
  BY <1>1, CountShape DEF ActivateTrail, MoveTrail, HoldRow, LogTrail, TypeOK
<1>6. UNCHANGED <<exitEvents, px, orders, cut, faults>>
  BY DEF ActivateTrail, MoveTrail, HoldRow, LogTrail
<1>. QED
  BY <1>3, <1>4, <1>5, <1>6 DEF TypeOK, TaskState

LEMMA PlaceOrderType ==
    ASSUME TypeOK, NEW a \in Actors, NEW pc \in PC, PlaceOrder(a, pc)
    PROVE  TypeOK'
<1> DEFINE t == task[a].cur
<1>1. t \in Trades /\ AfterRow(a) \in TaskState
  BY TaskParts, AfterRowShape
<1>2. /\ [orders EXCEPT ![a][t] = @ + 1] \in [Actors -> [Trades -> Nat]]
      /\ [cut EXCEPT ![a][t] = @ + 1] \in [Actors -> [Trades -> Nat]]
  BY <1>1, TallyShape DEF TypeOK
<1>3. task' \in [Actors -> TaskState]
  BY <1>1, TaskUpdate, GotoShape DEF PlaceOrder
<1>4. /\ orders' \in [Actors -> [Trades -> Nat]]
      /\ cut' \in [Actors -> [Trades -> Nat]]
  BY <1>2 DEF PlaceOrder, TypeOK
<1>5. faults' \in 0 .. MaxFaults
  BY MonitorAssumption DEF PlaceOrder, TypeOK
<1>6. UNCHANGED <<trade, exitEvents, trailEvents, px>>
  BY DEF PlaceOrder
<1>. QED
  BY <1>3, <1>4, <1>5, <1>6 DEF TypeOK, TaskState

LEMMA RecordExitType ==
    ASSUME TypeOK, NEW a \in Actors, RecordExit(a)
    PROVE  TypeOK'
<1>1. trade' \in [Trades -> Row]
  BY TaskParts, CloseShape DEF RecordExit
<1>2. task' \in [Actors -> TaskState]
  BY PcNames, GotoShape DEF RecordExit
<1>. QED
  BY <1>1, <1>2 DEF RecordExit, TypeOK, TaskState

LEMMA LogExitType ==
    ASSUME TypeOK, NEW a \in Actors, LogExit(a)
    PROVE  TypeOK'
<1>1. exitEvents' \in [Trades -> Nat]
  BY TaskParts, CountShape DEF LogExit, TypeOK
<1>2. task' \in [Actors -> TaskState]
  BY AfterRowShape, TaskUpdate DEF LogExit
<1>. QED
  BY <1>1, <1>2 DEF LogExit, TypeOK, TaskState

LEMMA MonitorType ==
    ASSUME TypeOK, MonitorStep
    PROVE  TypeOK'
<1>1. Monitor \in Actors /\ "update" \in PC
  BY PcNames DEF Actors
<1>2. ASSUME NEW s \in 1 .. (MaxPx + SlPts), HybridStop(s)
      PROVE  TypeOK'
  BY <1>2, HybridStopType
<1>. QED
  BY <1>1, <1>2, ReadOpenType, FetchQuotesType, FinishRowsType, NextRowType,
     AlignEntryType, RuleType, TrailType, PlaceOrderType, RecordExitType,
     LogExitType
  DEF MonitorStep

LEMMA CloserType ==
    ASSUME TypeOK, NEW c \in Closers, CloserStep(c)
    PROVE  TypeOK'
<1>0. c \in Actors /\ "mark" \in PC
  BY PcNames DEF Actors
<1>1. ASSUME NEW t \in Trades, CloseRequest(c, t)
      PROVE  TypeOK'
  <2> DEFINE rs == [Rest.rows EXCEPT ![t] = trade[t]]
             p == IF t \in Live THEN "order" ELSE "mark"
  <2>1. Rest \in TaskState /\ p \in PC
    BY RestShape, PcNames
  <2>2. rs \in [Trades -> Row]
    BY <2>1, StateParts DEF TypeOK
  <2>3. task' = [task EXCEPT ![c] = [Rest EXCEPT !.rows = rs, !.cur = t, !.pc = p]]
    BY <1>1, <2>1 DEF CloseRequest
  <2> HIDE DEF rs, p
  <2>4. [Rest EXCEPT !.rows = rs, !.cur = t, !.pc = p] \in TaskState
    BY <2>1, <2>2, SetRequest
  <2>5. task' \in [Actors -> TaskState]
    BY <1>0, <2>3, <2>4, TaskUpdate
  <2>. QED
    BY <1>1, <2>5, TaskOnly DEF CloseRequest
<1>2. CASE MarkExit(c)
  <2> DEFINE t == task[c].cur
             r == task[c].rows[t]
             x == IF t \in Live
                    THEN IF px[t] > 0 THEN px[t] ELSE r.current
                    ELSE IF t \in Short THEN r.entry - 1 ELSE r.entry + 1
  <2>1. t \in Trades /\ r \in Row /\ task[c] \in TaskState
    BY <1>0, TaskParts
  <2>2. x \in Int
    BY <2>1, RowParts, MonitorAssumption DEF TypeOK
  <2>3. task' = [task EXCEPT ![c] = [task[c] EXCEPT !.pc = "update", !.exitPx = x]]
    BY <1>0, <1>2 DEF MarkExit, TypeOK
  <2> HIDE DEF x
  <2>4. [task[c] EXCEPT !.pc = "update", !.exitPx = x] \in TaskState
    BY <2>1, <2>2, PcNames, SetPc
  <2>5. task' \in [Actors -> TaskState]
    BY <1>0, <2>3, <2>4, TaskUpdate
  <2>. QED
    BY <1>2, <2>5, TaskOnly DEF MarkExit
<1>. QED
  BY <1>0, <1>1, <1>2, PlaceOrderType, RecordExitType, LogExitType DEF CloserStep

LEMMA ViewerType ==
    ASSUME TypeOK, NEW v \in Viewers, ViewerStep(v)
    PROVE  TypeOK'
<1>0. v \in Actors
  BY DEF Actors
<1>1. ASSUME NEW t \in Trades, ViewRow(v, t)
      PROVE  TypeOK'
  <2> DEFINE w == task[v]
             S == w.todo \ {t}
             p == w.quote[t]
  <2>1. w \in TaskState /\ S \in SUBSET Trades /\ p \in Int
    BY <1>0, TaskParts
  <2>2. \/ task' = [task EXCEPT ![v] = [w EXCEPT !.todo = S]]
        \/ task' = [task EXCEPT ![v] =
              [w EXCEPT !.todo = S, !.cur = t, !.pc = "update", !.exitPx = p]]
    BY <1>0, <1>1 DEF ViewRow
  <2> HIDE DEF S, p
  <2>3. /\ [w EXCEPT !.todo = S] \in TaskState
        /\ [w EXCEPT !.todo = S, !.cur = t, !.pc = "update", !.exitPx = p] \in TaskState
    <3>1. "update" \in PC /\ w.rows \in [Trades -> Row]
      BY <1>0, TaskParts, PcNames
    <3>. QED
      BY <2>1, <3>1, SetRead, SetCur
  <2>4. task' \in [Actors -> TaskState]
    BY <1>0, <2>2, <2>3, TaskUpdate
  <2>. QED
    BY <1>1, <2>4, TaskOnly DEF ViewRow
<1>. QED
  BY <1>0, <1>1, ReadOpenType, FetchQuotesType, FinishRowsType, RecordExitType,
     LogExitType
  DEF ViewerStep

LEMMA FaultType ==
    ASSUME TypeOK, (\E a \in Actors : Fail(a)) \/ Restart
    PROVE  TypeOK'
<1>1. cut' \in [Actors -> [Trades -> Nat]]
  BY CutOffShape DEF Fail, Restart
<1>2. faults' \in 0 .. MaxFaults
  <2>1. faults < MaxFaults /\ faults' = faults + 1
    BY DEF Fail, Restart
  <2>. QED
    BY <2>1, MonitorAssumption DEF TypeOK
<1>3. task' \in [Actors -> TaskState]
  <2>1. CASE Restart
    BY <2>1, RestShape DEF Restart
  <2>2. ASSUME NEW a \in Actors, Fail(a)
        PROVE  task' \in [Actors -> TaskState]
    <3>1. [task[a] EXCEPT !.pc = "check", !.exitPx = 0, !.guarded = FALSE] \in TaskState
      BY TaskParts, PcNames, SetPc
    <3>. QED
      BY <2>2, <3>1, RestShape, TaskUpdate DEF Fail
  <2>. QED
    BY <2>1, <2>2
<1>4. UNCHANGED <<trade, exitEvents, trailEvents, px, orders>>
  BY DEF Fail, Restart
<1>. QED
  BY <1>1, <1>2, <1>3, <1>4 DEF TypeOK, TaskState

LEMMA TypeStep == TypeOK /\ [Next]_vars => TypeOK'
<1>1. TypeOK /\ UNCHANGED vars => TypeOK'
  BY DEF TypeOK, vars
<1>2. ASSUME TypeOK, NEW t \in Trades, MovePrice(t)
      PROVE  TypeOK'
  BY <1>2 DEF MovePrice, TypeOK
<1>3. TypeOK /\ Next => TypeOK'
  BY <1>2, MonitorType, CloserType, ViewerType, FaultType DEF Next
<1>. QED
  BY <1>1, <1>3

(***************************************************************************)
(* Rows, tasks, events and the broker's book keep their shape: a task that *)
(* writes back what it read long ago writes a row, and a quote is a price. *)
(***************************************************************************)
THEOREM MonitorTypeCorrect == Spec => []TypeOK
  BY TypeInit, TypeStep, PTL DEF Spec

-----------------------------------------------------------------------------
(* What each step does to the task that takes it *)

Others(a) == \A b \in Actors \ {a} : task'[b] = task[b]

\* The task goes on with the rows it read, at pc, inside a try block or not.
Moved(a, pc, guarded) ==
    /\ Others(a)
    /\ task'[a].pc = pc /\ task'[a].guarded = guarded
    /\ task'[a].rows = task[a].rows /\ task'[a].quote = task[a].quote
    /\ task'[a].todo = task[a].todo /\ task'[a].cur = task[a].cur

Done(a) == Others(a) /\ task'[a] = Rest

\* The step decides on no exit price.
NoPrice(a) == task'[a].exitPx \in {0, task[a].exitPx}

\* A closer is through, any other task goes on to its next row.
RowDone(a) == (a \in Closers /\ Done(a)) \/ (a \notin Closers /\ Moved(a, "rows", FALSE))

LEMMA RestParts ==
    /\ Rest \in TaskState /\ Rest.pc = "idle" /\ Rest.todo = {} /\ Rest.guarded = FALSE
    /\ Rest.rows = [t \in Trades |-> NoRow] /\ Rest.exitPx = 0
  BY RestShape DEF Rest

LEMMA AfterRowDoes ==
    ASSUME TypeOK, NEW a \in Actors, task' = [task EXCEPT ![a] = AfterRow(a)]
    PROVE  RowDone(a) /\ task'[a].exitPx = 0
<1>1. task[a] \in TaskState /\ Rest.exitPx = 0
  BY TaskParts, RestParts
<1>. QED
  BY <1>1 DEF AfterRow, RowDone, Done, Moved, Others, TypeOK, TaskState

LEMMA GotoDoes ==
    ASSUME TypeOK, NEW a \in Actors, NEW pc, Goto(a, pc)
    PROVE  Moved(a, pc, task[a].guarded) /\ task'[a].exitPx = task[a].exitPx
<1>1. task[a] \in TaskState
  BY TaskParts
<1>. QED
  BY <1>1 DEF Goto, Moved, Others, TypeOK, TaskState

LEMMA ReadOpenDoes ==
    ASSUME TypeOK, NEW a \in Actors, ReadOpen(a)
    PROVE  /\ task[a].pc = "idle" /\ task'[a].pc = "quotes" /\ Others(a)
           /\ task'[a].rows = [t \in Trades |-> IF IsOpen(trade[t]) THEN trade[t] ELSE NoRow]
           /\ task'[a].todo = {t \in Trades : IsOpen(trade[t])}
           /\ task'[a].cur = task[a].cur /\ task'[a].guarded = task[a].guarded
           /\ NoPrice(a)
<1>1. task[a] \in TaskState
  BY TaskParts
<1>. QED
  BY <1>1 DEF ReadOpen, AtPc, Others, NoPrice, TypeOK, TaskState

LEMMA FetchQuotesDoes ==
    ASSUME TypeOK, NEW a \in Actors, FetchQuotes(a)
    PROVE  /\ task[a].pc = "quotes" /\ task'[a].pc = "rows" /\ Others(a)
           /\ task'[a].rows = task[a].rows /\ task'[a].todo = task[a].todo
           /\ task'[a].cur = task[a].cur /\ task'[a].guarded = task[a].guarded
           /\ NoPrice(a)
<1>1. task[a] \in TaskState
  BY TaskParts
<1>. QED
  BY <1>1 DEF FetchQuotes, AtPc, Others, NoPrice, TypeOK, TaskState

LEMMA NextRowDoes ==
    ASSUME TypeOK, NEW t \in Trades, NextRow(t)
    PROVE  /\ Others(Monitor) /\ NoPrice(Monitor)
           /\ task[Monitor].pc = "rows" /\ t \in task[Monitor].todo
           /\ task'[Monitor].rows = task[Monitor].rows
           /\ task'[Monitor].quote = task[Monitor].quote
           /\ task'[Monitor].guarded = task[Monitor].guarded
           /\ task'[Monitor].todo = task[Monitor].todo \ {t}
           /\ \/ task'[Monitor].pc = "rows" /\ task'[Monitor].cur = task[Monitor].cur
              \/ /\ task'[Monitor].cur = t /\ task[Monitor].quote[t] # 0
                 /\ IF task[Monitor].rows[t].pending
                      THEN task'[Monitor].pc = "align"
                      ELSE task'[Monitor].pc \in {"rule", "check"}
<1>0. Monitor \in Actors
  BY DEF Actors
<1> DEFINE m == task[Monitor]
           S == m.todo \ {t}
           p == IF m.rows[t].pending THEN "align"
                ELSE IF t \in SuperTrend \cup Stochastic THEN "rule" ELSE "check"
<1>1. m \in TaskState /\ m.pc = "rows" /\ t \in m.todo
  BY <1>0, TaskParts DEF NextRow
<1>2. task' = [task EXCEPT ![Monitor] =
                 IF m.quote[t] = 0 THEN [m EXCEPT !.todo = S]
                 ELSE [m EXCEPT !.todo = S, !.cur = t, !.pc = p]]
  BY DEF NextRow
<1>3. /\ Others(Monitor)
      /\ task'[Monitor] = IF m.quote[t] = 0 THEN [m EXCEPT !.todo = S]
                          ELSE [m EXCEPT !.todo = S, !.cur = t, !.pc = p]
  BY <1>0, <1>2 DEF Others, TypeOK
<1>4. IF m.rows[t].pending THEN p = "align" ELSE p \in {"rule", "check"}
  OBVIOUS
<1> HIDE DEF p, S
<1>5. CASE m.quote[t] = 0
  <2>1. task'[Monitor] = [m EXCEPT !.todo = S]
    BY <1>3, <1>5
  <2>2. /\ task'[Monitor].rows = m.rows /\ task'[Monitor].quote = m.quote
        /\ task'[Monitor].todo = S /\ task'[Monitor].pc = "rows"
        /\ task'[Monitor].cur = m.cur /\ task'[Monitor].guarded = m.guarded
        /\ task'[Monitor].exitPx = m.exitPx
    BY <1>1, <2>1 DEF TaskState
  <2>. QED
    BY <1>1, <1>3, <2>2 DEF S, NoPrice
<1>6. CASE m.quote[t] # 0
  <2>1. task'[Monitor] = [m EXCEPT !.todo = S, !.cur = t, !.pc = p]
    BY <1>3, <1>6
  <2>2. /\ task'[Monitor].rows = m.rows /\ task'[Monitor].quote = m.quote
        /\ task'[Monitor].todo = S /\ task'[Monitor].pc = p
        /\ task'[Monitor].cur = t /\ task'[Monitor].guarded = m.guarded
        /\ task'[Monitor].exitPx = m.exitPx
    BY <1>1, <2>1 DEF TaskState
  <2>. QED
    BY <1>1, <1>3, <1>4, <1>6, <2>2 DEF S, NoPrice
<1>. QED
  BY <1>5, <1>6

LEMMA ExitTaskDoes ==
    ASSUME TypeOK, NEW a \in Actors, NEW p \in Int, NEW g \in BOOLEAN,
           task' = [task EXCEPT ![a] = ExitTask(a, task[a].cur, p, g)]
    PROVE  /\ Moved(a, IF task[a].cur \in Live THEN "order" ELSE "update", g)
           /\ task'[a].exitPx = p
<1>1. task[a] \in TaskState
  BY TaskParts
<1>. QED
  BY <1>1 DEF ExitTask, Moved, Others, TypeOK, TaskState

LEMMA HybridStopDoes ==
    ASSUME TypeOK, NEW s \in Int, HybridStop(s)
    PROVE  /\ Others(Monitor) /\ NoPrice(Monitor)
           /\ task[Monitor].pc = "rule" /\ task'[Monitor].pc = "rule"
           /\ task'[Monitor].rows = [task[Monitor].rows EXCEPT ![task[Monitor].cur].sl = s]
           /\ task'[Monitor].quote = task[Monitor].quote
           /\ task'[Monitor].todo = task[Monitor].todo
           /\ task'[Monitor].cur = task[Monitor].cur
           /\ task[Monitor].cur \in SuperTrend \cap Short
<1>0. Monitor \in Actors
  BY DEF Actors
<1> DEFINE m == task[Monitor]
           rs == [m.rows EXCEPT ![m.cur].sl = s]
<1>1. m \in TaskState /\ m.pc = "rule"
  BY <1>0, TaskParts DEF HybridStop
<1>2. Others(Monitor) /\ task'[Monitor] = [m EXCEPT !.rows = rs, !.guarded = TRUE]
  BY <1>0, <1>1 DEF HybridStop, Others, TypeOK
<1> HIDE DEF rs
<1>3. /\ task'[Monitor].rows = rs /\ task'[Monitor].quote = m.quote
      /\ task'[Monitor].todo = m.todo /\ task'[Monitor].pc = "rule"
      /\ task'[Monitor].cur = m.cur /\ task'[Monitor].exitPx = m.exitPx
  BY <1>1, <1>2 DEF TaskState
<1>. QED
  BY <1>1, <1>2, <1>3 DEF rs, HybridStop, NoPrice

LEMMA CheckDoes ==
    ASSUME TypeOK, (\E g \in BOOLEAN : RuleExit(g)) \/ CheckExit
    PROVE  \E g \in BOOLEAN :
             /\ task[Monitor].pc \in {"rule", "check"}
             /\ Moved(Monitor, IF task[Monitor].cur \in Live THEN "order" ELSE "update", g)
             /\ task'[Monitor].exitPx = task[Monitor].quote[task[Monitor].cur]
<1> DEFINE p == task[Monitor].quote[task[Monitor].cur]
<1>1. Monitor \in Actors /\ p \in Int
  BY TaskParts DEF Actors
<1>2. PICK g \in BOOLEAN :
        task' = [task EXCEPT ![Monitor] = ExitTask(Monitor, task[Monitor].cur, p, g)]
  BY PcNames DEF RuleExit, CheckExit
<1>3. task[Monitor].pc \in {"rule", "check"}
  BY DEF RuleExit, CheckExit
<1>. QED
  BY <1>1, <1>2, <1>3, ExitTaskDoes

LEMMA AlignEntryDoes ==
    ASSUME TypeOK, AlignEntry
    PROVE  Done(Monitor) /\ task[Monitor].pc = "align"
  BY DEF AlignEntry, Done, Others, TypeOK, Actors

LEMMA FinishRowsDoes ==
    ASSUME TypeOK, NEW a \in Actors, FinishRows(a)
    PROVE  Done(a) /\ task[a].pc = "rows"
  BY DEF FinishRows, AtPc, Done, Others, TypeOK

\* The broker took the order, refused it, or took it and the answer was lost.
LEMMA PlaceOrderDoes ==
    ASSUME TypeOK, NEW a \in Actors, NEW pc, PlaceOrder(a, pc)
    PROVE  /\ task[a].pc = "order" /\ NoPrice(a)
           /\ \/ Moved(a, pc, task[a].guarded) /\ UNCHANGED cut
                /\ orders' = [orders EXCEPT ![a][task[a].cur] = @ + 1]
              \/ RowDone(a) /\ UNCHANGED <<orders, cut>>
              \/ /\ RowDone(a)
                 /\ orders' = [orders EXCEPT ![a][task[a].cur] = @ + 1]
                 /\ cut' = [cut EXCEPT ![a][task[a].cur] = @ + 1]
<1>1. Goto(a, pc) => Moved(a, pc, task[a].guarded) /\ NoPrice(a)
  BY GotoDoes DEF NoPrice
<1>2. task' = [task EXCEPT ![a] = AfterRow(a)] => RowDone(a) /\ NoPrice(a)
  BY AfterRowDoes DEF NoPrice
<1>. QED
  BY <1>1, <1>2 DEF PlaceOrder, AtPc

LEMMA RulePassDoes ==
    ASSUME TypeOK, RulePass
    PROVE  /\ Moved(Monitor, "check", FALSE) /\ NoPrice(Monitor)
           /\ task[Monitor].pc = "rule"
<1>0. Monitor \in Actors /\ task[Monitor] \in TaskState
  BY TaskParts DEF Actors
<1>. QED
  BY <1>0 DEF RulePass, AtPc, Moved, Others, NoPrice, TypeOK, TaskState

LEMMA CloseRequestDoes ==
    ASSUME TypeOK, NEW c \in Closers, NEW t \in Trades, CloseRequest(c, t)
    PROVE  /\ Others(c) /\ task[c].pc = "idle" /\ IsOpen(trade[t])
           /\ task'[c].pc = IF t \in Live THEN "order" ELSE "mark"
           /\ task'[c].rows = [[u \in Trades |-> NoRow] EXCEPT ![t] = trade[t]]
           /\ task'[c].todo = {} /\ task'[c].cur = t /\ task'[c].guarded = FALSE
           /\ task'[c].exitPx = 0
<1> DEFINE rs == [Rest.rows EXCEPT ![t] = trade[t]]
           p == IF t \in Live THEN "order" ELSE "mark"
<1>1. /\ Others(c) /\ task[c].pc = "idle" /\ IsOpen(trade[t])
      /\ task'[c] = [Rest EXCEPT !.rows = rs, !.cur = t, !.pc = p]
  BY RestParts DEF CloseRequest, AtPc, Others, TypeOK, Actors
<1> HIDE DEF rs, p
<1>2. /\ task'[c].rows = rs /\ task'[c].todo = {} /\ task'[c].cur = t
      /\ task'[c].pc = p /\ task'[c].guarded = FALSE /\ task'[c].exitPx = 0
  BY <1>1, RestParts DEF TaskState
<1>. QED
  BY <1>1, <1>2, RestParts DEF rs, p

LEMMA MarkExitDoes ==
    ASSUME TypeOK, NEW c \in Closers, MarkExit(c)
    PROVE  LET t == task[c].cur
               r == task[c].rows[t]
           IN  /\ Moved(c, "update", task[c].guarded) /\ task[c].pc = "mark"
               /\ \/ px[t] > 0 /\ task'[c].exitPx = px[t]
                  \/ task'[c].exitPx \in {r.current, r.entry - 1, r.entry + 1}
<1> DEFINE t == task[c].cur
           r == task[c].rows[t]
           x == IF t \in Live
                  THEN IF px[t] > 0 THEN px[t] ELSE r.current
                  ELSE IF t \in Short THEN r.entry - 1 ELSE r.entry + 1
<1>1. c \in Actors /\ task[c] \in TaskState /\ task[c].pc = "mark"
  BY TaskParts DEF Actors, MarkExit, AtPc
<1>2. task' = [task EXCEPT ![c] = [task[c] EXCEPT !.pc = "update", !.exitPx = x]]
  BY <1>1 DEF MarkExit, TypeOK
<1>3. (px[t] > 0 /\ x = px[t]) \/ x \in {r.current, r.entry - 1, r.entry + 1}
  OBVIOUS
<1> HIDE DEF x
<1>4. Moved(c, "update", task[c].guarded) /\ task'[c].exitPx = x
  BY <1>1, <1>2 DEF Moved, Others, TypeOK, TaskState
<1>. QED
  BY <1>1, <1>3, <1>4

LEMMA ViewRowDoes ==
    ASSUME TypeOK, NEW v \in Viewers, NEW t \in Trades, ViewRow(v, t)
    PROVE  /\ Others(v) /\ task[v].pc = "rows" /\ t \in task[v].todo
           /\ task'[v].rows = task[v].rows /\ task'[v].quote = task[v].quote
           /\ task'[v].guarded = task[v].guarded
           /\ task'[v].todo = task[v].todo \ {t}
           /\ \/ task'[v].pc = "rows" /\ task'[v].cur = task[v].cur /\ NoPrice(v)
              \/ /\ task'[v].pc = "update" /\ task'[v].cur = t
                 /\ t \notin Live /\ task'[v].exitPx = task[v].quote[t]
<1> DEFINE w == task[v]
           S == w.todo \ {t}
           p == w.quote[t]
<1>1. v \in Actors /\ w \in TaskState /\ w.pc = "rows" /\ t \in w.todo
  BY TaskParts DEF Actors, ViewRow
<1>2. \/ task' = [task EXCEPT ![v] = [w EXCEPT !.todo = S]]
      \/ /\ t \notin Live
         /\ task' = [task EXCEPT ![v] =
              [w EXCEPT !.todo = S, !.cur = t, !.pc = "update", !.exitPx = p]]
  BY <1>1 DEF ViewRow
<1> HIDE DEF S, p
<1>3. CASE task' = [task EXCEPT ![v] = [w EXCEPT !.todo = S]]
  <2>1. /\ Others(v) /\ task'[v].rows = w.rows /\ task'[v].quote = w.quote
        /\ task'[v].guarded = w.guarded
        /\ task'[v].todo = S /\ task'[v].pc = "rows" /\ task'[v].cur = w.cur
        /\ task'[v].exitPx = w.exitPx
    BY <1>1, <1>3 DEF TaskState, Others, TypeOK
  <2>. QED
    BY <1>1, <2>1 DEF S, NoPrice
<1>4. CASE /\ t \notin Live
           /\ task' = [task EXCEPT ![v] =
                [w EXCEPT !.todo = S, !.cur = t, !.pc = "update", !.exitPx = p]]
  <2>1. /\ Others(v) /\ task'[v].rows = w.rows /\ task'[v].quote = w.quote
        /\ task'[v].guarded = w.guarded
        /\ task'[v].todo = S /\ task'[v].pc = "update" /\ task'[v].cur = t
        /\ task'[v].exitPx = p
    BY <1>1, <1>4 DEF TaskState, Others, TypeOK
  <2>. QED
    BY <1>1, <1>4, <2>1 DEF S, p
<1>. QED
  BY <1>2, <1>3, <1>4

LEMMA FailDoes ==
    ASSUME TypeOK, NEW a \in Actors, Fail(a)
    PROVE  \/ Done(a)
           \/ task[a].guarded /\ Moved(a, "check", FALSE) /\ NoPrice(a)
<1>1. task[a] \in TaskState
  BY TaskParts
<1>. QED
  BY <1>1 DEF Fail, Done, Moved, Others, NoPrice, TypeOK, TaskState

-----------------------------------------------------------------------------
(* The audit trail *)

\* No step takes a trade back.
Forward ==
    \A t \in Trades : /\ trade[t].state = "EXIT" => trade'[t].state = "EXIT"
                      /\ trade[t].state # "ACTIVE" => trade'[t].state # "ACTIVE"

\* An event that is about to be written is true already.
Announced ==
    \A a \in Actors :
        /\ task[a].pc = "event" => trade[task[a].cur].state = "EXIT"
        /\ task[a].pc = "trailEvent" => trade[task[a].cur].state # "ACTIVE"

AuditInv == TypeOK /\ AuditTrail /\ Announced

LEMMA CloseForward ==
    ASSUME TypeOK, NEW t \in Trades, NEW r, NEW p, CloseRow(t, r, p)
    PROVE  Forward /\ trade'[t].state = "EXIT"
  BY DEF CloseRow, IsOpen, Forward, TypeOK

\* A row whose state is left alone.
LEMMA SameState ==
    ASSUME TypeOK, NEW t \in Trades, NEW r \in Row, r.state = trade[t].state,
           trade' = [trade EXCEPT ![t] = r]
    PROVE  Forward
  BY DEF Forward, TypeOK

LEMMA RowFields ==
    ASSUME NEW r \in Row, NEW e, NEW p, NEW g, NEW s, NEW b
    PROVE  /\ [r EXCEPT !.entry = e, !.current = p, !.target = g, !.sl = s,
                        !.pending = b].state = r.state
           /\ [r EXCEPT !.sl = s].state = r.state
  BY DEF Row

LEMMA StateForward == TypeOK /\ [Next]_vars => Forward
<1> SUFFICES ASSUME TypeOK, [Next]_vars
             PROVE  Forward
  OBVIOUS
<1>0. Monitor \in Actors /\ Closers \subseteq Actors /\ Viewers \subseteq Actors
  BY DEF Actors
<1>1. CASE UNCHANGED trade
  BY <1>1 DEF Forward
<1>2. ASSUME NEW a \in Actors, RecordExit(a)
      PROVE  Forward
  BY <1>2, TaskParts, CloseForward DEF RecordExit
<1>3. CASE AlignEntry
  <2> DEFINE t == task[Monitor].cur
             p == task[Monitor].quote[t]
             r == [trade[t] EXCEPT !.entry = p, !.current = p,
                     !.target = Target(t, p), !.sl = StopLoss(t, p), !.pending = FALSE]
  <2>1. t \in Trades /\ p \in Int /\ trade[t] \in Row
    BY <1>0, TaskParts DEF TypeOK
  <2>2. Target(t, p) \in Int /\ StopLoss(t, p) \in Int
    BY <2>1, PriceShape
  <2>3. r \in Row
    BY <2>1, <2>2, RowShape, PcNames
  <2>4. r.state = trade[t].state
    BY <2>1, RowFields
  <2>5. trade' = trade \/ trade' = [trade EXCEPT ![t] = r]
    BY <1>3, <2>1 DEF AlignEntry, TypeOK
  <2> HIDE DEF r, t, p
  <2>. QED
    BY <1>1, <2>1, <2>3, <2>4, <2>5, SameState
<1>4. ASSUME NEW s \in Int, HybridStop(s)
      PROVE  Forward
  <2> DEFINE t == task[Monitor].cur
             r == [trade[t] EXCEPT !.sl = s]
  <2>1. t \in Trades /\ trade[t] \in Row
    BY <1>0, TaskParts DEF TypeOK
  <2>2. r \in Row
    BY <1>4, <2>1, RowShape
  <2>3. r.state = trade[t].state
    BY <2>1, RowFields
  <2>4. trade' = trade \/ trade' = [trade EXCEPT ![t] = r]
    BY <1>4, <2>1 DEF HybridStop, TypeOK
  <2> HIDE DEF r, t
  <2>. QED
    BY <1>1, <2>1, <2>2, <2>3, <2>4, SameState
<1>5. CASE ActivateTrail
  BY <1>0, <1>5, TaskParts DEF ActivateTrail, Forward, TypeOK
<1>6. CASE MoveTrail
  BY <1>0, <1>6, TaskParts DEF MoveTrail, Forward, TypeOK
<1>7. CASE MonitorStep
  <2>1. \A s \in 1 .. (MaxPx + SlPts) : s \in Int
    BY MonitorAssumption
  <2>2. \/ UNCHANGED trade \/ RecordExit(Monitor) \/ AlignEntry
        \/ (\E s \in 1 .. (MaxPx + SlPts) : HybridStop(s)) \/ ActivateTrail \/ MoveTrail
    BY <1>7
    DEF MonitorStep, ReadOpen, FetchQuotes, FinishRows, NextRow, RuleExit, RulePass,
        CheckExit, LogTrail, HoldRow, PlaceOrder, LogExit
  <2>. QED
    BY <1>0, <2>1, <2>2, <1>1, <1>2, <1>3, <1>4, <1>5, <1>6
<1>8. ASSUME NEW c \in Closers, CloserStep(c)
      PROVE  Forward
  <2>1. UNCHANGED trade \/ RecordExit(c)
    BY <1>8 DEF CloserStep, CloseRequest, PlaceOrder, MarkExit, LogExit
  <2>. QED
    BY <1>0, <2>1, <1>1, <1>2
<1>9. ASSUME NEW v \in Viewers, ViewerStep(v)
      PROVE  Forward
  <2>1. UNCHANGED trade \/ RecordExit(v)
    BY <1>9 DEF ViewerStep, ReadOpen, FetchQuotes, FinishRows, ViewRow, LogExit
  <2>. QED
    BY <1>0, <2>1, <1>1, <1>2
<1>10. CASE UNCHANGED vars
  BY <1>10, <1>1 DEF vars
<1>11. CASE \/ \E t \in Trades : MovePrice(t)
            \/ \E a \in Actors : Fail(a)
            \/ Restart
  BY <1>11, <1>1 DEF MovePrice, Fail, Restart
<1>12. CASE Next
  BY <1>12, <1>7, <1>8, <1>9, <1>11 DEF Next
<1>. QED
  BY <1>10, <1>12

\* Tasks that do not come to write an event keep the trail in order.
LEMMA Quiet ==
    ASSUME AuditInv, Forward, UNCHANGED <<exitEvents, trailEvents>>,
           \A a \in Actors : \/ task'[a] = task[a]
                             \/ task'[a].pc \notin {"event", "trailEvent"}
    PROVE  AuditTrail' /\ Announced'
<1>1. \A a \in Actors : task[a].cur \in Trades
  BY TaskParts DEF AuditInv
<1>. QED
  BY <1>1 DEF AuditInv, AuditTrail, Announced, Forward

LEMMA AfterRowPc ==
    ASSUME TypeOK, NEW a \in Actors
    PROVE  AfterRow(a).pc \in {"idle", "rows"}
  BY TaskParts DEF AfterRow, Rest, TaskState

\* The steps that write an event.
LEMMA LogExitAudit ==
    ASSUME AuditInv, NEW a \in Actors, LogExit(a)
    PROVE  AuditTrail' /\ Announced'
<1>1. TypeOK /\ task[a].cur \in Trades /\ AfterRow(a).pc \in {"idle", "rows"}
  BY TaskParts, AfterRowPc DEF AuditInv
<1>2. trade[task[a].cur].state = "EXIT"
  BY DEF LogExit, AtPc, AuditInv, Announced
<1>3. AuditTrail'
  BY <1>1, <1>2 DEF LogExit, AuditInv, AuditTrail, TypeOK
<1>4. Announced'
  BY <1>1 DEF LogExit, AuditInv, Announced, TypeOK
<1>. QED
  BY <1>3, <1>4

LEMMA LogTrailAudit ==
    ASSUME AuditInv, LogTrail
    PROVE  AuditTrail' /\ Announced'
<1>0. Monitor \in Actors
  BY DEF Actors
<1>1. /\ TypeOK /\ task[Monitor].cur \in Trades
      /\ AfterRow(Monitor).pc \in {"idle", "rows"}
  BY <1>0, TaskParts, AfterRowPc DEF AuditInv
<1>2. trade[task[Monitor].cur].state # "ACTIVE"
  BY <1>0 DEF LogTrail, AtPc, AuditInv, Announced
<1>3. AuditTrail'
  BY <1>1, <1>2 DEF LogTrail, AuditInv, AuditTrail, TypeOK
<1>4. Announced'
  BY <1>0, <1>1 DEF LogTrail, AuditInv, Announced, TypeOK
<1>. QED
  BY <1>3, <1>4

\* The steps that lead to an event.
LEMMA RecordExitAudit ==
    ASSUME AuditInv, NEW a \in Actors, RecordExit(a)
    PROVE  AuditTrail' /\ Announced'
<1> DEFINE t == task[a].cur
<1>1. TypeOK /\ t \in Trades /\ \A b \in Actors : task[b].cur \in Trades
  BY TaskParts DEF AuditInv
<1>2. Forward /\ trade'[t].state = "EXIT"
  BY <1>1, CloseForward DEF RecordExit
<1>3. \A b \in Actors : task'[b] = IF b = a THEN [task[a] EXCEPT !.pc = "event"] ELSE task[b]
  BY <1>1 DEF RecordExit, Goto, TypeOK
<1>4. [task[a] EXCEPT !.pc = "event"].pc = "event" /\ [task[a] EXCEPT !.pc = "event"].cur = t
  BY <1>1, TaskParts DEF TaskState
<1>5. AuditTrail'
  BY <1>2 DEF RecordExit, AuditInv, AuditTrail, Forward
<1>6. Announced'
  BY <1>1, <1>2, <1>3, <1>4 DEF AuditInv, Announced, Forward
<1>. QED
  BY <1>5, <1>6

LEMMA ActivateTrailAudit ==
    ASSUME AuditInv, Forward, ActivateTrail
    PROVE  AuditTrail' /\ Announced'
<1> DEFINE t == task[Monitor].cur
<1>0. Monitor \in Actors
  BY DEF Actors
<1>1. TypeOK /\ t \in Trades /\ \A b \in Actors : task[b].cur \in Trades
  BY <1>0, TaskParts DEF AuditInv
<1>2. trade'[t].state # "ACTIVE"
  BY <1>1 DEF ActivateTrail, TypeOK
<1>3. \A b \in Actors :
        task'[b] = IF b = Monitor THEN [task[Monitor] EXCEPT !.pc = "trailEvent"] ELSE task[b]
  BY <1>1 DEF ActivateTrail, Goto, TypeOK
<1>4. /\ [task[Monitor] EXCEPT !.pc = "trailEvent"].pc = "trailEvent"
      /\ [task[Monitor] EXCEPT !.pc = "trailEvent"].cur = t
  BY <1>0, <1>1, TaskParts DEF TaskState
<1>5. AuditTrail'
  BY DEF ActivateTrail, AuditInv, AuditTrail, Forward
<1>6. Announced'
  BY <1>1, <1>2, <1>3, <1>4 DEF AuditInv, Announced, Forward
<1>. QED
  BY <1>5, <1>6

\* A step of one task that does not stop before an event.
LEMMA QuietTask ==
    ASSUME NEW a \in Actors, Others(a), task'[a].pc \notin {"event", "trailEvent"}
    PROVE  \A b \in Actors : \/ task'[b] = task[b]
                             \/ task'[b].pc \notin {"event", "trailEvent"}
  BY DEF Others

LEMMA QuietMonitor ==
    ASSUME TypeOK,
           \/ \E t \in Trades : NextRow(t)
           \/ AlignEntry \/ (\E s \in Int : HybridStop(s))
           \/ (\E g \in BOOLEAN : RuleExit(g)) \/ RulePass \/ CheckExit
           \/ MoveTrail \/ HoldRow
    PROVE  /\ Others(Monitor) /\ task'[Monitor].pc \notin {"event", "trailEvent"}
           /\ UNCHANGED <<exitEvents, trailEvents>>
<1>1. Monitor \in Actors
  BY DEF Actors
<1>2. CASE \E t \in Trades : NextRow(t)
  BY <1>2, NextRowDoes DEF NextRow
<1>3. CASE AlignEntry
  BY <1>1, <1>3, AlignEntryDoes, RestParts DEF AlignEntry, Done
<1>4. CASE \E s \in Int : HybridStop(s)
  BY <1>4, HybridStopDoes DEF HybridStop
<1>5. CASE (\E g \in BOOLEAN : RuleExit(g)) \/ CheckExit
  <2>1. \E pc \in {"order", "update"}, g \in BOOLEAN : Moved(Monitor, pc, g)
    BY <1>5, CheckDoes
  <2>. QED
    BY <1>5, <2>1 DEF Moved, RuleExit, CheckExit
<1>6. CASE RulePass
  BY <1>6, RulePassDoes DEF Moved, RulePass
<1>7. CASE MoveTrail \/ HoldRow
  BY <1>1, <1>7, AfterRowDoes, RestParts DEF MoveTrail, HoldRow, RowDone, Moved, Done
<1>. QED
  BY <1>2, <1>3, <1>4, <1>5, <1>6, <1>7

LEMMA QuietSteps ==
    ASSUME TypeOK, NEW a \in Actors,
           \/ ReadOpen(a) \/ FetchQuotes(a) \/ FinishRows(a)
           \/ \E pc \in {"update", "mark"} : PlaceOrder(a, pc)
           \/ a \in Closers /\ \E t \in Trades : CloseRequest(a, t)
           \/ a \in Closers /\ MarkExit(a)
           \/ a \in Viewers /\ \E t \in Trades : ViewRow(a, t)
           \/ Fail(a)
    PROVE  /\ Others(a) /\ task'[a].pc \notin {"event", "trailEvent"}
           /\ UNCHANGED <<exitEvents, trailEvents>>
<1>1. CASE ReadOpen(a) \/ FetchQuotes(a)
  BY <1>1, ReadOpenDoes, FetchQuotesDoes DEF ReadOpen, FetchQuotes
<1>2. CASE FinishRows(a)
  BY <1>2, FinishRowsDoes, RestParts DEF FinishRows, Done
<1>3. CASE \E pc \in {"update", "mark"} : PlaceOrder(a, pc)
  BY <1>3, PlaceOrderDoes, RestParts DEF PlaceOrder, Moved, RowDone, Done
<1>4. CASE a \in Closers /\ \E t \in Trades : CloseRequest(a, t)
  BY <1>4, CloseRequestDoes DEF CloseRequest
<1>5. CASE a \in Closers /\ MarkExit(a)
  BY <1>5, MarkExitDoes DEF MarkExit, Moved
<1>6. CASE a \in Viewers /\ \E t \in Trades : ViewRow(a, t)
  BY <1>6, ViewRowDoes DEF ViewRow
<1>7. CASE Fail(a)
  BY <1>7, FailDoes, RestParts DEF Fail, Done, Moved
<1>. QED
  BY <1>1, <1>2, <1>3, <1>4, <1>5, <1>6, <1>7

LEMMA AuditInit == Init => AuditInv
<1> SUFFICES ASSUME Init
             PROVE  AuditInv
  OBVIOUS
<1>1. Rest.pc = "idle"
  BY DEF Rest
<1>. QED
  BY <1>1, TypeInit DEF Init, AuditInv, AuditTrail, Announced

LEMMA AuditStep == AuditInv /\ [Next]_vars => AuditInv'
<1> SUFFICES ASSUME AuditInv, [Next]_vars
             PROVE  AuditTrail' /\ Announced'
  BY TypeStep DEF AuditInv
<1>0. /\ TypeOK /\ Forward
      /\ Monitor \in Actors /\ Closers \subseteq Actors /\ Viewers \subseteq Actors
  BY StateForward DEF AuditInv, Actors
<1>1. ASSUME NEW a \in Actors, Others(a), task'[a].pc \notin {"event", "trailEvent"},
             UNCHANGED <<exitEvents, trailEvents>>
      PROVE  AuditTrail' /\ Announced'
  BY <1>0, <1>1, QuietTask, Quiet
<1>2. CASE MonitorStep
  <2>1. \A s \in 1 .. (MaxPx + SlPts) : s \in Int
    BY MonitorAssumption
  <2>2. CASE \/ \E t \in Trades : NextRow(t)
             \/ AlignEntry \/ (\E s \in Int : HybridStop(s))
             \/ (\E g \in BOOLEAN : RuleExit(g)) \/ RulePass \/ CheckExit
             \/ MoveTrail \/ HoldRow
    BY <1>0, <1>1, <2>2, QuietMonitor
  <2>3. CASE \/ ReadOpen(Monitor) \/ FetchQuotes(Monitor) \/ FinishRows(Monitor)
             \/ PlaceOrder(Monitor, "update")
    BY <1>0, <1>1, <2>3, QuietSteps
  <2>. QED
    BY <1>0, <1>2, <2>1, <2>2, <2>3, RecordExitAudit, LogExitAudit, LogTrailAudit,
       ActivateTrailAudit
    DEF MonitorStep
<1>3. ASSUME NEW c \in Closers, CloserStep(c)
      PROVE  AuditTrail' /\ Announced'
  <2>1. CASE \/ \E t \in Trades : CloseRequest(c, t)
             \/ PlaceOrder(c, "mark") \/ MarkExit(c)
    BY <1>0, <1>1, <2>1, QuietSteps
  <2>. QED
    BY <1>0, <1>3, <2>1, RecordExitAudit, LogExitAudit DEF CloserStep
<1>4. ASSUME NEW v \in Viewers, ViewerStep(v)
      PROVE  AuditTrail' /\ Announced'
  <2>1. CASE \/ ReadOpen(v) \/ FetchQuotes(v) \/ FinishRows(v)
             \/ \E t \in Trades : ViewRow(v, t)
    BY <1>0, <1>1, <2>1, QuietSteps
  <2>. QED
    BY <1>0, <1>4, <2>1, RecordExitAudit, LogExitAudit DEF ViewerStep
<1>8. ASSUME NEW a \in Actors, Fail(a)
      PROVE  AuditTrail' /\ Announced'
  BY <1>1, <1>8, <1>0, QuietSteps
<1>5. CASE \E t \in Trades : MovePrice(t)
  BY <1>0, <1>5, Quiet DEF MovePrice
<1>6. CASE Restart
  <2>1. \A a \in Actors : task'[a].pc = "idle"
    BY <1>6 DEF Restart, Rest
  <2>. QED
    BY <1>0, <1>6, <2>1, Quiet DEF Restart
<1>7. CASE UNCHANGED vars
  BY <1>0, <1>7, Quiet DEF vars
<1>. QED
  BY <1>2, <1>3, <1>4, <1>5, <1>6, <1>7, <1>8 DEF Next

(***************************************************************************)
(* An exit event is only ever written for a trade that is EXIT and a       *)
(* TRAIL_ACTIVATED event for one that has left ACTIVE, however many        *)
(* closers, viewers and faults there are: the row is written before the    *)
(* event, and no task ever takes a row back.                               *)
(***************************************************************************)
THEOREM AuditTrailHolds == Spec => []AuditTrail
<1>1. AuditInv => AuditTrail
  BY DEF AuditInv
<1>. QED
  BY <1>1, AuditInit, AuditStep, PTL DEF Spec

-----------------------------------------------------------------------------
(* The exit orders of a task *)

\* A row in hand is not looked at again in the same cycle, only a LIVE trade
\* goes to the broker, and a try block is left with the row.
Disciplined(a) ==
    /\ task[a].pc \notin {"idle", "quotes", "rows"} => task[a].cur \notin task[a].todo
    /\ task[a].pc = "order" => task[a].cur \in Live
    /\ task[a].guarded => task[a].pc \in {"rule", "order", "mark", "update", "event"}

\* The task has sent the order of t and is not through with the row.
Held(a, t) == task[a].cur = t /\ task[a].pc \in {"mark", "update", "event"}

\* The task may still come to the broker with t.
Ahead(a, t) ==
    \/ IsOpen(trade[t]) \/ t \in task[a].todo
    \/ task[a].cur = t /\ task[a].pc \in {"align", "rule", "check", "order"}

\* An order that was not cut off belongs to a row in hand or to one that the
\* task will not come to again.
OrderOf(a, t) ==
    /\ orders[a][t] =< 1 + cut[a][t]
    /\ orders[a][t] > cut[a][t] =>
          t \in Live /\ (Held(a, t) \/ ~Ahead(a, t))

OrderInv ==
    /\ AuditInv
    /\ \A a \in Actors : Disciplined(a)
    /\ \A a \in Actors, t \in Trades : OrderOf(a, t)

LEMMA OrderParts ==
    ASSUME OrderInv
    PROVE  /\ TypeOK /\ Monitor \in Actors
           /\ Closers \subseteq Actors /\ Viewers \subseteq Actors
           /\ \A a \in Actors, t \in Trades : orders[a][t] \in Nat /\ cut[a][t] \in Nat
           /\ \A a \in Actors : Disciplined(a)
           /\ \A a \in Actors, t \in Trades : OrderOf(a, t)
  BY DEF OrderInv, AuditInv, TypeOK, Actors

\* What the task that steps keeps, when no order is sent or cut off.
Keeps(a) ==
    /\ Disciplined(a)'
    /\ \A t \in Trades : /\ Held(a, t) => Held(a, t)' \/ ~Ahead(a, t)'
                         /\ Ahead(a, t)' => Ahead(a, t)

LEMMA OrderFrame ==
    ASSUME OrderInv, Forward, NEW a \in Actors, Others(a), Keeps(a),
           UNCHANGED <<orders, cut>>
    PROVE  /\ \A b \in Actors : Disciplined(b)'
           /\ \A b \in Actors, t \in Trades : OrderOf(b, t)'
<1>1. \A b \in Actors : Disciplined(b)'
  BY OrderParts DEF Others, Keeps, Disciplined
<1>2. ASSUME NEW b \in Actors, NEW t \in Trades
      PROVE  OrderOf(b, t)'
  <2>1. OrderOf(b, t)
    BY OrderParts
  <2>2. CASE b = a
    <3>1. OrderOf(a, t) /\ (Ahead(a, t)' => Ahead(a, t))
          /\ (Held(a, t) => Held(a, t)' \/ ~Ahead(a, t)')
      BY OrderParts DEF Keeps
    <3>2. OrderOf(a, t)'
      BY <3>1 DEF OrderOf, Held, Ahead
    <3>. QED
      BY <2>2, <3>2
  <2>3. CASE b # a
    <3>1. task'[b] = task[b] /\ (~IsOpen(trade[t]) => ~IsOpen(trade'[t]))
      BY <2>3 DEF Others, Forward, IsOpen
    <3>. QED
      BY <2>1, <3>1 DEF OrderOf, Held, Ahead
  <2>. QED
    BY <2>2, <2>3
<1>. QED
  BY <1>1, <1>2

\* A task that goes on with the row in hand, before the broker or after it.
LEMMA KeepsMoved ==
    ASSUME OrderInv, Forward, NEW a \in Actors, NEW pc, NEW g, Moved(a, pc, g),
           task[a].pc \notin {"idle", "quotes", "rows"},
           pc = "order" => task[a].cur \in Live,
           g => pc \in {"rule", "order", "mark", "update", "event"},
           task[a].pc \in {"mark", "update", "event"} =>
              pc \in {"mark", "update", "event"},
           pc \in {"align", "rule", "check", "order"} =>
              task[a].pc \in {"align", "rule", "check", "order"}
    PROVE  Keeps(a)
<1>1. Disciplined(a)'
  BY OrderParts DEF Moved, Disciplined
<1>2. \A t \in Trades : Held(a, t) => Held(a, t)'
  BY DEF Moved, Held
<1>3. \A t \in Trades : Ahead(a, t)' => Ahead(a, t)
  BY DEF Moved, Ahead, Forward, IsOpen
<1>. QED
  BY <1>1, <1>2, <1>3 DEF Keeps

\* A task that is through with the row in hand, or with everything.
LEMMA KeepsDone ==
    ASSUME OrderInv, Forward, NEW a \in Actors, RowDone(a) \/ Done(a),
           task[a].pc \notin {"mark", "update", "event"} \/ ~Ahead(a, task[a].cur)
    PROVE  Keeps(a)
<1>1. Disciplined(a)'
  BY RestParts DEF Moved, RowDone, Done, Disciplined
<1>2. \A t \in Trades : Ahead(a, t)' => Ahead(a, t)
  BY RestParts DEF Moved, RowDone, Done, Ahead, Forward, IsOpen
<1>3. \A t \in Trades : Held(a, t) => ~Ahead(a, t)'
  BY <1>2 DEF Held
<1>. QED
  BY <1>1, <1>2, <1>3 DEF Keeps

LEMMA KeepsRead ==
    ASSUME OrderInv, Forward, NEW a \in Actors,
           ReadOpen(a) \/ FetchQuotes(a) \/ FinishRows(a)
    PROVE  Keeps(a) /\ Others(a) /\ UNCHANGED <<orders, cut>>
<1>0. TypeOK
  BY OrderParts
<1>1. CASE ReadOpen(a)
  <2>1. UNCHANGED <<trade, orders, cut>>
    BY <1>1 DEF ReadOpen
  <2>2. /\ task[a].pc = "idle" /\ task'[a].pc = "quotes" /\ Others(a)
        /\ task'[a].todo = {t \in Trades : IsOpen(trade[t])}
        /\ task'[a].cur = task[a].cur /\ task'[a].guarded = task[a].guarded
    BY <1>0, <1>1, ReadOpenDoes
  <2>3. \A t \in task'[a].todo : IsOpen(trade[t])
    BY <2>2
  <2>4. Disciplined(a)'
    BY <2>2, OrderParts DEF Disciplined
  <2>5. \A t \in Trades : ~Held(a, t) /\ (Ahead(a, t)' => Ahead(a, t))
    BY <2>1, <2>2, <2>3 DEF Held, Ahead
  <2>. QED
    BY <2>1, <2>2, <2>4, <2>5 DEF Keeps
<1>2. CASE FetchQuotes(a)
  <2>1. UNCHANGED trade
    BY <1>2 DEF FetchQuotes
  <2>. QED
    BY <1>0, <1>2, <2>1, FetchQuotesDoes, OrderParts
    DEF FetchQuotes, Keeps, Disciplined, Held, Ahead
<1>3. CASE FinishRows(a)
  BY <1>0, <1>3, FinishRowsDoes, KeepsDone DEF FinishRows, Done
<1>. QED
  BY <1>1, <1>2, <1>3

LEMMA KeepsNextRow ==
    ASSUME OrderInv, Forward, NEW t \in Trades, NextRow(t)
    PROVE  Keeps(Monitor) /\ Others(Monitor) /\ UNCHANGED <<orders, cut>>
<1>1. TypeOK /\ Monitor \in Actors /\ Disciplined(Monitor)
  BY OrderParts
<1>2. UNCHANGED <<trade, orders, cut>>
  BY DEF NextRow
<1>3. /\ task[Monitor].pc = "rows" /\ t \in task[Monitor].todo
      /\ task'[Monitor].guarded = task[Monitor].guarded
      /\ task'[Monitor].todo = task[Monitor].todo \ {t}
      /\ \/ task'[Monitor].pc = "rows" /\ task'[Monitor].cur = task[Monitor].cur
         \/ task'[Monitor].cur = t /\ task'[Monitor].pc \in {"align", "rule", "check"}
  BY <1>1, NextRowDoes
<1>. QED
  BY <1>1, <1>2, <1>3, NextRowDoes DEF Keeps, Disciplined, Held, Ahead

LEMMA KeepsRule ==
    ASSUME OrderInv, Forward,
           \/ AlignEntry \/ (\E s \in Int : HybridStop(s))
           \/ (\E g \in BOOLEAN : RuleExit(g)) \/ RulePass \/ CheckExit
    PROVE  Keeps(Monitor) /\ Others(Monitor) /\ UNCHANGED <<orders, cut>>
<1>0. TypeOK /\ Monitor \in Actors /\ Disciplined(Monitor)
  BY OrderParts
<1>1. CASE AlignEntry
  BY <1>0, <1>1, AlignEntryDoes, KeepsDone DEF AlignEntry, Done
<1>2. CASE \E s \in Int : HybridStop(s)
  <2>1. /\ Others(Monitor) /\ task[Monitor].pc = "rule" /\ task'[Monitor].pc = "rule"
        /\ task'[Monitor].todo = task[Monitor].todo
        /\ task'[Monitor].cur = task[Monitor].cur
    BY <1>0, <1>2, HybridStopDoes
  <2>2. UNCHANGED <<orders, cut>>
    BY <1>2 DEF HybridStop
  <2>. QED
    BY <1>0, <2>1, <2>2 DEF Keeps, Disciplined, Held, Ahead, Forward, IsOpen
<1>3. CASE (\E g \in BOOLEAN : RuleExit(g)) \/ CheckExit
  <2>1. UNCHANGED <<orders, cut>>
    BY <1>3 DEF RuleExit, CheckExit
  <2>2. PICK g \in BOOLEAN :
          /\ task[Monitor].pc \in {"rule", "check"}
          /\ Moved(Monitor, IF task[Monitor].cur \in Live THEN "order" ELSE "update", g)
    BY <1>0, <1>3, CheckDoes
  <2>3. Keeps(Monitor)
    BY <1>0, <2>2, KeepsMoved
  <2>. QED
    BY <2>1, <2>2, <2>3 DEF Moved
<1>4. CASE RulePass
  <2>1. Moved(Monitor, "check", FALSE) /\ task[Monitor].pc = "rule"
    BY <1>0, <1>4, RulePassDoes
  <2>2. Keeps(Monitor)
    BY <1>0, <2>1, KeepsMoved
  <2>. QED
    BY <1>4, <2>1, <2>2 DEF Moved, RulePass
<1>. QED
  BY <1>1, <1>2, <1>3, <1>4

LEMMA KeepsTrail ==
    ASSUME OrderInv, Forward, ActivateTrail \/ MoveTrail \/ HoldRow \/ LogTrail
    PROVE  Keeps(Monitor) /\ Others(Monitor) /\ UNCHANGED <<orders, cut>>
<1>0. TypeOK /\ Monitor \in Actors /\ Disciplined(Monitor)
  BY OrderParts
<1>1. UNCHANGED <<orders, cut>>
  BY DEF ActivateTrail, MoveTrail, HoldRow, LogTrail
<1>2. CASE ActivateTrail
  <2>1. Moved(Monitor, "trailEvent", task[Monitor].guarded) /\ task[Monitor].pc = "check"
    BY <1>0, <1>2, GotoDoes DEF ActivateTrail, StaysOpen
  <2>2. Keeps(Monitor)
    BY <1>0, <2>1, KeepsMoved DEF Disciplined
  <2>. QED
    BY <1>1, <2>1, <2>2 DEF Moved
<1>3. CASE MoveTrail \/ HoldRow \/ LogTrail
  <2>1. RowDone(Monitor) /\ task[Monitor].pc \in {"check", "trailEvent"}
    BY <1>0, <1>3, AfterRowDoes DEF MoveTrail, HoldRow, LogTrail, StaysOpen, AtPc
  <2>2. Keeps(Monitor)
    BY <1>0, <2>1, KeepsDone
  <2>. QED
    BY <1>1, <2>1, <2>2 DEF RowDone, Done, Moved
<1>. QED
  BY <1>2, <1>3

LEMMA KeepsRecord ==
    ASSUME OrderInv, Forward, NEW a \in Actors, RecordExit(a) \/ LogExit(a)
    PROVE  Keeps(a) /\ Others(a) /\ UNCHANGED <<orders, cut>>
<1>0. TypeOK /\ Disciplined(a)
  BY OrderParts
<1>1. CASE RecordExit(a)
  <2>1. Moved(a, "event", task[a].guarded) /\ task[a].pc = "update"
    BY <1>0, <1>1, GotoDoes DEF RecordExit, AtPc
  <2>2. Keeps(a)
    BY <1>0, <2>1, KeepsMoved DEF Disciplined
  <2>. QED
    BY <1>1, <2>1, <2>2 DEF RecordExit, Moved
<1>2. CASE LogExit(a)
  <2>1. RowDone(a) /\ task[a].pc = "event"
    BY <1>0, <1>2, AfterRowDoes DEF LogExit, AtPc
  <2>2. trade[task[a].cur].state = "EXIT"
    BY <2>1 DEF OrderInv, AuditInv, Announced
  <2>3. ~Ahead(a, task[a].cur)
    BY <1>0, <2>1, <2>2 DEF Ahead, IsOpen, Disciplined
  <2>4. Keeps(a)
    BY <2>1, <2>3, KeepsDone
  <2>. QED
    BY <1>2, <2>1, <2>4 DEF LogExit, RowDone, Done, Moved
<1>. QED
  BY <1>1, <1>2

LEMMA KeepsRequest ==
    ASSUME OrderInv, Forward, NEW c \in Closers,
           (\E t \in Trades : CloseRequest(c, t)) \/ MarkExit(c)
    PROVE  Keeps(c) /\ Others(c) /\ UNCHANGED <<orders, cut>>
<1>0. TypeOK /\ c \in Actors /\ Disciplined(c)
  BY OrderParts
<1>1. ASSUME NEW t \in Trades, CloseRequest(c, t)
      PROVE  Keeps(c) /\ Others(c) /\ UNCHANGED <<orders, cut>>
  <2>1. /\ Others(c) /\ task[c].pc = "idle" /\ IsOpen(trade[t])
        /\ task'[c].pc = IF t \in Live THEN "order" ELSE "mark"
        /\ task'[c].todo = {} /\ task'[c].cur = t /\ task'[c].guarded = FALSE
    BY <1>0, <1>1, CloseRequestDoes
  <2>2. UNCHANGED <<trade, orders, cut>>
    BY <1>1 DEF CloseRequest
  <2>. QED
    BY <2>1, <2>2 DEF Keeps, Disciplined, Held, Ahead
<1>2. CASE MarkExit(c)
  <2>1. Moved(c, "update", task[c].guarded) /\ task[c].pc = "mark"
    BY <1>0, <1>2, MarkExitDoes
  <2>2. Keeps(c)
    BY <1>0, <2>1, KeepsMoved
  <2>. QED
    BY <1>2, <2>1, <2>2 DEF MarkExit, Moved
<1>. QED
  BY <1>1, <1>2

LEMMA KeepsViewRow ==
    ASSUME OrderInv, Forward, NEW v \in Viewers, NEW t \in Trades, ViewRow(v, t)
    PROVE  Keeps(v) /\ Others(v) /\ UNCHANGED <<orders, cut>>
<1>0. TypeOK /\ v \in Actors /\ Disciplined(v)
  BY OrderParts
<1>1. UNCHANGED <<trade, orders, cut>>
  BY DEF ViewRow
<1>2. /\ Others(v) /\ task[v].pc = "rows" /\ t \in task[v].todo
      /\ task'[v].guarded = task[v].guarded
      /\ task'[v].todo = task[v].todo \ {t}
      /\ \/ task'[v].pc = "rows" /\ task'[v].cur = task[v].cur
         \/ task'[v].pc = "update" /\ task'[v].cur = t
  BY <1>0, ViewRowDoes
<1>. QED
  BY <1>0, <1>1, <1>2 DEF Keeps, Disciplined, Held, Ahead

\* The broker is asked: what was ahead of the order is now behind it.
LEMMA PlaceOrderKeeps ==
    ASSUME OrderInv, Forward, NEW a \in Actors, NEW pc \in {"update", "mark"},
           PlaceOrder(a, pc)
    PROVE  /\ \A b \in Actors : Disciplined(b)'
           /\ \A b \in Actors, t \in Trades : OrderOf(b, t)'
<1> DEFINE u == task[a].cur
<1>0. TypeOK /\ Disciplined(a) /\ u \in Trades
  BY OrderParts, TaskParts
<1>1. task[a].pc = "order" /\ UNCHANGED trade
  BY <1>0, PlaceOrderDoes DEF PlaceOrder
<1>2. Ahead(a, u) /\ ~Held(a, u) /\ orders[a][u] =< cut[a][u] /\ u \in Live
  <2>1. Ahead(a, u) /\ ~Held(a, u) /\ u \in Live
    BY <1>0, <1>1 DEF Ahead, Held, Disciplined
  <2>2. orders[a][u] \in Nat /\ cut[a][u] \in Nat /\ OrderOf(a, u)
    BY <1>0, OrderParts
  <2>. QED
    BY <2>1, <2>2 DEF OrderOf
<1>3. /\ Others(a)
      /\ Moved(a, pc, task[a].guarded) \/ RowDone(a)
  BY <1>0, PlaceOrderDoes DEF Moved, RowDone, Done
<1>4. Keeps(a)
  BY <1>0, <1>1, <1>3, KeepsMoved, KeepsDone DEF Disciplined
<1>5. \A b \in Actors : Disciplined(b)'
  BY <1>3, <1>4, OrderParts DEF Others, Keeps, Disciplined
<1>6. CASE UNCHANGED <<orders, cut>>
  BY <1>3, <1>4, <1>6, OrderFrame
<1>7. ASSUME orders' = [orders EXCEPT ![a][u] = @ + 1],
             \/ Moved(a, pc, task[a].guarded) /\ UNCHANGED cut
             \/ cut' = [cut EXCEPT ![a][u] = @ + 1]
      PROVE  \A b \in Actors, t \in Trades : OrderOf(b, t)'
  <2> SUFFICES ASSUME NEW b \in Actors, NEW t \in Trades
               PROVE  OrderOf(b, t)'
    OBVIOUS
  <2>1. OrderOf(b, t) /\ orders[b][t] \in Nat /\ cut[b][t] \in Nat
    BY OrderParts
  <2>2. CASE b = a /\ t = u
    <3>1. orders'[a][u] = orders[a][u] + 1
      BY <1>0, <1>7 DEF TypeOK
    <3>2. CASE Moved(a, pc, task[a].guarded) /\ UNCHANGED cut
      BY <1>0, <1>2, <2>1, <2>2, <3>1, <3>2 DEF Moved, OrderOf, Held
    <3>3. CASE cut' = [cut EXCEPT ![a][u] = @ + 1]
      <4>1. cut'[a][u] = cut[a][u] + 1
        BY <1>0, <3>3 DEF TypeOK
      <4>. QED
        BY <1>2, <2>1, <2>2, <3>1, <4>1 DEF OrderOf
    <3>. QED
      BY <1>7, <3>2, <3>3
  <2>3. CASE b # a \/ t # u
    <3>1. orders'[b][t] = orders[b][t] /\ cut'[b][t] = cut[b][t]
      BY <1>0, <1>7, <2>3 DEF TypeOK
    <3>2. CASE b = a
      <4>1. /\ Held(a, t) => Held(a, t)' \/ ~Ahead(a, t)'
            /\ Ahead(a, t)' => Ahead(a, t)
        BY <1>4 DEF Keeps
      <4>2. OrderOf(a, t) /\ orders'[a][t] = orders[a][t] /\ cut'[a][t] = cut[a][t]
        BY <2>1, <3>1, <3>2
      <4>3. OrderOf(a, t)'
        BY <4>1, <4>2 DEF OrderOf, Held, Ahead
      <4>. QED
        BY <3>2, <4>3
    <3>3. CASE b # a
      <4>1. task'[b] = task[b]
        BY <1>3, <3>3 DEF Others
      <4>. QED
        BY <1>1, <2>1, <3>1, <4>1 DEF OrderOf, Held, Ahead
    <3>. QED
      BY <3>2, <3>3
  <2>. QED
    BY <2>2, <2>3
<1>. QED
  BY <1>0, <1>5, <1>6, <1>7, PlaceOrderDoes

\* A fault takes tasks off what they hold: the order is counted as cut off.
LEMMA FaultKeeps ==
    ASSUME OrderInv, NEW A \in SUBSET Actors, CutOff(A),
           UNCHANGED <<trade, orders>>,
           \A a \in A : \/ task'[a] = Rest
                        \/ /\ task[a].guarded /\ task'[a].pc = "check"
                           /\ task'[a].todo = task[a].todo /\ task'[a].cur = task[a].cur
                           /\ task'[a].guarded = FALSE,
           \A a \in Actors \ A : task'[a] = task[a]
    PROVE  /\ \A a \in Actors : Disciplined(a)'
           /\ \A a \in Actors, t \in Trades : OrderOf(a, t)'
<1>1. ASSUME NEW a \in Actors
      PROVE  Disciplined(a)'
  BY OrderParts, RestParts DEF Disciplined
<1>2. ASSUME NEW a \in Actors, NEW t \in Trades
      PROVE  OrderOf(a, t)'
  <2>1. /\ OrderOf(a, t) /\ Disciplined(a) /\ task[a].cur \in Trades
        /\ orders[a][t] \in Nat /\ cut[a][t] \in Nat
    BY OrderParts, TaskParts
  <2>2. cut'[a][t] = IF a \in A /\ InExit(a) /\ t = task[a].cur
                       THEN cut[a][t] + 1 ELSE cut[a][t]
    BY DEF CutOff
  <2>3. CASE a \notin A
    <3>1. task'[a] = task[a] /\ cut'[a][t] = cut[a][t]
      BY <2>2, <2>3
    <3>. QED
      BY <2>1, <3>1 DEF OrderOf, Held, Ahead
  <2>4. CASE a \in A /\ Held(a, t)
    BY <2>1, <2>2, <2>4 DEF OrderOf, Held, InExit
  <2>5. CASE a \in A /\ ~Held(a, t)
    <3>1. cut'[a][t] = cut[a][t]
      BY <2>2, <2>5 DEF InExit, Held
    <3>2. Ahead(a, t)' => Ahead(a, t)
      BY <2>1, <2>5, RestParts DEF Ahead, Held, Disciplined
    <3>. QED
      BY <2>1, <2>5, <3>1, <3>2 DEF OrderOf
  <2>. QED
    BY <2>3, <2>4, <2>5
<1>. QED
  BY <1>1, <1>2

LEMMA OrderInit == Init => OrderInv
<1> SUFFICES ASSUME Init
             PROVE  OrderInv
  OBVIOUS
<1>1. \A a \in Actors : Disciplined(a)
  BY RestParts DEF Init, Disciplined
<1>2. \A a \in Actors, t \in Trades : orders[a][t] = 0 /\ cut[a][t] = 0
  BY DEF Init
<1>. QED
  BY <1>1, <1>2, AuditInit DEF OrderInv, OrderOf

LEMMA OrderStep == OrderInv /\ [Next]_vars => OrderInv'
<1> SUFFICES ASSUME OrderInv, [Next]_vars
             PROVE  /\ \A a \in Actors : Disciplined(a)'
                    /\ \A a \in Actors, t \in Trades : OrderOf(a, t)'
  BY AuditStep DEF OrderInv
<1>0. /\ TypeOK /\ Forward /\ Monitor \in Actors
      /\ Closers \subseteq Actors /\ Viewers \subseteq Actors
  BY StateForward, OrderParts
<1>1. ASSUME NEW a \in Actors, Keeps(a) /\ Others(a) /\ UNCHANGED <<orders, cut>>
      PROVE  /\ \A b \in Actors : Disciplined(b)'
             /\ \A b \in Actors, t \in Trades : OrderOf(b, t)'
  BY <1>0, <1>1, OrderFrame
<1>2. CASE MonitorStep
  <2>1. \A s \in 1 .. (MaxPx + SlPts) : s \in Int
    BY MonitorAssumption
  <2>2. CASE PlaceOrder(Monitor, "update")
    BY <1>0, <2>2, PlaceOrderKeeps
  <2>3. CASE ~PlaceOrder(Monitor, "update")
    <3>1. Keeps(Monitor) /\ Others(Monitor) /\ UNCHANGED <<orders, cut>>
      BY <1>0, <1>2, <2>1, <2>3, KeepsRead, KeepsNextRow, KeepsRule, KeepsTrail,
         KeepsRecord
      DEF MonitorStep
    <3>. QED
      BY <1>0, <1>1, <3>1
  <2>. QED
    BY <2>2, <2>3
<1>3. ASSUME NEW c \in Closers, CloserStep(c)
      PROVE  /\ \A b \in Actors : Disciplined(b)'
             /\ \A b \in Actors, t \in Trades : OrderOf(b, t)'
  <2>1. CASE PlaceOrder(c, "mark")
    BY <1>0, <2>1, PlaceOrderKeeps
  <2>2. CASE ~PlaceOrder(c, "mark")
    <3>1. Keeps(c) /\ Others(c) /\ UNCHANGED <<orders, cut>>
      BY <1>0, <1>3, <2>2, KeepsRequest, KeepsRecord DEF CloserStep
    <3>. QED
      BY <1>0, <1>1, <3>1
  <2>. QED
    BY <2>1, <2>2
<1>4. ASSUME NEW v \in Viewers, ViewerStep(v)
      PROVE  /\ \A b \in Actors : Disciplined(b)'
             /\ \A b \in Actors, t \in Trades : OrderOf(b, t)'
  <2>1. Keeps(v) /\ Others(v) /\ UNCHANGED <<orders, cut>>
    BY <1>0, <1>4, KeepsRead, KeepsViewRow, KeepsRecord DEF ViewerStep
  <2>. QED
    BY <1>0, <1>1, <2>1
<1>5. ASSUME NEW a \in Actors, Fail(a)
      PROVE  /\ \A b \in Actors : Disciplined(b)'
             /\ \A b \in Actors, t \in Trades : OrderOf(b, t)'
  <2>1. Done(a) \/ (task[a].guarded /\ Moved(a, "check", FALSE))
    BY <1>0, <1>5, FailDoes
  <2>2. CutOff({a}) /\ UNCHANGED <<trade, orders>> /\ {a} \in SUBSET Actors
    BY <1>5 DEF Fail
  <2>3. \A b \in Actors \ {a} : task'[b] = task[b]
    BY <2>1 DEF Done, Moved, Others
  <2>4. \A b \in {a} : \/ task'[b] = Rest
                       \/ /\ task[b].guarded /\ task'[b].pc = "check"
                          /\ task'[b].todo = task[b].todo /\ task'[b].cur = task[b].cur
                          /\ task'[b].guarded = FALSE
    BY <2>1 DEF Done, Moved
  <2>. QED
    BY <2>2, <2>3, <2>4, FaultKeeps
<1>6. CASE Restart
  <2>1. /\ CutOff(Actors) /\ UNCHANGED <<trade, orders>> /\ Actors \in SUBSET Actors
        /\ \A a \in Actors : task'[a] = Rest
    BY <1>6 DEF Restart
  <2>. QED
    BY <2>1, FaultKeeps
<1>7. CASE \/ \E t \in Trades : MovePrice(t)
           \/ UNCHANGED vars
  <2>1. UNCHANGED <<trade, task, orders, cut>>
    BY <1>7 DEF MovePrice, vars
  <2>. QED
    BY <2>1, OrderParts DEF Disciplined, OrderOf, Held, Ahead
<1>. QED
  BY <1>2, <1>3, <1>4, <1>5, <1>6, <1>7 DEF Next

(***************************************************************************)
(* A task sends at most one exit order for a trade, beyond those that a    *)
(* fault cut off between the broker and the end of the row, for any number *)
(* of tasks, trades and faults: once its order is out the task either has  *)
(* the row in hand or has closed it and does not come to it again.         *)
(***************************************************************************)
THEOREM OneExitHolds == Spec => []OneExitPerActor
<1>1. OrderInv => OneExitPerActor
  BY DEF OrderInv, OrderOf, OneExitPerActor
<1>. QED
  BY <1>1, OrderInit, OrderStep, PTL DEF Spec

-----------------------------------------------------------------------------
(* The realized P&L *)

\* A row that was entered at a quote keeps its entry and is not pending, in
\* the table and in whatever a task read.
AtEntry(r) == r.entry = EntryPx /\ ~r.pending

Anchored ==
    \A t \in Trades \ Pending :
        /\ AtEntry(trade[t])
        /\ \A a \in Actors : AtEntry(task[a].rows[t])

\* Only a pending row is re-anchored.
AlignsPending ==
    task[Monitor].pc = "align" => task[Monitor].rows[task[Monitor].cur].pending

PnlInv == TypeOK /\ Anchored /\ AlignsPending /\ PnlMatchesEntry

\* What a step may do to the row of a trade that was entered at a quote.
Settled(t) ==
    \/ UNCHANGED trade[t]
    \/ /\ AtEntry(trade'[t])
       /\ trade'[t].state = trade[t].state
       /\ trade'[t].pnl = trade[t].pnl /\ trade'[t].current = trade[t].current
    \/ /\ AtEntry(trade'[t]) /\ trade'[t].state = "TRAIL"
    \/ /\ AtEntry(trade'[t])
       /\ trade'[t].pnl = Pnl(t, EntryPx, trade'[t].current)

LEMMA PnlFrame ==
    ASSUME PnlInv, \A t \in Trades \ Pending : Settled(t),
           \A a \in Actors, t \in Trades \ Pending : AtEntry(task'[a].rows[t]),
           AlignsPending'
    PROVE  Anchored' /\ AlignsPending' /\ PnlMatchesEntry'
<1>1. ASSUME NEW t \in Trades \ Pending
      PROVE  /\ AtEntry(trade'[t])
             /\ trade'[t].state = "EXIT" =>
                  trade'[t].pnl = Pnl(t, trade'[t].entry, trade'[t].current)
  <2>1. /\ AtEntry(trade[t])
        /\ trade[t].state = "EXIT" =>
             trade[t].pnl = Pnl(t, trade[t].entry, trade[t].current)
    BY DEF PnlInv, Anchored, PnlMatchesEntry
  <2>. QED
    BY <2>1 DEF Settled, AtEntry
<1>. QED
  BY <1>1 DEF Anchored, PnlMatchesEntry

\* A task that keeps its rows or drops them, and does not come to re-anchor one.
LEMMA RowsKept ==
    ASSUME PnlInv, NEW a \in Actors, Others(a),
           task'[a].rows = task[a].rows \/ task'[a] = Rest,
           task'[a].pc # "align"
    PROVE  /\ \A b \in Actors, t \in Trades \ Pending : AtEntry(task'[b].rows[t])
           /\ AlignsPending'
<1>1. \A t \in Trades : AtEntry(NoRow) /\ Rest.rows[t] = NoRow
  BY RestParts DEF AtEntry, NoRow
<1>2. Monitor \in Actors
  BY DEF Actors
<1>. QED
  BY <1>1, <1>2 DEF PnlInv, Anchored, AlignsPending, Others

\* A step that leaves the rows of the table alone.
LEMMA PnlQuiet ==
    ASSUME PnlInv, NEW a \in Actors, Others(a), UNCHANGED trade,
           task'[a].rows = task[a].rows \/ task'[a] = Rest,
           task'[a].pc # "align"
    PROVE  Anchored' /\ AlignsPending' /\ PnlMatchesEntry'
  BY RowsKept, PnlFrame DEF Settled

\* What an UPDATE of one row leaves alone.
LEMMA StopOnly ==
    ASSUME NEW f \in [Trades -> Row], NEW u \in Trades, NEW s,
           NEW g, g = [f EXCEPT ![u].sl = s], NEW t \in Trades
    PROVE  /\ g[t].entry = f[t].entry /\ g[t].pending = f[t].pending
           /\ g[t].state = f[t].state /\ g[t].pnl = f[t].pnl
           /\ g[t].current = f[t].current
  BY DEF Row

LEMMA TrailOnly ==
    ASSUME NEW f \in [Trades -> Row], NEW u \in Trades, NEW s,
           NEW g, g = [f EXCEPT ![u].state = "TRAIL", ![u].sl = s], NEW t \in Trades
    PROVE  /\ g[t].entry = f[t].entry /\ g[t].pending = f[t].pending
           /\ t # u => g[t] = f[t]
           /\ t = u => g[t].state = "TRAIL"
  BY DEF Row

LEMMA PnlRead ==
    ASSUME PnlInv, NEW a \in Actors, ReadOpen(a)
    PROVE  Anchored' /\ AlignsPending' /\ PnlMatchesEntry'
<1>0. TypeOK /\ Monitor \in Actors
  BY DEF PnlInv, Actors
<1>1. /\ Others(a) /\ task'[a].pc = "quotes" /\ UNCHANGED trade
      /\ \A t \in Trades : task'[a].rows[t] = trade[t] \/ task'[a].rows[t] = NoRow
  <2>1. UNCHANGED trade
    BY DEF ReadOpen
  <2>2. /\ Others(a) /\ task'[a].pc = "quotes"
        /\ task'[a].rows = [t \in Trades |-> IF IsOpen(trade[t]) THEN trade[t] ELSE NoRow]
    BY <1>0, ReadOpenDoes
  <2>. QED
    BY <2>1, <2>2
<1>2. AtEntry(NoRow)
  BY DEF AtEntry, NoRow
<1>3. \A b \in Actors, t \in Trades \ Pending : AtEntry(task'[b].rows[t])
  BY <1>1, <1>2 DEF PnlInv, Anchored, Others
<1>4. AlignsPending'
  BY <1>0, <1>1 DEF PnlInv, AlignsPending, Others
<1>. QED
  BY <1>1, <1>3, <1>4, PnlFrame DEF Settled

LEMMA PnlNextRow ==
    ASSUME PnlInv, NEW t \in Trades, NextRow(t)
    PROVE  Anchored' /\ AlignsPending' /\ PnlMatchesEntry'
<1>0. TypeOK /\ Monitor \in Actors
  BY DEF PnlInv, Actors
<1>1. /\ Others(Monitor) /\ task'[Monitor].rows = task[Monitor].rows
      /\ \/ task'[Monitor].pc = "rows"
         \/ /\ task'[Monitor].cur = t
            /\ IF task[Monitor].rows[t].pending
                 THEN task'[Monitor].pc = "align"
                 ELSE task'[Monitor].pc \in {"rule", "check"}
  BY <1>0, NextRowDoes
<1>2. UNCHANGED trade
  BY DEF NextRow
<1>3. \A b \in Actors, u \in Trades \ Pending : AtEntry(task'[b].rows[u])
  BY <1>0, <1>1 DEF PnlInv, Anchored, Others
<1>4. AlignsPending'
  BY <1>1 DEF AlignsPending
<1>. QED
  BY <1>2, <1>3, <1>4, PnlFrame DEF Settled

LEMMA PnlAlign ==
    ASSUME PnlInv, AlignEntry
    PROVE  Anchored' /\ AlignsPending' /\ PnlMatchesEntry'
<1> DEFINE u == task[Monitor].cur
<1>0. TypeOK /\ Monitor \in Actors /\ u \in Trades
  BY TaskParts DEF PnlInv, Actors
<1>1. Done(Monitor) /\ task[Monitor].pc = "align"
  BY <1>0, AlignEntryDoes
<1>2. u \in Pending
  BY <1>0, <1>1 DEF PnlInv, AlignsPending, Anchored, AtEntry
<1>3. \A t \in Trades \ Pending : UNCHANGED trade[t]
  BY <1>0, <1>2 DEF AlignEntry, TypeOK
<1>. QED
  BY <1>0, <1>1, <1>3, RestParts, RowsKept, PnlFrame DEF Settled, Done

LEMMA PnlHybrid ==
    ASSUME PnlInv, NEW s \in Int, HybridStop(s)
    PROVE  Anchored' /\ AlignsPending' /\ PnlMatchesEntry'
<1> DEFINE u == task[Monitor].cur
<1>0. /\ TypeOK /\ Monitor \in Actors /\ u \in Trades
      /\ task[Monitor].rows \in [Trades -> Row] /\ trade \in [Trades -> Row]
  BY TaskParts DEF PnlInv, Actors, TypeOK
<1>1. /\ Others(Monitor) /\ task'[Monitor].pc = "rule"
      /\ task'[Monitor].rows = [task[Monitor].rows EXCEPT ![u].sl = s]
  BY <1>0, HybridStopDoes
<1>2. trade' = trade \/ trade' = [trade EXCEPT ![u].sl = s]
  BY DEF HybridStop
<1> HIDE DEF u
<1>3. \A b \in Actors, t \in Trades \ Pending : AtEntry(task'[b].rows[t])
  <2>1. \A t \in Trades : /\ task'[Monitor].rows[t].entry = task[Monitor].rows[t].entry
                          /\ task'[Monitor].rows[t].pending = task[Monitor].rows[t].pending
    BY <1>0, <1>1, StopOnly
  <2>. QED
    <3>1. ASSUME NEW b \in Actors, NEW t \in Trades \ Pending, b # Monitor
          PROVE  AtEntry(task'[b].rows[t])
      BY <1>1, <3>1 DEF PnlInv, Anchored, Others
    <3>2. ASSUME NEW t \in Trades \ Pending
          PROVE  AtEntry(task'[Monitor].rows[t])
      <4>1. AtEntry(task[Monitor].rows[t])
        BY <1>0 DEF PnlInv, Anchored
      <4>. QED
        BY <2>1, <4>1 DEF AtEntry
    <3>. QED
      BY <3>1, <3>2
<1>4. ASSUME NEW t \in Trades \ Pending
      PROVE  Settled(t)
  <2>2. /\ trade'[t].entry = trade[t].entry /\ trade'[t].pending = trade[t].pending
        /\ trade'[t].state = trade[t].state /\ trade'[t].pnl = trade[t].pnl
        /\ trade'[t].current = trade[t].current
    BY <1>0, <1>2, StopOnly
  <2>3. AtEntry(trade[t])
    BY DEF PnlInv, Anchored
  <2>. QED
    BY <2>2, <2>3 DEF Settled, AtEntry
<1>5. AlignsPending'
  BY <1>1 DEF AlignsPending
<1>. QED
  BY <1>3, <1>4, <1>5, PnlFrame

\* The trail moves the stop and the state of a row.
LEMMA PnlTrail ==
    ASSUME PnlInv, ActivateTrail \/ MoveTrail
    PROVE  Anchored' /\ AlignsPending' /\ PnlMatchesEntry'
<1> DEFINE u == task[Monitor].cur
           s == TrailStop(u, task[Monitor].quote[u])
<1>0. TypeOK /\ Monitor \in Actors /\ u \in Trades /\ trade \in [Trades -> Row]
  BY TaskParts DEF PnlInv, Actors, TypeOK
<1>1. /\ Others(Monitor) /\ task'[Monitor].pc # "align"
      /\ task'[Monitor].rows = task[Monitor].rows \/ task'[Monitor] = Rest
  <2>1. CASE ActivateTrail
    <3>1. Moved(Monitor, "trailEvent", task[Monitor].guarded)
      BY <1>0, <2>1, GotoDoes DEF ActivateTrail
    <3>. QED
      BY <3>1 DEF Moved
  <2>2. CASE MoveTrail
    <3>1. RowDone(Monitor)
      BY <1>0, <2>2, AfterRowDoes DEF MoveTrail
    <3>. QED
      BY <3>1, RestParts DEF RowDone, Done, Moved
  <2>. QED
    BY <2>1, <2>2
<1>4. \/ trade' = trade \/ trade' = [trade EXCEPT ![u].sl = s]
      \/ trade' = [trade EXCEPT ![u].state = "TRAIL", ![u].sl = s]
  BY DEF ActivateTrail, MoveTrail
<1>5. ASSUME NEW t \in Trades \ Pending
      PROVE  Settled(t)
  <2>1. AtEntry(trade[t])
    BY DEF PnlInv, Anchored
  <2>2. CASE trade' = trade
    BY <2>2 DEF Settled
  <2>3. CASE trade' = [trade EXCEPT ![u].sl = s]
    <3>1. /\ trade'[t].entry = trade[t].entry /\ trade'[t].pending = trade[t].pending
          /\ trade'[t].state = trade[t].state /\ trade'[t].pnl = trade[t].pnl
          /\ trade'[t].current = trade[t].current
      BY <1>0, <2>3, StopOnly
    <3>. QED
      BY <2>1, <3>1 DEF Settled, AtEntry
  <2>4. CASE trade' = [trade EXCEPT ![u].state = "TRAIL", ![u].sl = s]
    <3>1. /\ trade'[t].entry = trade[t].entry /\ trade'[t].pending = trade[t].pending
          /\ t # u => trade'[t] = trade[t]
          /\ t = u => trade'[t].state = "TRAIL"
      BY <1>0, <2>4, TrailOnly
    <3>. QED
      BY <2>1, <3>1 DEF Settled, AtEntry
  <2>. QED
    BY <1>4, <2>2, <2>3, <2>4
<1>. QED
  BY <1>0, <1>1, <1>5, RowsKept, PnlFrame

LEMMA PnlRecord ==
    ASSUME PnlInv, NEW a \in Actors, RecordExit(a)
    PROVE  Anchored' /\ AlignsPending' /\ PnlMatchesEntry'
<1> DEFINE u == task[a].cur
           e == task[a].rows[u].entry
           p == task[a].exitPx
<1>0. /\ TypeOK /\ u \in Trades /\ trade \in [Trades -> Row]
  BY TaskParts DEF PnlInv, TypeOK
<1>1. Moved(a, "event", task[a].guarded)
  BY <1>0, GotoDoes DEF RecordExit
<1>2. \/ trade' = trade
      \/ trade' = [trade EXCEPT ![u].state = "EXIT", ![u].current = p,
                                ![u].pnl = Pnl(u, e, p)]
  BY DEF RecordExit, CloseRow
<1>3. u \notin Pending => e = EntryPx
  BY <1>0 DEF PnlInv, Anchored, AtEntry
<1> DEFINE x == Pnl(u, e, p)
<1> HIDE DEF u, e, p, x
<1>5. ASSUME NEW t \in Trades \ Pending
      PROVE  Settled(t)
  <2>1. AtEntry(trade[t])
    BY DEF PnlInv, Anchored
  <2>2. CASE trade' = trade
    BY <2>2 DEF Settled
  <2>3. CASE trade' = [trade EXCEPT ![u].state = "EXIT", ![u].current = p,
                                    ![u].pnl = x]
    <3>1. /\ trade'[t].entry = trade[t].entry /\ trade'[t].pending = trade[t].pending
          /\ t # u => trade'[t] = trade[t]
          /\ t = u => trade'[t].current = p /\ trade'[t].pnl = x
      BY <1>0, <2>3 DEF Row
    <3>. QED
      BY <1>3, <2>1, <3>1 DEF Settled, AtEntry, x
  <2>. QED
    BY <1>2, <2>2, <2>3 DEF x
<1>. QED
  BY <1>1, <1>5, RowsKept, PnlFrame DEF Moved

LEMMA PnlRequest ==
    ASSUME PnlInv, NEW c \in Closers, NEW t \in Trades, CloseRequest(c, t)
    PROVE  Anchored' /\ AlignsPending' /\ PnlMatchesEntry'
<1>0. TypeOK /\ c \in Actors /\ Monitor \in Actors
  BY DEF PnlInv, Actors
<1>1. /\ Others(c) /\ task'[c].pc \in {"order", "mark"} /\ UNCHANGED trade
      /\ \A u \in Trades : task'[c].rows[u] = trade[u] \/ task'[c].rows[u] = NoRow
  <2>1. UNCHANGED trade
    BY DEF CloseRequest
  <2>2. /\ Others(c)
        /\ task'[c].pc = IF t \in Live THEN "order" ELSE "mark"
        /\ task'[c].rows = [[u \in Trades |-> NoRow] EXCEPT ![t] = trade[t]]
    BY <1>0, CloseRequestDoes
  <2>. QED
    BY <2>1, <2>2
<1>2. AtEntry(NoRow)
  BY DEF AtEntry, NoRow
<1>3. \A b \in Actors, u \in Trades \ Pending : AtEntry(task'[b].rows[u])
  BY <1>1, <1>2 DEF PnlInv, Anchored, Others
<1>4. AlignsPending'
  BY <1>0, <1>1 DEF PnlInv, AlignsPending, Others
<1>. QED
  BY <1>1, <1>3, <1>4, PnlFrame DEF Settled

\* The steps that keep their rows and write none.
LEMMA PnlOthers ==
    ASSUME PnlInv, NEW a \in Actors,
           \/ FetchQuotes(a) \/ FinishRows(a) \/ LogExit(a) \/ Fail(a)
           \/ \E pc \in {"update", "mark"} : PlaceOrder(a, pc)
           \/ /\ a = Monitor
              /\ \/ (\E g \in BOOLEAN : RuleExit(g)) \/ RulePass \/ CheckExit
                 \/ HoldRow \/ LogTrail
           \/ a \in Closers /\ MarkExit(a)
           \/ a \in Viewers /\ \E t \in Trades : ViewRow(a, t)
    PROVE  Anchored' /\ AlignsPending' /\ PnlMatchesEntry'
<1>0. TypeOK
  BY DEF PnlInv
<1>1. UNCHANGED trade
  BY DEF FetchQuotes, FinishRows, LogExit, Fail, PlaceOrder, RuleExit, RulePass,
         CheckExit, HoldRow, LogTrail, MarkExit, ViewRow
<1>2. /\ Others(a) /\ task'[a].pc # "align"
      /\ task'[a].rows = task[a].rows \/ task'[a] = Rest
  <2>1. CASE FetchQuotes(a) \/ FinishRows(a) \/ Fail(a)
    BY <1>0, <2>1, FetchQuotesDoes, FinishRowsDoes, FailDoes, RestParts DEF Moved, Done
  <2>2. CASE LogExit(a) \/ (a = Monitor /\ (HoldRow \/ LogTrail))
    <3>1. RowDone(a)
      BY <1>0, <2>2, AfterRowDoes DEF LogExit, HoldRow, LogTrail
    <3>. QED
      BY <3>1, RestParts DEF RowDone, Moved, Done
  <2>3. CASE \E pc \in {"update", "mark"} : PlaceOrder(a, pc)
    BY <1>0, <2>3, PlaceOrderDoes, RestParts DEF RowDone, Moved, Done
  <2>4. CASE a = Monitor /\ ((\E g \in BOOLEAN : RuleExit(g)) \/ CheckExit)
    BY <1>0, <2>4, CheckDoes DEF Moved
  <2>5. CASE a = Monitor /\ RulePass
    BY <1>0, <2>5, RulePassDoes DEF Moved
  <2>6. CASE a \in Closers /\ MarkExit(a)
    BY <1>0, <2>6, MarkExitDoes DEF Moved
  <2>7. CASE a \in Viewers /\ \E t \in Trades : ViewRow(a, t)
    BY <1>0, <2>7, ViewRowDoes
  <2>. QED
    BY <2>1, <2>2, <2>3, <2>4, <2>5, <2>6, <2>7
<1>. QED
  BY <1>1, <1>2, PnlQuiet

LEMMA PnlInit == Init => PnlInv
<1> SUFFICES ASSUME Init
             PROVE  PnlInv
  OBVIOUS
<1>1. Anchored
  <2>1. \A t \in Trades : AtEntry(NoRow) /\ Rest.rows[t] = NoRow
    BY RestParts DEF AtEntry, NoRow
  <2>2. \A t \in Trades : trade[t].entry = EntryPx /\ trade[t].pending = (t \in Pending)
    BY DEF Init
  <2>. QED
    BY <2>1, <2>2 DEF Init, Anchored, AtEntry
<1>2. AlignsPending
  BY RestParts DEF Init, AlignsPending, Actors
<1>3. PnlMatchesEntry
  BY DEF Init, PnlMatchesEntry
<1>. QED
  BY <1>1, <1>2, <1>3, TypeInit DEF PnlInv

LEMMA PnlStep == PnlInv /\ [Next]_vars => PnlInv'
<1> SUFFICES ASSUME PnlInv, [Next]_vars
             PROVE  Anchored' /\ AlignsPending' /\ PnlMatchesEntry'
  BY TypeStep DEF PnlInv
<1>0. Monitor \in Actors /\ Closers \subseteq Actors /\ Viewers \subseteq Actors
  BY DEF Actors
<1>1. CASE MonitorStep
  <2>1. \A s \in 1 .. (MaxPx + SlPts) : s \in Int
    BY MonitorAssumption
  <2>. QED
    BY <1>0, <1>1, <2>1, PnlRead, PnlNextRow, PnlAlign, PnlHybrid, PnlTrail, PnlRecord,
       PnlOthers
    DEF MonitorStep
<1>2. ASSUME NEW c \in Closers, CloserStep(c)
      PROVE  Anchored' /\ AlignsPending' /\ PnlMatchesEntry'
  BY <1>0, <1>2, PnlRequest, PnlRecord, PnlOthers DEF CloserStep
<1>3. ASSUME NEW v \in Viewers, ViewerStep(v)
      PROVE  Anchored' /\ AlignsPending' /\ PnlMatchesEntry'
  BY <1>0, <1>3, PnlRead, PnlRecord, PnlOthers DEF ViewerStep
<1>4. ASSUME NEW a \in Actors, Fail(a)
      PROVE  Anchored' /\ AlignsPending' /\ PnlMatchesEntry'
  BY <1>4, PnlOthers
<1>5. CASE Restart
  <2>1. UNCHANGED trade /\ \A a \in Actors : task'[a] = Rest
    BY <1>5 DEF Restart
  <2>2. \A a \in Actors, t \in Trades \ Pending : AtEntry(task'[a].rows[t])
    BY <2>1, RestParts DEF AtEntry, NoRow
  <2>3. AlignsPending'
    BY <1>0, <2>1, RestParts DEF AlignsPending
  <2>. QED
    BY <2>1, <2>2, <2>3, PnlFrame DEF Settled
<1>6. CASE (\E t \in Trades : MovePrice(t)) \/ UNCHANGED vars
  BY <1>6 DEF MovePrice, vars, PnlInv, Anchored, AlignsPending, PnlMatchesEntry
<1>. QED
  BY <1>1, <1>2, <1>3, <1>4, <1>5, <1>6 DEF Next

(***************************************************************************)
(* The realized P&L of a trade that was entered at a quote is that of its  *)
(* own entry, exit price and side, whichever task closed it and however    *)
(* old the row was that it had read: the entry it books from is still the  *)
(* entry of the table, because only pending rows are ever re-anchored.     *)
(***************************************************************************)
THEOREM PnlHolds == Spec => []PnlMatchesEntry
<1>1. PnlInv => PnlMatchesEntry
  BY DEF PnlInv
<1>. QED
  BY <1>1, PnlInit, PnlStep, PTL DEF Spec

-----------------------------------------------------------------------------
(* The rows implement TradeBook *)

\* A row anybody may still close: its entry and its last price are prices.
Priced(r) == r.entry \in 1 .. MaxPx /\ r.current \in 1 .. MaxPx

\* A position is closed at a quote, or at one tick from its entry.
ExitPrices == 0 .. (MaxPx + 1)

PriceInv ==
    /\ TypeOK
    /\ \A t \in Trades : IsOpen(trade[t]) => Priced(trade[t])
    /\ \A a \in Actors :
         /\ task[a].exitPx \in ExitPrices
         /\ \A t \in Trades : Priced(task[a].rows[t])
    /\ task[Monitor].pc = "align" => task[Monitor].quote[task[Monitor].cur] # 0

LEMMA PriceParts ==
    /\ Priced(NoRow) /\ (\A t \in Trades : Rest.rows[t] = NoRow) /\ Rest.exitPx = 0
    /\ 0 \in ExitPrices /\ Rest.pc = "idle" /\ Monitor \in Actors
    /\ \A p \in 0 .. MaxPx : p \in ExitPrices
    /\ \A p \in 1 .. MaxPx : p \in ExitPrices /\ p - 1 \in ExitPrices /\ p + 1 \in ExitPrices
<1>1. MaxPx \in Nat /\ EntryPx \in 1 .. MaxPx
  BY MonitorAssumption
<1>2. /\ 0 \in ExitPrices /\ \A p \in 0 .. MaxPx : p \in ExitPrices
      /\ \A p \in 1 .. MaxPx : p \in ExitPrices /\ p - 1 \in ExitPrices /\ p + 1 \in ExitPrices
  BY <1>1 DEF ExitPrices
<1>. QED
  BY <1>1, <1>2, RestParts DEF Priced, NoRow, Actors

LEMMA PriceFrame ==
    ASSUME PriceInv, NEW a \in Actors, Others(a),
           \A t \in Trades : IsOpen(trade'[t]) =>
              \/ Priced(trade'[t])
              \/ /\ IsOpen(trade[t]) /\ trade'[t].entry = trade[t].entry
                 /\ trade'[t].current = trade[t].current,
           task'[a].exitPx \in {0, task[a].exitPx} \cup ExitPrices,
           \A t \in Trades : Priced(task'[a].rows[t]),
           a = Monitor => (task'[a].pc # "align" \/ task'[a].quote[task'[a].cur] # 0),
           TypeOK'
    PROVE  PriceInv'
<1>1. \A t \in Trades : IsOpen(trade'[t]) => Priced(trade'[t])
  BY DEF PriceInv, Priced
<1>2. ASSUME NEW b \in Actors
      PROVE  task'[b].exitPx \in ExitPrices /\ \A t \in Trades : Priced(task'[b].rows[t])
  BY PriceParts DEF PriceInv, Others
<1>3. task'[Monitor].pc = "align" => task'[Monitor].quote[task'[Monitor].cur] # 0
  BY PriceParts DEF PriceInv, Others
<1>. QED
  BY <1>1, <1>2, <1>3 DEF PriceInv

\* A step that keeps its rows or drops them, decides on no price and leaves the
\* prices of the open rows alone.
LEMMA PriceQuiet ==
    ASSUME PriceInv, TypeOK', NEW a \in Actors, Others(a),
           \A t \in Trades : IsOpen(trade'[t]) =>
              /\ IsOpen(trade[t]) /\ trade'[t].entry = trade[t].entry
              /\ trade'[t].current = trade[t].current,
           task'[a] = Rest \/ (task'[a].rows = task[a].rows /\ NoPrice(a)),
           task'[a].pc # "align"
    PROVE  PriceInv'
<1>1. \A t \in Trades : Priced(task'[a].rows[t])
  BY PriceParts DEF PriceInv
<1>2. task'[a].exitPx \in {0, task[a].exitPx} \cup ExitPrices
  BY PriceParts DEF NoPrice
<1>. QED
  BY <1>1, <1>2, PriceFrame

LEMMA PriceRows ==
    ASSUME PriceInv, NEW rs,
           \A t \in Trades : rs[t] = NoRow \/ (IsOpen(trade[t]) /\ rs[t] = trade[t])
    PROVE  \A t \in Trades : Priced(rs[t])
  BY PriceParts DEF PriceInv

LEMMA PriceRead ==
    ASSUME PriceInv, TypeOK', NEW a \in Actors, ReadOpen(a)
    PROVE  PriceInv'
<1>0. TypeOK /\ UNCHANGED trade
  BY DEF PriceInv, ReadOpen
<1>1. /\ Others(a) /\ task'[a].pc = "quotes" /\ NoPrice(a)
      /\ task'[a].rows = [t \in Trades |-> IF IsOpen(trade[t]) THEN trade[t] ELSE NoRow]
  BY <1>0, ReadOpenDoes
<1>2. task'[a].pc # "align" /\ task'[a].exitPx \in {0, task[a].exitPx}
  BY <1>1 DEF NoPrice
<1> DEFINE rs == task'[a].rows
<1>3. \A t \in Trades : rs[t] = NoRow \/ (IsOpen(trade[t]) /\ rs[t] = trade[t])
  BY <1>1
<1>4. \A t \in Trades : Priced(rs[t])
  <2> HIDE DEF rs
  <2>. QED
    BY <1>3, PriceRows
<1>. QED
  BY <1>0, <1>1, <1>2, <1>4, PriceFrame

LEMMA PriceRequest ==
    ASSUME PriceInv, TypeOK', NEW c \in Closers, NEW t \in Trades, CloseRequest(c, t)
    PROVE  PriceInv'
<1>0. TypeOK /\ UNCHANGED trade /\ c \in Actors
  BY DEF PriceInv, CloseRequest, Actors
<1>1. /\ Others(c) /\ IsOpen(trade[t]) /\ task'[c].exitPx = 0
      /\ task'[c].pc = IF t \in Live THEN "order" ELSE "mark"
      /\ task'[c].rows = [[u \in Trades |-> NoRow] EXCEPT ![t] = trade[t]]
  BY <1>0, CloseRequestDoes
<1>2. task'[c].pc # "align" /\ task'[c].exitPx \in {0, task[c].exitPx}
  BY <1>1
<1> DEFINE rs == task'[c].rows
<1>3. \A u \in Trades : rs[u] = NoRow \/ (IsOpen(trade[u]) /\ rs[u] = trade[u])
  BY <1>1
<1>4. \A u \in Trades : Priced(rs[u])
  <2> HIDE DEF rs
  <2>. QED
    BY <1>3, PriceRows
<1>. QED
  BY <1>0, <1>1, <1>2, <1>4, PriceFrame

LEMMA PriceNextRow ==
    ASSUME PriceInv, TypeOK', NEW t \in Trades, NextRow(t)
    PROVE  PriceInv'
<1>0. TypeOK /\ UNCHANGED trade /\ Monitor \in Actors
  BY DEF PriceInv, NextRow, Actors
<1>1. /\ Others(Monitor) /\ NoPrice(Monitor)
      /\ task'[Monitor].rows = task[Monitor].rows
      /\ task'[Monitor].quote = task[Monitor].quote
      /\ \/ task'[Monitor].pc = "rows"
         \/ task'[Monitor].cur = t /\ task[Monitor].quote[t] # 0
  BY <1>0, NextRowDoes
<1>2. \A u \in Trades : Priced(task'[Monitor].rows[u])
  BY <1>0, <1>1 DEF PriceInv
<1>3. task'[Monitor].pc # "align" \/ task'[Monitor].quote[task'[Monitor].cur] # 0
  BY <1>1
<1>. QED
  BY <1>0, <1>1, <1>2, <1>3, PriceFrame DEF NoPrice

LEMMA AlignedRow ==
    ASSUME NEW r \in Row, NEW p, NEW g, NEW s, NEW b
    PROVE  /\ [r EXCEPT !.entry = p, !.current = p, !.target = g, !.sl = s,
                        !.pending = b].entry = p
           /\ [r EXCEPT !.entry = p, !.current = p, !.target = g, !.sl = s,
                        !.pending = b].current = p
           /\ [r EXCEPT !.entry = p, !.current = p, !.target = g, !.sl = s,
                        !.pending = b].state = r.state
           /\ [r EXCEPT !.entry = p, !.current = p, !.target = g, !.sl = s,
                        !.pending = b].pnl = r.pnl
  BY DEF Row

LEMMA PriceAlign ==
    ASSUME PriceInv, TypeOK', AlignEntry
    PROVE  PriceInv'
<1> DEFINE u == task[Monitor].cur
           p == task[Monitor].quote[u]
<1>0. TypeOK /\ Monitor \in Actors /\ u \in Trades /\ trade \in [Trades -> Row]
  BY TaskParts DEF PriceInv, Actors, TypeOK
<1>1. Done(Monitor) /\ task[Monitor].pc = "align"
  BY <1>0, AlignEntryDoes
<1>2. p \in 1 .. MaxPx
  <2>1. p \in 0 .. MaxPx /\ p # 0
    BY <1>0, <1>1, TaskParts DEF PriceInv
  <2>. QED
    BY <2>1, MonitorAssumption
<1> DEFINE g == Target(u, p)
           s == StopLoss(u, p)
<1>3. \/ trade' = trade
      \/ /\ IsOpen(trade[u])
         /\ trade' = [trade EXCEPT ![u].entry = p, ![u].current = p, ![u].target = g,
                                   ![u].sl = s, ![u].pending = FALSE]
  BY DEF AlignEntry
<1> HIDE DEF u, p, g, s
<1>4. \A t \in Trades : IsOpen(trade'[t]) =>
        \/ Priced(trade'[t])
        \/ /\ IsOpen(trade[t]) /\ trade'[t].entry = trade[t].entry
           /\ trade'[t].current = trade[t].current
  <2>1. CASE trade' = trade
    BY <2>1
  <2>2. CASE trade' = [trade EXCEPT ![u].entry = p, ![u].current = p, ![u].target = g,
                                    ![u].sl = s, ![u].pending = FALSE]
    <3>1. \A t \in Trades \ {u} : trade'[t] = trade[t]
      BY <1>0, <2>2
    <3>2. trade'[u] = [trade[u] EXCEPT !.entry = p, !.current = p, !.target = g,
                                       !.sl = s, !.pending = FALSE]
      BY <1>0, <2>2, Zenon
    <3>3. trade'[u].entry = p /\ trade'[u].current = p
      BY <1>0, <3>2, AlignedRow
    <3>. QED
      BY <1>2, <3>1, <3>3 DEF Priced
  <2>. QED
    BY <1>3, <2>1, <2>2
<1>5. \A t \in Trades : Priced(task'[Monitor].rows[t])
  BY <1>1, PriceParts DEF Done
<1>. QED
  BY <1>0, <1>1, <1>4, <1>5, PriceParts, PriceFrame DEF Done

LEMMA PriceHybrid ==
    ASSUME PriceInv, TypeOK', NEW s \in Int, HybridStop(s)
    PROVE  PriceInv'
<1> DEFINE u == task[Monitor].cur
<1>0. /\ TypeOK /\ Monitor \in Actors /\ u \in Trades
      /\ task[Monitor].rows \in [Trades -> Row] /\ trade \in [Trades -> Row]
  BY TaskParts DEF PriceInv, Actors, TypeOK
<1>1. /\ Others(Monitor) /\ task'[Monitor].pc = "rule" /\ NoPrice(Monitor)
      /\ task'[Monitor].rows = [task[Monitor].rows EXCEPT ![u].sl = s]
  BY <1>0, HybridStopDoes
<1>2. trade' = trade \/ trade' = [trade EXCEPT ![u].sl = s]
  BY DEF HybridStop
<1> HIDE DEF u
<1>3. ASSUME NEW t \in Trades
      PROVE  Priced(task'[Monitor].rows[t])
  <2>1. /\ task'[Monitor].rows[t].entry = task[Monitor].rows[t].entry
        /\ task'[Monitor].rows[t].current = task[Monitor].rows[t].current
    BY <1>0, <1>1, StopOnly
  <2>2. Priced(task[Monitor].rows[t])
    BY <1>0 DEF PriceInv
  <2>. QED
    BY <2>1, <2>2 DEF Priced
<1>4. ASSUME NEW t \in Trades, IsOpen(trade'[t])
      PROVE  /\ IsOpen(trade[t]) /\ trade'[t].entry = trade[t].entry
             /\ trade'[t].current = trade[t].current
  <2>1. /\ trade'[t].entry = trade[t].entry /\ trade'[t].state = trade[t].state
        /\ trade'[t].current = trade[t].current
    BY <1>0, <1>2, StopOnly
  <2>. QED
    BY <1>4, <2>1 DEF IsOpen
<1>. QED
  BY <1>0, <1>1, <1>3, <1>4, PriceFrame DEF NoPrice

LEMMA PriceTrail ==
    ASSUME PriceInv, TypeOK', ActivateTrail \/ MoveTrail
    PROVE  PriceInv'
<1> DEFINE u == task[Monitor].cur
           s == TrailStop(u, task[Monitor].quote[u])
<1>0. TypeOK /\ Monitor \in Actors /\ u \in Trades /\ trade \in [Trades -> Row]
  BY TaskParts DEF PriceInv, Actors, TypeOK
<1>1. /\ Others(Monitor) /\ task'[Monitor].pc # "align"
      /\ task'[Monitor] = Rest \/ (task'[Monitor].rows = task[Monitor].rows /\ NoPrice(Monitor))
  <2>1. CASE ActivateTrail
    <3>1. Moved(Monitor, "trailEvent", task[Monitor].guarded) /\ NoPrice(Monitor)
      BY <1>0, <2>1, GotoDoes DEF ActivateTrail, NoPrice
    <3>. QED
      BY <3>1 DEF Moved
  <2>2. CASE MoveTrail
    <3>1. RowDone(Monitor) /\ NoPrice(Monitor)
      BY <1>0, <2>2, AfterRowDoes DEF MoveTrail, NoPrice
    <3>. QED
      BY <3>1, RestParts DEF RowDone, Done, Moved
  <2>. QED
    BY <2>1, <2>2
<1>2. \/ trade' = trade \/ trade' = [trade EXCEPT ![u].sl = s]
      \/ /\ trade[u].state = "ACTIVE"
         /\ trade' = [trade EXCEPT ![u].state = "TRAIL", ![u].sl = s]
  BY DEF ActivateTrail, MoveTrail
<1> HIDE DEF u, s
<1>3. \A t \in Trades : IsOpen(trade'[t]) =>
        /\ IsOpen(trade[t]) /\ trade'[t].entry = trade[t].entry
        /\ trade'[t].current = trade[t].current
  <2>1. CASE trade' = trade
    BY <2>1
  <2>2. CASE trade' = [trade EXCEPT ![u].sl = s]
    <3>1. \A t \in Trades :
            /\ trade'[t].entry = trade[t].entry /\ trade'[t].state = trade[t].state
            /\ trade'[t].current = trade[t].current
      BY <1>0, <2>2, StopOnly
    <3>. QED
      BY <3>1 DEF IsOpen
  <2>3. CASE /\ trade[u].state = "ACTIVE"
             /\ trade' = [trade EXCEPT ![u].state = "TRAIL", ![u].sl = s]
    <3>1. /\ \A t \in Trades \ {u} : trade'[t] = trade[t]
          /\ trade'[u].entry = trade[u].entry /\ trade'[u].current = trade[u].current
      BY <1>0, <2>3 DEF Row
    <3>. QED
      BY <2>3, <3>1 DEF IsOpen
  <2>. QED
    BY <1>2, <2>1, <2>2, <2>3
<1>. QED
  BY <1>0, <1>1, <1>3, PriceQuiet

LEMMA PriceRecord ==
    ASSUME PriceInv, TypeOK', NEW a \in Actors, RecordExit(a)
    PROVE  PriceInv'
<1> DEFINE u == task[a].cur
           p == task[a].exitPx
           x == Pnl(u, task[a].rows[u].entry, p)
<1>0. TypeOK /\ u \in Trades /\ trade \in [Trades -> Row]
  BY TaskParts DEF PriceInv, TypeOK
<1>1. Moved(a, "event", task[a].guarded) /\ NoPrice(a)
  BY <1>0, GotoDoes DEF RecordExit, NoPrice
<1>2. \/ trade' = trade
      \/ trade' = [trade EXCEPT ![u].state = "EXIT", ![u].current = p, ![u].pnl = x]
  BY DEF RecordExit, CloseRow
<1> HIDE DEF u, p, x
<1>3. \A t \in Trades : IsOpen(trade'[t]) =>
        /\ IsOpen(trade[t]) /\ trade'[t].entry = trade[t].entry
        /\ trade'[t].current = trade[t].current
  <2>1. CASE trade' = trade
    BY <2>1
  <2>2. CASE trade' = [trade EXCEPT ![u].state = "EXIT", ![u].current = p, ![u].pnl = x]
    <3>1. trade'[u].state = "EXIT" /\ \A t \in Trades \ {u} : trade'[t] = trade[t]
      BY <1>0, <2>2 DEF Row
    <3>. QED
      BY <3>1 DEF IsOpen
  <2>. QED
    BY <1>2, <2>1, <2>2
<1>. QED
  BY <1>1, <1>3, PriceQuiet DEF Moved

\* The steps that keep their rows and write none.
LEMMA PriceOthers ==
    ASSUME PriceInv, TypeOK', NEW a \in Actors,
           \/ FetchQuotes(a) \/ FinishRows(a) \/ LogExit(a) \/ Fail(a)
           \/ \E pc \in {"update", "mark"} : PlaceOrder(a, pc)
           \/ a = Monitor /\ (RulePass \/ HoldRow \/ LogTrail)
    PROVE  PriceInv'
<1>0. TypeOK
  BY DEF PriceInv
<1>1. UNCHANGED trade
  BY DEF FetchQuotes, FinishRows, LogExit, Fail, PlaceOrder, RulePass, HoldRow, LogTrail
<1>2. /\ Others(a) /\ task'[a].pc # "align"
      /\ task'[a] = Rest \/ (task'[a].rows = task[a].rows /\ NoPrice(a))
  <2>1. CASE FetchQuotes(a) \/ FinishRows(a) \/ Fail(a)
    BY <1>0, <2>1, FetchQuotesDoes, FinishRowsDoes, FailDoes, RestParts DEF Moved, Done
  <2>2. CASE LogExit(a) \/ (a = Monitor /\ (HoldRow \/ LogTrail))
    <3>1. RowDone(a) /\ NoPrice(a)
      BY <1>0, <2>2, AfterRowDoes DEF LogExit, HoldRow, LogTrail, NoPrice
    <3>. QED
      BY <3>1, RestParts DEF RowDone, Moved, Done
  <2>3. CASE \E pc \in {"update", "mark"} : PlaceOrder(a, pc)
    BY <1>0, <2>3, PlaceOrderDoes, RestParts DEF RowDone, Moved, Done
  <2>4. CASE a = Monitor /\ RulePass
    BY <1>0, <2>4, RulePassDoes DEF Moved
  <2>. QED
    BY <2>1, <2>2, <2>3, <2>4
<1>. QED
  BY <1>1, <1>2, PriceQuiet

\* The steps that decide on an exit price: a quote, or one tick from the entry.
LEMMA PriceDecides ==
    ASSUME PriceInv, TypeOK', NEW a \in Actors,
           \/ a = Monitor /\ ((\E g \in BOOLEAN : RuleExit(g)) \/ CheckExit)
           \/ a \in Closers /\ MarkExit(a)
           \/ a \in Viewers /\ \E t \in Trades : ViewRow(a, t)
    PROVE  PriceInv'
<1>0. TypeOK /\ task[a].exitPx \in ExitPrices /\ \A t \in Trades : Priced(task[a].rows[t])
  BY DEF PriceInv
<1>1. UNCHANGED trade
  BY DEF RuleExit, CheckExit, MarkExit, ViewRow
<1>2. \A t \in Trades : task[a].quote[t] \in ExitPrices
  BY <1>0, PriceParts, TaskParts
<1>3. /\ Others(a) /\ task'[a].pc # "align" /\ task'[a].rows = task[a].rows
      /\ task'[a].exitPx \in ExitPrices
  <2>1. CASE a = Monitor /\ ((\E g \in BOOLEAN : RuleExit(g)) \/ CheckExit)
    BY <1>0, <1>2, <2>1, CheckDoes, TaskParts DEF Moved
  <2>2. CASE a \in Closers /\ MarkExit(a)
    <3> DEFINE t == task[a].cur
               r == task[a].rows[t]
    <3>1. /\ Moved(a, "update", task[a].guarded)
          /\ \/ px[t] > 0 /\ task'[a].exitPx = px[t]
             \/ task'[a].exitPx \in {r.current, r.entry - 1, r.entry + 1}
      BY <1>0, <2>2, MarkExitDoes
    <3>2. t \in Trades /\ px[t] \in ExitPrices
      BY <1>0, PriceParts, TaskParts DEF TypeOK
    <3>3. r.current \in ExitPrices /\ r.entry - 1 \in ExitPrices /\ r.entry + 1 \in ExitPrices
      BY <1>0, <3>2, PriceParts DEF Priced
    <3>. QED
      BY <3>1, <3>2, <3>3 DEF Moved
  <2>3. CASE a \in Viewers /\ \E t \in Trades : ViewRow(a, t)
    BY <1>0, <1>2, <2>3, ViewRowDoes, PriceParts DEF NoPrice
  <2>. QED
    BY <2>1, <2>2, <2>3
<1>4. \A t \in Trades : Priced(task'[a].rows[t])
  BY <1>0, <1>3
<1>. QED
  BY <1>1, <1>3, <1>4, PriceFrame

LEMMA PriceInit == Init => PriceInv
<1> SUFFICES ASSUME Init
             PROVE  PriceInv
  OBVIOUS
<1>1. \A t \in Trades : Priced(trade[t])
  BY MonitorAssumption DEF Init, Priced
<1>. QED
  BY <1>1, TypeInit, PriceParts DEF Init, PriceInv

LEMMA PriceStep == PriceInv /\ [Next]_vars => PriceInv'
<1> SUFFICES ASSUME PriceInv, [Next]_vars
             PROVE  PriceInv'
  OBVIOUS
<1>0. /\ TypeOK'
      /\ Monitor \in Actors /\ Closers \subseteq Actors /\ Viewers \subseteq Actors
  BY TypeStep DEF PriceInv, Actors
<1>1. CASE MonitorStep
  <2>1. \A s \in 1 .. (MaxPx + SlPts) : s \in Int
    BY MonitorAssumption
  <2>. QED
    BY <1>0, <1>1, <2>1, PriceRead, PriceNextRow, PriceAlign, PriceHybrid, PriceTrail,
       PriceRecord, PriceOthers, PriceDecides
    DEF MonitorStep
<1>2. ASSUME NEW c \in Closers, CloserStep(c)
      PROVE  PriceInv'
  BY <1>0, <1>2, PriceRequest, PriceRecord, PriceOthers, PriceDecides DEF CloserStep
<1>3. ASSUME NEW v \in Viewers, ViewerStep(v)
      PROVE  PriceInv'
  BY <1>0, <1>3, PriceRead, PriceRecord, PriceOthers, PriceDecides DEF ViewerStep
<1>4. ASSUME NEW a \in Actors, Fail(a)
      PROVE  PriceInv'
  BY <1>0, <1>4, PriceOthers
<1>5. CASE Restart
  <2>1. UNCHANGED trade /\ \A a \in Actors : task'[a] = Rest
    BY <1>5 DEF Restart
  <2>. QED
    BY <1>0, <2>1, PriceParts DEF PriceInv
<1>6. CASE (\E t \in Trades : MovePrice(t)) \/ UNCHANGED vars
  BY <1>0, <1>6 DEF MovePrice, vars, PriceInv
<1>. QED
  BY <1>1, <1>2, <1>3, <1>4, <1>5, <1>6 DEF Next

\* What the state machine of the book sees of a row.
SameInBook(t) == trade'[t].state = trade[t].state /\ trade'[t].pnl = trade[t].pnl

LEMMA BookKeeps ==
    ASSUME \A t \in Trades : SameInBook(t)
    PROVE  UNCHANGED Book!vars
<1>1. [t \in Trades |-> trade'[t].state] = [t \in Trades |-> trade[t].state]
  BY DEF SameInBook
<1>2. [t \in Trades |-> IF IsOpen(trade'[t]) THEN {} ELSE {trade'[t].pnl}]
        = [t \in Trades |-> IF IsOpen(trade[t]) THEN {} ELSE {trade[t].pnl}]
  BY DEF SameInBook, IsOpen
<1>. QED
  BY <1>1, <1>2 DEF Book!vars

\* One row takes an allowed transition, to EXIT with a result.
LEMMA BookMoves ==
    ASSUME NEW t \in Trades, \A u \in Trades \ {t} : SameInBook(u),
           \/ trade[t].state = "ACTIVE" /\ trade'[t].state = "TRAIL"
           \/ /\ trade[t].state \in {"ACTIVE", "TRAIL"} /\ trade'[t].state = "EXIT"
              /\ trade'[t].pnl \in Results
    PROVE  Book!Next
<1> DEFINE S == [u \in Trades |-> trade[u].state]
           T == [u \in Trades |-> trade'[u].state]
           R == [u \in Trades |-> IF IsOpen(trade[u]) THEN {} ELSE {trade[u].pnl}]
           Q == [u \in Trades |-> IF IsOpen(trade'[u]) THEN {} ELSE {trade'[u].pnl}]
           n == trade'[t].state
<1>1. T = [S EXCEPT ![t] = n]
  BY DEF SameInBook
<1>2. n \in Book!ALLOWED_TRANSITIONS[S[t]] /\ n \in Book!TradeState
  BY DEF Book!ALLOWED_TRANSITIONS, Book!TradeState
<1>3. IF n = "EXIT" THEN \E r \in Results : Q = [R EXCEPT ![t] = {r}] ELSE Q = R
  <2>1. \A u \in Trades \ {t} : Q[u] = R[u]
    BY DEF SameInBook, IsOpen
  <2>2. CASE n = "EXIT"
    <3>1. Q[t] = {trade'[t].pnl} /\ trade'[t].pnl \in Results
      BY <2>2 DEF IsOpen
    <3>2. Q = [R EXCEPT ![t] = {trade'[t].pnl}]
      BY <2>1, <3>1
    <3>. QED
      BY <2>2, <3>1, <3>2
  <2>3. CASE n # "EXIT"
    <3>1. Q[t] = R[t]
      BY <2>3 DEF IsOpen
    <3>2. Q = R
      BY <2>1, <3>1
    <3>. QED
      BY <2>3, <3>2
  <2>. QED
    BY <2>2, <2>3
<1>4. PICK k \in Book!TradeState : k = n
  BY <1>2
<1>5. Book!Transition(t, k)
  BY <1>1, <1>2, <1>3, <1>4 DEF Book!Transition
<1>. QED
  BY <1>5 DEF Book!Next

\* Closing a row at an exit price yields one of the results.
LEMMA BookRecord ==
    ASSUME PriceInv, NEW a \in Actors, RecordExit(a)
    PROVE  [Book!Next]_Book!vars
<1> DEFINE u == task[a].cur
           p == task[a].exitPx
           e == task[a].rows[u].entry
           x == Pnl(u, e, p)
<1>0. TypeOK /\ u \in Trades /\ trade \in [Trades -> Row]
  BY TaskParts DEF PriceInv, TypeOK
<1>1. e \in 1 .. MaxPx /\ p \in ExitPrices
  BY <1>0 DEF PriceInv, Priced
<1>2. x \in Results
  BY <1>1, MonitorAssumption DEF Pnl, Results, ExitPrices
<1>3. \/ trade' = trade
      \/ /\ IsOpen(trade[u])
         /\ trade' = [trade EXCEPT ![u].state = "EXIT", ![u].current = p, ![u].pnl = x]
  BY DEF RecordExit, CloseRow
<1> HIDE DEF u, p, e, x
<1>4. CASE trade' = trade
  BY <1>4, BookKeeps DEF SameInBook
<1>5. CASE /\ IsOpen(trade[u])
           /\ trade' = [trade EXCEPT ![u].state = "EXIT", ![u].current = p, ![u].pnl = x]
  <2>1. trade'[u].state = "EXIT" /\ trade'[u].pnl = x
    BY <1>0, <1>5 DEF Row
  <2>2. \A t \in Trades \ {u} : SameInBook(t)
    BY <1>0, <1>5 DEF SameInBook
  <2>3. trade[u].state \in {"ACTIVE", "TRAIL"}
    BY <1>0, <1>5 DEF Row, IsOpen
  <2>. QED
    BY <1>0, <1>2, <2>1, <2>2, <2>3, BookMoves
<1>. QED
  BY <1>3, <1>4, <1>5

LEMMA BookTrail ==
    ASSUME TypeOK, ActivateTrail \/ MoveTrail
    PROVE  [Book!Next]_Book!vars
<1> DEFINE u == task[Monitor].cur
           s == TrailStop(u, task[Monitor].quote[u])
<1>0. u \in Trades /\ trade \in [Trades -> Row]
  BY TaskParts DEF TypeOK, Actors
<1>1. \/ trade' = trade \/ trade' = [trade EXCEPT ![u].sl = s]
      \/ /\ trade[u].state = "ACTIVE"
         /\ trade' = [trade EXCEPT ![u].state = "TRAIL", ![u].sl = s]
  BY DEF ActivateTrail, MoveTrail
<1> HIDE DEF u, s
<1>2. CASE trade' = trade
  BY <1>2, BookKeeps DEF SameInBook
<1>3. CASE trade' = [trade EXCEPT ![u].sl = s]
  <2>1. \A t \in Trades : SameInBook(t)
    BY <1>0, <1>3 DEF SameInBook, Row
  <2>. QED
    BY <2>1, BookKeeps
<1>4. CASE /\ trade[u].state = "ACTIVE"
           /\ trade' = [trade EXCEPT ![u].state = "TRAIL", ![u].sl = s]
  <2>1. trade'[u].state = "TRAIL" /\ \A t \in Trades \ {u} : SameInBook(t)
    BY <1>0, <1>4 DEF SameInBook, Row
  <2>. QED
    BY <1>0, <1>4, <2>1, BookMoves
<1>. QED
  BY <1>1, <1>2, <1>3, <1>4

\* Re-anchoring an entry and pegging a stop are no transitions.
LEMMA BookRewrites ==
    ASSUME TypeOK, AlignEntry \/ \E s \in Int : HybridStop(s)
    PROVE  [Book!Next]_Book!vars
<1> DEFINE u == task[Monitor].cur
           p == task[Monitor].quote[u]
           g == Target(u, p)
           l == StopLoss(u, p)
<1>0. u \in Trades /\ trade \in [Trades -> Row]
  BY TaskParts DEF TypeOK, Actors
<1>1. \/ trade' = trade
      \/ trade' = [trade EXCEPT ![u].entry = p, ![u].current = p, ![u].target = g,
                                ![u].sl = l, ![u].pending = FALSE]
      \/ \E s \in Int : trade' = [trade EXCEPT ![u].sl = s]
  BY DEF AlignEntry, HybridStop
<1> HIDE DEF u, p, g, l
<1>2. ASSUME NEW t \in Trades
      PROVE  SameInBook(t)
  <2>1. CASE trade' = trade
    BY <2>1 DEF SameInBook
  <2>2. CASE trade' = [trade EXCEPT ![u].entry = p, ![u].current = p, ![u].target = g,
                                    ![u].sl = l, ![u].pending = FALSE]
    <3>1. t # u => trade'[t] = trade[t]
      BY <1>0, <2>2
    <3>2. trade'[u] = [trade[u] EXCEPT !.entry = p, !.current = p, !.target = g,
                                       !.sl = l, !.pending = FALSE]
      BY <1>0, <2>2, Zenon
    <3>3. trade'[u].state = trade[u].state /\ trade'[u].pnl = trade[u].pnl
      BY <1>0, <3>2, AlignedRow
    <3>. QED
      BY <3>1, <3>3 DEF SameInBook
  <2>3. CASE \E s \in Int : trade' = [trade EXCEPT ![u].sl = s]
    BY <1>0, <2>3 DEF SameInBook, Row
  <2>. QED
    BY <1>1, <2>1, <2>2, <2>3
<1>. QED
  BY <1>2, BookKeeps

LEMMA BookInit == Init => Book!Init
<1> SUFFICES ASSUME Init
             PROVE  Book!Init
  OBVIOUS
<1>1. \A t \in Trades : trade[t].state = "ACTIVE"
  BY DEF Init
<1>2. [t \in Trades |-> trade[t].state] \in [Trades -> {"ACTIVE", "TRAIL"}]
  BY <1>1
<1>3. [t \in Trades |-> IF IsOpen(trade[t]) THEN {} ELSE {trade[t].pnl}]
        = [t \in Trades |-> {}]
  BY <1>1 DEF IsOpen
<1>. QED
  BY <1>2, <1>3 DEF Book!Init

LEMMA BookStep == PriceInv /\ [Next]_vars => [Book!Next]_Book!vars
<1> SUFFICES ASSUME PriceInv, [Next]_vars
             PROVE  [Book!Next]_Book!vars
  OBVIOUS
<1>0. /\ TypeOK
      /\ Monitor \in Actors /\ Closers \subseteq Actors /\ Viewers \subseteq Actors
  BY DEF PriceInv, Actors
<1>1. CASE UNCHANGED trade
  BY <1>1, BookKeeps DEF SameInBook
<1>2. CASE MonitorStep
  <2>1. \A s \in 1 .. (MaxPx + SlPts) : s \in Int
    BY MonitorAssumption
  <2>2. \/ UNCHANGED trade \/ RecordExit(Monitor) \/ AlignEntry
        \/ (\E s \in Int : HybridStop(s)) \/ ActivateTrail \/ MoveTrail
    BY <1>2, <2>1
    DEF MonitorStep, ReadOpen, FetchQuotes, FinishRows, NextRow, RuleExit, RulePass,
        CheckExit, LogTrail, HoldRow, PlaceOrder, LogExit
  <2>. QED
    BY <1>0, <1>1, <2>2, BookRecord, BookRewrites, BookTrail
<1>3. ASSUME NEW c \in Closers, CloserStep(c)
      PROVE  [Book!Next]_Book!vars
  <2>1. UNCHANGED trade \/ RecordExit(c)
    BY <1>3 DEF CloserStep, CloseRequest, PlaceOrder, MarkExit, LogExit
  <2>. QED
    BY <1>0, <1>1, <2>1, BookRecord
<1>4. ASSUME NEW v \in Viewers, ViewerStep(v)
      PROVE  [Book!Next]_Book!vars
  <2>1. UNCHANGED trade \/ RecordExit(v)
    BY <1>4 DEF ViewerStep, ReadOpen, FetchQuotes, FinishRows, ViewRow, LogExit
  <2>. QED
    BY <1>0, <1>1, <2>1, BookRecord
<1>5. CASE \/ \E t \in Trades : MovePrice(t)
           \/ \E a \in Actors : Fail(a)
           \/ Restart \/ UNCHANGED vars
  BY <1>1, <1>5 DEF MovePrice, Fail, Restart, vars
<1>. QED
  BY <1>2, <1>3, <1>4, <1>5 DEF Next

(***************************************************************************)
(* However the monitor, the close requests and the open-trades views meet, *)
(* and whatever fails on the way, the rows obey the state machine of       *)
(* execution_state_machine.py, nobody leaves EXIT and the realized P&L is  *)
(* decided once.  The invariant is what makes the P&L a result at all: a   *)
(* snapshot, however old, has prices in it and so has every exit price.    *)
(***************************************************************************)
THEOREM BookHolds == Spec => RefinesBook
  BY PriceInit, PriceStep, BookInit, BookStep, PTL DEF Spec, RefinesBook, Book!Spec

-----------------------------------------------------------------------------
(* The direction of the stop *)

\* The rows whose stop follows the band of the spot are left out.
Trailed == Trades \ (SuperTrend \cap Short)

\* The monitor may still write the stop of t from the row it read: t is ahead
\* of it, in hand, or comes back to the price checks when a rule raises.
Watched(t) ==
    \/ t \in task[Monitor].todo
    \/ /\ t = task[Monitor].cur
       /\ task[Monitor].pc \in {"align", "rule", "check"} \/ task[Monitor].guarded

SameStop(r, s) == r.sl = s.sl /\ r.pending = s.pending

\* Of such a row the monitor knows the stop that is in the table.
Fresh == \A t \in Trailed : Watched(t) => SameStop(task[Monitor].rows[t], trade[t])

StopInv == OrderInv /\ PnlInv /\ Fresh

LEMMA StopParts ==
    ASSUME StopInv
    PROVE  /\ TypeOK /\ Monitor \in Actors /\ Monitor \notin Closers
           /\ Disciplined(Monitor) /\ AlignsPending
           /\ \A t \in Trailed : Watched(t) => SameStop(task[Monitor].rows[t], trade[t])
  BY OrderParts, MonitorAssumption DEF StopInv, PnlInv, Fresh

LEMMA FreshFrame ==
    ASSUME StopInv,
           \A t \in Trailed : Watched(t)' =>
              /\ Watched(t) /\ SameStop(trade'[t], trade[t])
              /\ SameStop(task'[Monitor].rows[t], task[Monitor].rows[t])
    PROVE  Fresh'
  BY StopParts DEF Fresh, SameStop

\* The monitor goes on with a row it had in hand, or leaves it.
LEMMA FreshMoved ==
    ASSUME StopInv, NEW pc, NEW g, Moved(Monitor, pc, g),
           pc \in {"align", "rule", "check"} \/ g =>
              task[Monitor].pc \in {"align", "rule", "check"} \/ task[Monitor].guarded,
           \A t \in Trailed : Watched(t)' => SameStop(trade'[t], trade[t])
    PROVE  Fresh'
<1>1. \A t \in Trailed : Watched(t)' => Watched(t)
  BY DEF Moved, Watched
<1>2. \A t \in Trailed : SameStop(task'[Monitor].rows[t], task[Monitor].rows[t])
  BY DEF Moved, SameStop
<1>. QED
  BY <1>1, <1>2, FreshFrame

LEMMA FreshDone ==
    ASSUME StopInv, task'[Monitor] = Rest
    PROVE  Fresh'
<1>1. \A t \in Trades : ~Watched(t)'
  BY RestParts DEF Watched
<1>. QED
  BY <1>1 DEF Fresh, Trailed

\* The row in hand is not among those ahead once the monitor has left it.
LEMMA FreshRowDone ==
    ASSUME StopInv, RowDone(Monitor),
           \A t \in Trailed \ {task[Monitor].cur} : SameStop(trade'[t], trade[t]),
           \/ task[Monitor].pc \notin {"idle", "quotes", "rows"}
           \/ UNCHANGED trade
    PROVE  Fresh'
<1>1. Moved(Monitor, "rows", FALSE)
  BY StopParts DEF RowDone
<1>2. \A t \in Trailed : Watched(t)' => t \in task[Monitor].todo
  BY <1>1 DEF Moved, Watched
<1>3. \A t \in Trailed : Watched(t)' => SameStop(trade'[t], trade[t])
  BY <1>2, StopParts DEF Disciplined, SameStop
<1>. QED
  BY <1>1, <1>3, FreshMoved

\* A step of another task, which writes no stop.
LEMMA FreshOther ==
    ASSUME StopInv, task'[Monitor] = task[Monitor],
           \A t \in Trailed : SameStop(trade'[t], trade[t])
    PROVE  Fresh'
<1>1. \A t \in Trailed : Watched(t)' => Watched(t)
  BY DEF Watched
<1>2. \A t \in Trailed : SameStop(task'[Monitor].rows[t], task[Monitor].rows[t])
  BY DEF SameStop
<1>. QED
  BY <1>1, <1>2, FreshFrame

\* An exit writes no stop.
LEMMA RecordStop ==
    ASSUME TypeOK, NEW a \in Actors, RecordExit(a)
    PROVE  \A t \in Trades : SameStop(trade'[t], trade[t])
<1> DEFINE u == task[a].cur
           p == task[a].exitPx
           x == Pnl(u, task[a].rows[u].entry, p)
<1>0. u \in Trades /\ trade \in [Trades -> Row]
  BY TaskParts DEF TypeOK
<1>1. \/ trade' = trade
      \/ trade' = [trade EXCEPT ![u].state = "EXIT", ![u].current = p, ![u].pnl = x]
  BY DEF RecordExit, CloseRow
<1> HIDE DEF u, p, x
<1>. QED
  BY <1>0, <1>1 DEF SameStop, Row

\* What the trailing stop does to the row in hand, and to no other.
LEMMA TrailWrites ==
    ASSUME TypeOK, ActivateTrail \/ MoveTrail
    PROVE  LET u == task[Monitor].cur
           IN  /\ \A t \in Trades \ {u} : trade'[t] = trade[t]
               /\ trade'[u].sl # trade[u].sl =>
                    Tighter(u, trade'[u].sl, task[Monitor].rows[u].sl)
<1> DEFINE u == task[Monitor].cur
           s == TrailStop(u, task[Monitor].quote[u])
<1>0. u \in Trades /\ trade \in [Trades -> Row]
  BY TaskParts DEF TypeOK, Actors
<1>1. Tighter(u, s, task[Monitor].rows[u].sl)
  BY DEF ActivateTrail, MoveTrail, TrailStarts, TrailMoves
<1>2. \/ trade' = trade \/ trade' = [trade EXCEPT ![u].sl = s]
      \/ trade' = [trade EXCEPT ![u].state = "TRAIL", ![u].sl = s]
  BY DEF ActivateTrail, MoveTrail
<1> HIDE DEF s
<1>3. trade'[u].sl \in {s, trade[u].sl}
  BY <1>0, <1>2 DEF Row
<1>4. \A t \in Trades \ {u} : trade'[t] = trade[t]
  BY <1>0, <1>2
<1>. QED
  BY <1>1, <1>3, <1>4

LEMMA FreshRead ==
    ASSUME StopInv, ReadOpen(Monitor) \/ FetchQuotes(Monitor) \/ FinishRows(Monitor)
    PROVE  Fresh'
<1>0. TypeOK /\ Monitor \in Actors /\ UNCHANGED trade
  BY StopParts DEF ReadOpen, FetchQuotes, FinishRows
<1>1. CASE ReadOpen(Monitor)
  <2>1. /\ task[Monitor].pc = "idle" /\ task'[Monitor].pc = "quotes"
        /\ task'[Monitor].rows = [t \in Trades |-> IF IsOpen(trade[t]) THEN trade[t] ELSE NoRow]
        /\ task'[Monitor].todo = {t \in Trades : IsOpen(trade[t])}
        /\ task'[Monitor].guarded = task[Monitor].guarded
    BY <1>0, <1>1, ReadOpenDoes
  <2>2. \A t \in Trades : Watched(t)' => IsOpen(trade[t])
    BY <2>1, StopParts DEF Watched, Disciplined
  <2>3. \A t \in Trades : IsOpen(trade[t]) => task'[Monitor].rows[t] = trade[t]
    BY <2>1
  <2>. QED
    BY <1>0, <2>2, <2>3 DEF Fresh, SameStop, Trailed
<1>2. CASE FetchQuotes(Monitor)
  <2>1. /\ task'[Monitor].pc = "rows" /\ task'[Monitor].rows = task[Monitor].rows
        /\ task'[Monitor].todo = task[Monitor].todo
        /\ task'[Monitor].cur = task[Monitor].cur
        /\ task'[Monitor].guarded = task[Monitor].guarded
    BY <1>0, <1>2, FetchQuotesDoes
  <2>2. \A t \in Trailed : Watched(t)' => Watched(t)
    BY <2>1 DEF Watched
  <2>. QED
    BY <1>0, <2>1, <2>2, FreshFrame DEF SameStop
<1>3. CASE FinishRows(Monitor)
  BY <1>0, <1>3, FinishRowsDoes, FreshDone DEF Done
<1>. QED
  BY <1>1, <1>2, <1>3

LEMMA FreshNextRow ==
    ASSUME StopInv, NEW t \in Trades, NextRow(t)
    PROVE  Fresh'
<1>0. TypeOK /\ UNCHANGED trade
  BY StopParts DEF NextRow
<1>1. /\ t \in task[Monitor].todo /\ task'[Monitor].rows = task[Monitor].rows
      /\ task'[Monitor].guarded = task[Monitor].guarded
      /\ task'[Monitor].todo = task[Monitor].todo \ {t}
      /\ \/ task'[Monitor].pc = "rows" /\ task'[Monitor].cur = task[Monitor].cur
         \/ task'[Monitor].cur = t
  BY <1>0, NextRowDoes
<1>2. \A u \in Trailed : Watched(u)' => Watched(u)
  BY <1>1 DEF Watched
<1>. QED
  BY <1>0, <1>1, <1>2, FreshFrame DEF SameStop

LEMMA FreshRule ==
    ASSUME StopInv,
           \/ AlignEntry \/ (\E s \in Int : HybridStop(s))
           \/ (\E g \in BOOLEAN : RuleExit(g)) \/ RulePass \/ CheckExit
    PROVE  Fresh'
<1>0. TypeOK /\ Monitor \in Actors
  BY StopParts
<1>1. CASE AlignEntry
  BY <1>0, <1>1, AlignEntryDoes, FreshDone DEF Done
<1>2. CASE \E s \in Int : HybridStop(s)
  <2> DEFINE u == task[Monitor].cur
             f == task[Monitor].rows
  <2>1. PICK s \in Int : HybridStop(s)
    BY <1>2
  <2>2. /\ u \in Trades /\ u \notin Trailed
        /\ task[Monitor].pc = "rule" /\ task'[Monitor].pc = "rule"
        /\ task'[Monitor].rows = [f EXCEPT ![u].sl = s]
        /\ task'[Monitor].todo = task[Monitor].todo
        /\ task'[Monitor].cur = task[Monitor].cur
    BY <1>0, <2>1, HybridStopDoes, TaskParts DEF Trailed
  <2>3. trade' = trade \/ trade' = [trade EXCEPT ![u].sl = s]
    BY <2>1 DEF HybridStop
  <2>4. f \in [Trades -> Row] /\ trade \in [Trades -> Row]
    BY <1>0, TaskParts DEF TypeOK
  <2> HIDE DEF u, f
  <2>5. \A t \in Trailed : task'[Monitor].rows[t] = f[t] /\ trade'[t] = trade[t]
    BY <2>2, <2>3, <2>4 DEF Trailed
  <2>6. \A t \in Trailed : Watched(t)' => Watched(t)
    BY <2>2 DEF Watched
  <2>. QED
    BY <2>5, <2>6, FreshFrame DEF SameStop, f
<1>3. CASE (\E g \in BOOLEAN : RuleExit(g)) \/ CheckExit
  <2>1. UNCHANGED trade
    BY <1>3 DEF RuleExit, CheckExit
  <2>2. PICK g \in BOOLEAN :
          /\ task[Monitor].pc \in {"rule", "check"}
          /\ Moved(Monitor, IF task[Monitor].cur \in Live THEN "order" ELSE "update", g)
    BY <1>0, <1>3, CheckDoes
  <2>. QED
    BY <2>1, <2>2, FreshMoved DEF SameStop
<1>4. CASE RulePass
  <2>1. UNCHANGED trade
    BY <1>4 DEF RulePass
  <2>. QED
    BY <1>0, <1>4, <2>1, RulePassDoes, FreshMoved DEF SameStop
<1>. QED
  BY <1>1, <1>2, <1>3, <1>4

LEMMA FreshTrail ==
    ASSUME StopInv, ActivateTrail \/ MoveTrail \/ HoldRow \/ LogTrail
    PROVE  Fresh'
<1>0. TypeOK /\ Monitor \in Actors
  BY StopParts
<1>1. CASE ActivateTrail
  <2>1. Moved(Monitor, "trailEvent", task[Monitor].guarded) /\ task[Monitor].pc = "check"
    BY <1>0, <1>1, GotoDoes DEF ActivateTrail, StaysOpen
  <2>2. \A t \in Trailed : Watched(t)' => t \in Trades \ {task[Monitor].cur}
    BY <2>1, StopParts DEF Moved, Watched, Disciplined, Trailed
  <2>3. \A t \in Trailed : Watched(t)' => SameStop(trade'[t], trade[t])
    BY <1>0, <1>1, <2>2, TrailWrites DEF SameStop
  <2>. QED
    BY <2>1, <2>3, FreshMoved
<1>2. CASE MoveTrail \/ HoldRow \/ LogTrail
  <2>1. RowDone(Monitor) /\ task[Monitor].pc \in {"check", "trailEvent"}
    BY <1>0, <1>2, AfterRowDoes DEF MoveTrail, HoldRow, LogTrail, StaysOpen, AtPc
  <2>2. \A t \in Trailed \ {task[Monitor].cur} : SameStop(trade'[t], trade[t])
    <3>1. MoveTrail => \A t \in Trades \ {task[Monitor].cur} : trade'[t] = trade[t]
      BY <1>0, TrailWrites
    <3>2. HoldRow \/ LogTrail => UNCHANGED trade
      BY DEF HoldRow, LogTrail
    <3>. QED
      BY <1>2, <3>1, <3>2 DEF SameStop, Trailed
  <2>. QED
    BY <2>1, <2>2, FreshRowDone
<1>. QED
  BY <1>1, <1>2

LEMMA FreshExit ==
    ASSUME StopInv,
           PlaceOrder(Monitor, "update") \/ RecordExit(Monitor) \/ LogExit(Monitor)
    PROVE  Fresh'
<1>0. TypeOK /\ Monitor \in Actors
  BY StopParts
<1>1. CASE PlaceOrder(Monitor, "update")
  <2>1. UNCHANGED trade
    BY <1>1 DEF PlaceOrder
  <2>2. Moved(Monitor, "update", task[Monitor].guarded) \/ RowDone(Monitor)
    BY <1>0, <1>1, PlaceOrderDoes
  <2>. QED
    BY <2>1, <2>2, FreshMoved, FreshRowDone DEF SameStop
<1>2. CASE RecordExit(Monitor)
  <2>1. Moved(Monitor, "event", task[Monitor].guarded)
    BY <1>0, <1>2, GotoDoes DEF RecordExit
  <2>. QED
    BY <1>0, <1>2, <2>1, RecordStop, FreshMoved DEF Trailed
<1>3. CASE LogExit(Monitor)
  <2>1. UNCHANGED trade /\ RowDone(Monitor)
    BY <1>0, <1>3, AfterRowDoes DEF LogExit
  <2>. QED
    BY <2>1, FreshRowDone DEF SameStop
<1>. QED
  BY <1>1, <1>2, <1>3

\* A close request, or a view of the open trades.
LEMMA FreshCaller ==
    ASSUME StopInv, NEW a \in Closers \cup Viewers,
           (a \in Closers /\ CloserStep(a)) \/ (a \in Viewers /\ ViewerStep(a))
    PROVE  Fresh'
<1>0. TypeOK /\ a \in Actors /\ Monitor \in Actors /\ a # Monitor
  BY StopParts, MonitorAssumption DEF Actors
<1>1. Others(a)
  <2>1. CASE a \in Closers /\ CloserStep(a)
    BY <1>0, <2>1, CloseRequestDoes, PlaceOrderDoes, MarkExitDoes, GotoDoes, AfterRowDoes
    DEF CloserStep, RecordExit, LogExit, Moved, RowDone, Done
  <2>2. CASE a \in Viewers /\ ViewerStep(a)
    BY <1>0, <2>2, ReadOpenDoes, FetchQuotesDoes, FinishRowsDoes, ViewRowDoes, GotoDoes,
       AfterRowDoes
    DEF ViewerStep, RecordExit, LogExit, Moved, RowDone, Done
  <2>. QED
    BY <2>1, <2>2
<1>2. UNCHANGED trade \/ RecordExit(a)
  BY DEF CloserStep, CloseRequest, PlaceOrder, MarkExit, LogExit,
         ViewerStep, ReadOpen, FetchQuotes, FinishRows, ViewRow
<1>3. \A t \in Trailed : SameStop(trade'[t], trade[t])
  BY <1>0, <1>2, RecordStop DEF SameStop, Trailed
<1>. QED
  BY <1>0, <1>1, <1>3, FreshOther DEF Others

LEMMA FreshFault ==
    ASSUME StopInv, (\E a \in Actors : Fail(a)) \/ Restart
    PROVE  Fresh'
<1>0. TypeOK /\ Monitor \in Actors /\ UNCHANGED trade
  BY StopParts DEF Fail, Restart
<1>1. ASSUME NEW a \in Actors, Fail(a)
      PROVE  Fresh'
  <2>1. Done(a) \/ (task[a].guarded /\ Moved(a, "check", FALSE))
    BY <1>0, <1>1, FailDoes
  <2>2. CASE a = Monitor
    BY <1>0, <2>1, <2>2, FreshDone, FreshMoved DEF SameStop, Done
  <2>3. CASE a # Monitor
    BY <1>0, <2>1, <2>3, FreshOther DEF Done, Moved, Others, SameStop
  <2>. QED
    BY <2>2, <2>3
<1>2. CASE Restart
  BY <1>0, <1>2, FreshDone DEF Restart
<1>. QED
  BY <1>1, <1>2

LEMMA StopInit == Init => StopInv
<1>1. Init => Fresh
  BY RestParts DEF Init, Fresh, Watched, Actors
<1>. QED
  BY <1>1, OrderInit, PnlInit DEF StopInv

LEMMA StopStep == StopInv /\ [Next]_vars => StopInv'
<1> SUFFICES ASSUME StopInv, [Next]_vars
             PROVE  Fresh'
  BY OrderStep, PnlStep DEF StopInv
<1>1. CASE MonitorStep
  <2>1. \A s \in 1 .. (MaxPx + SlPts) : s \in Int
    BY MonitorAssumption
  <2>. QED
    BY <1>1, <2>1, FreshRead, FreshNextRow, FreshRule, FreshTrail, FreshExit
    DEF MonitorStep
<1>2. CASE (\E c \in Closers : CloserStep(c)) \/ (\E v \in Viewers : ViewerStep(v))
  BY <1>2, FreshCaller
<1>3. CASE (\E a \in Actors : Fail(a)) \/ Restart
  BY <1>3, FreshFault
<1>4. CASE (\E t \in Trades : MovePrice(t)) \/ UNCHANGED vars
  BY <1>4, FreshOther DEF MovePrice, vars, SameStop
<1>. QED
  BY <1>1, <1>2, <1>3, <1>4 DEF Next

\* A stop that is written is that of a row the monitor still knows.
LEMMA StopMoves ==
    ASSUME StopInv, [Next]_vars, NEW t \in Trailed, ~trade[t].pending,
           trade'[t].sl # trade[t].sl
    PROVE  Tighter(t, trade'[t].sl, trade[t].sl)
<1> DEFINE u == task[Monitor].cur
<1>0. /\ TypeOK /\ Monitor \in Actors /\ t \in Trades
      /\ Closers \subseteq Actors /\ Viewers \subseteq Actors
  BY StopParts DEF Actors, Trailed
<1>1. ~UNCHANGED trade /\ \A a \in Actors : ~RecordExit(a)
  BY <1>0, RecordStop DEF SameStop
<1>2. MonitorStep
  <2>1. ASSUME NEW c \in Closers, CloserStep(c)
        PROVE  FALSE
    BY <1>0, <1>1, <2>1 DEF CloserStep, CloseRequest, PlaceOrder, MarkExit, LogExit
  <2>2. ASSUME NEW v \in Viewers, ViewerStep(v)
        PROVE  FALSE
    BY <1>0, <1>1, <2>2
    DEF ViewerStep, ReadOpen, FetchQuotes, FinishRows, ViewRow, LogExit
  <2>3. ~((\E s \in Trades : MovePrice(s)) \/ (\E a \in Actors : Fail(a)) \/ Restart)
    BY <1>1 DEF MovePrice, Fail, Restart
  <2>. QED
    BY <1>1, <2>1, <2>2, <2>3 DEF Next, vars
<1>3. \/ AlignEntry \/ (\E s \in Int : HybridStop(s)) \/ ActivateTrail \/ MoveTrail
  <2>1. \A s \in 1 .. (MaxPx + SlPts) : s \in Int
    BY MonitorAssumption
  <2>. QED
    BY <1>0, <1>1, <1>2, <2>1
    DEF MonitorStep, ReadOpen, FetchQuotes, FinishRows, NextRow, RuleExit, RulePass,
        CheckExit, LogTrail, HoldRow, PlaceOrder, LogExit
<1>4. trade \in [Trades -> Row] /\ u \in Trades
  BY <1>0, TaskParts DEF TypeOK
<1>5. CASE AlignEntry
  <2> DEFINE p == task[Monitor].quote[u]
             g == Target(u, p)
             l == StopLoss(u, p)
  <2>0. /\ task[Monitor].pc = "align"
        /\ \/ trade' = trade
           \/ trade' = [trade EXCEPT ![u].entry = p, ![u].current = p, ![u].target = g,
                                     ![u].sl = l, ![u].pending = FALSE]
    BY <1>5 DEF AlignEntry
  <2> HIDE DEF u, p, g, l
  <2>1. task[Monitor].pc = "align" /\ (t # u => trade'[t] = trade[t])
    BY <1>0, <1>4, <2>0
  <2> USE DEF u
  <2>2. t = u /\ trade[u].pending
    BY <2>1, StopParts DEF AlignsPending, Watched, SameStop
  <2>. QED
    BY <2>2
<1>6. CASE \E s \in Int : HybridStop(s)
  <2>1. u \in SuperTrend \cap Short
    BY <1>0, <1>6, HybridStopDoes
  <2>2. t # u => trade'[t] = trade[t]
    BY <1>4, <1>6 DEF HybridStop
  <2>. QED
    BY <2>1, <2>2 DEF Trailed
<1>7. CASE ActivateTrail \/ MoveTrail
  <2>1. task[Monitor].pc = "check"
    BY <1>7 DEF ActivateTrail, MoveTrail, StaysOpen
  <2>2. /\ t # u => trade'[t] = trade[t]
        /\ trade'[u].sl # trade[u].sl =>
             Tighter(u, trade'[u].sl, task[Monitor].rows[u].sl)
    BY <1>0, <1>7, TrailWrites
  <2>3. t = u /\ task[Monitor].rows[t].sl = trade[t].sl
    BY <2>1, <2>2, StopParts DEF Watched, SameStop
  <2>. QED
    BY <2>2, <2>3
<1>. QED
  BY <1>3, <1>5, <1>6, <1>7

(***************************************************************************)
(* The trailing stop of a trade only ever moves in its favour, although    *)
(* the monitor compares with the stop of the row it read when its cycle    *)
(* started: no other task writes stops, and within a cycle the monitor     *)
(* never returns to a row whose stop it has written.                       *)
(***************************************************************************)
THEOREM StopTightens == Spec => StopOnlyTightens
<1>1. StopInv /\ [Next]_vars =>
        [\A t \in Trades \ (SuperTrend \cap Short) :
           (~trade[t].pending /\ trade'[t].sl # trade[t].sl)
              => Tighter(t, trade'[t].sl, trade[t].sl)]_vars
  BY StopMoves DEF Trailed
<1>. QED
  BY <1>1, StopInit, StopStep, PTL DEF Spec, StopOnlyTightens
=============================================================================
