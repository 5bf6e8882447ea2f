--------------------------- MODULE AutoExecuteProofs ---------------------------
(***************************************************************************)
(* Theorems of AutoExecute, for any number of tasks, recommendations and   *)
(* trades and any settings: the loop is one of the tasks of TradeEntry,    *)
(* whose theorems therefore hold with the loop running; it never holds     *)
(* more open trades than max_parallel_trades, passes max_trades_day by     *)
(* less than a batch, and opens at most the rest of one when stopped.      *)
(***************************************************************************)
EXTENDS AutoExecute, TradeEntryProofs, FiniteSetTheorems

\* The call the loop awaits and that may still insert its trade.
Claim == IF call[Loop] # NoCall /\ call[Loop].pc \notin {"event", "accept"}
           THEN 1 ELSE 0

\* The loop executes only during a batch.
BatchOnly == call[Loop] # NoCall => cycle.pc = "batch"

\* Between the count and the batch the loop's open trades can only become fewer;
\* during the batch each of them has its place under the cap.
Room ==
    /\ cycle.pc \in {"today", "refresh", "symbols", "list"} =>
         Cardinality(OpenByAuto) <= cycle.open
    /\ cycle.pc = "batch" =>
         Cardinality(OpenByAuto) + Cardinality(cycle.queue) + Claim <= MaxParallel

\* The inductive invariant behind AutoParallelCap.
AutoInv == AutoTypeOK /\ BatchOnly /\ Room /\ AutoParallelCap

-----------------------------------------------------------------------------
(* Facts of arithmetic, for the sums of the invariant *)

\* A sum grows with its parts.
LEMMA SumGrows ==
    \A i, j, x, y \in Nat : i <= x /\ j <= y => i + j <= x + y
  OBVIOUS

\* One part takes over what the other gives up.
LEMMA SumMoves ==
    \A i, x, c, d \in Nat :
        (i <= x \/ i <= x + 1) /\ c = 1 /\ d = 0 => i + d <= x + c
  OBVIOUS

\* A bound on three parts survives when the sum of two of them does not grow.
LEMMA SumBound ==
    \A i, j, c, x, d, n \in Nat :
        x + j + c <= n /\ i + d <= x + c => i + j + d <= n /\ i <= n
  OBVIOUS

\* The same when a claim is taken out of the queue.
LEMMA SumTakes ==
    \A i, j, c, d, n \in Nat :
        i + j + c <= n /\ j - 1 \in Nat /\ c = 0 /\ d <= 1 => i + (j - 1) + d <= n
  OBVIOUS

-----------------------------------------------------------------------------
(* Type correctness *)

\* The initial state has its types.
LEMMA AutoTypeInit == AutoInit => AutoTypeOK
  BY TypeInit, AutoAssumption DEF AutoInit, AutoTypeOK, NoCycle

\* Every step of the composition is a step of TradeEntry or leaves it alone.
LEMMA AutoStepsAreEntrySteps ==
    ASSUME AutoTypeOK, [AutoNext]_allVars
    PROVE  [EntryNext]_entryVars
<1> USE DEF KeepsEntry, EntryNext, Environment
<1>1. CASE AutoStep /\ ~ExecuteNext
  BY <1>1 DEF AutoStep, StartCycle, PassGates, CountOpen, CountToday, Refresh,
         ReadTaken, ListEligible, EndCycle
<1>2. CASE ExecuteNext
  BY <1>2, AutoAssumption DEF ExecuteNext, InCycle, AutoTypeOK, NoCycle, Cycle
<1>3. ASSUME NEW c \in Callers, CallStep(c)
      PROVE  [EntryNext]_entryVars
  BY <1>3 DEF CallStep
<1>4. CASE StopProcess
  BY <1>4 DEF StopProcess
<1>5. CASE ManualExecute
  BY <1>5, AutoAssumption DEF ManualExecute
<1>6. CASE OthersWrite
  BY <1>6 DEF OthersWrite
<1>7. CASE SetEngine \/ NextDay
  BY <1>7 DEF SetEngine, NextDay
<1>8. CASE UNCHANGED allVars
  BY <1>8 DEF allVars
<1>. QED
  BY <1>1, <1>2, <1>3, <1>4, <1>5, <1>6, <1>7, <1>8 DEF AutoNext

\* The open trades can be counted.
LEMMA OpenTradesFinite ==
    IsFiniteSet(OpenTrades) /\ Cardinality(OpenTrades) \in Nat
  BY AutoAssumption, FS_Subset, FS_CardinalityType DEF OpenTrades

\* Each open trade is for a symbol.
LEMMA OpenTradesHaveSymbols ==
    ASSUME EntryTypeOK
    PROVE  \A t \in OpenTrades : SymbolOfTrade(t) \in Symbols
<1>. SUFFICES ASSUME NEW t \in OpenTrades
              PROVE  SymbolOfTrade(t) \in Symbols
  OBVIOUS
<1>1. t \in Refs /\ trade[t].state = "OPEN"
  BY DEF OpenTrades, IsOpen
<1>2. trade[t] \in TradeRow
  BY <1>1 DEF EntryTypeOK, NoTrade
<1>3. trade[t].rec \in Recs
  BY <1>2 DEF TradeRow
<1>. QED
  BY <1>3, EntryAssumption DEF SymbolOfTrade

\* Every step keeps the types.
LEMMA AutoTypeStep ==
    ASSUME AutoTypeOK, [AutoNext]_allVars
    PROVE  AutoTypeOK'
<1>1. EntryTypeOK'
  BY AutoStepsAreEntrySteps, TypeStep DEF AutoTypeOK
<1> USE AutoAssumption, <1>1 DEF AutoTypeOK, KeepsRest, InCycle, Step, Leave,
        NoCycle, Cycle, CycleStages
<1>2. CASE StartCycle
  BY <1>2 DEF StartCycle
<1>3. CASE PassGates \/ Refresh \/ CountToday \/ EndCycle
  BY <1>3 DEF PassGates, Refresh, CountToday, EndCycle
<1>4. CASE CountOpen
  <2> DEFINE n == Cardinality(OpenTrades)
  <2>1. n \in Nat
    BY OpenTradesFinite
  <2>2. InCycle("open") /\ cycle \in Cycle
    BY <1>4 DEF CountOpen
  <2>4. \/ cycle' = NoCycle
        \/ n < MaxParallel /\ cycle' = [cycle EXCEPT !.pc = "today", !.open = n]
    BY <1>4, <2>1 DEF CountOpen
  <2>3. cycle' = NoCycle \/ cycle' \in Cycle
    <3> HIDE DEF n
    <3>1. CASE n < MaxParallel /\ cycle' = [cycle EXCEPT !.pc = "today", !.open = n]
      <4>1. n \in 0 .. MaxParallel - 1
        BY <2>1, <3>1
      <4>. QED
        BY <2>2, <3>1, <4>1
    <3>. QED
      BY <2>4, <3>1
  <2>. QED
    BY <1>4, <2>3 DEF CountOpen
<1>5. CASE ReadTaken
  <2>1. {SymbolOfTrade(t) : t \in OpenTrades} \in SUBSET Symbols
    BY OpenTradesHaveSymbols
  <2>2. cycle \in Cycle
    BY <1>5 DEF ReadTaken
  <2>. QED
    BY <1>5, <2>1, <2>2 DEF ReadTaken
<1>6. CASE ListEligible
  <2>1. PICK Q \in SUBSET Recs :
          cycle' = [cycle EXCEPT !.pc = "batch", !.queue = Q]
    BY <1>6 DEF ListEligible
  <2>2. cycle \in Cycle
    BY <1>6 DEF ListEligible
  <2>3. cycle' \in Cycle
    BY <2>1, <2>2
  <2>. QED
    BY <1>6, <2>3 DEF ListEligible
<1>7. CASE ExecuteNext
  BY <1>7 DEF ExecuteNext
<1>8. ASSUME NEW c \in Callers, CallStep(c)
      PROVE  AutoTypeOK'
  BY <1>8 DEF CallStep
<1>9. CASE StopProcess
  BY <1>9 DEF StopProcess
<1>12. CASE ManualExecute
  BY <1>12 DEF ManualExecute
<1>13. CASE OthersWrite
  BY <1>13 DEF OthersWrite
<1>10. CASE SetEngine
  <2>1. engine' \in BOOLEAN
    BY <1>10 DEF SetEngine
  <2>. QED
    BY <1>10, <2>1 DEF SetEngine
<1>14. CASE NextDay
  BY <1>14 DEF NextDay
<1>11. CASE UNCHANGED allVars
  BY <1>11 DEF allVars, autoVars
<1>. QED
  BY <1>2, <1>3, <1>4, <1>5, <1>6, <1>7, <1>8, <1>9, <1>10, <1>11,
     <1>12, <1>13, <1>14
  DEF AutoNext, AutoStep

\* The variables of the loop keep their shape.
THEOREM AutoTypeCorrect == AutoSpec => []AutoTypeOK
  BY AutoTypeInit, AutoTypeStep, PTL DEF AutoSpec

\* To the rows, the loop is one more task that executes recommendations.
THEOREM AutoImplementsEntry == AutoSpec => ImplementsEntry
<1>1. AutoInit => EntryInit
  BY DEF AutoInit
<1>2. AutoTypeOK /\ [AutoNext]_allVars => [EntryNext]_entryVars
  BY AutoStepsAreEntrySteps
<1>. QED
  BY <1>1, <1>2, AutoTypeCorrect, PTL DEF AutoSpec, EntrySpec, ImplementsEntry

-----------------------------------------------------------------------------
(* The cap on parallel trades *)

\* What the argument counts are finite sets.
LEMMA AutoCounts ==
    ASSUME AutoTypeOK
    PROVE  /\ IsFiniteSet(OpenByAuto)
           /\ Cardinality(OpenByAuto) \in Nat
           /\ Cardinality(OpenByAuto) <= Cardinality(OpenTrades)
           /\ cycle # NoCycle => /\ IsFiniteSet(cycle.queue)
                                 /\ Cardinality(cycle.queue) \in Nat
<1>1. OpenByAuto \subseteq OpenTrades
  BY DEF OpenByAuto
<1>2. IsFiniteSet(OpenTrades)
  BY OpenTradesFinite
<1>3. cycle # NoCycle => cycle.queue \subseteq Recs
  BY DEF AutoTypeOK, Cycle
<1>. QED
  BY <1>1, <1>2, <1>3, AutoAssumption, FS_Subset, FS_CardinalityType

\* Trades that are closed make room.
LEMMA FewerOpen ==
    ASSUME AutoTypeOK, OpenByAuto' \subseteq OpenByAuto
    PROVE  /\ Cardinality(OpenByAuto)' \in Nat
           /\ Cardinality(OpenByAuto)' <= Cardinality(OpenByAuto)
<1>1. /\ Cardinality(OpenByAuto') \in Nat
      /\ Cardinality(OpenByAuto') <= Cardinality(OpenByAuto)
  BY AutoCounts, FS_Subset, FS_CardinalityType
<1>. QED
  BY <1>1

\* Nothing the others do can use up the loop's room: they may close its trades,
\* but they neither open trades in its name nor touch its call or its cycle.
LEMMA OthersKeepInv ==
    ASSUME AutoInv, AutoTypeOK', cycle' = cycle,
           OpenByAuto' \subseteq OpenByAuto, call'[Loop] = call[Loop]
    PROVE  AutoInv'
<1> DEFINE k == Cardinality(OpenByAuto)
<1>1. AutoTypeOK
  BY DEF AutoInv
<1>2. k' <= k /\ k \in Nat /\ k' \in Nat
  BY <1>1, FewerOpen, AutoCounts
<1>3. cycle.pc = "batch" => Cardinality(cycle.queue) \in Nat
  BY <1>1, AutoCounts DEF NoCycle
<1>4. cycle.pc \in {"today", "refresh", "symbols", "list"} => cycle.open \in Nat
  BY <1>1, AutoAssumption DEF AutoTypeOK, NoCycle, Cycle
<1>5. Claim' = Claim /\ Claim \in Nat
  BY DEF Claim
<1>6. BatchOnly'
  BY DEF AutoInv, BatchOnly
<1> HIDE DEF k
<1>7. Room'
  <2>1. cycle.pc \in {"today", "refresh", "symbols", "list"} => k <= cycle.open
    BY DEF AutoInv, Room, k
  <2>2. cycle.pc = "batch" => k + Cardinality(cycle.queue) + Claim <= MaxParallel
    BY DEF AutoInv, Room, k
  <2>3. cycle.pc \in {"today", "refresh", "symbols", "list"} => k' <= cycle.open
    BY <1>2, <1>4, <2>1
  <2>4. cycle.pc = "batch" => k' + Cardinality(cycle.queue) + Claim <= MaxParallel
    BY <1>2, <1>3, <1>5, <2>2, AutoAssumption
  <2>. QED
    BY <2>3, <2>4, <1>5 DEF Room, k
<1>8. AutoParallelCap'
  <2>1. k <= MaxParallel
    BY DEF AutoInv, AutoParallelCap, k
  <2>2. k' <= MaxParallel
    BY <1>2, <2>1, AutoAssumption
  <2>. QED
    BY <2>2 DEF AutoParallelCap, k
<1>. QED
  BY <1>6, <1>7, <1>8 DEF AutoInv

\* Before its INSERT no step of a call touches the trades.
LEMMA OnlyInsertOpens ==
    ASSUME NEW c \in Callers, Execute(c) \/ Abort(c), ~InsertTrade(c)
    PROVE  OpenByAuto' = OpenByAuto
<1>1. trade' = trade
  BY DEF Execute, Abort, CheckApproval, CheckRisk, CheckRec, CheckSymbol, Gate,
         FetchQuote, PlaceOrder, InsertOrder, InsertEvent, AcceptRec
<1>. QED
  BY <1>1 DEF OpenByAuto, OpenTrades, IsOpen

\* The INSERT opens one trade in the name of its task.
LEMMA InsertOpensOne ==
    ASSUME EntryTypeOK, NEW c \in Callers, InsertTrade(c)
    PROVE  /\ call[c] \in Call
           /\ c = Loop => OpenByAuto' \subseteq OpenByAuto \cup {call[c].ref}
           /\ c # Loop => OpenByAuto' \subseteq OpenByAuto
<1>1. call[c] \in Call
  BY DEF InsertTrade, At, EntryTypeOK, NoCall
<1>2. PICK p \in {call[c].pending, FALSE} :
        trade' = [trade EXCEPT ![call[c].ref] =
                    [state |-> "OPEN", rec |-> call[c].rec,
                     mode |-> call[c].mode, by |-> c, pending |-> p]]
  BY DEF InsertTrade
<1>3. \A t \in Refs : t # call[c].ref => trade'[t] = trade[t]
  BY <1>2 DEF EntryTypeOK
<1>4. call[c].ref \in Refs => trade'[call[c].ref].by = c
  BY <1>2 DEF EntryTypeOK
<1>. QED
  BY <1>1, <1>3, <1>4 DEF OpenByAuto, OpenTrades, IsOpen

\* A step of a call is a step of its task alone.
LEMMA CallsAlone ==
    ASSUME EntryTypeOK, NEW c \in Callers, Execute(c) \/ Abort(c)
    PROVE  /\ call[c] # NoCall
           /\ \A d \in Callers : d # c => call'[d] = call[d]
<1> USE DEF EntryTypeOK, At, Advance, Return, NoCall
<1>1. CASE CheckApproval(c)
  BY <1>1 DEF CheckApproval, Gate
<1>2. CASE CheckRisk(c)
  BY <1>2 DEF CheckRisk, Gate
<1>3. CASE CheckRec(c)
  BY <1>3 DEF CheckRec, Gate
<1>4. CASE CheckSymbol(c)
  BY <1>4 DEF CheckSymbol, Gate
<1>5. CASE FetchQuote(c)
  BY <1>5 DEF FetchQuote
<1>6. CASE PlaceOrder(c)
  BY <1>6 DEF PlaceOrder
<1>7. CASE InsertOrder(c)
  BY <1>7 DEF InsertOrder
<1>8. CASE InsertTrade(c)
  BY <1>8 DEF InsertTrade
<1>9. CASE InsertEvent(c)
  BY <1>9 DEF InsertEvent
<1>10. CASE AcceptRec(c)
  BY <1>10 DEF AcceptRec
<1>11. CASE Abort(c)
  BY <1>11 DEF Abort
<1>. QED
  BY <1>1, <1>2, <1>3, <1>4, <1>5, <1>6, <1>7, <1>8, <1>9, <1>10, <1>11
  DEF Execute

\* A call that has its trade does not go back to where it had none.
LEMMA ClaimEnds ==
    ASSUME EntryTypeOK, NEW c \in Callers, Execute(c) \/ Abort(c),
           call[c].pc \in {"event", "accept"}
    PROVE  call'[c] = NoCall \/ call'[c].pc = "accept"
<1> USE DEF EntryTypeOK, At, Advance, Return, NoCall
<1>1. CASE InsertEvent(c)
  BY <1>1 DEF InsertEvent
<1>2. CASE AcceptRec(c) \/ Abort(c)
  BY <1>2 DEF AcceptRec, Abort
<1>. QED
  BY <1>1, <1>2 DEF Execute, CheckApproval, CheckRisk, CheckRec, CheckSymbol, Gate,
     FetchQuote, PlaceOrder, InsertOrder, InsertTrade

\* The loop's own call turns its claim into at most one open trade.
LEMMA OwnCallStep ==
    ASSUME AutoTypeOK, Execute(Loop) \/ Abort(Loop)
    PROVE  \/ OpenByAuto' \subseteq OpenByAuto /\ Claim' <= Claim
           \/ /\ \E t \in Refs : OpenByAuto' \subseteq OpenByAuto \cup {t}
              /\ Claim = 1 /\ Claim' = 0
<1>0. EntryTypeOK /\ Loop \in Callers
  BY AutoAssumption DEF AutoTypeOK
<1>1. CASE InsertTrade(Loop)
  <2>1. call[Loop].ref \in Refs
    BY <1>0, <1>1, InsertOpensOne DEF Call
  <2>2. OpenByAuto' \subseteq OpenByAuto \cup {call[Loop].ref}
    BY <1>0, <1>1, InsertOpensOne
  <2>3. call[Loop].pc = "tradeRow" /\ call'[Loop].pc = "event"
    BY <1>0, <1>1 DEF InsertTrade, At, Advance, EntryTypeOK
  <2>4. Claim = 1 /\ Claim' = 0
    BY <2>3 DEF Claim, NoCall
  <2>. QED
    BY <2>1, <2>2, <2>4
<1>2. CASE ~InsertTrade(Loop)
  <2>1. OpenByAuto' = OpenByAuto
    BY <1>0, <1>2, OnlyInsertOpens
  <2>2. call[Loop] # NoCall
    BY <1>0, CallsAlone
  <2>3. Claim' <= Claim
    BY <1>0, <2>2, ClaimEnds DEF Claim
  <2>. QED
    BY <2>1, <2>3
<1>. QED
  BY <1>1, <1>2

\* The initial state has the invariant.
LEMMA AutoInvInit == AutoInit => AutoInv
<1>. SUFFICES ASSUME AutoInit PROVE AutoInv
  OBVIOUS
<1>1. OpenByAuto = {}
  BY DEF AutoInit, EntryInit, OpenByAuto, OpenTrades, IsOpen, NoTrade
<1>2. Cardinality(OpenByAuto) = 0
  BY <1>1, FS_EmptySet
<1>3. cycle.pc = "idle"
  BY DEF AutoInit, NoCycle
<1>4. call[Loop] = NoCall
  BY AutoAssumption DEF AutoInit, EntryInit
<1>. QED
  BY AutoTypeInit, <1>2, <1>3, <1>4, AutoAssumption
  DEF AutoInv, BatchOnly, Room, AutoParallelCap

\* The loop's steps that leave the rows alone.
LEMMA CycleKeepsInv ==
    ASSUME AutoInv, AutoTypeOK', AutoStep, KeepsEntry
    PROVE  AutoInv'
<1> DEFINE k == Cardinality(OpenByAuto)
<1>1. AutoTypeOK /\ BatchOnly /\ Room /\ AutoParallelCap
  BY DEF AutoInv
<1>2. /\ k' = k /\ call' = call
      /\ k \in Nat /\ k <= Cardinality(OpenTrades)
  BY <1>1, AutoCounts DEF KeepsEntry, entryVars, OpenByAuto, OpenTrades, IsOpen
<1>3. AutoParallelCap'
  BY <1>1, <1>2 DEF AutoParallelCap
<1>4. cycle.pc # "batch" => call[Loop] = NoCall
  BY <1>1 DEF BatchOnly
<1> HIDE DEF k
<1>5. CASE cycle' = NoCycle /\ call[Loop] = NoCall
  BY <1>1, <1>2, <1>3, <1>5 DEF AutoInv, BatchOnly, Room, NoCycle
<1>6. CASE StartCycle
  <2>1. cycle'.pc = "gates" /\ cycle.pc = "idle"
    BY <1>6 DEF StartCycle, NoCycle
  <2>. QED
    BY <1>2, <1>3, <1>4, <2>1 DEF AutoInv, BatchOnly, Room
<1>7. CASE PassGates
  BY <1>2, <1>3, <1>4, <1>5, <1>7
  DEF AutoInv, BatchOnly, Room, PassGates, Step, Leave, InCycle, AutoTypeOK, Cycle
<1>8. CASE CountOpen
  <2>1. cycle.pc = "open"
    BY <1>8 DEF CountOpen, InCycle
  <2>2. \/ cycle' = NoCycle
        \/ cycle'.pc = "today" /\ cycle'.open = Cardinality(OpenTrades)
    BY <1>1, <1>8, <2>1 DEF CountOpen, Leave, AutoTypeOK, NoCycle, Cycle
  <2>. QED
    BY <1>2, <1>3, <1>4, <1>5, <2>1, <2>2 DEF AutoInv, BatchOnly, Room, k
<1>9. CASE CountToday \/ Refresh \/ ReadTaken
  <2>1. cycle.pc \in {"today", "refresh", "symbols"}
    BY <1>9 DEF CountToday, Refresh, ReadTaken, InCycle
  <2>2. \/ cycle' = NoCycle
        \/ cycle'.pc \in {"refresh", "symbols", "list"} /\ cycle'.open = cycle.open
    BY <1>1, <1>9, <2>1
    DEF CountToday, Refresh, ReadTaken, Step, Leave, AutoTypeOK, NoCycle, Cycle
  <2>. QED
    BY <1>1, <1>2, <1>3, <1>4, <1>5, <2>1, <2>2 DEF AutoInv, BatchOnly, Room, k
<1>10. CASE ListEligible
  <2>1. cycle.pc = "list"
    BY <1>10 DEF ListEligible, InCycle
  <2>2. PICK Q \in SUBSET Recs :
          /\ Cardinality(Q) + cycle.open <= MaxParallel
          /\ cycle' = [cycle EXCEPT !.pc = "batch", !.queue = Q]
    BY <1>10 DEF ListEligible
  <2>3. cycle'.pc = "batch" /\ cycle'.queue = Q /\ cycle.open \in Nat
    BY <1>1, <2>1, <2>2, AutoAssumption DEF AutoTypeOK, NoCycle, Cycle
  <2>4. Cardinality(Q) \in Nat
    BY AutoAssumption, FS_Subset, FS_CardinalityType
  <2>5. k <= cycle.open
    BY <1>1, <2>1 DEF Room, k
  <2>6. k + Cardinality(Q) + 0 <= MaxParallel
    BY <1>2, <2>2, <2>3, <2>4, <2>5, AutoAssumption
  <2>7. Claim' = 0
    BY <1>2, <1>4, <2>1 DEF Claim
  <2>. QED
    BY <1>2, <1>3, <2>3, <2>6, <2>7 DEF AutoInv, BatchOnly, Room, k
<1>11. CASE ExecuteNext
  BY <1>11, <1>1 DEF KeepsEntry, entryVars, ExecuteNext, Begin, AutoTypeOK,
     EntryTypeOK, NoCall
<1>12. CASE EndCycle
  BY <1>5, <1>12 DEF EndCycle, Leave
<1>. QED
  BY <1>6, <1>7, <1>8, <1>9, <1>10, <1>11, <1>12 DEF AutoStep

\* Executing the next of the queue turns its place into a claim.
LEMMA ExecuteNextKeepsInv ==
    ASSUME AutoInv, AutoTypeOK', ExecuteNext
    PROVE  AutoInv'
<1> DEFINE k == Cardinality(OpenByAuto)
           q == Cardinality(cycle.queue)
<1>1. AutoTypeOK /\ Room /\ AutoParallelCap
  BY DEF AutoInv
<1>2. PICK r \in cycle.queue :
        /\ Begin(Loop, r, cycle.mode)
        /\ cycle' = [cycle EXCEPT !.queue = @ \ {r}]
  BY DEF ExecuteNext
<1>3. cycle.pc = "batch" /\ cycle # NoCycle
  BY DEF ExecuteNext, InCycle, NoCycle
<1>4. cycle'.pc = "batch" /\ cycle'.queue = cycle.queue \ {r}
  BY <1>1, <1>2, <1>3 DEF AutoTypeOK, Cycle
<1>5. q' = q - 1 /\ q \in Nat /\ q' \in Nat
  <2>1. IsFiniteSet(cycle.queue) /\ q \in Nat
    BY <1>1, <1>3, AutoCounts
  <2>2. /\ IsFiniteSet(cycle.queue \ {r})
        /\ Cardinality(cycle.queue \ {r}) = q - 1
    BY <2>1, FS_RemoveElement
  <2>3. Cardinality(cycle.queue \ {r}) \in Nat
    BY <2>2, FS_CardinalityType
  <2>. QED
    BY <1>4, <2>1, <2>2, <2>3
<1>6. call[Loop] = NoCall /\ trade' = trade
  BY <1>2 DEF Begin
<1>7. k' = k /\ k \in Nat
  BY <1>1, <1>6, AutoCounts DEF OpenByAuto, OpenTrades, IsOpen
<1>8. Claim = 0 /\ Claim' \in Nat /\ Claim' <= 1
  BY <1>6 DEF Claim
<1>9. k + q + Claim <= MaxParallel
  BY <1>1, <1>3 DEF Room
<1>10. AutoParallelCap'
  BY <1>1, <1>7 DEF AutoParallelCap
<1> HIDE DEF k, q
<1>11. MaxParallel \in Nat
  BY AutoAssumption
<1>12. k' + q' + Claim' <= MaxParallel
  BY <1>5, <1>7, <1>8, <1>9, <1>11, SumTakes
<1>. QED
  BY <1>4, <1>10, <1>12 DEF AutoInv, BatchOnly, Room, k, q

\* A step of the loop's own call: the claim it gives up is the place of the trade
\* it opens.
LEMMA OwnCallKeepsInv ==
    ASSUME AutoInv, AutoTypeOK', Execute(Loop) \/ Abort(Loop), cycle' = cycle
    PROVE  AutoInv'
<1> DEFINE k == Cardinality(OpenByAuto)
           q == Cardinality(cycle.queue)
<1>1. AutoTypeOK /\ BatchOnly /\ Room /\ AutoParallelCap
  BY DEF AutoInv
<1>2. call[Loop] # NoCall
  BY <1>1, AutoAssumption, CallsAlone DEF AutoTypeOK
<1>3. cycle.pc = "batch" /\ cycle # NoCycle
  BY <1>1, <1>2 DEF BatchOnly, NoCycle
<1>4. k + q + Claim <= MaxParallel
  BY <1>1, <1>3 DEF Room
<1>5. q' = q /\ q \in Nat /\ k \in Nat
  BY <1>1, <1>3, AutoCounts
<1>6. k' \in Nat /\ Claim \in Nat /\ Claim' \in Nat /\ k' + Claim' <= k + Claim
  <2>1. Claim \in Nat /\ Claim' \in Nat
    BY DEF Claim
  <2>2. CASE OpenByAuto' \subseteq OpenByAuto /\ Claim' <= Claim
    <3>1. k' \in Nat /\ k' <= k
      BY <1>1, <2>2, FewerOpen
    <3> HIDE DEF k
    <3>. QED
      BY <1>5, <2>1, <2>2, <3>1, SumGrows
  <2>3. ASSUME NEW t \in Refs, OpenByAuto' \subseteq OpenByAuto \cup {t},
               Claim = 1, Claim' = 0
        PROVE  k' \in Nat /\ k' + Claim' <= k + Claim
    <3>1. IsFiniteSet(OpenByAuto)
      BY <1>1, AutoCounts
    <3>2. /\ IsFiniteSet(OpenByAuto \cup {t})
          /\ Cardinality(OpenByAuto \cup {t}) \in {k, k + 1}
      BY <3>1, FS_AddElement
    <3>3. /\ Cardinality(OpenByAuto') \in Nat
          /\ Cardinality(OpenByAuto') <= Cardinality(OpenByAuto \cup {t})
      BY <2>3, <3>2, FS_Subset, FS_CardinalityType
    <3>4. k' \in Nat /\ (k' <= k \/ k' <= k + 1)
      BY <3>2, <3>3
    <3> HIDE DEF k
    <3>. QED
      BY <1>5, <2>1, <2>3, <3>4, SumMoves
  <2>. QED
    BY <1>1, <2>1, <2>2, <2>3, OwnCallStep
<1> HIDE DEF k, q
<1>7. MaxParallel \in Nat
  BY AutoAssumption
<1>8. k' + q' + Claim' <= MaxParallel /\ k' <= MaxParallel
  BY <1>4, <1>5, <1>6, <1>7, SumBound
<1>. QED
  BY <1>3, <1>8 DEF AutoInv, BatchOnly, Room, AutoParallelCap, k, q

\* Every step keeps the invariant.
LEMMA AutoInvStep ==
    ASSUME AutoInv, [AutoNext]_allVars
    PROVE  AutoInv'
<1>1. AutoTypeOK /\ EntryTypeOK /\ AutoTypeOK'
  BY AutoTypeStep DEF AutoInv, AutoTypeOK
<1>2. CASE AutoStep /\ ~ExecuteNext
  <2>1. KeepsEntry
    BY <1>2 DEF AutoStep, StartCycle, PassGates, CountOpen, CountToday, Refresh,
       ReadTaken, ListEligible, EndCycle
  <2>. QED
    BY <1>1, <1>2, <2>1, CycleKeepsInv
<1>3. CASE ExecuteNext
  BY <1>1, <1>3, ExecuteNextKeepsInv
<1>4. CASE CallStep(Loop)
  BY <1>1, <1>4, OwnCallKeepsInv DEF CallStep
<1>5. ASSUME NEW c \in Callers, c # Loop, CallStep(c)
      PROVE  AutoInv'
  <2>1. (Execute(c) \/ Abort(c)) /\ cycle' = cycle
    BY <1>5 DEF CallStep
  <2>2. call'[Loop] = call[Loop]
    BY <1>1, <1>5, <2>1, CallsAlone, AutoAssumption
  <2>3. OpenByAuto' \subseteq OpenByAuto
    BY <1>1, <1>5, <2>1, OnlyInsertOpens, InsertOpensOne
  <2>. QED
    BY <1>1, <2>1, <2>2, <2>3, OthersKeepInv
<1>6. CASE StopProcess
  <2>1. cycle'.pc = "idle"
    BY <1>6 DEF StopProcess, Leave, NoCycle
  <2>2. trade' = trade /\ call'[Loop] = NoCall
    BY <1>6, AutoAssumption DEF StopProcess, Restart
  <2>3. OpenByAuto' = OpenByAuto
    BY <2>2 DEF OpenByAuto, OpenTrades, IsOpen
  <2>. QED
    BY <1>1, <2>1, <2>2, <2>3 DEF AutoInv, BatchOnly, Room, AutoParallelCap
<1>7. CASE ManualExecute
  <2>1. PICK c \in Callers \ {Loop}, r \in Recs, m \in TradeModes : Begin(c, r, m)
    BY <1>7 DEF ManualExecute
  <2>2. trade' = trade /\ call'[Loop] = call[Loop]
    BY <1>1, <2>1, AutoAssumption DEF Begin, EntryTypeOK
  <2>3. OpenByAuto' = OpenByAuto /\ cycle' = cycle
    BY <1>7, <2>2 DEF ManualExecute, OpenByAuto, OpenTrades, IsOpen
  <2>. QED
    BY <1>1, <2>2, <2>3, OthersKeepInv
<1>8. CASE OthersWrite
  <2>1. cycle' = cycle /\ call' = call
    BY <1>8 DEF OthersWrite, Publish, Withdraw, Close
  <2>2. \A t \in Refs : trade'[t] # trade[t] => trade'[t].state = "EXIT"
    BY <1>1, <1>8
    DEF OthersWrite, Publish, Withdraw, Close, EntryTypeOK, IsOpen, TradeRow, NoTrade
  <2>3. OpenByAuto' \subseteq OpenByAuto
    BY <2>2 DEF OpenByAuto, OpenTrades, IsOpen
  <2>. QED
    BY <1>1, <2>1, <2>3, OthersKeepInv
<1>9. CASE SetEngine \/ NextDay \/ UNCHANGED allVars
  <2>1. cycle' = cycle /\ call' = call /\ trade' = trade
    BY <1>9 DEF SetEngine, NextDay, KeepsEntry, allVars, autoVars, entryVars
  <2>2. OpenByAuto' = OpenByAuto
    BY <2>1 DEF OpenByAuto, OpenTrades, IsOpen
  <2>. QED
    BY <1>1, <2>1, <2>2, OthersKeepInv
<1>. QED
  BY <1>2, <1>3, <1>4, <1>5, <1>6, <1>7, <1>8, <1>9 DEF AutoNext, AutoStep

\* The invariant holds in every reachable state.
THEOREM AutoInvariant == AutoSpec => []AutoInv
  BY AutoInvInit, AutoInvStep, PTL DEF AutoSpec

\* However old its counts are, the loop never holds more open trades than
\* max_parallel_trades.
THEOREM AutoCap == AutoSpec => []AutoParallelCap
<1>1. AutoInv => AutoParallelCap
  BY DEF AutoInv
<1>. QED
  BY <1>1, AutoInvariant, PTL

\* What TradeEntry promises of the rows it promises with the loop running.
THEOREM AutoKeepsRows ==
    AutoSpec => [](TradeBacked /\ AcceptedHasTrade /\ OneOpenPerCaller)
  BY AutoImplementsEntry, TradesAreBacked,
     AcceptedRecsHaveTrades, SymbolExposure, PTL
  DEF ImplementsEntry
-----------------------------------------------------------------------------
(* The limit of the day and the stop of the engine *)

BeforeBatch == CycleStages \ {"batch"}

\* No cycle is before its batch when the loop has opened a trade on a stopped engine,
\* since none starts there; in the batch what was opened, the queue and the call in
\* progress stay within max_parallel_trades.
StopInv ==
    /\ engine => afterStop = 0
    /\ cycle.pc \in BeforeBatch => afterStop = 0
    /\ cycle.pc = "batch" =>
         afterStop + Cardinality(cycle.queue) + Claim <= MaxParallel
    /\ StopBound

NoneAfter(last) == \A d \in 1 .. LastDay : d > last => AutoTradesOf(d) = {}

\* The loop has no trade of a day to come; before a batch it has none of a day after
\* the one whose trades were counted; in the batch the trades of that day or of any
\* later one, the queue and the call in progress stay within the bound.
DayInv ==
    /\ NoneAfter(day)
    /\ cycle # NoCycle => cycle.day <= day
    /\ cycle.pc \in BeforeBatch => NoneAfter(cycle.day)
    /\ cycle.pc \in {"refresh", "symbols", "list"} =>
         Cardinality(AutoTradesOf(cycle.day)) <= MaxPerDay - 1
    /\ cycle.pc = "batch" =>
         \A d \in cycle.day .. LastDay :
            Cardinality(AutoTradesOf(d)) + Cardinality(cycle.queue) + Claim
              <= MaxPerDay - 1 + MaxParallel
    /\ DayOvershoot

\* The trades of a day can be counted, and those of the loop are among them.
LEMMA DayCounts ==
    \A d \in 1 .. LastDay :
        /\ IsFiniteSet(AutoTradesOf(d))
        /\ Cardinality(AutoTradesOf(d)) \in Nat
        /\ Cardinality(AutoTradesOf(d)) <= Cardinality(TradesOf(d))
        /\ Cardinality(TradesOf(d)) \in Nat
<1>. SUFFICES ASSUME NEW d \in 1 .. LastDay
              PROVE  /\ IsFiniteSet(AutoTradesOf(d))
                     /\ Cardinality(AutoTradesOf(d)) \in Nat
                     /\ Cardinality(AutoTradesOf(d)) <= Cardinality(TradesOf(d))
                     /\ Cardinality(TradesOf(d)) \in Nat
  OBVIOUS
<1>1. AutoTradesOf(d) \subseteq TradesOf(d) /\ TradesOf(d) \subseteq Refs
  BY DEF AutoTradesOf, TradesOf
<1>2. IsFiniteSet(TradesOf(d))
  BY <1>1, AutoAssumption, FS_Subset
<1>. QED
  BY <1>1, <1>2, FS_Subset, FS_CardinalityType

\* A set of trades that does not grow has no more of them.
LEMMA FewerOfDay ==
    ASSUME NEW d \in 1 .. LastDay, AutoTradesOf(d)' \subseteq AutoTradesOf(d)
    PROVE  /\ Cardinality(AutoTradesOf(d))' \in Nat
           /\ Cardinality(AutoTradesOf(d))' <= Cardinality(AutoTradesOf(d))
<1>1. IsFiniteSet(AutoTradesOf(d))
  BY DayCounts
<1>2. /\ IsFiniteSet(AutoTradesOf(d)')
      /\ Cardinality(AutoTradesOf(d)') <= Cardinality(AutoTradesOf(d))
  BY <1>1, FS_Subset
<1>. QED
  BY <1>2, FS_CardinalityType

\* Only an INSERT puts a new trade among those of a day.
LEMMA OnlyInsertDates ==
    ASSUME NEW c \in Callers, CallStep(c), ~InsertTrade(c), AutoTypeOK
    PROVE  /\ openedOn' = openedOn /\ afterStop' = afterStop
           /\ \A d \in 1 .. LastDay : AutoTradesOf(d)' = AutoTradesOf(d)
<1>1. trade' = trade
  BY DEF CallStep, Execute, Abort, CheckApproval, CheckRisk, CheckRec, CheckSymbol, Gate,
         FetchQuote, PlaceOrder, InsertOrder, InsertEvent, AcceptRec
<1>2. openedOn' = openedOn
  BY <1>1 DEF CallStep, AutoTypeOK
<1>. QED
  BY <1>1, <1>2 DEF CallStep, AutoTradesOf, TradesOf

\* The INSERT adds one trade to those of the current day, if it is the loop's.
LEMMA InsertDatesOne ==
    ASSUME NEW c \in Callers, CallStep(c), InsertTrade(c), AutoTypeOK, WrittenSoFar
    PROVE  /\ \A d \in 1 .. LastDay :
                 c # Loop \/ d # day => AutoTradesOf(d)' \subseteq AutoTradesOf(d)
           /\ \A d \in 1 .. LastDay :
                 AutoTradesOf(d)' \subseteq AutoTradesOf(d) \cup {call[c].ref}
           /\ call[c].ref \in Refs
<1>1. call[c] \in Call /\ EntryTypeOK /\ call[c].pc = "tradeRow"
  BY DEF InsertTrade, At, EntryTypeOK, NoCall, AutoTypeOK
<1>2. call[c].ref \in Refs /\ call[c] # NoCall
  BY <1>1 DEF Call, NoCall
<1>3. trade[call[c].ref] = NoTrade
  BY <1>1, <1>2 DEF WrittenSoFar
<1>4. PICK p \in {call[c].pending, FALSE} :
        trade' = [trade EXCEPT ![call[c].ref] =
                    [state |-> "OPEN", rec |-> call[c].rec,
                     mode |-> call[c].mode, by |-> c, pending |-> p]]
  BY DEF InsertTrade
<1>5. \A t \in Refs : t # call[c].ref =>
        trade'[t] = trade[t] /\ openedOn'[t] = openedOn[t]
  BY <1>1, <1>4 DEF EntryTypeOK, CallStep
<1>6. trade'[call[c].ref].by = c /\ trade'[call[c].ref].state = "OPEN"
  BY <1>1, <1>2, <1>4 DEF EntryTypeOK
<1>7. openedOn'[call[c].ref] = day
  BY <1>2, <1>3, <1>6 DEF CallStep, NoTrade
<1>8. day' = day
  BY DEF CallStep
<1>. QED
  BY <1>2, <1>5, <1>6, <1>7, <1>8 DEF AutoTradesOf, TradesOf

\* A step of the loop's own call turns its claim into at most one trade of the day.
LEMMA OwnCallDates ==
    ASSUME AutoInv, WrittenSoFar, CallStep(Loop)
    PROVE  /\ cycle.pc = "batch" /\ cycle # NoCycle
           /\ Claim \in {0, 1} /\ Claim' \in {0, 1}
           /\ \/ /\ Claim' <= Claim
                 /\ afterStop' = afterStop
                 /\ \A d \in 1 .. LastDay : AutoTradesOf(d)' \subseteq AutoTradesOf(d)
              \/ /\ Claim = 1 /\ Claim' = 0
                 /\ afterStop' \in {afterStop, afterStop + 1}
                 /\ engine => afterStop' = afterStop
                 /\ \A d \in 1 .. LastDay :
                       d # day => AutoTradesOf(d)' \subseteq AutoTradesOf(d)
                 /\ \E t \in Refs : \A d \in 1 .. LastDay :
                       AutoTradesOf(d)' \subseteq AutoTradesOf(d) \cup {t}
<1>1. AutoTypeOK /\ EntryTypeOK /\ BatchOnly /\ Loop \in Callers
  BY AutoAssumption DEF AutoInv, AutoTypeOK
<1>2. Execute(Loop) \/ Abort(Loop)
  BY DEF CallStep
<1>3. call[Loop] # NoCall
  BY <1>1, <1>2, CallsAlone
<1>4. cycle.pc = "batch" /\ cycle # NoCycle
  BY <1>1, <1>3 DEF BatchOnly, NoCycle
<1>5. Claim \in {0, 1} /\ Claim' \in {0, 1}
  BY DEF Claim
<1>6. CASE InsertTrade(Loop)
  <2>1. call[Loop].pc = "tradeRow" /\ call'[Loop].pc = "event"
    BY <1>1, <1>6 DEF InsertTrade, At, Advance, EntryTypeOK
  <2>2. Claim = 1 /\ Claim' = 0
    BY <2>1 DEF Claim, NoCall
  <2>3. /\ afterStop' \in {afterStop, afterStop + 1}
        /\ engine => afterStop' = afterStop
    BY DEF CallStep
  <2>. QED
    BY <1>1, <1>4, <1>6, <2>2, <2>3, InsertDatesOne
<1>7. CASE ~InsertTrade(Loop)
  <2>1. Claim' <= Claim
    BY <1>1, <1>2, <1>3, ClaimEnds DEF Claim
  <2>2. afterStop' = afterStop /\ \A d \in 1 .. LastDay : AutoTradesOf(d)' = AutoTradesOf(d)
    BY <1>1, <1>7, OnlyInsertDates
  <2>. QED
    BY <1>4, <1>5, <2>1, <2>2
<1>. QED
  BY <1>6, <1>7

\* What is there when the bounds are added up.
LEMMA BatchNumbers ==
    ASSUME AutoTypeOK
    PROVE  /\ Claim \in {0, 1} /\ MaxParallel \in Nat \ {0} /\ MaxPerDay \in Nat \ {0}
           /\ cycle # NoCycle =>
                /\ cycle \in Cycle
                /\ cycle.day \in 1 .. LastDay
                /\ Cardinality(cycle.queue) \in Nat
           /\ afterStop \in Nat /\ day \in 1 .. LastDay /\ LastDay \in Nat
  BY AutoCounts, AutoAssumption DEF Claim, AutoTypeOK, Cycle

\* What the others do adds nothing to the trades of the loop, and a later day has none
\* of its trades yet.
LEMMA OthersKeepDay ==
    ASSUME AutoInv, DayInv, AutoTypeOK', cycle' = cycle, day' \in {day, day + 1},
           call'[Loop] = call[Loop],
           \A d \in 1 .. LastDay : AutoTradesOf(d)' \subseteq AutoTradesOf(d)
    PROVE  DayInv'
<1>1. AutoTypeOK
  BY DEF AutoInv
<1>2. Claim' = Claim
  BY DEF Claim
<1>3. \A d \in 1 .. LastDay :
        /\ Cardinality(AutoTradesOf(d)) \in Nat
        /\ Cardinality(AutoTradesOf(d))' \in Nat
        /\ Cardinality(AutoTradesOf(d))' <= Cardinality(AutoTradesOf(d))
  BY FewerOfDay, DayCounts
<1>4. day \in 1 .. LastDay /\ day' \in 1 .. LastDay /\ LastDay \in Nat
  BY <1>1, AutoAssumption DEF AutoTypeOK
<1>5. cycle # NoCycle => cycle.day \in 1 .. LastDay /\ Cardinality(cycle.queue) \in Nat
  BY <1>1, BatchNumbers
<1>6. \A last \in 1 .. LastDay : NoneAfter(last) => NoneAfter(last)'
  BY DEF NoneAfter
<1>7. NoneAfter(day') /\ NoneAfter(day)
  BY <1>4 DEF DayInv, NoneAfter
<1>8. (NoneAfter(day))'
  <2>1. \A d \in 1 .. LastDay : d > day' => d > day
    BY <1>4
  <2>. QED
    BY <2>1, <1>7 DEF NoneAfter
<1>9. cycle.pc \in BeforeBatch \cup {"batch"} => cycle # NoCycle
  BY DEF BeforeBatch, CycleStages, NoCycle
<1>10. (cycle # NoCycle => cycle.day <= day)'
  BY <1>4, <1>5 DEF DayInv
<1>11. (cycle.pc \in BeforeBatch => NoneAfter(cycle.day))'
  BY <1>5, <1>9 DEF DayInv, NoneAfter
<1>12. (cycle.pc \in {"refresh", "symbols", "list"} =>
          Cardinality(AutoTradesOf(cycle.day)) <= MaxPerDay - 1)'
  <2>. SUFFICES ASSUME cycle.pc \in {"refresh", "symbols", "list"}
                PROVE  (Cardinality(AutoTradesOf(cycle.day)) <= MaxPerDay - 1)'
    OBVIOUS
  <2>1. cycle.day \in 1 .. LastDay
    BY <1>5, <1>9 DEF BeforeBatch, CycleStages
  <2>2. Cardinality(AutoTradesOf(cycle.day)) <= MaxPerDay - 1
    BY DEF DayInv
  <2>3. Cardinality(AutoTradesOf(cycle.day))' <= Cardinality(AutoTradesOf(cycle.day))
    BY <1>3, <2>1
  <2>. QED
    BY <1>3, <2>1, <2>2, <2>3, AutoAssumption
<1>13. (cycle.pc = "batch" =>
          \A d \in cycle.day .. LastDay :
            Cardinality(AutoTradesOf(d)) + Cardinality(cycle.queue) + Claim
              <= MaxPerDay - 1 + MaxParallel)'
  <2>. SUFFICES ASSUME cycle.pc = "batch", NEW d \in cycle.day .. LastDay
                PROVE  (Cardinality(AutoTradesOf(d)) + Cardinality(cycle.queue) + Claim
                          <= MaxPerDay - 1 + MaxParallel)'
    OBVIOUS
  <2>1. d \in 1 .. LastDay /\ Cardinality(cycle.queue) \in Nat
    BY <1>4, <1>5, <1>9
  <2>2. Cardinality(AutoTradesOf(d)) + Cardinality(cycle.queue) + Claim
          <= MaxPerDay - 1 + MaxParallel
    BY DEF DayInv
  <2>. QED
    BY <1>1, <1>2, <1>3, <2>1, <2>2, BatchNumbers
<1>14. DayOvershoot'
  BY <1>3, AutoAssumption DEF DayInv, DayOvershoot
<1>. QED
  BY <1>8, <1>10, <1>11, <1>12, <1>13, <1>14 DEF DayInv

\* Nor to what the loop has opened on a stopped engine.
LEMMA OthersKeepStop ==
    ASSUME AutoInv, StopInv, AutoTypeOK', cycle' = cycle,
           call'[Loop] = call[Loop],
           \/ engine' = engine /\ afterStop' = afterStop
           \/ afterStop' = 0
    PROVE  StopInv'
<1>1. Claim' = Claim
  BY DEF Claim
<1>2. cycle.pc = "batch" => cycle # NoCycle
  BY DEF NoCycle
<1>. QED
  BY <1>1, <1>2, BatchNumbers DEF StopInv, StopBound, AutoInv

\* A step of the cycle that leaves the rows alone goes on to the next stage or ends it.
LEMMA CycleMoves ==
    ASSUME AutoTypeOK, AutoStep, KeepsEntry
    PROVE  /\ KeepsRest /\ call' = call /\ trade' = trade
           /\ \/ cycle' = NoCycle
              \/ /\ cycle = NoCycle /\ engine
                 /\ cycle'.pc = "gates" /\ cycle'.day = day
              \/ /\ cycle # NoCycle /\ cycle.pc \in BeforeBatch
                 /\ cycle'.day = cycle.day
                 /\ \/ cycle'.pc \in {"open", "today"}
                    \/ /\ cycle.pc = "today"
                       /\ Cardinality(TradesOf(cycle.day)) < MaxPerDay
                       /\ cycle'.pc = "refresh"
                    \/ /\ cycle.pc \in {"refresh", "symbols"}
                       /\ cycle'.pc \in {"symbols", "list"}
                    \/ /\ cycle.pc = "list" /\ cycle'.pc = "batch"
                       /\ Cardinality(cycle'.queue) \in Nat
                       /\ Cardinality(cycle'.queue) <= MaxParallel
<1> USE DEF AutoTypeOK, NoCycle, Cycle, CycleStages, BeforeBatch, InCycle, Step, Leave
<1>0. KeepsRest /\ call' = call /\ trade' = trade
  <2>1. KeepsRest
    BY DEF AutoStep, StartCycle, PassGates, CountOpen, CountToday, Refresh,
       ReadTaken, ListEligible, ExecuteNext, EndCycle
  <2>. QED
    BY <2>1 DEF KeepsEntry, entryVars
<1>1. CASE StartCycle
  BY <1>0, <1>1 DEF StartCycle
<1>2. CASE PassGates
  BY <1>0, <1>2 DEF PassGates
<1>3. CASE CountOpen
  <2>1. cycle \in Cycle /\ cycle.pc = "open"
    BY <1>3 DEF CountOpen
  <2>2. \/ cycle' = NoCycle
        \/ cycle' = [cycle EXCEPT !.pc = "today", !.open = Cardinality(OpenTrades)]
    BY <1>3 DEF CountOpen
  <2>3. cycle' = NoCycle \/ (cycle'.pc = "today" /\ cycle'.day = cycle.day)
    BY <2>1, <2>2
  <2>. QED
    BY <1>0, <2>1, <2>3
<1>4. CASE CountToday
  <2>1. cycle \in Cycle /\ cycle.pc = "today"
    BY <1>4 DEF CountToday
  <2> DEFINE n == Cardinality(TradesOf(cycle.day))
  <2>2. n \in Nat
    BY <2>1, DayCounts
  <2>3. \/ cycle' = NoCycle
        \/ ~(n >= MaxPerDay) /\ cycle' = [cycle EXCEPT !.pc = "refresh"]
    BY <1>4 DEF CountToday
  <2> HIDE DEF n
  <2>4. cycle' = NoCycle \/ n < MaxPerDay
    BY <2>2, <2>3, AutoAssumption
  <2>5. cycle' = NoCycle \/ (cycle'.pc = "refresh" /\ cycle'.day = cycle.day)
    BY <2>1, <2>3
  <2>. QED
    BY <1>0, <2>1, <2>4, <2>5 DEF n
<1>5. CASE Refresh \/ ReadTaken
  <2>1. cycle \in Cycle /\ cycle.pc \in {"refresh", "symbols"}
    BY <1>5 DEF Refresh, ReadTaken
  <2>2. \/ cycle' = NoCycle
        \/ cycle' = [cycle EXCEPT !.pc = "symbols"]
        \/ cycle' = [cycle EXCEPT !.pc = "list",
                                 !.taken = {SymbolOfTrade(t) : t \in OpenTrades}]
    BY <1>5 DEF Refresh, ReadTaken
  <2>3. \/ cycle' = NoCycle
        \/ cycle'.pc \in {"symbols", "list"} /\ cycle'.day = cycle.day
    BY <2>1, <2>2
  <2>. QED
    BY <1>0, <2>1, <2>3
<1>6. CASE ListEligible
  <2>1. PICK Q \in SUBSET Recs :
          /\ Cardinality(Q) + cycle.open <= MaxParallel
          /\ cycle' = [cycle EXCEPT !.pc = "batch", !.queue = Q]
    BY <1>6 DEF ListEligible
  <2>2. cycle \in Cycle /\ cycle.pc = "list"
    BY <1>6 DEF ListEligible
  <2>3. Cardinality(Q) \in Nat
    BY AutoAssumption, FS_Subset, FS_CardinalityType
  <2>4. cycle.open \in Nat
    BY <2>2, AutoAssumption
  <2>5. Cardinality(Q) <= MaxParallel
    BY <2>1, <2>3, <2>4, AutoAssumption
  <2>6. /\ cycle'.pc = "batch" /\ cycle'.queue = Q /\ cycle'.day = cycle.day
    BY <2>1, <2>2
  <2>. QED
    BY <1>0, <2>2, <2>3, <2>5, <2>6
<1>7. CASE ExecuteNext
  BY <1>7 DEF KeepsEntry, entryVars, ExecuteNext, Begin, EntryTypeOK, NoCall
<1>8. CASE EndCycle
  BY <1>0, <1>8 DEF EndCycle
<1>. QED
  BY <1>1, <1>2, <1>3, <1>4, <1>5, <1>6, <1>7, <1>8 DEF AutoStep

\* Before the batch the loop has no call in progress.
LEMMA NoClaimBefore ==
    ASSUME AutoInv, cycle.pc # "batch"
    PROVE  Claim = 0
  BY DEF AutoInv, BatchOnly, Claim

\* The stages before the batch open no trade, and no cycle starts on a stopped engine.
LEMMA CycleKeepsStop ==
    ASSUME AutoInv, StopInv, AutoTypeOK', AutoStep, KeepsEntry
    PROVE  StopInv'
<1>1. AutoTypeOK
  BY DEF AutoInv
<1>2. /\ KeepsRest /\ call' = call /\ Claim' = Claim
  BY <1>1, CycleMoves DEF Claim
<1>3. engine' = engine /\ afterStop' = afterStop
  BY <1>2 DEF KeepsRest
<1>4. CASE cycle' = NoCycle
  BY <1>3, <1>4 DEF StopInv, StopBound, NoCycle, BeforeBatch, CycleStages
<1>5. CASE /\ engine
           /\ cycle'.pc = "gates"
  BY <1>3, <1>5 DEF StopInv, StopBound
<1>6. CASE cycle.pc \in BeforeBatch /\ cycle'.pc # "batch"
  BY <1>3, <1>6 DEF StopInv, StopBound
<1>7. CASE /\ cycle.pc \in BeforeBatch /\ cycle'.pc = "batch"
           /\ Cardinality(cycle'.queue) \in Nat
           /\ Cardinality(cycle'.queue) <= MaxParallel
  <2>1. Claim = 0 /\ afterStop = 0
    BY <1>7, NoClaimBefore DEF StopInv, BeforeBatch
  <2>. QED
    BY <1>2, <1>3, <1>7, <2>1 DEF StopInv, StopBound, BeforeBatch
<1>. QED
  BY <1>1, <1>4, <1>5, <1>6, <1>7, CycleMoves

\* A cycle starts on the current day; its batch starts when the trades counted for that
\* day leave room for one more.
LEMMA CycleKeepsDay ==
    ASSUME AutoInv, DayInv, AutoTypeOK', AutoStep, KeepsEntry
    PROVE  DayInv'
<1>1. AutoTypeOK
  BY DEF AutoInv
<1>2. KeepsRest /\ call' = call /\ trade' = trade /\ Claim' = Claim
  BY <1>1, CycleMoves DEF Claim
<1>3. day' = day /\ \A d \in 1 .. LastDay : AutoTradesOf(d)' = AutoTradesOf(d)
  BY <1>2 DEF KeepsRest, AutoTradesOf, TradesOf
<1>4. \A d \in 1 .. LastDay : /\ Cardinality(AutoTradesOf(d)) \in Nat
                              /\ Cardinality(AutoTradesOf(d)) <= Cardinality(TradesOf(d))
                              /\ Cardinality(TradesOf(d)) \in Nat
  BY DayCounts
<1>5. NoneAfter(day)' /\ DayOvershoot'
  BY <1>3 DEF DayInv, NoneAfter, DayOvershoot
<1>6. day \in 1 .. LastDay /\ LastDay \in Nat
      /\ MaxParallel \in Nat \ {0} /\ MaxPerDay \in Nat \ {0}
  BY <1>1, BatchNumbers
<1>7. CASE cycle' = NoCycle
  BY <1>5, <1>7 DEF DayInv, NoCycle, BeforeBatch, CycleStages
<1>8. CASE cycle'.pc = "gates" /\ cycle'.day = day
  <2>1. NoneAfter(cycle.day)'
    BY <1>3, <1>5, <1>8 DEF NoneAfter
  <2>. QED
    BY <1>3, <1>5, <1>6, <1>8, <2>1 DEF DayInv
<1>9. CASE cycle # NoCycle /\ cycle.pc \in BeforeBatch /\ cycle'.day = cycle.day
  <2>1. /\ cycle.day \in 1 .. LastDay /\ cycle.day <= day
        /\ NoneAfter(cycle.day)
    BY <1>1, <1>9, BatchNumbers DEF DayInv
  <2>2. NoneAfter(cycle.day)' /\ (cycle.day <= day)'
    BY <1>3, <1>9, <2>1 DEF NoneAfter
  <2>3. CASE cycle'.pc \in {"open", "today"}
    BY <1>5, <2>2, <2>3 DEF DayInv
  <2>4. CASE /\ Cardinality(TradesOf(cycle.day)) < MaxPerDay
             /\ cycle'.pc = "refresh"
    <3>1. Cardinality(AutoTradesOf(cycle.day)) <= MaxPerDay - 1
      BY <1>4, <1>6, <2>1, <2>4
    <3>2. (Cardinality(AutoTradesOf(cycle.day)) <= MaxPerDay - 1)'
      BY <1>3, <1>9, <2>1, <3>1
    <3>. QED
      BY <1>5, <2>2, <2>4, <3>2 DEF DayInv
  <2>5. CASE /\ cycle.pc \in {"refresh", "symbols"}
             /\ cycle'.pc \in {"symbols", "list"}
    <3>1. (Cardinality(AutoTradesOf(cycle.day)) <= MaxPerDay - 1)'
      BY <1>3, <1>9, <2>1, <2>5 DEF DayInv
    <3>. QED
      BY <1>5, <2>2, <2>5, <3>1 DEF DayInv
  <2>6. CASE /\ cycle.pc = "list" /\ cycle'.pc = "batch"
             /\ Cardinality(cycle'.queue) \in Nat
             /\ Cardinality(cycle'.queue) <= MaxParallel
    <3>1. Claim' = 0
      BY <1>2, <2>6, NoClaimBefore
    <3>2. Cardinality(AutoTradesOf(cycle.day)) <= MaxPerDay - 1
      BY <2>6 DEF DayInv
    <3>3. \A d \in cycle.day .. LastDay : Cardinality(AutoTradesOf(d)) <= MaxPerDay - 1
      <4>1. \A d \in cycle.day .. LastDay :
              d # cycle.day => d \in 1 .. LastDay /\ d > cycle.day
        BY <1>6, <2>1
      <4>2. \A d \in cycle.day .. LastDay : d # cycle.day => AutoTradesOf(d) = {}
        BY <2>1, <4>1 DEF NoneAfter
      <4>. QED
        BY <1>6, <3>2, <4>2, FS_EmptySet
    <3>4. (\A d \in cycle.day .. LastDay :
            Cardinality(AutoTradesOf(d)) + Cardinality(cycle.queue) + Claim
              <= MaxPerDay - 1 + MaxParallel)'
      <4>. SUFFICES ASSUME NEW d \in cycle.day .. LastDay
                    PROVE  Cardinality(AutoTradesOf(d)') + Cardinality(cycle'.queue) + Claim'
                             <= MaxPerDay - 1 + MaxParallel
        BY <1>9
      <4>1. d \in 1 .. LastDay
        BY <1>6, <2>1
      <4>2. AutoTradesOf(d)' = AutoTradesOf(d) /\ Cardinality(AutoTradesOf(d)) \in Nat
        BY <1>3, <1>4, <4>1
      <4>. QED
        BY <1>6, <2>6, <3>1, <3>3, <4>2
    <3>5. cycle'.pc \notin BeforeBatch
      BY <2>6 DEF BeforeBatch
    <3>. QED
      BY <1>5, <2>2, <2>6, <3>4, <3>5 DEF DayInv
  <2>. QED
    BY <1>1, <1>7, <1>9, <2>3, <2>4, <2>5, <2>6, CycleMoves
<1>. QED
  BY <1>1, <1>7, <1>8, <1>9, CycleMoves

\* Executing the next of the queue turns its place into a claim.
LEMMA ExecuteNextCounts ==
    ASSUME AutoTypeOK, ExecuteNext
    PROVE  /\ cycle.pc = "batch" /\ cycle # NoCycle
           /\ cycle'.pc = "batch" /\ cycle'.day = cycle.day /\ cycle' # NoCycle
           /\ KeepsRest /\ trade' = trade
           /\ Cardinality(cycle'.queue) \in Nat
           /\ Cardinality(cycle.queue) = Cardinality(cycle'.queue) + 1
           /\ Claim = 0 /\ Claim' \in {0, 1}
<1>1. PICK r \in cycle.queue :
        /\ Begin(Loop, r, cycle.mode)
        /\ cycle' = [cycle EXCEPT !.queue = @ \ {r}]
  BY DEF ExecuteNext
<1>2. cycle.pc = "batch" /\ cycle # NoCycle /\ cycle \in Cycle
  BY DEF ExecuteNext, InCycle, NoCycle, AutoTypeOK
<1>3. /\ cycle'.pc = "batch" /\ cycle'.day = cycle.day
      /\ cycle'.queue = cycle.queue \ {r} /\ cycle' # NoCycle
  BY <1>1, <1>2 DEF Cycle, NoCycle
<1>4. IsFiniteSet(cycle.queue) /\ Cardinality(cycle.queue) \in Nat
  BY <1>2, AutoCounts
<1>5. /\ IsFiniteSet(cycle.queue \ {r})
      /\ Cardinality(cycle.queue \ {r}) = Cardinality(cycle.queue) - 1
  BY <1>4, FS_RemoveElement
<1>6. Cardinality(cycle.queue \ {r}) \in Nat
  BY <1>5, FS_CardinalityType
<1>7. call[Loop] = NoCall /\ trade' = trade
  BY <1>1 DEF Begin
<1>8. Claim = 0 /\ Claim' \in {0, 1}
  BY <1>7 DEF Claim
<1>9. KeepsRest
  BY DEF ExecuteNext
<1>10. /\ Cardinality(cycle'.queue) \in Nat
       /\ Cardinality(cycle.queue) = Cardinality(cycle'.queue) + 1
  BY <1>3, <1>4, <1>5, <1>6
<1>. QED
  BY <1>2, <1>3, <1>7, <1>8, <1>9, <1>10

\* Three parts keep their sum when one gives to another.
LEMMA SumShifts ==
    \A x, q, p, n \in Nat : x + (q + 1) + 0 <= n /\ p <= 1 => x + q + p <= n
  OBVIOUS

\* The place of the next in the queue is now the call's.
LEMMA ExecuteNextKeepsLimits ==
    ASSUME AutoInv, StopInv, DayInv, AutoTypeOK', ExecuteNext
    PROVE  StopInv' /\ DayInv'
<1>1. AutoTypeOK
  BY DEF AutoInv
<1>2. /\ cycle.pc = "batch" /\ cycle # NoCycle
      /\ cycle'.pc = "batch" /\ cycle'.day = cycle.day /\ cycle' # NoCycle
      /\ KeepsRest /\ trade' = trade
      /\ Cardinality(cycle'.queue) \in Nat
      /\ Cardinality(cycle.queue) = Cardinality(cycle'.queue) + 1
      /\ Claim = 0 /\ Claim' \in Nat /\ Claim' <= 1
  BY <1>1, ExecuteNextCounts
<1>3. /\ engine' = engine /\ afterStop' = afterStop /\ day' = day
      /\ \A d \in 1 .. LastDay : AutoTradesOf(d)' = AutoTradesOf(d)
  BY <1>2 DEF KeepsRest, AutoTradesOf, TradesOf
<1>4. afterStop \in Nat /\ MaxParallel \in Nat /\ MaxPerDay - 1 + MaxParallel \in Nat
      /\ LastDay \in Nat /\ cycle.day \in 1 .. LastDay
  BY <1>1, <1>2, BatchNumbers
<1>5. "batch" \notin BeforeBatch /\ "batch" \notin {"refresh", "symbols", "list"}
  BY DEF BeforeBatch
<1>6. StopInv'
  <2>1. afterStop + (Cardinality(cycle'.queue) + 1) + 0 <= MaxParallel
    BY <1>2 DEF StopInv
  <2>2. afterStop + Cardinality(cycle'.queue) + Claim' <= MaxParallel
    BY <1>2, <1>4, <2>1, SumShifts
  <2>. QED
    BY <1>2, <1>3, <1>5, <2>2 DEF StopInv, StopBound
<1>7. DayInv'
  <2>1. (\A d \in cycle.day .. LastDay :
           Cardinality(AutoTradesOf(d)) + Cardinality(cycle.queue) + Claim
             <= MaxPerDay - 1 + MaxParallel)'
    <3>. SUFFICES ASSUME NEW d \in cycle.day .. LastDay
                  PROVE  Cardinality(AutoTradesOf(d)') + Cardinality(cycle'.queue) + Claim'
                           <= MaxPerDay - 1 + MaxParallel
      BY <1>2
    <3>1. d \in 1 .. LastDay
      BY <1>4
    <3>2. AutoTradesOf(d)' = AutoTradesOf(d) /\ Cardinality(AutoTradesOf(d)) \in Nat
      BY <1>3, <3>1, DayCounts
    <3>3. Cardinality(AutoTradesOf(d)) + (Cardinality(cycle'.queue) + 1) + 0
            <= MaxPerDay - 1 + MaxParallel
      BY <1>2 DEF DayInv
    <3>. QED
      BY <1>2, <1>4, <3>2, <3>3, SumShifts
  <2>2. NoneAfter(day)' /\ DayOvershoot' /\ (cycle.day <= day)'
    BY <1>2, <1>3 DEF DayInv, NoneAfter, DayOvershoot
  <2>. QED
    BY <1>2, <1>5, <2>1, <2>2 DEF DayInv
<1>. QED
  BY <1>6, <1>7

\* A step of the loop's call gives up its place for the trade it opens.
LEMMA OwnCallKeepsStop ==
    ASSUME AutoInv, WrittenSoFar, StopInv, AutoTypeOK', CallStep(Loop)
    PROVE  StopInv'
<1>1. /\ cycle.pc = "batch" /\ cycle # NoCycle
      /\ Claim \in Nat /\ Claim' \in Nat
      /\ engine' = engine /\ cycle' = cycle
  BY OwnCallDates DEF CallStep
<1>2. /\ afterStop \in Nat /\ MaxParallel \in Nat /\ Cardinality(cycle.queue) \in Nat
      /\ afterStop' \in Nat
  BY <1>1, BatchNumbers DEF AutoInv, AutoTypeOK
<1>3. afterStop' + Claim' <= afterStop + Claim /\ (engine => afterStop' = afterStop)
  <2>1. CASE Claim' <= Claim /\ afterStop' = afterStop
    <3>1. afterStop' <= afterStop
      BY <1>2, <2>1
    <3>. QED
      BY <1>1, <1>2, <2>1, <3>1, SumGrows
  <2>2. CASE /\ Claim = 1 /\ Claim' = 0
             /\ afterStop' \in {afterStop, afterStop + 1}
             /\ engine => afterStop' = afterStop
    <3>1. afterStop' <= afterStop + 1
      BY <1>2, <2>2
    <3>2. afterStop' + Claim' <= afterStop + Claim
      BY <1>1, <1>2, <2>2, <3>1, SumMoves
    <3>. QED
      BY <2>2, <3>2
  <2>. QED
    BY <2>1, <2>2, OwnCallDates
<1>4. afterStop + Cardinality(cycle.queue) + Claim <= MaxParallel
  BY <1>1 DEF StopInv
<1>5. /\ afterStop' + Cardinality(cycle.queue) + Claim' <= MaxParallel
      /\ afterStop' <= MaxParallel
  BY <1>1, <1>2, <1>3, <1>4, SumBound
<1>. QED
  BY <1>1, <1>3, <1>5 DEF StopInv, StopBound, BeforeBatch

\* The same for the trades of each day: only those of the current day can grow.
LEMMA OwnCallKeepsDay ==
    ASSUME AutoInv, WrittenSoFar, DayInv, AutoTypeOK', CallStep(Loop)
    PROVE  DayInv'
<1>1. /\ cycle.pc = "batch" /\ cycle # NoCycle
      /\ Claim \in Nat /\ Claim' \in Nat
      /\ day' = day /\ cycle' = cycle
  BY OwnCallDates DEF CallStep
<1>2. /\ day \in 1 .. LastDay /\ LastDay \in Nat /\ cycle.day \in 1 .. LastDay
      /\ MaxParallel \in Nat /\ MaxPerDay \in Nat \ {0}
      /\ Cardinality(cycle.queue) \in Nat /\ cycle.day <= day
  BY <1>1, BatchNumbers DEF AutoInv, DayInv
<1>3. \A d \in 1 .. LastDay : d # day =>
        /\ AutoTradesOf(d)' \subseteq AutoTradesOf(d)
        /\ Claim' <= Claim
  BY <1>1, OwnCallDates
<1>4. ASSUME NEW e \in 1 .. LastDay, e = day
      PROVE  /\ Cardinality(AutoTradesOf(e)') + Claim' <= Cardinality(AutoTradesOf(e)) + Claim
             /\ Cardinality(AutoTradesOf(e)') \in Nat
             /\ Cardinality(AutoTradesOf(e)) \in Nat
  <2> DEFINE n == Cardinality(AutoTradesOf(e))
             m == Cardinality(AutoTradesOf(e)')
  <2>1. IsFiniteSet(AutoTradesOf(e)) /\ n \in Nat
    BY <1>2, DayCounts
  <2>2. CASE AutoTradesOf(e)' \subseteq AutoTradesOf(e) /\ Claim' <= Claim
    <3>1. m \in Nat /\ m <= n
      BY <2>1, <2>2, FS_Subset, FS_CardinalityType
    <3> HIDE DEF m, n
    <3>2. m + Claim' <= n + Claim
      BY <1>1, <2>1, <2>2, <3>1, SumGrows
    <3>. QED
      BY <2>1, <3>1, <3>2 DEF m, n
  <2>3. ASSUME NEW t \in Refs, AutoTradesOf(e)' \subseteq AutoTradesOf(e) \cup {t},
               Claim = 1, Claim' = 0
        PROVE  m + Claim' <= n + Claim /\ m \in Nat
    <3>1. /\ IsFiniteSet(AutoTradesOf(e) \cup {t})
          /\ Cardinality(AutoTradesOf(e) \cup {t}) \in {n, n + 1}
      BY <2>1, FS_AddElement
    <3>2. /\ m \in Nat
          /\ m <= Cardinality(AutoTradesOf(e) \cup {t})
      BY <2>3, <3>1, FS_Subset, FS_CardinalityType
    <3>3. m <= n \/ m <= n + 1
      BY <3>1, <3>2
    <3> HIDE DEF m, n
    <3>. QED
      BY <1>1, <2>1, <2>3, <3>2, <3>3, SumMoves
  <2>4. \/ AutoTradesOf(e)' \subseteq AutoTradesOf(e) /\ Claim' <= Claim
        \/ /\ Claim = 1 /\ Claim' = 0
           /\ \E t \in Refs : AutoTradesOf(e)' \subseteq AutoTradesOf(e) \cup {t}
    BY OwnCallDates
  <2>. QED
    BY <2>1, <2>2, <2>3, <2>4
<1>5. \A d \in 1 .. LastDay :
        /\ Cardinality(AutoTradesOf(d)') \in Nat /\ Cardinality(AutoTradesOf(d)) \in Nat
        /\ Cardinality(AutoTradesOf(d)') + Claim' <= Cardinality(AutoTradesOf(d)) + Claim
  <2>. SUFFICES ASSUME NEW d \in 1 .. LastDay, d # day
                PROVE  /\ Cardinality(AutoTradesOf(d)') \in Nat
                       /\ Cardinality(AutoTradesOf(d)) \in Nat
                       /\ Cardinality(AutoTradesOf(d)') + Claim'
                            <= Cardinality(AutoTradesOf(d)) + Claim
    BY <1>4
  <2>1. IsFiniteSet(AutoTradesOf(d)) /\ Cardinality(AutoTradesOf(d)) \in Nat
    BY DayCounts
  <2>2. /\ Cardinality(AutoTradesOf(d)') \in Nat
        /\ Cardinality(AutoTradesOf(d)') <= Cardinality(AutoTradesOf(d))
    BY <1>3, <2>1, FS_Subset, FS_CardinalityType
  <2>. QED
    BY <1>1, <1>3, <2>1, <2>2, SumGrows

<1>6. (\A d \in cycle.day .. LastDay :
         Cardinality(AutoTradesOf(d)) + Cardinality(cycle.queue) + Claim
           <= MaxPerDay - 1 + MaxParallel)'
  <2>. SUFFICES ASSUME NEW d \in cycle.day .. LastDay
                PROVE  Cardinality(AutoTradesOf(d)') + Cardinality(cycle.queue) + Claim'
                         <= MaxPerDay - 1 + MaxParallel
    BY <1>1
  <2>1. d \in 1 .. LastDay
    BY <1>2
  <2>2. Cardinality(AutoTradesOf(d)) + Cardinality(cycle.queue) + Claim
          <= MaxPerDay - 1 + MaxParallel
    BY <1>1 DEF DayInv
  <2>3. MaxPerDay - 1 + MaxParallel \in Nat
    BY <1>2
  <2>. QED
    BY <1>1, <1>2, <1>5, <2>1, <2>2, <2>3, SumBound
<1>7. DayOvershoot'
  <2>. SUFFICES ASSUME NEW d \in 1 .. LastDay
                PROVE  Cardinality(AutoTradesOf(d)') <= MaxPerDay - 1 + MaxParallel
    BY DEF DayOvershoot
  <2>1. CASE d = day
    <3>1. Cardinality(AutoTradesOf(d)) + Cardinality(cycle.queue) + Claim
            <= MaxPerDay - 1 + MaxParallel
      BY <1>1, <1>2, <2>1 DEF DayInv
    <3>2. MaxPerDay - 1 + MaxParallel \in Nat
      BY <1>2
    <3>. QED
      BY <1>1, <1>2, <1>5, <2>1, <3>1, <3>2, SumBound
  <2>2. CASE d # day
    <3>1. IsFiniteSet(AutoTradesOf(d)) /\ Cardinality(AutoTradesOf(d)) \in Nat
      BY DayCounts
    <3>2. Cardinality(AutoTradesOf(d)') <= Cardinality(AutoTradesOf(d))
      BY <1>3, <2>2, <3>1, FS_Subset
    <3>3. Cardinality(AutoTradesOf(d)) <= MaxPerDay - 1 + MaxParallel
      BY DEF DayInv, DayOvershoot
    <3>. QED
      BY <1>2, <1>5, <3>1, <3>2, <3>3
  <2>. QED
    BY <2>1, <2>2
<1>8. NoneAfter(day)'
  <2>1. \A d \in 1 .. LastDay : d > day => d # day
    BY <1>2
  <2>. QED
    BY <1>1, <1>3, <2>1 DEF DayInv, NoneAfter
<1>9. "batch" \notin BeforeBatch
  BY DEF BeforeBatch
<1>. QED
  BY <1>1, <1>2, <1>6, <1>7, <1>8, <1>9 DEF DayInv

\* The initial state has both invariants.
LEMMA LimitsInit == AutoInit => StopInv /\ DayInv
<1>. SUFFICES ASSUME AutoInit PROVE StopInv /\ DayInv
  OBVIOUS
<1>1. cycle.pc = "idle" /\ cycle = NoCycle /\ afterStop = 0 /\ day = 1
  BY DEF AutoInit, NoCycle
<1>2. \A d \in 1 .. LastDay : AutoTradesOf(d) = {}
  BY DEF AutoInit, AutoTradesOf, TradesOf
<1>3. \A d \in 1 .. LastDay : Cardinality(AutoTradesOf(d)) = 0
  BY <1>2, FS_EmptySet
<1>4. cycle.pc \notin BeforeBatch
  BY <1>1 DEF BeforeBatch, CycleStages
<1>. QED
  BY <1>1, <1>2, <1>3, <1>4, AutoAssumption
  DEF StopInv, StopBound, DayInv, DayOvershoot, NoneAfter

\* Every step keeps them.
LEMMA LimitsStep ==
    ASSUME AutoInv, WrittenSoFar, StopInv, DayInv, [AutoNext]_allVars
    PROVE  StopInv' /\ DayInv'
<1>1. AutoTypeOK /\ EntryTypeOK /\ AutoTypeOK' /\ Loop \in Callers
  BY AutoTypeStep, AutoAssumption DEF AutoInv, AutoTypeOK
<1>2. CASE AutoStep /\ ~ExecuteNext
  <2>1. KeepsEntry
    BY <1>2 DEF AutoStep, StartCycle, PassGates, CountOpen, CountToday, Refresh,
       ReadTaken, ListEligible, EndCycle
  <2>. QED
    BY <1>1, <1>2, <2>1, CycleKeepsStop, CycleKeepsDay
<1>3. CASE ExecuteNext
  BY <1>1, <1>3, ExecuteNextKeepsLimits
<1>4. CASE CallStep(Loop)
  BY <1>1, <1>4, OwnCallKeepsStop, OwnCallKeepsDay
<1>5. ASSUME NEW c \in Callers, c # Loop, CallStep(c)
      PROVE  StopInv' /\ DayInv'
  <2>1. /\ Execute(c) \/ Abort(c)
        /\ cycle' = cycle /\ engine' = engine /\ day' = day /\ afterStop' = afterStop
    BY <1>5 DEF CallStep
  <2>2. call'[Loop] = call[Loop]
    BY <1>1, <1>5, <2>1, CallsAlone
  <2>3. \A d \in 1 .. LastDay : AutoTradesOf(d)' \subseteq AutoTradesOf(d)
    BY <1>1, <1>5, OnlyInsertDates, InsertDatesOne
  <2>. QED
    BY <1>1, <2>1, <2>2, <2>3, OthersKeepDay, OthersKeepStop
<1>6. CASE StopProcess
  <2>1. cycle' = NoCycle /\ KeepsRest /\ trade' = trade
    BY <1>6 DEF StopProcess, Leave, Restart
  <2>2. \A d \in 1 .. LastDay : AutoTradesOf(d)' = AutoTradesOf(d)
    BY <2>1 DEF KeepsRest, AutoTradesOf, TradesOf
  <2>3. /\ cycle'.pc \notin BeforeBatch /\ cycle'.pc # "batch"
        /\ cycle'.pc \notin {"refresh", "symbols", "list"}
    BY <2>1 DEF NoCycle, BeforeBatch, CycleStages
  <2>4. NoneAfter(day)' /\ DayOvershoot'
    BY <2>1, <2>2 DEF KeepsRest, DayInv, NoneAfter, DayOvershoot
  <2>5. StopInv'
    BY <2>1, <2>3 DEF KeepsRest, StopInv, StopBound
  <2>6. DayInv'
    BY <2>1, <2>3, <2>4 DEF DayInv
  <2>. QED
    BY <2>5, <2>6
<1>7. CASE ManualExecute
  <2>1. PICK c \in Callers \ {Loop}, r \in Recs, m \in TradeModes : Begin(c, r, m)
    BY <1>7 DEF ManualExecute
  <2>2. trade' = trade /\ call'[Loop] = call[Loop]
    BY <1>1, <2>1 DEF Begin, EntryTypeOK
  <2>3. /\ cycle' = cycle /\ engine' = engine /\ day' = day
        /\ afterStop' = afterStop /\ openedOn' = openedOn
    BY <1>7 DEF ManualExecute, KeepsRest
  <2>4. \A d \in 1 .. LastDay : AutoTradesOf(d)' \subseteq AutoTradesOf(d)
    BY <2>2, <2>3 DEF AutoTradesOf, TradesOf
  <2>. QED
    BY <1>1, <2>2, <2>3, <2>4, OthersKeepDay, OthersKeepStop
<1>8. CASE OthersWrite
  <2>1. /\ cycle' = cycle /\ call' = call /\ engine' = engine /\ day' = day
        /\ afterStop' = afterStop /\ openedOn' = openedOn
    BY <1>8 DEF OthersWrite, KeepsRest, Publish, Withdraw, Close
  <2>2. \A t \in Refs : trade'[t] # trade[t] => trade'[t].by = trade[t].by
    BY <1>1, <1>8
    DEF OthersWrite, Publish, Withdraw, Close, EntryTypeOK, IsOpen, TradeRow, NoTrade
  <2>3. \A d \in 1 .. LastDay : AutoTradesOf(d)' \subseteq AutoTradesOf(d)
    BY <2>1, <2>2 DEF AutoTradesOf, TradesOf
  <2>. QED
    BY <1>1, <2>1, <2>3, OthersKeepDay, OthersKeepStop
<1>9. CASE SetEngine \/ NextDay \/ UNCHANGED allVars
  <2>1. /\ cycle' = cycle /\ call' = call /\ trade' = trade /\ openedOn' = openedOn
        /\ \/ engine' = engine /\ afterStop' = afterStop
           \/ afterStop' = 0
    BY <1>9 DEF SetEngine, NextDay, KeepsEntry, allVars, autoVars, entryVars
  <2>2. day' \in {day, day + 1}
    BY <1>9 DEF SetEngine, NextDay, allVars, autoVars
  <2>3. \A d \in 1 .. LastDay : AutoTradesOf(d)' \subseteq AutoTradesOf(d)
    BY <2>1 DEF AutoTradesOf, TradesOf
  <2>. QED
    BY <1>1, <2>1, <2>2, <2>3, OthersKeepDay, OthersKeepStop
<1>. QED
  BY <1>2, <1>3, <1>4, <1>5, <1>6, <1>7, <1>8, <1>9 DEF AutoNext, AutoStep

\* Both invariants hold in every reachable state.
THEOREM LimitsInvariant == AutoSpec => [](StopInv /\ DayInv)
<1>1. AutoSpec => []WrittenSoFar
  <2>1. EntryInv => WrittenSoFar
    BY DEF EntryInv
  <2>. QED
    BY <2>1, AutoImplementsEntry, EntryInvariant, PTL DEF ImplementsEntry
<1>2. AutoInv /\ WrittenSoFar /\ (StopInv /\ DayInv) /\ [AutoNext]_allVars
        => (StopInv /\ DayInv)'
  BY LimitsStep
<1>. QED
  BY <1>1, <1>2, AutoInvariant, LimitsInit, PTL DEF AutoSpec

\* The loop passes max_trades_day by less than one batch, however many trades of other
\* hands come between its count and its batch, and over any number of midnights.
THEOREM DayOvershootHolds == AutoSpec => []DayOvershoot
<1>1. DayInv => DayOvershoot
  BY DEF DayInv
<1>. QED
  BY <1>1, LimitsInvariant, PTL

\* A stopped engine opens at most the rest of the batch in progress.
THEOREM StopBoundHolds == AutoSpec => []StopBound
<1>1. StopInv => StopBound
  BY DEF StopInv
<1>. QED
  BY <1>1, LimitsInvariant, PTL
=============================================================================
