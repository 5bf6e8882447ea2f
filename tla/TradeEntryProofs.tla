--------------------------- MODULE TradeEntryProofs ---------------------------
(***************************************************************************)
(* Theorems of TradeEntry, for any number of tasks, recommendations,       *)
(* symbols and trades.                                                     *)
(***************************************************************************)
EXTENDS TradeEntry, TLAPS

\* Two calls in progress have different refs.
CallsApart ==
    \A c, d \in Callers :
        /\ c # d
        /\ call[c] # NoCall
        /\ call[d] # NoCall
        => call[c].ref # call[d].ref

\* What a call has already written at each of its stages.
WrittenSoFar ==
    \A c \in Callers : call[c] # NoCall =>
        /\ call[c].pc \notin {"event", "accept"} => trade[call[c].ref] = NoTrade
        /\ call[c].pc \in {"orderRow", "tradeRow"} /\ call[c].mode = "LIVE"
             => call[c].ref \in filled
        /\ call[c].pc = "tradeRow" => call[c].ref \in orderRows
        /\ call[c].pc \in {"event", "accept"} =>
             /\ trade[call[c].ref] # NoTrade
             /\ trade[call[c].ref].rec = call[c].rec

\* A task past the symbol check has no open position of its own in the symbol.
PastCheckAlone ==
    \A c \in Callers, t \in Refs :
        /\ PastSymbolCheck(c)
        /\ IsOpen(t)
        /\ SymbolOfTrade(t) = SymbolOf[call[c].rec]
        => trade[t].by # c

\* The inductive invariant behind the properties of TradeEntry.
EntryInv ==
    /\ EntryTypeOK
    /\ CallsApart
    /\ WrittenSoFar
    /\ TradeBacked
    /\ AcceptedHasTrade
    /\ PastCheckAlone
    /\ OneOpenPerCaller

(***************************************************************************)
(* Type correctness.                                                       *)
(***************************************************************************)

\* The initial state has its types.
LEMMA TypeInit == EntryInit => EntryTypeOK
  BY DEF EntryInit, EntryTypeOK

\* Every step keeps them.
LEMMA TypeStep ==
    ASSUME EntryTypeOK, [EntryNext]_entryVars
    PROVE  EntryTypeOK'
<1> USE DEF EntryTypeOK, NoCall, NoTrade, Call, Stages, TradeRow
<1>1. ASSUME NEW c \in Callers, NEW r \in Recs, NEW m \in Modes, Begin(c, r, m)
      PROVE  EntryTypeOK'
  BY <1>1 DEF Begin, Fresh
<1>2. ASSUME NEW c \in Callers, FetchQuote(c)
      PROVE  EntryTypeOK'
  BY <1>2 DEF FetchQuote, At
<1>3. ASSUME NEW c \in Callers, PlaceOrder(c)
      PROVE  EntryTypeOK'
  BY <1>3 DEF PlaceOrder, At, Advance, Return
<1>4. ASSUME NEW c \in Callers, InsertTrade(c)
      PROVE  EntryTypeOK'
  <2>1. PICK p \in {call[c].pending, FALSE} :
          trade' = [trade EXCEPT ![call[c].ref] =
                      [state |-> "OPEN", rec |-> call[c].rec,
                       mode |-> call[c].mode, by |-> c, pending |-> p]]
    BY <1>4 DEF InsertTrade
  <2>2. call[c] \in Call
    BY <1>4 DEF InsertTrade, At
  <2>3. [state |-> "OPEN", rec |-> call[c].rec, mode |-> call[c].mode,
         by |-> c, pending |-> p] \in TradeRow
    BY <2>1, <2>2
  <2>4. trade' \in [Refs -> {NoTrade} \cup TradeRow]
    BY <2>1, <2>2, <2>3
  <2>5. call' \in [Callers -> {NoCall} \cup Call]
    BY <1>4 DEF InsertTrade, At, Advance
  <2>. QED
    BY <1>4, <2>4, <2>5 DEF InsertTrade
<1>5. ASSUME NEW c \in Callers, AcceptRec(c)
      PROVE  EntryTypeOK'
  BY <1>5 DEF AcceptRec, At, Return
<1>6. ASSUME NEW c \in Callers,
             \/ CheckApproval(c) \/ CheckRisk(c) \/ CheckRec(c)
             \/ CheckSymbol(c) \/ InsertOrder(c) \/ InsertEvent(c)
             \/ Abort(c)
      PROVE  EntryTypeOK'
  BY <1>6 DEF CheckApproval, Gate, At, Advance, Return, CheckRisk, CheckRec,
         CheckSymbol, InsertOrder, InsertEvent, Abort
<1>7. ASSUME NEW r \in Recs, Publish(r) \/ Withdraw(r)
      PROVE  EntryTypeOK'
  BY <1>7 DEF Publish, Withdraw
<1>8. ASSUME NEW t \in Refs, Close(t)
      PROVE  EntryTypeOK'
  BY <1>8 DEF Close, IsOpen
<1>9. CASE Approve
  BY <1>9 DEF Approve
<1>10. CASE UNCHANGED entryVars
  BY <1>10 DEF entryVars
<1>11. CASE Restart
  BY <1>11 DEF Restart
<1>. QED
  BY <1>1, <1>2, <1>3, <1>4, <1>5, <1>6, <1>7, <1>8, <1>9, <1>10, <1>11
  DEF EntryNext, Execute, Environment

\* The variables of execute_recommendation keep their shape.
THEOREM EntryTypeCorrect == EntrySpec => []EntryTypeOK
  BY TypeInit, TypeStep, PTL DEF EntrySpec

(***************************************************************************)
(* The inductive invariant, one conjunct at a time.                        *)
(***************************************************************************)

\* A ref is drawn once.
LEMMA CallsApartStep ==
    ASSUME EntryTypeOK, CallsApart, [EntryNext]_entryVars
    PROVE  CallsApart'
<1> USE DEF EntryTypeOK, NoCall, NoTrade, Call, Stages, TradeRow, CallsApart
<1>1. ASSUME NEW c \in Callers, NEW r \in Recs, NEW m \in Modes, Begin(c, r, m)
      PROVE  CallsApart'
  BY <1>1 DEF Begin, Fresh
<1>2. ASSUME NEW c \in Callers, FetchQuote(c)
      PROVE  CallsApart'
  BY <1>2 DEF FetchQuote, At
<1>3. ASSUME NEW c \in Callers, PlaceOrder(c)
      PROVE  CallsApart'
  BY <1>3 DEF PlaceOrder, At, Advance, Return
<1>4. ASSUME NEW c \in Callers, InsertOrder(c)
      PROVE  CallsApart'
  BY <1>4 DEF InsertOrder, At, Advance
<1>5. ASSUME NEW c \in Callers, InsertTrade(c)
      PROVE  CallsApart'
  BY <1>5 DEF InsertTrade, At, Advance
<1>6. ASSUME NEW c \in Callers, InsertEvent(c)
      PROVE  CallsApart'
  BY <1>6 DEF InsertEvent, At, Advance
<1>7. ASSUME NEW c \in Callers, AcceptRec(c)
      PROVE  CallsApart'
  BY <1>7 DEF AcceptRec, At, Return
<1>8. ASSUME NEW c \in Callers, Abort(c)
      PROVE  CallsApart'
  BY <1>8 DEF Abort, Return
<1>9. ASSUME NEW c \in Callers,
             \/ CheckApproval(c) \/ CheckRisk(c) \/ CheckRec(c)
             \/ CheckSymbol(c)
      PROVE  CallsApart'
  BY <1>9 DEF CheckApproval, Gate, At, Advance, Return, CheckRisk, CheckRec,
         CheckSymbol
<1>10. CASE Environment
  BY <1>10 DEF Environment, Publish, Withdraw, Close, IsOpen, Approve
<1>11. CASE UNCHANGED entryVars
  BY <1>11 DEF entryVars
<1>12. CASE Restart
  BY <1>12 DEF Restart
<1>. QED
  BY <1>1, <1>2, <1>3, <1>4, <1>5, <1>6, <1>7, <1>8, <1>9, <1>10, <1>11, <1>12
  DEF EntryNext, Execute

\* The writes of a call come in the order of its stages, and no other call
\* touches what it has written.
LEMMA WrittenSoFarStep ==
    ASSUME EntryTypeOK, CallsApart, WrittenSoFar, [EntryNext]_entryVars
    PROVE  WrittenSoFar'
<1> USE DEF EntryTypeOK, NoCall, NoTrade, Call, Stages,
            TradeRow, CallsApart, WrittenSoFar
<1>1. ASSUME NEW c \in Callers, NEW r \in Recs, NEW m \in Modes, Begin(c, r, m)
      PROVE  WrittenSoFar'
  BY <1>1 DEF Begin, Fresh
<1>2. ASSUME NEW c \in Callers, FetchQuote(c)
      PROVE  WrittenSoFar'
  BY <1>2 DEF FetchQuote, At
<1>3. ASSUME NEW c \in Callers, PlaceOrder(c)
      PROVE  WrittenSoFar'
  BY <1>3 DEF PlaceOrder, At, Advance, Return
<1>4. ASSUME NEW c \in Callers, InsertOrder(c)
      PROVE  WrittenSoFar'
  BY <1>4 DEF InsertOrder, At, Advance
<1>5. ASSUME NEW c \in Callers, InsertTrade(c)
      PROVE  WrittenSoFar'
  BY <1>5 DEF InsertTrade, At, Advance
<1>6. ASSUME NEW c \in Callers,
             \/ CheckApproval(c) \/ CheckRisk(c) \/ CheckRec(c)
             \/ CheckSymbol(c) \/ InsertEvent(c) \/ AcceptRec(c)
             \/ Abort(c)
      PROVE  WrittenSoFar'
  BY <1>6 DEF CheckApproval, Gate, At, Advance, Return, CheckRisk, CheckRec,
         CheckSymbol, InsertEvent, AcceptRec, Abort
<1>7. ASSUME NEW r \in Recs, Publish(r) \/ Withdraw(r)
      PROVE  WrittenSoFar'
  BY <1>7 DEF Publish, Withdraw
<1>8. ASSUME NEW t \in Refs, Close(t)
      PROVE  WrittenSoFar'
  BY <1>8 DEF Close, IsOpen
<1>9. CASE Approve
  BY <1>9 DEF Approve
<1>10. CASE UNCHANGED entryVars
  BY <1>10 DEF entryVars
<1>11. CASE Restart
  BY <1>11 DEF Restart
<1>. QED
  BY <1>1, <1>2, <1>3, <1>4, <1>5, <1>6, <1>7, <1>8, <1>9, <1>10, <1>11
  DEF EntryNext, Execute, Environment

\* A trade row finds its order row and its broker order in place.
LEMMA TradeBackedStep ==
    ASSUME EntryTypeOK, WrittenSoFar, TradeBacked, [EntryNext]_entryVars
    PROVE  TradeBacked'
<1> USE DEF EntryTypeOK, NoCall, NoTrade, Call, Stages, TradeRow,
            WrittenSoFar, TradeBacked
<1>1. ASSUME NEW c \in Callers, InsertTrade(c)
      PROVE  TradeBacked'
  BY <1>1 DEF InsertTrade, At, Advance
<1>2. ASSUME NEW c \in Callers, InsertEvent(c)
      PROVE  TradeBacked'
  BY <1>2 DEF InsertEvent, At, Advance
<1>3. ASSUME NEW c \in Callers,
             \/ CheckApproval(c) \/ CheckRisk(c) \/ CheckRec(c)
             \/ CheckSymbol(c) \/ FetchQuote(c) \/ PlaceOrder(c)
             \/ InsertOrder(c) \/ AcceptRec(c) \/ Abort(c)
      PROVE  TradeBacked'
  BY <1>3 DEF CheckApproval, Gate, At, Advance, Return, CheckRisk, CheckRec,
         CheckSymbol, FetchQuote, PlaceOrder, InsertOrder, AcceptRec, Abort
<1>4. ASSUME NEW c \in Callers, NEW r \in Recs, NEW m \in Modes, Begin(c, r, m)
      PROVE  TradeBacked'
  BY <1>4 DEF Begin, Fresh
<1>5. CASE Environment
  BY <1>5 DEF Environment, Publish, Withdraw, Close, IsOpen, Approve
<1>6. CASE UNCHANGED entryVars
  BY <1>6 DEF entryVars
<1>7. CASE Restart
  BY <1>7 DEF Restart
<1>. QED
  BY <1>1, <1>2, <1>3, <1>4, <1>5, <1>6, <1>7
  DEF EntryNext, Execute

\* The status is the last thing a call writes.
LEMMA AcceptedHasTradeStep ==
    ASSUME EntryTypeOK, WrittenSoFar, AcceptedHasTrade, [EntryNext]_entryVars
    PROVE  AcceptedHasTrade'
<1> USE DEF EntryTypeOK, NoCall, NoTrade, Call, Stages, TradeRow,
            WrittenSoFar, AcceptedHasTrade
<1>1. ASSUME NEW c \in Callers, InsertTrade(c)
      PROVE  AcceptedHasTrade'
  BY <1>1 DEF InsertTrade, At, Advance
<1>2. ASSUME NEW c \in Callers, AcceptRec(c)
      PROVE  AcceptedHasTrade'
  BY <1>2 DEF AcceptRec, At, Return
<1>3. ASSUME NEW c \in Callers,
             \/ CheckApproval(c) \/ CheckRisk(c) \/ CheckRec(c)
             \/ CheckSymbol(c) \/ FetchQuote(c) \/ PlaceOrder(c)
             \/ InsertOrder(c) \/ InsertEvent(c) \/ Abort(c)
      PROVE  AcceptedHasTrade'
  BY <1>3 DEF CheckApproval, Gate, At, Advance, Return, CheckRisk, CheckRec,
         CheckSymbol, FetchQuote, PlaceOrder, InsertOrder, InsertEvent,
         Abort
<1>4. ASSUME NEW c \in Callers, NEW r \in Recs, NEW m \in Modes, Begin(c, r, m)
      PROVE  AcceptedHasTrade'
  BY <1>4 DEF Begin, Fresh
<1>5. ASSUME NEW r \in Recs, Publish(r) \/ Withdraw(r)
      PROVE  AcceptedHasTrade'
  BY <1>5 DEF Publish, Withdraw
<1>6. ASSUME NEW t \in Refs, Close(t)
      PROVE  AcceptedHasTrade'
  BY <1>6 DEF Close, IsOpen
<1>7. CASE Approve
  BY <1>7 DEF Approve
<1>8. CASE UNCHANGED entryVars
  BY <1>8 DEF entryVars
<1>9. CASE Restart
  BY <1>9 DEF Restart
<1>. QED
  BY <1>1, <1>2, <1>3, <1>4, <1>5, <1>6, <1>7, <1>8, <1>9
  DEF EntryNext, Execute, Environment

\* The symbol check sees the caller's own open positions, and a task runs one
\* call at a time.
LEMMA PastCheckAloneStep ==
    ASSUME EntryTypeOK, CallsApart, WrittenSoFar, PastCheckAlone, [EntryNext]_entryVars
    PROVE  PastCheckAlone'
<1> USE DEF EntryTypeOK, NoCall, NoTrade, Call, Stages,
            TradeRow, WrittenSoFar, PastCheckAlone, PastSymbolCheck, IsOpen,
            SymbolOfTrade, HasOpenPosition
<1>1. ASSUME NEW c \in Callers, NEW r \in Recs, NEW m \in Modes, Begin(c, r, m)
      PROVE  PastCheckAlone'
  BY <1>1 DEF Begin, Fresh
<1>2. ASSUME NEW c \in Callers, CheckSymbol(c)
      PROVE  PastCheckAlone'
  BY <1>2 DEF CheckSymbol, Gate, At, Advance, Return
<1>3. ASSUME NEW c \in Callers, FetchQuote(c)
      PROVE  PastCheckAlone'
  BY <1>3 DEF FetchQuote, At
<1>4. ASSUME NEW c \in Callers, PlaceOrder(c)
      PROVE  PastCheckAlone'
  BY <1>4 DEF PlaceOrder, At, Advance, Return
<1>5. ASSUME NEW c \in Callers, InsertOrder(c)
      PROVE  PastCheckAlone'
  BY <1>5 DEF InsertOrder, At, Advance
<1>6. ASSUME NEW c \in Callers, InsertTrade(c)
      PROVE  PastCheckAlone'
  BY <1>6 DEF InsertTrade, At, Advance
<1>7. ASSUME NEW c \in Callers, InsertEvent(c)
      PROVE  PastCheckAlone'
  BY <1>7 DEF InsertEvent, At, Advance
<1>8. ASSUME NEW c \in Callers, AcceptRec(c)
      PROVE  PastCheckAlone'
  BY <1>8 DEF AcceptRec, At, Return
<1>9. ASSUME NEW c \in Callers, Abort(c)
      PROVE  PastCheckAlone'
  BY <1>9 DEF Abort, Return
<1>10. ASSUME NEW c \in Callers,
             \/ CheckApproval(c) \/ CheckRisk(c) \/ CheckRec(c)
      PROVE  PastCheckAlone'
  BY <1>10 DEF CheckApproval, Gate, At, Advance, Return, CheckRisk, CheckRec
<1>11. ASSUME NEW r \in Recs, Publish(r) \/ Withdraw(r)
      PROVE  PastCheckAlone'
  BY <1>11 DEF Publish, Withdraw
<1>12. ASSUME NEW t \in Refs, Close(t)
      PROVE  PastCheckAlone'
  BY <1>12 DEF Close, IsOpen
<1>13. CASE Approve
  BY <1>13 DEF Approve
<1>14. CASE UNCHANGED entryVars
  BY <1>14 DEF entryVars
<1>15. CASE Restart
  BY <1>15 DEF Restart
<1>. QED
  BY <1>1, <1>2, <1>3, <1>4, <1>5, <1>6, <1>7, <1>8, <1>9, <1>10, <1>11,
         <1>12, <1>13, <1>14, <1>15
  DEF EntryNext, Execute, Environment

\* A task that inserts a trade has no other open position in its symbol.
LEMMA OneOpenPerCallerStep ==
    ASSUME EntryTypeOK, WrittenSoFar, PastCheckAlone, OneOpenPerCaller, [EntryNext]_entryVars
    PROVE  OneOpenPerCaller'
<1> USE DEF EntryTypeOK, NoCall, NoTrade, Call, Stages, TradeRow,
            WrittenSoFar, PastCheckAlone, OneOpenPerCaller, PastSymbolCheck,
            IsOpen, SymbolOfTrade
<1>1. ASSUME NEW c \in Callers, InsertTrade(c)
      PROVE  OneOpenPerCaller'
  BY <1>1 DEF InsertTrade, At, Advance
<1>2. ASSUME NEW c \in Callers,
             \/ CheckApproval(c) \/ CheckRisk(c) \/ CheckRec(c)
             \/ CheckSymbol(c) \/ FetchQuote(c) \/ PlaceOrder(c)
             \/ InsertOrder(c) \/ InsertEvent(c) \/ AcceptRec(c)
             \/ Abort(c)
      PROVE  OneOpenPerCaller'
  BY <1>2 DEF CheckApproval, Gate, At, Advance, Return, CheckRisk, CheckRec,
         CheckSymbol, FetchQuote, PlaceOrder, InsertOrder, InsertEvent,
         AcceptRec, Abort
<1>3. ASSUME NEW c \in Callers, NEW r \in Recs, NEW m \in Modes, Begin(c, r, m)
      PROVE  OneOpenPerCaller'
  BY <1>3 DEF Begin, Fresh
<1>4. ASSUME NEW r \in Recs, Publish(r) \/ Withdraw(r)
      PROVE  OneOpenPerCaller'
  BY <1>4 DEF Publish, Withdraw
<1>5. ASSUME NEW t \in Refs, Close(t)
      PROVE  OneOpenPerCaller'
  BY <1>5 DEF Close, IsOpen
<1>6. CASE Approve
  BY <1>6 DEF Approve
<1>7. CASE UNCHANGED entryVars
  BY <1>7 DEF entryVars
<1>8. CASE Restart
  BY <1>8 DEF Restart
<1>. QED
  BY <1>1, <1>2, <1>3, <1>4, <1>5, <1>6, <1>7, <1>8
  DEF EntryNext, Execute, Environment

\* The invariant holds before any call.
LEMMA InvInit == EntryInit => EntryInv
  BY TypeInit DEF EntryInit, EntryInv, CallsApart, WrittenSoFar, TradeBacked,
     AcceptedHasTrade, PastCheckAlone, OneOpenPerCaller, NoCall, NoTrade, IsOpen

\* Each conjunct is kept, given the ones before it.
LEMMA InvStep == EntryInv /\ [EntryNext]_entryVars => EntryInv'
  BY TypeStep, CallsApartStep, WrittenSoFarStep, TradeBackedStep,
     AcceptedHasTradeStep, PastCheckAloneStep, OneOpenPerCallerStep DEF EntryInv

\* What a call has written matches its stage, in every reachable state.
THEOREM EntryInvariant == EntrySpec => []EntryInv
  BY InvInit, InvStep, PTL DEF EntrySpec

(***************************************************************************)
(* What the invariant gives.                                               *)
(***************************************************************************)

\* A trade row is never without its order row and, when LIVE, its broker order,
\* and an entry event is about a trade that was written.
THEOREM TradesAreBacked == EntrySpec => []TradeBacked
<1>1. EntryInv => TradeBacked
  BY DEF EntryInv
<1>. QED
  BY <1>1, EntryInvariant, PTL

\* No recommendation is ACCEPTED without a trade made from it.
THEOREM AcceptedRecsHaveTrades == EntrySpec => []AcceptedHasTrade
<1>1. EntryInv => AcceptedHasTrade
  BY DEF EntryInv
<1>. QED
  BY <1>1, EntryInvariant, PTL

\* However many tasks execute, and however often, two open positions in one
\* symbol were opened by two different tasks.
THEOREM SymbolExposure == EntrySpec => []OneOpenPerCaller
<1>1. EntryInv => OneOpenPerCaller
  BY DEF EntryInv
<1>. QED
  BY <1>1, EntryInvariant, PTL

\* With a single executing task the symbol cap of execute_recommendation holds as
\* its error message states it.
THEOREM SerialSymbolCap ==
    ASSUME \A c, d \in Callers : c = d
    PROVE  EntrySpec => []SymbolCap
<1>1. EntryInv => SymbolCap
  BY DEF EntryInv, EntryTypeOK, OneOpenPerCaller, SymbolCap, IsOpen, TradeRow, NoTrade
<1>. QED
  BY <1>1, EntryInvariant, PTL

\* An ACCEPTED recommendation is never offered again.
THEOREM AcceptedIsFinal == EntrySpec => AcceptedStays
<1>1. EntryTypeOK /\ [EntryNext]_entryVars
        => [\A r \in Recs : rec[r] = "ACCEPTED" => rec'[r] = "ACCEPTED"]_entryVars
  <2> SUFFICES ASSUME EntryTypeOK, EntryNext, NEW q \in Recs, rec[q] = "ACCEPTED"
               PROVE  rec'[q] = "ACCEPTED"
    OBVIOUS
  <2>1. CASE \E c \in Callers : AcceptRec(c)
    BY <2>1 DEF AcceptRec, EntryTypeOK
  <2>2. CASE \E r \in Recs : Publish(r) \/ Withdraw(r)
    BY <2>2 DEF Publish, Withdraw, EntryTypeOK
  <2>3. CASE UNCHANGED rec
    BY <2>3
  <2>. QED
    BY <2>1, <2>2, <2>3 DEF EntryNext, Execute, Environment, Begin, Gate,
       CheckApproval, CheckRisk, CheckRec, CheckSymbol, FetchQuote, PlaceOrder,
       InsertOrder, InsertTrade, InsertEvent, Abort, Restart, Close, Approve
<1>. QED
  BY <1>1, EntryTypeCorrect, PTL DEF EntrySpec, AcceptedStays
=============================================================================
