------------------------------- MODULE TradeEntry ------------------------------
(***************************************************************************)
(* trades_service.execute_recommendation: how a recommendation becomes a   *)
(* trade.  Several tasks run it at the same time, the POST /execute        *)
(* handlers and the auto-execute loop, and each await is a point where     *)
(* the others may run.  Every SQL statement commits by itself: there is no *)
(* transaction around the checks and the four writes, and s004_live_trades *)
(* has no unique index on the open positions.                              *)
(*                                                                         *)
(* The module follows one user: every query carries the user's id, and the *)
(* id of a recommendation is a hash that contains it.                      *)
(***************************************************************************)

CONSTANTS
    Callers,      \* tasks that run execute_recommendation
    Recs,         \* ids of the user's recommendations
    Symbols,      \* the option contracts they are for
    SymbolOf,     \* Recs -> Symbols
    Refs          \* trade_ref / order_ref: a fresh uuid for each call

ASSUME EntryAssumption == SymbolOf \in [Recs -> Symbols]

VARIABLES
    rec,          \* status of each row of s004_trade_recommendations
    trade,        \* rows of s004_live_trades, by trade_ref
    orderRows,    \* refs of the rows of s004_execution_orders
    entryEvents,  \* refs with a *_EXECUTE row in s004_trade_events
    filled,       \* refs whose entry order the broker took
    approved,     \* modes the user is approved for
    call          \* the call each task is in

entryVars == <<rec, trade, orderRows, entryEvents, filled, approved, call>>

Modes == {"PAPER", "LIVE"}

\* Before its INSERT a trade has no row; after it the row keeps its recommendation
\* and mode, the task that opened it and whether its entry still waits for a
\* quote (entry_market_snapshot.live_entry_pending).
NoTrade == [state |-> "NONE"]
TradeRow == [state : {"OPEN", "EXIT"}, rec : Recs, mode : Modes, by : Callers,
             pending : BOOLEAN]

Stages == {"approval", "risk", "rec", "symbol", "quote", "order",
           "orderRow", "tradeRow", "event", "accept"}

NoCall == [pc |-> "idle"]
Call == [pc : Stages, rec : Recs, mode : Modes, ref : Refs, pending : BOOLEAN]

At(c, pc) == call[c].pc = pc
Advance(c, pc) == call' = [call EXCEPT ![c].pc = pc]
Return(c) == call' = [call EXCEPT ![c] = NoCall]

\* Calls that have found no open position in their symbol and have not
\* inserted their trade yet.
PastSymbolCheck(c) ==
    call[c].pc \in {"quote", "order", "orderRow", "tradeRow"}

IsOpen(t) == trade[t].state = "OPEN"
SymbolOfTrade(t) == SymbolOf[trade[t].rec]
HasOpenPosition(s) == \E t \in Refs : IsOpen(t) /\ SymbolOfTrade(t) = s

\* A ref no call and no row has used.
Fresh(t) ==
    /\ trade[t] = NoTrade
    /\ t \notin orderRows \cup filled
    /\ \A c \in Callers : call[c] # NoCall => call[c].ref # t

EntryInit ==
    /\ rec = [r \in Recs |-> "absent"]
    /\ trade = [t \in Refs |-> NoTrade]
    /\ orderRows = {}
    /\ entryEvents = {}
    /\ filled = {}
    /\ approved \in SUBSET Modes
    /\ call = [c \in Callers |-> NoCall]

-----------------------------------------------------------------------------
(* execute_recommendation *)

\* The uuids are drawn later in the code; that no one else has them is all
\* that matters.
Begin(c, r, m) ==
    /\ call[c] = NoCall
    /\ \E t \in Refs :
         /\ Fresh(t)
         /\ call' = [call EXCEPT ![c] = [pc |-> "approval", rec |-> r, mode |-> m,
                                         ref |-> t, pending |-> FALSE]]
    /\ UNCHANGED <<rec, trade, orderRows, entryEvents, filled, approved>>

\* A gate lets the call through to its next stage or ends it (ValueError).
Gate(c, here, ok, next) ==
    /\ At(c, here)
    /\ IF ok THEN Advance(c, next) ELSE Return(c)
    /\ UNCHANGED <<rec, trade, orderRows, entryEvents, filled, approved>>

CheckApproval(c) == Gate(c, "approval", call[c].mode \in approved, "risk")

\* evaluate_trade_entry_allowed: the platform's pause and the user's daily
\* limits may give either answer (PlatformPause models how it comes about).
CheckRisk(c) == \E ok \in BOOLEAN : Gate(c, "risk", ok, "rec")

CheckRec(c) == Gate(c, "rec", rec[call[c].rec] = "GENERATED", "symbol")

\* Mutant of CheckSymbol: PAPER and LIVE positions are capped separately.
CheckSymbolPerMode(c) ==
    LET taken == \E t \in Refs : /\ IsOpen(t)
                                 /\ SymbolOfTrade(t) = SymbolOf[call[c].rec]
                                 /\ trade[t].mode = call[c].mode
    IN Gate(c, "symbol", ~taken, "quote")

CheckSymbol(c) ==
    Gate(c, "symbol", ~HasOpenPosition(SymbolOf[call[c].rec]), "quote")

\* The settings and the option's last price are read; without a price the
\* recommendation's own entry stands in and the trade is marked pending.
FetchQuote(c) ==
    /\ At(c, "quote")
    /\ \E p \in BOOLEAN :
         call' = [call EXCEPT
                    ![c].pending = p,
                    ![c].pc = IF call[c].mode = "LIVE" THEN "order" ELSE "orderRow"]
    /\ UNCHANGED <<rec, trade, orderRows, entryEvents, filled, approved>>

\* Mutant of PlaceOrder: the result's success flag is not looked at.
PlaceOrderUnchecked(c) ==
    /\ At(c, "order")
    /\ filled' = filled \cup {call[c].ref} \/ UNCHANGED filled
    /\ Advance(c, "orderRow")
    /\ UNCHANGED <<rec, trade, orderRows, entryEvents, approved>>

\* place_entry_order: taken, refused, or taken and then reported as failed.
PlaceOrder(c) ==
    /\ At(c, "order")
    /\ \/ /\ filled' = filled \cup {call[c].ref}
          /\ Advance(c, "orderRow") \/ Return(c)
       \/ /\ Return(c)
          /\ UNCHANGED filled
    /\ UNCHANGED <<rec, trade, orderRows, entryEvents, approved>>

InsertOrder(c) ==
    /\ At(c, "orderRow")
    /\ orderRows' = orderRows \cup {call[c].ref}
    /\ Advance(c, "tradeRow")
    /\ UNCHANGED <<rec, trade, entryEvents, filled, approved>>

\* Mutant of InsertTrade: the second INSERT's exception is swallowed as well.
InsertTradeSwallowed(c) ==
    /\ At(c, "tradeRow")
    /\ Advance(c, "event")
    /\ UNCHANGED <<rec, trade, orderRows, entryEvents, filled, approved>>

\* When the INSERT raises it is tried again without entry_market_snapshot, and
\* the row forgets that its entry is pending.
InsertTrade(c) ==
    /\ At(c, "tradeRow")
    /\ \E p \in {call[c].pending, FALSE} :
         trade' = [trade EXCEPT ![call[c].ref] =
                     [state |-> "OPEN", rec |-> call[c].rec,
                      mode |-> call[c].mode, by |-> c, pending |-> p]]
    /\ Advance(c, "event")
    /\ UNCHANGED <<rec, orderRows, entryEvents, filled, approved>>

InsertEvent(c) ==
    /\ At(c, "event")
    /\ entryEvents' = entryEvents \cup {call[c].ref}
    /\ Advance(c, "accept")
    /\ UNCHANGED <<rec, trade, orderRows, filled, approved>>

\* UPDATE ... SET status = 'ACCEPTED' WHERE recommendation_id = $1: no look at
\* the status, and no row to update if the engine has deleted it meanwhile.
AcceptRec(c) ==
    /\ At(c, "accept")
    /\ rec' = IF rec[call[c].rec] = "absent"
                THEN rec ELSE [rec EXCEPT ![call[c].rec] = "ACCEPTED"]
    /\ Return(c)
    /\ UNCHANGED <<trade, orderRows, entryEvents, filled, approved>>

\* The call ends at any await: the statement raises (before it is applied, or
\* after it and then the retry runs into the UNIQUE ref), or the request is
\* cancelled.  What was written stays written.
Abort(c) ==
    /\ call[c] # NoCall
    /\ Return(c)
    /\ UNCHANGED <<rec, trade, orderRows, entryEvents, filled, approved>>

\* The process stops and takes all calls with it.
Restart ==
    /\ call' = [c \in Callers |-> NoCall]
    /\ UNCHANGED <<rec, trade, orderRows, entryEvents, filled, approved>>

Execute(c) ==
    \/ CheckApproval(c) \/ CheckRisk(c) \/ CheckRec(c) \/ CheckSymbol(c)
    \/ FetchQuote(c) \/ PlaceOrder(c)
    \/ InsertOrder(c) \/ InsertTrade(c) \/ InsertEvent(c) \/ AcceptRec(c)

-----------------------------------------------------------------------------
(* The rest of the system, as far as these rows see it *)

\* The recommendation engine: an upsert WHERE status = 'GENERATED' and a delete
\* of GENERATED rows.  The id is a stable hash, so a row may come back.
Publish(r) ==
    /\ rec[r] = "absent"
    /\ rec' = [rec EXCEPT ![r] = "GENERATED"]
    /\ UNCHANGED <<trade, orderRows, entryEvents, filled, approved, call>>

Withdraw(r) ==
    /\ rec[r] = "GENERATED"
    /\ rec' = [rec EXCEPT ![r] = "absent"]
    /\ UNCHANGED <<trade, orderRows, entryEvents, filled, approved, call>>

\* PositionMonitor: a trade is closed.
Close(t) ==
    /\ IsOpen(t)
    /\ trade' = [trade EXCEPT ![t].state = "EXIT"]
    /\ UNCHANGED <<rec, orderRows, entryEvents, filled, approved, call>>

\* An admin changes the user's approvals.
Approve ==
    /\ \E A \in SUBSET Modes : approved' = A
    /\ UNCHANGED <<rec, trade, orderRows, entryEvents, filled, call>>

Environment ==
    \/ \E r \in Recs : Publish(r) \/ Withdraw(r)
    \/ \E t \in Refs : Close(t)
    \/ Approve

EntryNext ==
    \/ \E c \in Callers : Execute(c) \/ Abort(c)
    \/ \E c \in Callers, r \in Recs, m \in Modes : Begin(c, r, m)
    \/ Restart
    \/ Environment

EntrySpec == EntryInit /\ [][EntryNext]_entryVars

-----------------------------------------------------------------------------
(* Properties *)

\* Every variable keeps its shape.
EntryTypeOK ==
    /\ rec \in [Recs -> {"absent", "GENERATED", "ACCEPTED"}]
    /\ trade \in [Refs -> {NoTrade} \cup TradeRow]
    /\ orderRows \in SUBSET Refs
    /\ entryEvents \in SUBSET Refs
    /\ filled \in SUBSET Refs
    /\ approved \in SUBSET Modes
    /\ call \in [Callers -> {NoCall} \cup Call]

\* Whatever call is cut off wherever, a trade row is never alone: its order row
\* is there, a LIVE one was taken by the broker, and no entry event is about a
\* trade that was not written.
TradeBacked ==
    \A t \in Refs :
        /\ trade[t] # NoTrade =>
             t \in orderRows /\ (trade[t].mode = "LIVE" => t \in filled)
        /\ t \in entryEvents => trade[t] # NoTrade

\* A recommendation is only marked ACCEPTED when a trade was made from it: a call
\* that dies half way leaves it GENERATED, to be offered again.
AcceptedHasTrade ==
    \A r \in Recs : rec[r] = "ACCEPTED" =>
        \E t \in Refs : trade[t] # NoTrade /\ trade[t].rec = r

\* "paper and live share the same symbol cap": one open position per symbol.
SymbolCap ==
    \A t, u \in Refs :
        IsOpen(t) /\ IsOpen(u) /\ SymbolOfTrade(t) = SymbolOfTrade(u) => t = u

\* What is left of the symbol cap when calls overlap: the open positions of a
\* symbol were all opened by different tasks, so there are never more of them
\* than tasks that execute at the same time.
OneOpenPerCaller ==
    \A t, u \in Refs :
        /\ IsOpen(t) /\ IsOpen(u)
        /\ SymbolOfTrade(t) = SymbolOfTrade(u)
        /\ trade[t].by = trade[u].by
        => t = u

\* An ACCEPTED recommendation is not offered again, whatever the refreshes of the
\* engine and the calls in flight do to its row.
AcceptedStays ==
    [][\A r \in Recs : rec[r] = "ACCEPTED" => rec'[r] = "ACCEPTED"]_entryVars
=============================================================================
