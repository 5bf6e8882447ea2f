------------------------------- MODULE TradeBook -------------------------------
(***************************************************************************)
(* What the platform promises about a trade, whoever drives it: the state  *)
(* machine that execution_state_machine.py writes down as                  *)
(* ALLOWED_TRANSITIONS, plus one result per trade that is fixed when the   *)
(* trade reaches EXIT.  The code never calls transition_state on the rows  *)
(* of s004_live_trades: its SQL has to keep this promise by itself, and    *)
(* PositionMonitor is shown to refine this module.                         *)
(***************************************************************************)
CONSTANT Trades,      \* the trades of the book
         Results      \* the realized P&Ls a trade may end with

VARIABLES state,      \* Trades -> TradeState
          result      \* Trades -> {the realized P&L}, {} before EXIT

vars == <<state, result>>

TradeState == {"ENTRY", "ACTIVE", "TRAIL", "EXIT", "REJECTED"}

ALLOWED_TRANSITIONS ==
    [ENTRY    |-> {"ACTIVE", "REJECTED", "EXIT"},
     ACTIVE   |-> {"TRAIL", "EXIT"},
     TRAIL    |-> {"EXIT"},
     EXIT     |-> {},
     REJECTED |-> {}]

Init ==
    /\ state \in [Trades -> {"ACTIVE", "TRAIL"}]
    /\ result = [t \in Trades |-> {}]

\* transition_state: an allowed transition is taken, any other leaves the
\* trade where it was.  Only the transition to EXIT decides a result.
Transition(t, nxt) ==
    /\ nxt \in ALLOWED_TRANSITIONS[state[t]]
    /\ state' = [state EXCEPT ![t] = nxt]
    /\ IF nxt = "EXIT"
         THEN \E r \in Results : result' = [result EXCEPT ![t] = {r}]
         ELSE UNCHANGED result

Next == \E t \in Trades, nxt \in TradeState : Transition(t, nxt)

Spec == Init /\ [][Next]_vars
=============================================================================
