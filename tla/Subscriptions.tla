----------------------------- MODULE Subscriptions -----------------------------
(***************************************************************************)
(* One user's subscriptions and strategy settings: the statements of       *)
(* marketplace_service.upsert_subscription and ensure_user_strategy_       *)
(* settings, of PUT /settings and of PUT .../intent, and the choice of the *)
(* strategy that is run for the user (trades_service._get_user_strategy).  *)
(* Each statement commits by itself, so an action is one statement, and    *)
(* any request may end after any of them.                                  *)
(*                                                                         *)
(* An offer is a (strategy_id, version).  Of a subscription row only       *)
(* whether it is ACTIVE is kept: PAUSED, STOPPED and no row are the same   *)
(* to every statement here.  updated_at is kept as the relation "newer".   *)
(***************************************************************************)
EXTENDS FiniteSets

CONSTANTS
    Offers,          \* (strategy_id, version) pairs
    StrategyOf,      \* the strategy_id of each offer
    Requests         \* tasks that serve the user's requests

ASSUME OfferAssumption == Offers # {}

VARIABLES
    active,          \* offers whose subscription row is ACTIVE
    stored,          \* offers with a row of s004_user_strategy_settings
    subNewer,        \* <<o, q>>: the row of o is newer than that of q, both ACTIVE
    setNewer,        \* the same of the settings rows
    request,         \* what each task is doing
    undone,          \* history: what subscribes that were cut short did not do
    last             \* history: the last request, if it was a subscribe of this
                     \* offer that no other request overlapped

subVars == <<active, stored, subNewer, setNewer, request, undone, last>>

NoOffer == "none"
Duties == {"siblings", "settings"}
Stages == {"siblings", "touch", "look", "insert", "fallback"}
Kinds == {"subscribe", "intent", "save", "resolve"}
Resting == [stage |-> "idle"]
Busy == [stage : Stages, kind : Kinds, offer : Offers, alone : BOOLEAN]

Siblings(o) == {q \in Offers : q # o /\ StrategyOf[q] = StrategyOf[o]}

\* The order without the rows of gone, and with updated_at = NOW() for that of o.
Among(newer, gone) == {p \in newer : p[1] \notin gone /\ p[2] \notin gone}
Touched(newer, o, rows) == Among(newer, {o}) \cup {<<o, q>> : q \in rows \ {o}}

\* ORDER BY updated_at DESC LIMIT 1 takes row o.
IsNewest(o, rows, newer) == \A q \in rows \ {o} : <<o, q>> \in newer

\* The strategy _get_user_strategy would answer now, before its fallback.
Served == active \cap stored
Serving == IF Served = {} THEN NoOffer
           ELSE CHOOSE o \in Served : IsNewest(o, Served, setNewer)

SubInit ==
    /\ active = {}
    /\ stored = {}
    /\ subNewer = {}
    /\ setNewer = {}
    /\ request = [r \in Requests |-> Resting]
    /\ undone = {}
    /\ last = NoOffer

-----------------------------------------------------------------------------

\* A request starts: whatever is in flight is overlapped from now on.
Started(r, stage, kind, o) ==
    [x \in Requests |->
        IF x = r
          THEN [stage |-> stage, kind |-> kind, offer |-> o,
                alone |-> \A y \in Requests \ {r} : request[y] = Resting]
          ELSE IF request[x] = Resting THEN Resting
               ELSE [request[x] EXCEPT !.alone = FALSE]]

Begin(r, stage, kind, o) ==
    /\ request[r] = Resting
    /\ request' = Started(r, stage, kind, o)
    /\ last' = NoOffer

Continue(r, stage) ==
    /\ request' = [request EXCEPT ![r].stage = stage]
    /\ UNCHANGED last

Finish(r) ==
    /\ request' = [request EXCEPT ![r] = Resting]
    /\ last' = IF request[r].kind = "subscribe" /\ request[r].alone
                 THEN request[r].offer ELSE last

At(r, stage) == request[r] # Resting /\ request[r].stage = stage

-----------------------------------------------------------------------------
(* upsert_subscription *)

\* SUBSCRIBE, RESUME: INSERT ... ON CONFLICT DO UPDATE to ACTIVE.
Upsert(r, o) ==
    /\ Begin(r, "siblings", "subscribe", o)
    /\ active' = active \cup {o}
    /\ subNewer' = Touched(subNewer, o, active)
    /\ UNCHANGED <<stored, setNewer, undone>>

\* PAUSE, STOP: the one statement of the request.
Unsubscribe(o) ==
    /\ active' = active \ {o}
    /\ subNewer' = Among(subNewer, {o})
    /\ request' = [x \in Requests |->
                     IF request[x] = Resting THEN Resting
                     ELSE [request[x] EXCEPT !.alone = FALSE]]
    /\ last' = NoOffer
    /\ undone' = undone \ ({o} \X Duties)
    /\ UNCHANGED <<stored, setNewer>>

\* What is left undone once the siblings of o are paused.
Fulfilled(o) == undone \ ((Siblings(o) \X Duties) \cup {<<o, "siblings">>})

\* Mutant of PauseSiblings: strategy_id <> $2 in the place of =.
PauseSiblingsForeign(r) ==
    LET foreign == {q \in Offers : StrategyOf[q] # StrategyOf[request[r].offer]} IN
    /\ At(r, "siblings")
    /\ active' = active \ foreign
    /\ subNewer' = Among(subNewer, foreign)
    /\ undone' = Fulfilled(request[r].offer)
    /\ Continue(r, "touch")
    /\ UNCHANGED <<stored, setNewer>>

\* UPDATE ... SET status = 'PAUSED' for the other versions of the strategy.
PauseSiblings(r) ==
    /\ At(r, "siblings")
    /\ active' = active \ Siblings(request[r].offer)
    /\ subNewer' = Among(subNewer, Siblings(request[r].offer))
    /\ undone' = Fulfilled(request[r].offer)
    /\ Continue(r, "touch")
    /\ UNCHANGED <<stored, setNewer>>

\* Mutant of TouchSettings: the UPDATE of settings.updated_at is left out.
TouchSettingsSkipped(r) ==
    /\ At(r, "touch")
    /\ IF request[r].kind = "subscribe" THEN Continue(r, "look") ELSE Finish(r)
    /\ UNCHANGED <<active, stored, subNewer, setNewer, undone>>

\* UPDATE s004_user_strategy_settings SET updated_at = NOW(), the last statement of
\* a change of intent and of a save with details too.
TouchSettings(r) ==
    /\ At(r, "touch")
    /\ setNewer' = IF request[r].offer \in stored
                     THEN Touched(setNewer, request[r].offer, stored) ELSE setNewer
    /\ IF request[r].kind = "subscribe" THEN Continue(r, "look") ELSE Finish(r)
    /\ UNCHANGED <<active, stored, subNewer, undone>>

-----------------------------------------------------------------------------
(* ensure_user_strategy_settings *)

\* What follows once the settings row is there.
Ensured(r) ==
    IF request[r].kind = "intent" THEN Continue(r, "touch") ELSE Finish(r)

\* Mutant of LookForSettings: whoever finds no row believes that another has it.
LookForSettingsOnly(r) ==
    /\ At(r, "look")
    /\ Ensured(r)
    /\ UNCHANGED <<active, stored, subNewer, setNewer, undone>>

\* SELECT id; when there is no row the defaults are read next, which changes
\* nothing.
LookForSettings(r) ==
    /\ At(r, "look")
    /\ IF request[r].offer \in stored THEN Ensured(r) ELSE Continue(r, "insert")
    /\ UNCHANGED <<active, stored, subNewer, setNewer, undone>>

\* INSERT ... ON CONFLICT DO NOTHING
InsertSettings(r) ==
    /\ At(r, "insert")
    /\ stored' = stored \cup {request[r].offer}
    /\ setNewer' = IF request[r].offer \in stored
                     THEN setNewer ELSE Touched(setNewer, request[r].offer, stored)
    /\ Ensured(r)
    /\ undone' = undone \ {<<request[r].offer, "settings">>}
    /\ UNCHANGED <<active, subNewer>>

-----------------------------------------------------------------------------
(* The other requests *)

\* PUT .../intent: it ensures the row, reads the details and writes them back; the
\* details and the rows it deletes are those of RecommendationRefresh.
ChangeIntent(r, o) ==
    /\ Begin(r, "look", "intent", o)
    /\ UNCHANGED <<active, stored, subNewer, setNewer, undone>>

\* PUT /settings: the upsert of the settings row; the details follow.
SaveSettings(r, o) ==
    /\ Begin(r, "touch", "save", o)
    /\ stored' = stored \cup {o}
    /\ setNewer' = Touched(setNewer, o, stored)
    /\ undone' = undone \ {<<o, "settings">>}
    /\ UNCHANGED <<active, subNewer>>

\* _get_user_strategy when its first SELECT finds nothing (otherwise it answers
\* Serving and changes nothing).
Resolve(r) ==
    /\ Served = {}
    /\ Begin(r, "fallback", "resolve", CHOOSE o \in Offers : TRUE)
    /\ UNCHANGED <<active, stored, subNewer, setNewer, undone>>

\* Its second SELECT: the newest ACTIVE row, whose settings are then ensured, or the
\* default strategy.
Fallback(r) ==
    /\ At(r, "fallback")
    /\ \/ active = {} /\ Finish(r)
       \/ \E o \in active :
            /\ IsNewest(o, active, subNewer)
            /\ request' = [request EXCEPT ![r].stage = "look", ![r].offer = o]
            /\ UNCHANGED last
    /\ UNCHANGED <<active, stored, subNewer, setNewer, undone>>

\* What a subscribe owes when it is cut short: to pause the siblings of a row that is
\* still ACTIVE, to make its settings.
Owed(r) ==
    {d \in {request[r].offer} \X Duties :
        /\ request[r].kind = "subscribe"
        /\ d[1] \in active
        /\ d[2] = "siblings" => request[r].stage = "siblings"
        /\ d[2] = "settings" => d[1] \notin stored}

\* A request ends where it is: an exception, a cancelled request or a restart.
CutShort(r) ==
    /\ request[r] # Resting
    /\ request' = [request EXCEPT ![r] = Resting]
    /\ undone' = undone \cup Owed(r)
    /\ UNCHANGED <<active, stored, subNewer, setNewer, last>>

SubNext ==
    \/ \E o \in Offers : Unsubscribe(o)
    \/ \E r \in Requests, o \in Offers :
         Upsert(r, o) \/ ChangeIntent(r, o) \/ SaveSettings(r, o)
    \/ \E r \in Requests :
         \/ Resolve(r) \/ Fallback(r) \/ CutShort(r)
         \/ PauseSiblings(r) \/ TouchSettings(r) \/ LookForSettings(r)
         \/ InsertSettings(r)

SubSpec == SubInit /\ [][SubNext]_subVars

-----------------------------------------------------------------------------
(* Properties *)

\* Every variable keeps its shape.
SubTypeOK ==
    /\ active \subseteq Offers
    /\ stored \subseteq Offers
    /\ subNewer \subseteq Offers \X Offers
    /\ setNewer \subseteq Offers \X Offers
    /\ request \in [Requests -> {Resting} \cup Busy]
    /\ undone \subseteq Offers \X Duties
    /\ last \in Offers \cup {NoOffer}

InFlight(r, o, stages) ==
    /\ request[r] # Resting
    /\ request[r].kind = "subscribe"
    /\ request[r].offer = o
    /\ request[r].stage \in stages

\* The subscribe of o has yet to pause the others, or to see to the settings row, or
\* was cut short before it did.
PauseDue(o) ==
    \/ <<o, "siblings">> \in undone
    \/ \E r \in Requests : InFlight(r, o, {"siblings"})

SettingsDue(o) ==
    \/ <<o, "settings">> \in undone
    \/ \E r \in Requests : InFlight(r, o, {"siblings", "touch", "look", "insert"})

\* "Only one ACTIVE row per (user, strategy_id)": two versions of a strategy are
\* ACTIVE together only while a subscribe of one of them has not paused the others
\* yet, or after one was cut short before it did.
OneActive ==
    \A o \in active : \A q \in active \cap Siblings(o) : PauseDue(o) \/ PauseDue(q)

\* The settings row that recommendations need is there for every ACTIVE version,
\* unless the subscribe that must make it is still under way or was cut short.
SettingsReady == \A o \in active \ stored : SettingsDue(o)

\* After a subscribe that no other request overlapped, what runs for the user is the
\* version he subscribed to, whatever else is ACTIVE and whatever earlier requests,
\* cut short or not, left behind.
LastWins == last # NoOffer => Serving = last
=============================================================================
