-------------------------- MODULE SubscriptionsProofs --------------------------
(***************************************************************************)
(* Theorems of Subscriptions, for any offers of any strategies and any     *)
(* number of requests at once.                                             *)
(***************************************************************************)
EXTENDS Subscriptions, TLAPS

\* A request that nothing has overlapped has the tables to itself.
LoneRequests ==
    \A r, x \in Requests :
        request[r] # Resting /\ request[r].alone /\ x # r => request[x] = Resting

\* No settings row is as new as that of o.
Leads(o) ==
    \A q \in stored \ {o} : <<o, q>> \in setNewer /\ <<q, o>> \notin setNewer

\* How far a subscribe that is alone has come.
LonePath ==
    \A r \in Requests :
        request[r] # Resting /\ request[r].alone /\ request[r].kind = "subscribe" =>
            /\ request[r].offer \in active
            /\ request[r].stage \in {"siblings", "touch", "look", "insert"}
            /\ request[r].stage = "look" /\ request[r].offer \in stored =>
                 Leads(request[r].offer)
            /\ request[r].stage = "insert" => request[r].offer \notin stored

\* A lone subscribe that has ended has nothing after it.
LastLeads ==
    last # NoOffer =>
        /\ \A r \in Requests : request[r] = Resting
        /\ last \in active \cap stored
        /\ Leads(last)

SubInv == SubTypeOK /\ OneActive /\ SettingsReady
LoneInv == SubTypeOK /\ LoneRequests /\ LonePath /\ LastLeads

-----------------------------------------------------------------------------

\* Requests start, go on and end in the shape they have.
LEMMA StartedShape ==
  ASSUME request \in [Requests -> {Resting} \cup Busy],
         NEW r \in Requests, NEW o \in Offers, NEW k \in Kinds, NEW s \in Stages
  PROVE  Started(r, s, k, o) \in [Requests -> {Resting} \cup Busy]
<1>1. ASSUME NEW x \in Requests
      PROVE  Started(r, s, k, o)[x] \in {Resting} \cup Busy
  <2>1. CASE x = r
    <3>1. Started(r, s, k, o)[x] =
            [stage |-> s, kind |-> k, offer |-> o,
             alone |-> \A y \in Requests \ {r} : request[y] = Resting]
      BY <2>1 DEF Started
    <3>2. (\A y \in Requests \ {r} : request[y] = Resting) \in BOOLEAN
      OBVIOUS
    <3>. QED
      BY <3>1, <3>2 DEF Busy
  <2>2. CASE x # r
    BY <2>2 DEF Started, Busy, Resting
  <2>. QED
    BY <2>1, <2>2
<1>. QED
  BY <1>1 DEF Started

\* A change of the stage keeps the rest of a request.
LEMMA ContinueShape ==
  ASSUME request \in [Requests -> {Resting} \cup Busy],
         NEW r \in Requests, request[r] # Resting, NEW s \in Stages
  PROVE  [request EXCEPT ![r].stage = s] \in [Requests -> {Resting} \cup Busy]
  BY DEF Busy, Resting

\* NOW() keeps an order an order of offers.
LEMMA TouchedShape ==
  ASSUME NEW newer \in SUBSET (Offers \X Offers), NEW o \in Offers,
         NEW rows \in SUBSET Offers
  PROVE  Touched(newer, o, rows) \in SUBSET (Offers \X Offers)
  BY DEF Touched, Among

\* Every step keeps the shape of the variables.
LEMMA SubTypeStep == SubTypeOK /\ [SubNext]_subVars => SubTypeOK'
<1> SUFFICES ASSUME SubTypeOK, [SubNext]_subVars
             PROVE  SubTypeOK'
  OBVIOUS
<1>0. /\ \A r \in Requests : request[r] # Resting =>
           request[r] \in Busy /\ request[r].offer \in Offers
      /\ \A o \in Offers : Touched(subNewer, o, active) \in SUBSET (Offers \X Offers)
      /\ \A o \in Offers : Touched(setNewer, o, stored) \in SUBSET (Offers \X Offers)
      /\ \A S : Among(subNewer, S) \in SUBSET (Offers \X Offers)
  BY TouchedShape DEF SubTypeOK, Busy, Among
<1>1. ASSUME NEW o \in Offers, Unsubscribe(o)
      PROVE  SubTypeOK'
  <2>1. request' \in [Requests -> {Resting} \cup Busy]
    BY <1>1 DEF Unsubscribe, SubTypeOK, Busy, Resting
  <2>. QED
    BY <1>1, <1>0, <2>1 DEF Unsubscribe, SubTypeOK
<1>2. ASSUME NEW r \in Requests, NEW o \in Offers, Upsert(r, o)
      PROVE  SubTypeOK'
  BY <1>2, <1>0, StartedShape DEF Upsert, Begin, SubTypeOK, Stages, Kinds
<1>3. ASSUME NEW r \in Requests, NEW o \in Offers, ChangeIntent(r, o)
      PROVE  SubTypeOK'
  BY <1>3, StartedShape DEF ChangeIntent, Begin, SubTypeOK, Stages, Kinds
<1>4. ASSUME NEW r \in Requests, NEW o \in Offers, SaveSettings(r, o)
      PROVE  SubTypeOK'
  BY <1>4, <1>0, StartedShape DEF SaveSettings, Begin, SubTypeOK, Stages, Kinds
<1>5. ASSUME NEW r \in Requests, Resolve(r)
      PROVE  SubTypeOK'
  <2>1. (CHOOSE o \in Offers : TRUE) \in Offers
    BY OfferAssumption
  <2>. QED
    BY <1>5, <2>1, StartedShape DEF Resolve, Begin, SubTypeOK, Stages, Kinds
<1>6. ASSUME NEW r \in Requests, PauseSiblings(r)
      PROVE  SubTypeOK'
  BY <1>6, <1>0, ContinueShape
  DEF PauseSiblings, Continue, Fulfilled, At, SubTypeOK, Stages
<1>7. ASSUME NEW r \in Requests, Finish(r), request[r] # Resting,
             request \in [Requests -> {Resting} \cup Busy],
             last \in Offers \cup {NoOffer}
      PROVE  /\ request' \in [Requests -> {Resting} \cup Busy]
             /\ last' \in Offers \cup {NoOffer}
  BY <1>7, <1>0 DEF Finish
<1>8. ASSUME NEW r \in Requests, Ensured(r), request[r] # Resting
      PROVE  /\ request' \in [Requests -> {Resting} \cup Busy]
             /\ last' \in Offers \cup {NoOffer}
  BY <1>8, <1>7, ContinueShape DEF Ensured, Continue, SubTypeOK, Stages
<1>9. ASSUME NEW r \in Requests, TouchSettings(r)
      PROVE  SubTypeOK'
  <2>1. /\ request' \in [Requests -> {Resting} \cup Busy]
        /\ last' \in Offers \cup {NoOffer}
    BY <1>9, <1>7, ContinueShape DEF TouchSettings, Continue, At, SubTypeOK, Stages
  <2>. QED
    BY <1>9, <1>0, <2>1 DEF TouchSettings, At, SubTypeOK
<1>10. ASSUME NEW r \in Requests, LookForSettings(r)
       PROVE  SubTypeOK'
  <2>1. /\ request' \in [Requests -> {Resting} \cup Busy]
        /\ last' \in Offers \cup {NoOffer}
    BY <1>10, <1>8, ContinueShape DEF LookForSettings, Continue, At, SubTypeOK, Stages
  <2>. QED
    BY <1>10, <2>1 DEF LookForSettings, SubTypeOK
<1>11. ASSUME NEW r \in Requests, InsertSettings(r)
       PROVE  SubTypeOK'
  BY <1>11, <1>0, <1>8 DEF InsertSettings, At, SubTypeOK
<1>12. ASSUME NEW r \in Requests, Fallback(r)
       PROVE  SubTypeOK'
  <2>1. ASSUME NEW o \in active,
               request' = [request EXCEPT ![r].stage = "look", ![r].offer = o]
        PROVE  request' \in [Requests -> {Resting} \cup Busy]
    <3>1. request[r] \in Busy /\ o \in Offers
      BY <1>12, <1>0 DEF Fallback, At, SubTypeOK
    <3>2. [request[r] EXCEPT !.stage = "look", !.offer = o] \in Busy
      BY <3>1 DEF Busy, Stages
    <3>3. request' = [request EXCEPT ![r] =
                        [request[r] EXCEPT !.stage = "look", !.offer = o]]
      BY <2>1, <3>1 DEF SubTypeOK
    <3>. QED
      BY <3>2, <3>3 DEF SubTypeOK
  <2>. QED
    BY <1>12, <1>7, <2>1 DEF Fallback, At, SubTypeOK
<1>13. ASSUME NEW r \in Requests, CutShort(r)
       PROVE  SubTypeOK'
  BY <1>13, <1>0 DEF CutShort, Owed, SubTypeOK
<1>14. CASE UNCHANGED subVars
  BY <1>14 DEF subVars, SubTypeOK
<1>. QED
  BY <1>1, <1>2, <1>3, <1>4, <1>5, <1>6, <1>9, <1>10, <1>11, <1>12, <1>13, <1>14
  DEF SubNext

-----------------------------------------------------------------------------

\* A request that starts changes nothing of the others but whether they are alone.
LEMMA OthersAfterStart ==
  ASSUME SubTypeOK, NEW r \in Requests, NEW s, NEW k, NEW o, Begin(r, s, k, o)
  PROVE  /\ \A x \in Requests \ {r} : \A q, S : InFlight(x, q, S) => InFlight(x, q, S)'
         /\ \A q, S : ~InFlight(r, q, S)
         /\ s # "idle" /\ k = "subscribe" => \A S : s \in S => InFlight(r, o, S)'
<1>1. ASSUME NEW x \in Requests \ {r}, NEW q, NEW S, InFlight(x, q, S)
      PROVE  InFlight(x, q, S)'
  <2>1. request[x] \in Busy /\ request[x] # Resting
    BY <1>1 DEF InFlight, SubTypeOK
  <2>2. request'[x] = [request[x] EXCEPT !.alone = FALSE]
    BY <2>1 DEF Begin, Started
  <2>3. [request[x] EXCEPT !.alone = FALSE].stage # "idle"
    BY <2>1 DEF Busy, Stages
  <2>. QED
    BY <1>1, <2>1, <2>2, <2>3 DEF InFlight, Busy, Resting
<1>2. \A q, S : ~InFlight(r, q, S)
  BY DEF Begin, InFlight
<1>3. ASSUME s # "idle", k = "subscribe", NEW S, s \in S
      PROVE  InFlight(r, o, S)'
  BY <1>3 DEF Begin, Started, InFlight, Resting
<1>. QED
  BY <1>1, <1>2, <1>3

\* What a request does on its way leaves the others where they are.
LEMMA OthersAfterStep ==
  ASSUME SubTypeOK, NEW r \in Requests,
         \A x \in Requests \ {r} : request'[x] = request[x]
  PROVE  \A x \in Requests \ {r} : \A q, S : InFlight(x, q, S) => InFlight(x, q, S)'
  BY DEF InFlight

\* A request that is not a starting one touches only its own entry.
LEMMA OwnEntry ==
  ASSUME SubTypeOK, NEW r \in Requests,
         \/ PauseSiblings(r) \/ TouchSettings(r) \/ LookForSettings(r)
         \/ InsertSettings(r) \/ Fallback(r) \/ CutShort(r)
  PROVE  \A x \in Requests \ {r} : request'[x] = request[x]
<1> USE DEF SubTypeOK
<1>1. CASE PauseSiblings(r)
  BY <1>1 DEF PauseSiblings, Continue
<1>2. CASE TouchSettings(r)
  BY <1>2 DEF TouchSettings, Continue, Finish
<1>3. CASE LookForSettings(r)
  BY <1>3 DEF LookForSettings, Ensured, Continue, Finish
<1>4. CASE InsertSettings(r)
  BY <1>4 DEF InsertSettings, Ensured, Continue, Finish
<1>5. CASE Fallback(r)
  BY <1>5 DEF Fallback, Finish
<1>6. CASE CutShort(r)
  BY <1>6 DEF CutShort
<1>. QED
  BY <1>1, <1>2, <1>3, <1>4, <1>5, <1>6

\* Two versions of a strategy stay accounted for in every step.
LEMMA OneActiveStep == SubTypeOK /\ OneActive /\ [SubNext]_subVars => OneActive'
<1> SUFFICES ASSUME SubTypeOK, OneActive, [SubNext]_subVars
             PROVE  OneActive'
  OBVIOUS
<1>a. SUFFICES ASSUME NEW o \in active', NEW q \in active' \cap Siblings(o)
               PROVE  PauseDue(o)' \/ PauseDue(q)'
  BY DEF OneActive, Siblings
<1>b. ASSUME o \in active, q \in active,
             \A x \in {o, q} : PauseDue(x) => PauseDue(x)'
      PROVE  PauseDue(o)' \/ PauseDue(q)'
  <2>1. PauseDue(o) \/ PauseDue(q)
    BY <1>a, <1>b DEF OneActive
  <2>. QED
    BY <2>1, <1>b
<1>1. ASSUME NEW u \in Offers, Unsubscribe(u)
      PROVE  PauseDue(o)' \/ PauseDue(q)'
  <2>1. o # u /\ q # u /\ o \in active /\ q \in active
    BY <1>1, <1>a DEF Unsubscribe
  <2>2. ASSUME NEW r \in Requests, NEW x, InFlight(r, x, {"siblings"})
        PROVE  InFlight(r, x, {"siblings"})'
    <3>1. request[r] \in Busy /\ request[r] # Resting
      BY <2>2 DEF InFlight, SubTypeOK
    <3>2. request'[r] = [request[r] EXCEPT !.alone = FALSE]
      BY <1>1, <3>1 DEF Unsubscribe
    <3>. QED
      BY <2>2, <3>1, <3>2 DEF InFlight, Busy, Resting
  <2>3. \A x \in {o, q} : PauseDue(x) => PauseDue(x)'
    BY <1>1, <2>1, <2>2 DEF PauseDue, Unsubscribe
  <2>. QED
    BY <1>b, <2>1, <2>3
<1>2. ASSUME NEW r \in Requests, NEW u \in Offers, Upsert(r, u)
      PROVE  PauseDue(o)' \/ PauseDue(q)'
  <2>1. Begin(r, "siblings", "subscribe", u) /\ undone' = undone
    BY <1>2 DEF Upsert
  <2>2. InFlight(r, u, {"siblings"})'
    BY <2>1, OthersAfterStart
  <2>3. CASE o = u \/ q = u
    BY <2>2, <2>3 DEF PauseDue
  <2>4. CASE o # u /\ q # u
    <3>1. o \in active /\ q \in active
      BY <1>2, <1>a, <2>4 DEF Upsert
    <3>2. \A x \in {o, q} : PauseDue(x) => PauseDue(x)'
      BY <2>1, OthersAfterStart DEF PauseDue
    <3>. QED
      BY <1>b, <3>1, <3>2
  <2>. QED
    BY <2>3, <2>4
<1>3. ASSUME NEW r \in Requests, NEW u \in Offers, NEW s, NEW k, Begin(r, s, k, u),
             active' = active, undone \ (Offers \X {"settings"}) \subseteq undone'
      PROVE  PauseDue(o)' \/ PauseDue(q)'
  <2>1. \A x \in {o, q} : PauseDue(x) => PauseDue(x)'
    BY <1>3, OthersAfterStart DEF PauseDue
  <2>. QED
    BY <1>3, <1>a, <1>b, <2>1
<1>4. ASSUME NEW r \in Requests, PauseSiblings(r)
      PROVE  PauseDue(o)' \/ PauseDue(q)'
  <2> DEFINE u == request[r].offer
  <2>0. u \in Offers /\ o \in Offers /\ q \in Offers
    BY <1>4, <1>a DEF PauseSiblings, At, SubTypeOK, Busy
  <2>1. o \notin Siblings(u) /\ q \notin Siblings(u) /\ o \in active /\ q \in active
    BY <1>4, <1>a DEF PauseSiblings
  <2>2. o # u /\ q # u
    BY <2>0, <2>1, <1>a DEF Siblings
  <2>3. \A x \in {o, q} : PauseDue(x) => PauseDue(x)'
    <3>1. \A x \in {o, q} : <<x, "siblings">> \in undone => <<x, "siblings">> \in undone'
      BY <1>4, <2>1, <2>2 DEF PauseSiblings, Fulfilled
    <3>2. \A x \in {o, q} : ~InFlight(r, x, {"siblings"})
      BY <2>2 DEF InFlight
    <3>. QED
      BY <1>4, <3>1, <3>2, OwnEntry, OthersAfterStep DEF PauseDue
  <2>. QED
    BY <1>b, <2>1, <2>3
<1>5. ASSUME NEW r \in Requests, ~At(r, "siblings"), active' = active,
             undone \ (Offers \X {"settings"}) \subseteq undone',
             \A x \in Requests \ {r} : request'[x] = request[x]
      PROVE  PauseDue(o)' \/ PauseDue(q)'
  <2>1. \A x : ~InFlight(r, x, {"siblings"})
    BY <1>5 DEF InFlight, At
  <2>2. \A x \in {o, q} : PauseDue(x) => PauseDue(x)'
    BY <1>5, <2>1, OthersAfterStep DEF PauseDue
  <2>. QED
    BY <1>5, <1>a, <1>b, <2>2
<1>6. ASSUME NEW r \in Requests, CutShort(r)
      PROVE  PauseDue(o)' \/ PauseDue(q)'
  <2>1. o \in active /\ q \in active
    BY <1>6, <1>a DEF CutShort
  <2>2. ASSUME NEW x \in {o, q}, InFlight(r, x, {"siblings"})
        PROVE  <<x, "siblings">> \in undone'
    BY <1>6, <2>1, <2>2 DEF CutShort, Owed, InFlight, Duties
  <2>3. \A x \in {o, q} : PauseDue(x) => PauseDue(x)'
    <3>1. undone \subseteq undone'
      BY <1>6 DEF CutShort
    <3>. QED
      BY <1>6, <2>2, <3>1, OwnEntry, OthersAfterStep DEF PauseDue
  <2>. QED
    BY <1>b, <2>1, <2>3
<1>7. CASE UNCHANGED subVars
  <2>1. \A x \in {o, q} : PauseDue(x) => PauseDue(x)'
    BY <1>7 DEF subVars, PauseDue, InFlight
  <2>. QED
    BY <1>7, <1>a, <1>b, <2>1 DEF subVars
<1>8. ASSUME NEW r \in Requests, NEW u \in Offers,
             ChangeIntent(r, u) \/ SaveSettings(r, u)
      PROVE  PauseDue(o)' \/ PauseDue(q)'
  <2>1. CASE ChangeIntent(r, u)
    BY <2>1, <1>3 DEF ChangeIntent
  <2>2. CASE SaveSettings(r, u)
    <3>1. /\ Begin(r, "touch", "save", u) /\ active' = active
          /\ undone' = undone \ {<<u, "settings">>}
      BY <2>2 DEF SaveSettings
    <3>. QED
      BY <3>1, <1>3
  <2>. QED
    BY <1>8, <2>1, <2>2
<1>9. ASSUME NEW r \in Requests, Resolve(r)
      PROVE  PauseDue(o)' \/ PauseDue(q)'
  <2>1. (CHOOSE x \in Offers : TRUE) \in Offers
    BY OfferAssumption
  <2>. QED
    BY <1>9, <2>1, <1>3 DEF Resolve
<1>10. ASSUME NEW r \in Requests,
              TouchSettings(r) \/ LookForSettings(r) \/ InsertSettings(r) \/ Fallback(r)
       PROVE  PauseDue(o)' \/ PauseDue(q)'
  <2>1. ~At(r, "siblings")
    BY <1>10 DEF TouchSettings, LookForSettings, InsertSettings, Fallback, At
  <2>2. active' = active
    BY <1>10 DEF TouchSettings, LookForSettings, InsertSettings, Fallback
  <2>3. undone \ (Offers \X {"settings"}) \subseteq undone'
    <3>1. CASE InsertSettings(r)
      <4>1. request[r].offer \in Offers
        BY <3>1 DEF InsertSettings, At, SubTypeOK, Busy
      <4>. QED
        BY <3>1, <4>1 DEF InsertSettings
    <3>. QED
      BY <1>10, <3>1 DEF TouchSettings, LookForSettings, Fallback
  <2>. QED
    BY <1>10, <1>5, <2>1, <2>2, <2>3, OwnEntry
<1>. QED
  BY <1>1, <1>2, <1>4, <1>6, <1>7, <1>8, <1>9, <1>10 DEF SubNext

\* An ACTIVE version without settings stays accounted for in every step.
LEMMA SettingsReadyStep ==
  SubTypeOK /\ SettingsReady /\ [SubNext]_subVars => SettingsReady'
<1> SUFFICES ASSUME SubTypeOK, SettingsReady, [SubNext]_subVars,
                    NEW o \in active' \ stored'
             PROVE  SettingsDue(o)'
  BY DEF SettingsReady
<1> DEFINE Busily == {"siblings", "touch", "look", "insert"}
<1>a. ASSUME o \in active \ stored, SettingsDue(o) => SettingsDue(o)'
      PROVE  SettingsDue(o)'
  BY <1>a DEF SettingsReady
<1>1. ASSUME NEW u \in Offers, Unsubscribe(u)
      PROVE  SettingsDue(o)'
  <2>1. o # u /\ o \in active \ stored
    BY <1>1 DEF Unsubscribe
  <2>2. ASSUME NEW r \in Requests, InFlight(r, o, Busily)
        PROVE  InFlight(r, o, Busily)'
    <3>1. request[r] \in Busy /\ request[r] # Resting
      BY <2>2 DEF InFlight, SubTypeOK
    <3>2. request'[r] = [request[r] EXCEPT !.alone = FALSE]
      BY <1>1, <3>1 DEF Unsubscribe
    <3>. QED
      BY <2>2, <3>1, <3>2 DEF InFlight, Busy, Resting
  <2>. QED
    BY <1>1, <1>a, <2>1, <2>2 DEF SettingsDue, Unsubscribe
<1>2. ASSUME NEW r \in Requests, NEW u \in Offers, Upsert(r, u)
      PROVE  SettingsDue(o)'
  <2>1. Begin(r, "siblings", "subscribe", u) /\ undone' = undone
    BY <1>2 DEF Upsert
  <2>2. CASE o = u
    BY <2>1, <2>2, OthersAfterStart DEF SettingsDue
  <2>3. CASE o # u
    <3>1. o \in active \ stored
      BY <1>2, <2>3 DEF Upsert
    <3>. QED
      BY <1>a, <2>1, <3>1, OthersAfterStart DEF SettingsDue
  <2>. QED
    BY <2>2, <2>3
<1>3. ASSUME NEW r \in Requests, NEW u \in Offers, NEW s, NEW k, Begin(r, s, k, u),
             o \in active \ stored,
             <<o, "settings">> \in undone => <<o, "settings">> \in undone'
      PROVE  SettingsDue(o)'
  BY <1>3, <1>a, OthersAfterStart DEF SettingsDue
<1>4. ASSUME NEW r \in Requests, o \in active \ stored,
             <<o, "settings">> \in undone => <<o, "settings">> \in undone',
             InFlight(r, o, Busily) => SettingsDue(o)',
             \A x \in Requests \ {r} : request'[x] = request[x]
      PROVE  SettingsDue(o)'
  BY <1>4, <1>a, OthersAfterStep DEF SettingsDue
<1>5. ASSUME NEW r \in Requests, PauseSiblings(r)
      PROVE  SettingsDue(o)'
  <2>1. o \in active \ stored /\ o \notin Siblings(request[r].offer)
    BY <1>5 DEF PauseSiblings
  <2>2. <<o, "settings">> \in undone => <<o, "settings">> \in undone'
    BY <1>5, <2>1 DEF PauseSiblings, Fulfilled
  <2>3. InFlight(r, o, Busily) => InFlight(r, o, Busily)'
    <3>1. SUFFICES ASSUME InFlight(r, o, Busily)
                   PROVE  InFlight(r, o, Busily)'
      OBVIOUS
    <3>2. request[r] \in Busy /\ request'[r] = [request[r] EXCEPT !.stage = "touch"]
      BY <1>5, <3>1 DEF PauseSiblings, Continue, InFlight, SubTypeOK
    <3>. QED
      BY <3>1, <3>2 DEF InFlight, Busy, Resting
  <2>. QED
    BY <1>5, <1>4, <2>1, <2>2, <2>3, OwnEntry DEF SettingsDue
<1>6. ASSUME NEW r \in Requests, TouchSettings(r)
      PROVE  SettingsDue(o)'
  <2>1. o \in active \ stored /\ undone' = undone
    BY <1>6 DEF TouchSettings
  <2>2. InFlight(r, o, Busily) => InFlight(r, o, Busily)'
    <3>1. SUFFICES ASSUME InFlight(r, o, Busily)
                   PROVE  InFlight(r, o, Busily)'
      OBVIOUS
    <3>2. request[r] \in Busy /\ request'[r] = [request[r] EXCEPT !.stage = "look"]
      BY <1>6, <3>1 DEF TouchSettings, Continue, InFlight, SubTypeOK
    <3>. QED
      BY <3>1, <3>2 DEF InFlight, Busy, Resting
  <2>. QED
    BY <1>6, <1>4, <2>1, <2>2, OwnEntry DEF SettingsDue
<1>7. ASSUME NEW r \in Requests, LookForSettings(r)
      PROVE  SettingsDue(o)'
  <2>1. o \in active \ stored /\ undone' = undone
    BY <1>7 DEF LookForSettings
  <2>2. InFlight(r, o, Busily) => InFlight(r, o, Busily)'
    <3>1. SUFFICES ASSUME InFlight(r, o, Busily)
                   PROVE  InFlight(r, o, Busily)'
      OBVIOUS
    <3>2. request[r] \in Busy /\ request'[r] = [request[r] EXCEPT !.stage = "insert"]
      BY <1>7, <2>1, <3>1 DEF LookForSettings, Continue, InFlight, SubTypeOK
    <3>. QED
      BY <3>1, <3>2 DEF InFlight, Busy, Resting
  <2>. QED
    BY <1>7, <1>4, <2>1, <2>2, OwnEntry DEF SettingsDue
<1>8. ASSUME NEW r \in Requests, InsertSettings(r)
      PROVE  SettingsDue(o)'
  <2>1. o \in active \ stored /\ o # request[r].offer
    BY <1>8 DEF InsertSettings
  <2>2. ~InFlight(r, o, Busily)
    BY <2>1 DEF InFlight
  <2>3. <<o, "settings">> \in undone => <<o, "settings">> \in undone'
    BY <1>8, <2>1 DEF InsertSettings
  <2>. QED
    BY <1>8, <1>4, <2>1, <2>2, <2>3, OwnEntry
<1>9. ASSUME NEW r \in Requests, Fallback(r)
      PROVE  SettingsDue(o)'
  <2>1. o \in active \ stored /\ undone' = undone
    BY <1>9 DEF Fallback
  <2>2. ~InFlight(r, o, Busily)
    BY <1>9 DEF InFlight, Fallback, At
  <2>. QED
    BY <1>9, <1>4, <2>1, <2>2, OwnEntry
<1>10. ASSUME NEW r \in Requests, CutShort(r)
       PROVE  SettingsDue(o)'
  <2>1. o \in active \ stored /\ undone \subseteq undone'
    BY <1>10 DEF CutShort
  <2>2. InFlight(r, o, Busily) => <<o, "settings">> \in undone'
    BY <1>10, <2>1 DEF CutShort, Owed, InFlight, Duties
  <2>. QED
    BY <1>10, <1>4, <2>1, <2>2, OwnEntry DEF SettingsDue
<1>11. ASSUME NEW r \in Requests, NEW u \in Offers,
              ChangeIntent(r, u) \/ SaveSettings(r, u)
       PROVE  SettingsDue(o)'
  <2>1. CASE ChangeIntent(r, u)
    BY <2>1, <1>3 DEF ChangeIntent
  <2>2. CASE SaveSettings(r, u)
    <3>1. o # u /\ o \in active \ stored /\ Begin(r, "touch", "save", u)
      BY <2>2 DEF SaveSettings
    <3>2. <<o, "settings">> \in undone => <<o, "settings">> \in undone'
      BY <2>2, <3>1 DEF SaveSettings
    <3>. QED
      BY <3>1, <3>2, <1>3
  <2>. QED
    BY <1>11, <2>1, <2>2
<1>12. ASSUME NEW r \in Requests, Resolve(r)
       PROVE  SettingsDue(o)'
  <2>1. (CHOOSE x \in Offers : TRUE) \in Offers
    BY OfferAssumption
  <2>. QED
    BY <1>12, <2>1, <1>3 DEF Resolve
<1>13. CASE UNCHANGED subVars
  <2>1. SettingsDue(o) => SettingsDue(o)'
    BY <1>13 DEF subVars, SettingsDue, InFlight
  <2>. QED
    BY <1>13, <1>a, <2>1 DEF subVars
<1>. QED
  BY <1>1, <1>2, <1>5, <1>6, <1>7, <1>8, <1>9, <1>10, <1>11, <1>12, <1>13 DEF SubNext

-----------------------------------------------------------------------------

\* In the initial state there is nothing to account for.
LEMMA SubInvInit == SubInit => SubInv
  BY DEF SubInit, SubInv, SubTypeOK, OneActive, SettingsReady

\* The variables keep their shape, and every ACTIVE version is the only one of its
\* strategy and has its settings, but for what is under way or was cut short.
THEOREM SubInvariant == SubSpec => []SubInv
<1>1. SubInv /\ [SubNext]_subVars => SubInv'
  BY SubTypeStep, OneActiveStep, SettingsReadyStep DEF SubInv
<1>. QED
  BY SubInvInit, <1>1, PTL DEF SubSpec

\* The variables of the subscriptions keep their shape.
THEOREM SubTypeCorrect == SubSpec => []SubTypeOK
<1>1. SubInv => SubTypeOK
  BY DEF SubInv
<1>. QED
  BY <1>1, SubInvariant, PTL

\* "Only one ACTIVE row per (user, strategy_id)", for any number of requests at once:
\* a second one is always the work of a subscribe that is half-done.
THEOREM OneActiveHolds == SubSpec => []OneActive
<1>1. SubInv => OneActive
  BY DEF SubInv
<1>. QED
  BY <1>1, SubInvariant, PTL

\* An ACTIVE version has its settings row or a subscribe that is half-done.
THEOREM SettingsFollow == SubSpec => []SettingsReady
<1>1. SubInv => SettingsReady
  BY DEF SubInv
<1>. QED
  BY <1>1, SubInvariant, PTL

-----------------------------------------------------------------------------
(* The last request *)

\* A settings row that is touched leads.
LEMMA TouchedLeads ==
  ASSUME NEW o, setNewer' = Touched(setNewer, o, stored),
         stored' \in {stored, stored \cup {o}}
  PROVE  Leads(o)'
  BY DEF Leads, Touched, Among

\* When a request starts, only it can be alone, and nothing is last.
LEMMA LoneStart ==
  ASSUME SubTypeOK, NEW r \in Requests, NEW s, NEW k, NEW o, Begin(r, s, k, o)
  PROVE  /\ LoneRequests'
         /\ last' = NoOffer
         /\ \A x \in Requests \ {r} : request'[x] = Resting \/ ~request'[x].alone
<1>1. ASSUME NEW x \in Requests \ {r}, request'[x] # Resting
      PROVE  request[x] # Resting /\ request'[x].alone = FALSE
  <2>1. request[x] \in Busy /\ request[x] # Resting
    BY <1>1 DEF Begin, Started, SubTypeOK
  <2>2. request'[x] = [request[x] EXCEPT !.alone = FALSE]
    BY <2>1 DEF Begin, Started
  <2>. QED
    BY <2>1, <2>2 DEF Busy
<1>2. request'[r].alone => \A y \in Requests \ {r} : request[y] = Resting
  BY DEF Begin, Started
<1>. QED
  BY <1>1, <1>2 DEF LoneRequests, Begin

\* A request in flight is the only one that can be alone, and keeps that on its way.
LEMMA LoneStep ==
  ASSUME LoneInv, NEW r \in Requests, request[r] # Resting,
         request'[r] = Resting \/ request'[r].alone = request[r].alone,
         \A x \in Requests \ {r} : request'[x] = request[x]
  PROVE  /\ LoneRequests'
         /\ last = NoOffer
         /\ \A x \in Requests : request'[x] # Resting /\ request'[x].alone => x = r
         /\ request[r].alone => \A x \in Requests \ {r} : request'[x] = Resting
  BY DEF LoneInv, LoneRequests, LastLeads

\* What a lone subscribe has done so far stands, and the last one leads, in every step.
LEMMA LoneInvStep == LoneInv /\ SubTypeOK' /\ [SubNext]_subVars => LoneInv'
<1> SUFFICES ASSUME LoneInv, SubTypeOK', [SubNext]_subVars
             PROVE  LoneRequests' /\ LonePath' /\ LastLeads'
  BY DEF LoneInv
<1>0. SubTypeOK
  BY DEF LoneInv
<1>1. ASSUME NEW u \in Offers, Unsubscribe(u)
      PROVE  LoneRequests' /\ LonePath' /\ LastLeads'
  <2>1. ASSUME NEW r \in Requests, request'[r] # Resting
        PROVE  request'[r].alone = FALSE
    <3>1. request[r] \in Busy /\ request'[r] = [request[r] EXCEPT !.alone = FALSE]
      BY <1>0, <1>1, <2>1 DEF Unsubscribe, SubTypeOK
    <3>. QED
      BY <3>1 DEF Busy
  <2>2. last' = NoOffer
    BY <1>1 DEF Unsubscribe
  <2>. QED
    BY <2>1, <2>2 DEF LoneRequests, LonePath, LastLeads
<1>2. ASSUME NEW r \in Requests, NEW u \in Offers, Upsert(r, u)
      PROVE  LoneRequests' /\ LonePath' /\ LastLeads'
  <2>1. Begin(r, "siblings", "subscribe", u)
    BY <1>2 DEF Upsert
  <2>2. request'[r].offer = u /\ request'[r].stage = "siblings" /\ u \in active'
    BY <1>2 DEF Upsert, Begin, Started
  <2>. QED
    BY <1>0, <2>1, <2>2, LoneStart DEF LonePath, LastLeads
<1>3. ASSUME NEW r \in Requests, NEW u \in Offers, NEW s, NEW k \in Kinds \ {"subscribe"},
             Begin(r, s, k, u)
      PROVE  LoneRequests' /\ LonePath' /\ LastLeads'
  <2>1. request'[r].kind # "subscribe"
    BY <1>3 DEF Begin, Started
  <2>. QED
    BY <1>0, <1>3, <2>1, LoneStart DEF LonePath, LastLeads
<1>4. ASSUME NEW r \in Requests, PauseSiblings(r)
      PROVE  LoneRequests' /\ LonePath' /\ LastLeads'
  <2>1. request[r] \in Busy /\ request'[r] = [request[r] EXCEPT !.stage = "touch"]
    BY <1>0, <1>4 DEF PauseSiblings, Continue, At, SubTypeOK
  <2>2. /\ request'[r].stage = "touch" /\ request'[r].offer = request[r].offer
        /\ request'[r].alone = request[r].alone /\ request'[r].kind = request[r].kind
    BY <2>1 DEF Busy
  <2>3. request[r].offer \in active => request[r].offer \in active'
    BY <1>4 DEF PauseSiblings, Siblings
  <2>4. last' = last /\ request[r] # Resting
    BY <1>4 DEF PauseSiblings, Continue, At
  <2>. QED
    BY <1>4, <2>2, <2>3, <2>4, LoneStep, OwnEntry, <1>0
    DEF LonePath, LastLeads, LoneInv
<1>5. ASSUME NEW r \in Requests, request[r] # Resting, request'[r] = Resting,
             \A x \in Requests \ {r} : request'[x] = request[x], last' = last
      PROVE  LoneRequests' /\ LonePath' /\ LastLeads'
  BY <1>5, LoneStep DEF LonePath, LastLeads
<1>6. ASSUME NEW r \in Requests, request[r] # Resting, Finish(r),
             NEW u, request[r].offer = u,
             \A x \in Requests \ {r} : request'[x] = request[x],
             request[r].kind = "subscribe" /\ request[r].alone =>
               u \in active' \cap stored' /\ Leads(u)'
      PROVE  LoneRequests' /\ LonePath' /\ LastLeads'
  <2>1. request'[r] = Resting
    BY <1>0, <1>6 DEF Finish, SubTypeOK
  <2>2. CASE request[r].kind = "subscribe" /\ request[r].alone
    <3>1. last' = u
      BY <1>6, <2>2 DEF Finish
    <3>2. LoneRequests' /\ \A x \in Requests : request'[x] = Resting
      BY <1>6, <2>1, <2>2, LoneStep
    <3>. QED
      BY <1>6, <2>2, <3>1, <3>2 DEF LonePath, LastLeads, Leads
  <2>3. CASE ~(request[r].kind = "subscribe" /\ request[r].alone)
    BY <1>5, <1>6, <2>1, <2>3 DEF Finish
  <2>. QED
    BY <2>2, <2>3
<1>7. ASSUME NEW r \in Requests, TouchSettings(r)
      PROVE  LoneRequests' /\ LonePath' /\ LastLeads'
  <2>0. request[r] \in Busy /\ request[r] # Resting
    BY <1>0, <1>7 DEF TouchSettings, At, SubTypeOK
  <2>1. CASE request[r].kind = "subscribe"
    <3>1. request'[r] = [request[r] EXCEPT !.stage = "look"] /\ last' = last
      BY <1>0, <1>7, <2>1 DEF TouchSettings, Continue, SubTypeOK
    <3>2. /\ request'[r].stage = "look" /\ request'[r].offer = request[r].offer
          /\ request'[r].alone = request[r].alone /\ request'[r].kind = "subscribe"
      BY <2>0, <2>1, <3>1 DEF Busy
    <3>3. ASSUME NEW u, u = request[r].offer, u \in stored'
          PROVE  Leads(u)'
      BY <1>7, <3>3, TouchedLeads DEF TouchSettings
    <3>4. active' = active
      BY <1>7 DEF TouchSettings
    <3>5. \A x \in Requests \ {r} : request'[x] = request[x]
      BY <1>0, <1>7, OwnEntry
    <3>6. /\ LoneRequests' /\ last = NoOffer
          /\ \A x \in Requests : request'[x] # Resting /\ request'[x].alone => x = r
      BY <2>0, <3>2, <3>5, LoneStep
    <3>7. LonePath'
      BY <2>0, <2>1, <3>2, <3>3, <3>4, <3>6 DEF LonePath, LoneInv, Leads
    <3>. QED
      BY <3>1, <3>6, <3>7 DEF LastLeads
  <2>2. CASE request[r].kind # "subscribe"
    <3>1. Finish(r) /\ \A x \in Requests \ {r} : request'[x] = request[x]
      BY <1>0, <1>7, <2>2, OwnEntry DEF TouchSettings
    <3>. QED
      BY <1>6, <2>0, <2>2, <3>1
  <2>. QED
    BY <2>1, <2>2
<1>8. ASSUME NEW r \in Requests, request[r] # Resting, request[r] \in Busy,
             request[r].kind # "subscribe",
             \A x \in Requests \ {r} : request'[x] = request[x],
             \/ Finish(r)
             \/ \E s \in Stages, u \in Offers :
                  /\ request'[r] = [request[r] EXCEPT !.stage = s, !.offer = u]
                  /\ last' = last
      PROVE  LoneRequests' /\ LonePath' /\ LastLeads'
  <2>1. CASE Finish(r)
    BY <1>6, <1>8, <2>1
  <2>2. ASSUME NEW s \in Stages, NEW u \in Offers,
               request'[r] = [request[r] EXCEPT !.stage = s, !.offer = u], last' = last
        PROVE  LoneRequests' /\ LonePath' /\ LastLeads'
    <3>1. request'[r].alone = request[r].alone /\ request'[r].kind = request[r].kind
      BY <1>8, <2>2 DEF Busy
    <3>. QED
      BY <1>8, <2>2, <3>1, LoneStep DEF LonePath, LastLeads
  <2>. QED
    BY <1>8, <2>1, <2>2
<1>9. ASSUME NEW r \in Requests, LookForSettings(r)
      PROVE  LoneRequests' /\ LonePath' /\ LastLeads'
  <2>0. /\ request[r] \in Busy /\ request[r] # Resting /\ request[r].stage = "look"
        /\ \A x \in Requests \ {r} : request'[x] = request[x]
        /\ UNCHANGED <<active, stored, setNewer>>
    BY <1>0, <1>9, OwnEntry DEF LookForSettings, At, SubTypeOK
  <2>1. CASE request[r].kind = "subscribe" /\ request[r].offer \in stored
    <3>1. Finish(r)
      BY <1>9, <2>1 DEF LookForSettings, Ensured
    <3>2. ASSUME NEW u, u = request[r].offer, request[r].alone
          PROVE  u \in active' \cap stored' /\ Leads(u)'
      BY <2>0, <2>1, <3>2 DEF LoneInv, LonePath, Leads
    <3>. QED
      BY <1>6, <2>0, <3>1, <3>2
  <2>2. CASE request[r].kind = "subscribe" /\ request[r].offer \notin stored
    <3>1. request'[r] = [request[r] EXCEPT !.stage = "insert"] /\ last' = last
      BY <1>0, <1>9, <2>2 DEF LookForSettings, Continue, SubTypeOK
    <3>2. /\ request'[r].stage = "insert" /\ request'[r].offer = request[r].offer
          /\ request'[r].alone = request[r].alone /\ request'[r].kind = "subscribe"
      BY <2>0, <2>2, <3>1 DEF Busy
    <3>3. /\ LoneRequests' /\ last = NoOffer
          /\ \A x \in Requests : request'[x] # Resting /\ request'[x].alone => x = r
      BY <2>0, <3>2, LoneStep
    <3>4. LonePath'
      BY <2>0, <2>2, <3>2, <3>3 DEF LonePath, LoneInv
    <3>. QED
      BY <3>1, <3>3, <3>4 DEF LastLeads
  <2>3. CASE request[r].kind # "subscribe"
    <3>1. \/ Finish(r)
          \/ \E s \in {"touch", "insert"} :
               request' = [request EXCEPT ![r].stage = s] /\ last' = last
      BY <1>9 DEF LookForSettings, Ensured, Continue
    <3>2. ASSUME NEW s \in {"touch", "insert"},
                 request' = [request EXCEPT ![r].stage = s], last' = last
          PROVE  LoneRequests' /\ LonePath' /\ LastLeads'
      <4>1. PICK u \in Offers : request[r].offer = u
        BY <2>0 DEF Busy
      <4>2. s \in Stages /\ request'[r] = [request[r] EXCEPT !.stage = s]
        BY <1>0, <3>2 DEF SubTypeOK, Stages
      <4>3. request'[r] = [request[r] EXCEPT !.stage = s, !.offer = u]
        BY <2>0, <4>1, <4>2 DEF Busy
      <4>. QED
        BY <1>8, <2>0, <2>3, <3>2, <4>2, <4>3
    <3>3. CASE Finish(r)
      BY <1>8, <2>0, <2>3, <3>3
    <3>. QED
      BY <3>1, <3>2, <3>3
  <2>. QED
    BY <2>1, <2>2, <2>3
<1>10. ASSUME NEW r \in Requests, InsertSettings(r)
       PROVE  LoneRequests' /\ LonePath' /\ LastLeads'
  <2>0. /\ request[r] \in Busy /\ request[r] # Resting /\ request[r].stage = "insert"
        /\ \A x \in Requests \ {r} : request'[x] = request[x]
        /\ active' = active
    BY <1>0, <1>10, OwnEntry DEF InsertSettings, At, SubTypeOK
  <2>1. CASE request[r].kind = "subscribe"
    <3>1. Finish(r)
      BY <1>10, <2>1 DEF InsertSettings, Ensured
    <3>2. ASSUME NEW u, u = request[r].offer, request[r].alone
          PROVE  u \in active' \cap stored' /\ Leads(u)'
      <4>1. u \in active /\ u \notin stored
        BY <2>0, <2>1, <3>2 DEF LoneInv, LonePath
      <4>2. /\ stored' = stored \cup {u}
            /\ setNewer' = Touched(setNewer, u, stored)
        BY <1>10, <3>2, <4>1 DEF InsertSettings
      <4>. QED
        BY <2>0, <4>1, <4>2, TouchedLeads
    <3>. QED
      BY <1>6, <2>0, <3>1, <3>2
  <2>2. CASE request[r].kind # "subscribe"
    <3>1. Finish(r) \/ (request' = [request EXCEPT ![r].stage = "touch"] /\ last' = last)
      BY <1>10 DEF InsertSettings, Ensured, Continue
    <3>2. ASSUME request' = [request EXCEPT ![r].stage = "touch"], last' = last
          PROVE  LoneRequests' /\ LonePath' /\ LastLeads'
      <4>1. PICK u \in Offers : request[r].offer = u
        BY <2>0 DEF Busy
      <4>2. "touch" \in Stages /\ request'[r] = [request[r] EXCEPT !.stage = "touch"]
        BY <1>0, <3>2 DEF SubTypeOK, Stages
      <4>3. request'[r] = [request[r] EXCEPT !.stage = "touch", !.offer = u]
        BY <2>0, <4>1, <4>2 DEF Busy
      <4>. QED
        BY <1>8, <2>0, <2>2, <3>2, <4>2, <4>3
    <3>3. CASE Finish(r)
      BY <1>8, <2>0, <2>2, <3>3
    <3>. QED
      BY <3>1, <3>2, <3>3
  <2>. QED
    BY <2>1, <2>2
<1>11. ASSUME NEW r \in Requests, Fallback(r)
       PROVE  LoneRequests' /\ LonePath' /\ LastLeads'
  <2>0. /\ request[r] \in Busy /\ request[r] # Resting /\ request[r].stage = "fallback"
        /\ \A x \in Requests \ {r} : request'[x] = request[x]
    BY <1>0, <1>11, OwnEntry DEF Fallback, At, SubTypeOK
  <2>1. ~(request[r].kind = "subscribe" /\ request[r].alone)
    BY <2>0 DEF LoneInv, LonePath
  <2>2. CASE active = {} /\ Finish(r)
    BY <1>6, <2>0, <2>1, <2>2
  <2>3. ASSUME NEW o \in active, last' = last,
               request' = [request EXCEPT ![r].stage = "look", ![r].offer = o]
        PROVE  LoneRequests' /\ LonePath' /\ LastLeads'
    <3>1. request'[r] = [request[r] EXCEPT !.stage = "look", !.offer = o]
      BY <1>0, <2>3, <2>0 DEF SubTypeOK
    <3>2. request'[r].alone = request[r].alone /\ request'[r].kind = request[r].kind
      BY <2>0, <3>1 DEF Busy
    <3>. QED
      BY <2>0, <2>1, <2>3, <3>2, LoneStep DEF LonePath, LastLeads
  <2>. QED
    BY <1>11, <2>2, <2>3 DEF Fallback
<1>12. ASSUME NEW r \in Requests, CutShort(r)
       PROVE  LoneRequests' /\ LonePath' /\ LastLeads'
  <2>1. request'[r] = Resting /\ last' = last /\ request[r] # Resting
    BY <1>0, <1>12 DEF CutShort, SubTypeOK
  <2>. QED
    BY <1>0, <1>5, <1>12, <2>1, OwnEntry
<1>13. ASSUME NEW r \in Requests, NEW u \in Offers,
              ChangeIntent(r, u) \/ SaveSettings(r, u)
       PROVE  LoneRequests' /\ LonePath' /\ LastLeads'
  BY <1>3, <1>13 DEF ChangeIntent, SaveSettings, Kinds
<1>14. ASSUME NEW r \in Requests, Resolve(r)
       PROVE  LoneRequests' /\ LonePath' /\ LastLeads'
  <2>1. (CHOOSE x \in Offers : TRUE) \in Offers
    BY OfferAssumption
  <2>. QED
    BY <1>14, <2>1, <1>3 DEF Resolve, Kinds
<1>15. CASE UNCHANGED subVars
  BY <1>15 DEF subVars, LoneInv, LoneRequests, LonePath, LastLeads, Leads
<1>. QED
  BY <1>1, <1>2, <1>4, <1>7, <1>9, <1>10, <1>11, <1>12, <1>13, <1>14, <1>15 DEF SubNext

\* A lone subscribe, from its first statement to its end, is as far as LoneInv says.
THEOREM LoneInvariant == SubSpec => []LoneInv
<1>1. SubInit => LoneInv
  BY DEF SubInit, LoneInv, SubTypeOK, LoneRequests, LonePath, LastLeads
<1>2. LoneInv /\ [SubNext]_subVars => LoneInv'
  BY SubTypeStep, LoneInvStep DEF LoneInv
<1>. QED
  BY <1>1, <1>2, PTL DEF SubSpec

\* After a subscribe that no other request overlapped, the strategy that runs is the
\* one subscribed to.
THEOREM LastSubscribeWins == SubSpec => []LastWins
<1>1. ASSUME LoneInv, last # NoOffer
      PROVE  Serving = last
  <2>1. last \in Served /\ Leads(last)
    BY <1>1 DEF LoneInv, LastLeads, Served
  <2>2. IsNewest(last, Served, setNewer)
    BY <2>1 DEF IsNewest, Leads, Served
  <2>3. ASSUME NEW o \in Served, IsNewest(o, Served, setNewer)
        PROVE  o = last
    BY <2>1, <2>3 DEF IsNewest, Leads, Served
  <2>. QED
    BY <2>1, <2>2, <2>3 DEF Serving
<1>2. LoneInv => LastWins
  BY <1>1 DEF LastWins
<1>. QED
  BY <1>2, LoneInvariant, PTL
=============================================================================
