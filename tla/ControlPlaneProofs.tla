--------------------------- MODULE ControlPlaneProofs --------------------------
(***************************************************************************)
(* Theorems of PlatformPause, for any number of readers and PUTs, any TTL  *)
(* and any bound on the time between a read and its write-back; of         *)
(* BrokerVault, for any number of requests, calls and logins; and of       *)
(* EvolutionApproval, for any number of proposals, admins and versions.    *)
(* The three share no variable; each theorem is about one specification.   *)
(***************************************************************************)
EXTENDS PlatformPause, BrokerVault, EvolutionApproval, TLAPS

-----------------------------------------------------------------------------
(* PlatformPause *)

\* A value in flight that the row no longer has was read before the row changed.
StaleReads ==
    \A c \in Readers :
        reader[c].pc = "write" /\ reader[c].value # row => since <= reader[c].age

\* A value under the key that the row no longer has runs out in time.
StaleKey ==
    /\ cache # Nothing => ttl > 0 /\ ttl <= TTL
    /\ cache \notin {Nothing, row} => since + ttl <= Grace

\* The inductive invariant behind PauseWithinGrace.
PauseInv == PauseTypeOK /\ StaleReads /\ StaleKey

\* The initial state satisfies the invariant.
LEMMA PauseInvInit == PauseInit => PauseInv
  BY PauseAssumption DEF PauseInit, PauseInv, PauseTypeOK, StaleReads, StaleKey,
     Values, Nothing, Idle

\* Every step keeps it.
LEMMA PauseInvStep == PauseInv /\ [PauseNext]_pauseVars => PauseInv'
<1> SUFFICES ASSUME PauseInv, [PauseNext]_pauseVars
             PROVE  PauseInv'
  OBVIOUS
<1> USE PauseAssumption DEF PauseInv, PauseTypeOK, StaleReads, StaleKey, Values,
        Nothing, Idle, Grace
<1>1. ASSUME NEW c \in Readers, Miss(c)
      PROVE  PauseInv'
  BY <1>1 DEF Miss
<1>2. ASSUME NEW c \in Readers, ReadRow(c)
      PROVE  PauseInv'
  BY <1>2 DEF ReadRow
<1>3. ASSUME NEW c \in Readers, WriteBack(c)
      PROVE  PauseInv'
  BY <1>3 DEF WriteBack
<1>4. ASSUME NEW a \in Puts, SetPause(a)
      PROVE  PauseInv'
  BY <1>4 DEF SetPause
<1>5. ASSUME NEW a \in Puts, Invalidate(a)
      PROVE  PauseInv'
  BY <1>5 DEF Invalidate
<1>6. CASE Tick
  BY <1>6 DEF Tick
<1>7. CASE UNCHANGED pauseVars
  BY <1>7 DEF pauseVars
<1>. QED
  BY <1>1, <1>2, <1>3, <1>4, <1>5, <1>6, <1>7 DEF PauseNext

\* A stale value, in flight or under the key, is never older than its bound.
THEOREM PauseInvariant == PauseSpec => []PauseInv
  BY PauseInvInit, PauseInvStep, PTL DEF PauseSpec

\* The variables of the pause keep their shape.
THEOREM PauseTypeCorrect == PauseSpec => []PauseTypeOK
<1>1. PauseInv => PauseTypeOK
  BY DEF PauseInv
<1>. QED
  BY <1>1, PauseInvariant, PTL

\* Latency + TTL seconds after the row of the platform's pause has changed, no call
\* of get_platform_trading_paused that starts is told the old value.
THEOREM PauseReachesEveryCall == PauseSpec => []PauseWithinGrace
<1>1. PauseInv => PauseWithinGrace
  BY PauseAssumption DEF PauseInv, PauseTypeOK, StaleReads, StaleKey,
     PauseWithinGrace, Grace, Values, Nothing
<1>. QED
  BY <1>1, PauseInvariant, PTL

-----------------------------------------------------------------------------
(* BrokerVault: types *)

\* The initial state has its types.
LEMMA VaultTypeInit == VaultInit => VaultTypeOK
  BY VaultAssumption DEF VaultInit, VaultTypeOK, Rows, Vaults, Stored, Empty, NoToken,
     UserTokens, BrokerCodes

\* A load of the vault gives a token or none for each broker.
LEMMA MergedType ==
    ASSUME NEW r \in Rows
    PROVE  MergedVault(r) \in Vaults
  BY DEF MergedVault, Rows, Vaults, Stored, NoToken, Empty

\* The tokens of a row are the user's.
LEMMA TokensType ==
    ASSUME NEW r \in Rows
    PROVE  TokensOf(r) \subseteq UserTokens
  BY MergedType DEF TokensOf, Vaults, Stored

\* A write of the row keeps the types of what it changes.
LEMMA WriteRowType ==
    ASSUME VaultTypeOK, NEW r \in Rows, WriteRow(r)
    PROVE  master' \in Rows /\ seen' \in [BrokerCalls -> SUBSET UserTokens]
<1>1. master' = r
  BY DEF WriteRow
<1>2. seen \in [BrokerCalls -> SUBSET UserTokens]
  BY DEF VaultTypeOK
<1>3. \A c \in BrokerCalls : seen'[c] \in SUBSET UserTokens
  BY <1>2, TokensType DEF WriteRow
<1>4. seen' = [c \in BrokerCalls |-> seen'[c]]
  BY DEF WriteRow
<1>. QED
  BY <1>1, <1>3, <1>4

\* What save_user_vault writes is a row.
LEMMA SavedType ==
    ASSUME VaultTypeOK, NEW v \in Vaults, NEW active \in BrokerCodes \cup {"none"},
           NEW connected \in BOOLEAN
    PROVE  Saved(v, active, connected) \in Rows
  BY DEF Saved, Rows, Vaults, Stored, Empty, BrokerCodes, NoToken, VaultTypeOK

\* The requests keep the types.
LEMMA JobTypeStep ==
    ASSUME VaultTypeOK, NEW j \in VaultJobs,
           \/ \E b \in BrokerCodes : Connect(j, b) \/ Disconnect(j, b) \/ Activate(j, b)
           \/ ReadPrevious(j) \/ LoadVault(j) \/ StoreConnection(j) \/ StoreDisconnect(j)
           \/ ClearFlag(j) \/ StoreActive(j) \/ DropJob(j)
    PROVE  VaultTypeOK'
<1> USE VaultAssumption DEF JobOps, JobStages, NoJob
<1>0. visit[j] # NoJob => visit[j] \in Jobs
  BY DEF VaultTypeOK
<1>00. /\ Empty \in Vaults /\ NoToken \in Stored
       /\ issued < MaxLogins => issued + 1 \in Stored /\ issued + 1 \in 0..MaxLogins
  BY DEF Empty, Vaults, Stored, NoToken, UserTokens, VaultTypeOK
<1>1. ASSUME NEW op \in JobOps, NEW b \in BrokerCodes, NEW token \in Stored,
             NEW stage \in JobStages, BeginJob(j, op, b, token, stage)
      PROVE  visit' \in [VaultJobs -> {NoJob} \cup Jobs]
  <2> DEFINE alone == \A y \in VaultJobs \ {j} : visit[y] = NoJob
             mine == [stage |-> stage, op |-> op, broker |-> b, token |-> token,
                      prev |-> "none", vault |-> Empty, alone |-> alone]
  <2>1. alone \in BOOLEAN
    OBVIOUS
  <2>2. mine \in Jobs
    <3> HIDE DEF alone
    <3>. QED
      BY <1>00, <2>1 DEF Jobs
  <2>3. \A x \in VaultJobs : visit[x] = NoJob \/ visit[x] \in Jobs
    BY DEF VaultTypeOK
  <2>4. \A one \in Jobs : [one EXCEPT !.alone = FALSE] \in Jobs
    BY DEF Jobs
  <2>5. visit' = [x \in VaultJobs |->
                    IF x = j THEN mine
                    ELSE IF visit[x] = NoJob THEN NoJob
                    ELSE [visit[x] EXCEPT !.alone = FALSE]]
    BY <1>1 DEF BeginJob
  <2> HIDE DEF mine
  <2>. QED
    BY <2>2, <2>3, <2>4, <2>5
<1>2. ASSUME NEW b \in BrokerCodes, Connect(j, b)
      PROVE  VaultTypeOK'
  BY <1>00, <1>1, <1>2 DEF Connect, VaultTypeOK
<1>3. ASSUME NEW b \in BrokerCodes, Disconnect(j, b) \/ Activate(j, b)
      PROVE  VaultTypeOK'
  BY <1>00, <1>1, <1>3 DEF Disconnect, Activate, VaultTypeOK
<1>4. CASE ReadPrevious(j)
  <2>1. master.active \in BrokerCodes \cup {"none"}
    BY DEF VaultTypeOK, Rows
  <2>. QED
    BY <1>0, <1>4, <2>1 DEF ReadPrevious, JobAt, VaultTypeOK, Jobs
<1>5. CASE LoadVault(j)
  <2>1. MergedVault(master) \in Vaults
    BY MergedType DEF VaultTypeOK
  <2>. QED
    BY <1>0, <1>5, <2>1 DEF LoadVault, EndJob, VaultTypeOK, Jobs
<1>6. ASSUME EndJob(j) \/ visit' = [visit EXCEPT ![j].stage = "flag"], visit[j] # NoJob
      PROVE  visit' \in [VaultJobs -> {NoJob} \cup Jobs]
  BY <1>0, <1>6 DEF EndJob, VaultTypeOK, Jobs
<1>7. ASSUME NEW b \in BrokerCodes, NEW token \in Stored, NEW alone, Settle(b, token, alone)
      PROVE  owed' \in Vaults /\ torn' \subseteq BrokerCodes
  BY <1>7 DEF Settle, VaultTypeOK, Vaults
<1>8. ASSUME NEW b \in BrokerCodes, NEW v \in Vaults, NEW token \in Stored
      PROVE  [v EXCEPT ![b] = token] \in Vaults
  BY DEF Vaults
<1>9. CASE StoreConnection(j)
  <2>1. visit[j] \in Jobs
    BY <1>0, <1>9 DEF StoreConnection, JobAt
  <2> DEFINE b == visit[j].broker
             v == [visit[j].vault EXCEPT ![b] = visit[j].token]
             r == IF keySet THEN Saved(v, b, TRUE)
                  ELSE [master EXCEPT !.cred = visit[j].token, !.active = "zerodha",
                                   !.connected = TRUE]
  <2>2. b \in BrokerCodes /\ visit[j].token \in Stored /\ v \in Vaults
    BY <1>8, <2>1 DEF Jobs
  <2>3. r \in Rows
    BY <2>2, SavedType DEF VaultTypeOK, Rows, BrokerCodes
  <2>4. WriteRow(r)
    BY <1>9 DEF StoreConnection
  <2> HIDE DEF r
  <2>5. master' \in Rows /\ seen' \in [BrokerCalls -> SUBSET UserTokens]
    BY <2>3, <2>4, WriteRowType
  <2>. QED
    BY <1>6, <1>7, <1>9, <2>2, <2>5 DEF StoreConnection, JobAt, VaultTypeOK
<1>10. CASE StoreDisconnect(j)
  <2>1. visit[j] \in Jobs
    BY <1>0, <1>10 DEF StoreDisconnect, JobAt
  <2> DEFINE b == visit[j].broker
             v == [visit[j].vault EXCEPT ![b] = NoToken]
             rest == v[Other(b)] # NoToken
             r == IF keySet \/ b = "fyers" THEN Saved(v, NextActive(j), rest)
                  ELSE [master EXCEPT !.cred = NoToken, !.active = NextActive(j),
                                   !.connected = rest]
  <2>2. b \in BrokerCodes /\ v \in Vaults /\ NextActive(j) \in BrokerCodes \cup {"none"}
    BY <1>8, <1>00, <2>1 DEF Jobs, NextActive, Other, BrokerCodes
  <2>3. r \in Rows
    BY <1>00, <2>2, SavedType DEF VaultTypeOK, Rows
  <2>4. WriteRow(r)
    BY <1>10 DEF StoreDisconnect
  <2> HIDE DEF r
  <2>5. master' \in Rows /\ seen' \in [BrokerCalls -> SUBSET UserTokens]
    BY <2>3, <2>4, WriteRowType
  <2>6. visit' \in [VaultJobs -> {NoJob} \cup Jobs]
    BY <1>6, <1>10 DEF StoreDisconnect, JobAt
  <2>7. owed' \in Vaults /\ torn' \subseteq BrokerCodes
    BY <1>00, <1>7, <1>10, <2>2 DEF StoreDisconnect
  <2>. QED
    BY <1>10, <2>5, <2>6, <2>7 DEF StoreDisconnect, VaultTypeOK
<1>11. CASE ClearFlag(j) \/ StoreActive(j)
  <2>1. PICK r \in Rows : WriteRow(r)
    BY <1>0, <1>11 DEF ClearFlag, StoreActive, JobAt, VaultTypeOK, Rows, Jobs
  <2>2. master' \in Rows /\ seen' \in [BrokerCalls -> SUBSET UserTokens]
    BY <2>1, WriteRowType
  <2>. QED
    BY <1>6, <1>11, <2>2 DEF ClearFlag, StoreActive, JobAt, VaultTypeOK
<1>12. CASE DropJob(j)
  BY <1>6, <1>12 DEF DropJob, VaultTypeOK
<1>. QED
  BY <1>2, <1>3, <1>4, <1>5, <1>9, <1>10, <1>11, <1>12

\* The settings page, the shared row and the key keep the types.
LEMMA PageTypeStep ==
    ASSUME VaultTypeOK,
           \/ ConfigureKey \/ ConnectRefused \/ OpenSettings \/ PutSettings \/ ClearShared
           \/ \E b \in BrokerCodes : PutShared(b)
    PROVE  VaultTypeOK'
<1>1. CASE ConfigureKey
  BY <1>1 DEF ConfigureKey, VaultTypeOK
<1>2. CASE ConnectRefused
  <2>1. [master EXCEPT !.connected = FALSE] \in Rows
    BY DEF VaultTypeOK, Rows
  <2>2. master' \in Rows /\ seen' \in [BrokerCalls -> SUBSET UserTokens]
    BY <1>2, <2>1, WriteRowType DEF ConnectRefused
  <2>. QED
    BY <1>2, <2>2 DEF ConnectRefused, VaultTypeOK
<1>3. CASE OpenSettings
  BY <1>3 DEF OpenSettings, VaultTypeOK, Rows
<1>4. CASE PutSettings
  <2>1. [master EXCEPT !.cred = page.cred, !.connected = page.connected] \in Rows
    BY DEF VaultTypeOK, Rows
  <2>2. master' \in Rows /\ seen' \in [BrokerCalls -> SUBSET UserTokens]
    BY <1>4, <2>1, WriteRowType DEF PutSettings
  <2>3. \A one \in Jobs : [one EXCEPT !.alone = FALSE] \in Jobs
    BY DEF Jobs
  <2>4. visit' \in [VaultJobs -> {NoJob} \cup Jobs]
    BY <1>4, <2>3 DEF PutSettings, VaultTypeOK
  <2>5. torn' \subseteq BrokerCodes
    BY <1>4 DEF PutSettings, VaultTypeOK, BrokerCodes
  <2>. QED
    BY <1>4, <2>2, <2>4, <2>5 DEF PutSettings, VaultTypeOK
<1>5. CASE ClearShared
  BY <1>5 DEF ClearShared, VaultTypeOK
<1>6. ASSUME NEW b \in BrokerCodes, PutShared(b)
      PROVE  VaultTypeOK'
  BY <1>6 DEF PutShared, SharedRow, VaultTypeOK
<1>. QED
  BY <1>1, <1>2, <1>3, <1>4, <1>5, <1>6

\* One step of resolve_broker_context, for the parts of the state that it changes.
CallStep(c) ==
    \/ \E mode \in {"PAPER", "LIVE"}, admin \in BOOLEAN : BeginCall(c, mode, admin)
    \/ ReadActiveCode(c) \/ GuessActive(c) \/ ReadZerodha(c) \/ ReadFyers(c)
    \/ Probe(c) \/ NoneLive(c) \/ UseShared(c)

\* A call in its stages is a resolving one; one that has ended has its result.
LEMMA CallShape ==
    ASSUME VaultTypeOK, NEW c \in BrokerCalls
    PROVE  /\ call[c].stage \in CallStages => call[c] \in Resolving
           /\ call[c].stage = "done" => call[c] \in Resolved
  BY DEF VaultTypeOK, NoCallYet, Resolving, Resolved, CallStages

\* Another call is not touched.
LEMMA OtherCalls ==
    ASSUME VaultTypeOK, NEW c \in BrokerCalls, CallStep(c), NEW d \in BrokerCalls, d # c
    PROVE  call'[d] = call[d] /\ seen'[d] = seen[d]
  BY DEF CallStep, BeginCall, ReadActiveCode, GuessActive, ReadZerodha, ReadFyers, Probe,
     NoneLive, UseShared, Finished, CallKeeps, VaultTypeOK

\* A step of a call keeps the types.
LEMMA CallTypeStep ==
    ASSUME VaultTypeOK, NEW c \in BrokerCalls, CallStep(c)
    PROVE  VaultTypeOK'
<1> DEFINE t == call[c]
<1>1. \A b \in BrokerCodes : MergedVault(master)[b] \in Stored
  BY MergedType DEF VaultTypeOK, Vaults
<1>2. master.active \in BrokerCodes \cup {"none"}
  BY DEF VaultTypeOK, Rows
<1>3. ASSUME NEW new \in Resolving \cup Resolved, call' = [call EXCEPT ![c] = new], CallKeeps
      PROVE  VaultTypeOK'
  BY <1>3 DEF CallKeeps, VaultTypeOK
<1>4. ASSUME NEW mode \in {"PAPER", "LIVE"}, NEW admin \in BOOLEAN, BeginCall(c, mode, admin)
      PROVE  VaultTypeOK'
  <2> DEFINE new == [stage |-> "active", mode |-> mode, admin |-> admin,
                     active |-> "none", found |-> Empty, left |-> {}]
  <2>1. new \in Resolving
    BY DEF Resolving, CallStages, Empty, Vaults, Stored, NoToken
  <2>2. call' = [call EXCEPT ![c] = new]
    BY <1>4 DEF BeginCall
  <2>3. seen' \in [BrokerCalls -> SUBSET UserTokens]
    BY <1>4, TokensType DEF BeginCall, VaultTypeOK
  <2> HIDE DEF new
  <2>4. call' \in [BrokerCalls -> {NoCallYet} \cup Resolving \cup Resolved]
    <3>1. call \in [BrokerCalls -> {NoCallYet} \cup Resolving \cup Resolved]
      BY DEF VaultTypeOK
    <3>. QED
      BY <2>1, <2>2, <3>1
  <2>5. UNCHANGED <<keySet, master, shared, visit, issued, page, owed, torn>>
    BY <1>4 DEF BeginCall
  <2>. QED
    BY <2>3, <2>4, <2>5 DEF VaultTypeOK
<1>5. CASE ReadActiveCode(c)
  <2>1. t \in Resolving
    BY <1>5, CallShape DEF ReadActiveCode, CallStages
  <2>2. PICK new \in Resolving : call' = [call EXCEPT ![c] = new]
    <3>1. [t EXCEPT !.stage = "guess"] \in Resolving
      BY <2>1 DEF Resolving, CallStages
    <3>2. master.active # "none" =>
            [t EXCEPT !.active = master.active, !.stage = "zerodha"] \in Resolving
      BY <2>1, <1>2 DEF Resolving, CallStages
    <3>. QED
      BY <1>5, <3>1, <3>2 DEF ReadActiveCode
  <2>. QED
    BY <1>3, <1>5, <2>2 DEF ReadActiveCode
<1>6. CASE GuessActive(c)
  <2>1. t \in Resolving
    BY <1>6, CallShape DEF GuessActive, CallStages
  <2>2. \A a \in BrokerCodes \cup {"none"} :
            [t EXCEPT !.stage = "zerodha", !.active = a] \in Resolving
    BY <2>1 DEF Resolving, CallStages
  <2>. QED
    BY <1>3, <1>6, <2>2 DEF GuessActive, BrokerCodes
<1>7. CASE ReadZerodha(c)
  <2>1. t \in Resolving
    BY <1>7, CallShape DEF ReadZerodha, CallStages
  <2>2. ZerodhaSession(FALSE) \in Stored
    BY <1>1 DEF ZerodhaSession, BrokerCodes, Stored
  <2>3. [t EXCEPT !.found["zerodha"] = ZerodhaSession(FALSE), !.stage = "fyers"] \in Resolving
    BY <2>1, <2>2 DEF Resolving, CallStages, Vaults, BrokerCodes
  <2>. QED
    BY <1>3, <1>7, <2>3 DEF ReadZerodha
<1>8. CASE ReadFyers(c)
  <2>1. t \in Resolving
    BY <1>8, CallShape DEF ReadFyers, CallStages
  <2> DEFINE found == [t.found EXCEPT !["fyers"] = MergedVault(master)["fyers"]]
  <2>2. found \in Vaults
    BY <2>1, <1>1 DEF Resolving, Vaults, BrokerCodes
  <2>3. call' = [call EXCEPT ![c] = [t EXCEPT !.found = found, !.stage = "probe",
                                       !.left = {b \in BrokerCodes : found[b] # NoToken}]]
    BY <1>8 DEF ReadFyers
  <2> HIDE DEF found
  <2>4. [t EXCEPT !.found = found, !.stage = "probe",
                  !.left = {b \in BrokerCodes : found[b] # NoToken}] \in Resolving
    BY <2>1, <2>2 DEF Resolving, CallStages
  <2>. QED
    BY <1>3, <1>8, <2>3, <2>4 DEF ReadFyers
<1>9. ASSUME t \in Resolving, NEW source \in Sources,
             NEW token \in UserTokens \cup {NoToken, SharedToken, ServerToken},
             Finished(c, source, token), CallKeeps
      PROVE  VaultTypeOK'
  <2>1. [stage |-> "done", mode |-> t.mode, source |-> source, token |-> token] \in Resolved
    BY <1>9 DEF Resolving, Resolved
  <2>. QED
    BY <1>3, <1>9, <2>1 DEF Finished
<1>10. CASE Probe(c)
  <2>1. t \in Resolving
    BY <1>10, CallShape DEF Probe, CallStages
  <2>2. Preferred(c) \in BrokerCodes
    BY <2>1 DEF Preferred, Resolving, BrokerCodes
  <2>3. t.found[Preferred(c)] \in Stored
    BY <2>1, <2>2 DEF Resolving, Vaults
  <2>4. [t EXCEPT !.left = t.left \ {Preferred(c)}] \in Resolving
    BY <2>1 DEF Resolving
  <2>5. CASE call' = [call EXCEPT ![c].left = @ \ {Preferred(c)}]
    BY <1>3, <1>10, <2>4, <2>5 DEF Probe
  <2>6. CASE Finished(c, IF Preferred(c) = "fyers" THEN "user_fyers" ELSE "user_zerodha",
                      call[c].found[Preferred(c)])
    BY <1>9, <1>10, <2>1, <2>3, <2>6 DEF Probe, Sources, Stored
  <2>. QED
    BY <1>10, <2>5, <2>6 DEF Probe
<1>11. CASE NoneLive(c)
  <2>1. t \in Resolving
    BY <1>11, CallShape DEF NoneLive, CallStages
  <2>2. [t EXCEPT !.stage = "shared"] \in Resolving
    BY <2>1 DEF Resolving, CallStages
  <2>3. CASE call' = [call EXCEPT ![c].stage = "shared"]
    BY <1>3, <1>11, <2>2, <2>3 DEF NoneLive
  <2>4. CASE Finished(c, "none", NoToken)
    BY <1>9, <1>11, <2>1, <2>4 DEF NoneLive, Sources
  <2>. QED
    BY <1>11, <2>3, <2>4 DEF NoneLive
<1>12. CASE UseShared(c)
  <2>1. t \in Resolving
    BY <1>12, CallShape DEF UseShared, CallStages
  <2>. QED
    BY <1>9, <1>12, <2>1 DEF UseShared, Sources
<1>. QED
  BY <1>4, <1>5, <1>6, <1>7, <1>8, <1>10, <1>11, <1>12 DEF CallStep

\* Every step keeps the types.
LEMMA VaultTypeStep ==
    ASSUME VaultTypeOK, [VaultNext]_vaultVars
    PROVE  VaultTypeOK'
<1>1. CASE VaultNext
  BY <1>1, JobTypeStep, PageTypeStep, CallTypeStep DEF VaultNext, CallStep
<1>2. CASE UNCHANGED vaultVars
  BY <1>2 DEF vaultVars, VaultTypeOK
<1>. QED
  BY <1>1, <1>2

\* The vault's state keeps its types: a token in the row or with a call is one that was
\* handed out, and a call picks its session with a source that the code names.
THEOREM VaultTypeCorrect == VaultSpec => []VaultTypeOK
<1>. QED
  BY VaultTypeInit, VaultTypeStep, PTL DEF VaultSpec

-----------------------------------------------------------------------------
(* BrokerVault: a load gives what was stored *)

\* A request that is marked alone has the row to itself.
LoneVisits ==
    \A j \in VaultJobs : visit[j] # NoJob /\ visit[j].alone =>
        \A k \in VaultJobs \ {j} : visit[k] = NoJob

\* FYERS connects, and a connect that loads the blob first, exist only with the key.
NeedsKey ==
    \A j \in VaultJobs : visit[j] # NoJob /\ visit[j].op = "connect" =>
        (visit[j].broker = "fyers" \/ visit[j].stage = "load" => keySet)

\* What a request alone is about to write over is what a load would give now.
LoadedIsCurrent ==
    \A j \in VaultJobs :
        /\ visit[j] # NoJob /\ visit[j].alone /\ visit[j].stage = "write"
        /\ visit[j].op = "connect" => keySet
        => visit[j].vault = MergedVault(master)

\* Without the key nothing can have been encrypted.
NoBlobWithoutKey == ~keySet => master.cipher = Empty

\* Inductive: the two copies of the Zerodha token, the blob a request has in hand and
\* what the last request stored are kept together by these five.
StoredInv ==
    VaultTypeOK /\ LoneVisits /\ NeedsKey /\ LoadedIsCurrent /\ NoBlobWithoutKey
    /\ StoredAsAnswered

\* Both entries of a load.
LEMMA MergedEntries ==
    ASSUME NEW r
    PROVE  /\ MergedVault(r)["zerodha"] = IF r.cred # NoToken THEN r.cred
                                         ELSE IF keySet THEN r.cipher["zerodha"] ELSE NoToken
           /\ MergedVault(r)["fyers"] = IF keySet THEN r.cipher["fyers"] ELSE NoToken
  BY DEF MergedVault, BrokerCodes

\* A load looks at the key and at the two copies only.
LEMMA MergedKept ==
    ASSUME keySet' = keySet, master'.cipher = master.cipher, master'.cred = master.cred
    PROVE  MergedVault(master)' = MergedVault(master)
  BY DEF MergedVault

\* With the row and the history as they were, the invariant rests on the requests.
LEMMA StoredWhenRowKept ==
    ASSUME StoredInv, VaultTypeOK', keySet' = keySet, master'.cipher = master.cipher,
           master'.cred = master.cred, owed' = owed, torn' = torn,
           LoneVisits', NeedsKey',
           \A k \in VaultJobs :
              visit'[k] # NoJob /\ visit'[k].stage = "write" =>
                 \/ visit'[k] = visit[k]
                 \/ visit'[k].alone = FALSE
                 \/ visit'[k].op = "connect" /\ ~keySet
                 \/ visit'[k].vault = MergedVault(master)
    PROVE  StoredInv'
<1>1. MergedVault(master)' = MergedVault(master)
  BY MergedKept
<1>2. LoadedIsCurrent'
  BY <1>1 DEF LoadedIsCurrent, StoredInv
<1>3. NoBlobWithoutKey'
  BY DEF NoBlobWithoutKey, StoredInv
<1>4. StoredAsAnswered'
  BY <1>1 DEF StoredAsAnswered, StoredInv
<1>. QED
  BY <1>2, <1>3, <1>4 DEF StoredInv

\* A request that begins, and what it makes of the others.
LEMMA StoredBegin ==
    ASSUME StoredInv, VaultTypeOK', NEW j \in VaultJobs, NEW op \in JobOps,
           NEW b \in BrokerCodes, NEW token, NEW stage \in JobStages,
           BeginJob(j, op, b, token, stage),
           op = "connect" => /\ b = "fyers" \/ stage = "load" => keySet
                             /\ stage = "write" => ~keySet,
           op # "connect" => stage # "write",
           keySet' = keySet, master' = master, owed' = owed, torn' = torn
    PROVE  StoredInv'
<1>2. /\ visit'[j] # NoJob
      /\ visit'[j].op = op /\ visit'[j].broker = b /\ visit'[j].stage = stage
      /\ visit'[j].alone <=> \A y \in VaultJobs \ {j} : visit[y] = NoJob
  BY DEF BeginJob, NoJob, JobStages
<1>3. \A k \in VaultJobs \ {j} :
          \/ visit[k] = NoJob /\ visit'[k] = NoJob
          \/ visit[k] # NoJob /\ visit[k] \in Jobs /\ visit'[k] = [visit[k] EXCEPT !.alone = FALSE]
  BY DEF BeginJob, StoredInv, VaultTypeOK
<1>4. \A k \in VaultJobs \ {j} : visit'[k] # NoJob =>
          /\ visit'[k].alone = FALSE
          /\ visit[k] # NoJob
          /\ visit'[k].op = visit[k].op /\ visit'[k].broker = visit[k].broker
          /\ visit'[k].stage = visit[k].stage
  BY <1>3 DEF Jobs
<1>5. LoneVisits'
  BY <1>2, <1>3, <1>4 DEF LoneVisits
<1>7. NeedsKey'
  BY <1>2, <1>4 DEF NeedsKey, StoredInv
<1>8. ASSUME NEW k \in VaultJobs, visit'[k] # NoJob, visit'[k].stage = "write"
      PROVE  visit'[k].alone = FALSE \/ (visit'[k].op = "connect" /\ ~keySet)
  BY <1>2, <1>4, <1>8
<1>. QED
  BY <1>5, <1>7, <1>8, StoredWhenRowKept

\* The three requests begin this way.
LEMMA StoredRequest ==
    ASSUME StoredInv, VaultTypeOK', NEW j \in VaultJobs, NEW b \in BrokerCodes,
           Connect(j, b) \/ Disconnect(j, b) \/ Activate(j, b)
    PROVE  StoredInv'
<1> USE DEF JobOps, JobStages
<1>1. keySet' = keySet /\ master' = master /\ owed' = owed /\ torn' = torn
  BY DEF Connect, Disconnect, Activate
<1>2. CASE Connect(j, b) /\ keySet
  <2>1. BeginJob(j, "connect", b, issued + 1, "load") /\ (b = "fyers" => keySet)
    BY <1>2 DEF Connect
  <2>. QED
    BY <1>1, <1>2, <2>1, StoredBegin
<1>3. CASE Connect(j, b) /\ ~keySet
  <2>1. BeginJob(j, "connect", b, issued + 1, "write") /\ (b = "fyers" => keySet)
    BY <1>3 DEF Connect
  <2>. QED
    BY <1>1, <1>3, <2>1, StoredBegin
<1>4. CASE Disconnect(j, b)
  <2>1. BeginJob(j, "disconnect", b, NoToken, "active")
    BY <1>4 DEF Disconnect
  <2>. QED
    BY <1>1, <2>1, StoredBegin
<1>5. CASE Activate(j, b)
  <2>1. BeginJob(j, "activate", b, NoToken, "load")
    BY <1>5 DEF Activate
  <2>. QED
    BY <1>1, <2>1, StoredBegin
<1>. QED
  BY <1>2, <1>3, <1>4, <1>5

\* A request that ends leaves the others as they are.
LEMMA LoneEnd ==
    ASSUME StoredInv, NEW j \in VaultJobs, EndJob(j), keySet' = keySet
    PROVE  /\ LoneVisits' /\ NeedsKey'
           /\ visit'[j] = NoJob
           /\ \A k \in VaultJobs \ {j} : visit'[k] = visit[k]
<1>1. visit \in [VaultJobs -> {NoJob} \cup Jobs]
  BY DEF StoredInv, VaultTypeOK
<1>2. visit'[j] = NoJob /\ \A k \in VaultJobs \ {j} : visit'[k] = visit[k]
  BY <1>1 DEF EndJob
<1>. QED
  BY <1>2 DEF StoredInv, LoneVisits, NeedsKey

\* The reads of a request.
LEMMA StoredRead ==
    ASSUME StoredInv, VaultTypeOK', NEW j \in VaultJobs, ReadPrevious(j) \/ LoadVault(j)
    PROVE  StoredInv'
<1>0. visit \in [VaultJobs -> {NoJob} \cup Jobs] /\ visit[j] # NoJob
  BY DEF StoredInv, VaultTypeOK, ReadPrevious, LoadVault, JobAt
<1>00. visit[j] \in Jobs
  BY <1>0
<1>1. keySet' = keySet /\ master' = master /\ owed' = owed /\ torn' = torn
  BY DEF ReadPrevious, LoadVault
<1>2. CASE EndJob(j)
  BY <1>1, <1>2, LoneEnd, StoredWhenRowKept
<1>3. CASE \/ visit' = [visit EXCEPT ![j].prev = master.active, ![j].stage = "load"]
              /\ visit[j].op = "disconnect"
           \/ visit' = [visit EXCEPT ![j].vault = MergedVault(master), ![j].stage = "write"]
  <2>1. /\ \A k \in VaultJobs \ {j} : visit'[k] = visit[k]
        /\ visit'[j].alone = visit[j].alone /\ visit'[j].op = visit[j].op
        /\ visit'[j].broker = visit[j].broker
        /\ \/ visit'[j].stage = "load" /\ visit[j].op = "disconnect"
           \/ visit'[j].stage = "write" /\ visit'[j].vault = MergedVault(master)
    BY <1>0, <1>00, <1>3 DEF Jobs
  <2>2. LoneVisits'
    BY <1>0, <2>1 DEF StoredInv, LoneVisits
  <2>3. NeedsKey'
    BY <1>0, <1>1, <2>1 DEF StoredInv, NeedsKey
  <2>. QED
    BY <1>1, <2>1, <2>2, <2>3, StoredWhenRowKept
<1>. QED
  BY <1>2, <1>3 DEF ReadPrevious, LoadVault, JobAt

\* The write of a connect or disconnect: what a load gives for the request's broker is
\* what it stored, and for the other one what it gave before, if the request was alone.
LEMMA StoredWrite ==
    ASSUME StoredInv, VaultTypeOK', NEW j \in VaultJobs, NEW b \in BrokerCodes, NEW token,
           visit[j] # NoJob, Settle(b, token, visit[j].alone), keySet' = keySet,
           LoneVisits', NeedsKey', NoBlobWithoutKey',
           \A k \in VaultJobs \ {j} : visit'[k] = visit[k],
           visit'[j] # NoJob => visit'[j].stage # "write",
           visit[j].alone =>
              /\ MergedVault(master')[b] = token
              /\ MergedVault(master')[Other(b)] = MergedVault(master)[Other(b)]
    PROVE  StoredInv'
<1>1. /\ \A d \in BrokerCodes : owed'[d] = IF d = b THEN token ELSE owed[d]
      /\ torn' = IF visit[j].alone THEN torn \ {b} ELSE BrokerCodes
  BY DEF Settle, StoredInv, VaultTypeOK, Vaults
<1>2. \A d \in BrokerCodes : d = b \/ d = Other(b)
  BY DEF BrokerCodes, Other
<1>3. \A d \in BrokerCodes : MergedVault(master)'[d] = MergedVault(master')[d]
  BY DEF MergedVault
<1>4. StoredAsAnswered'
  BY <1>1, <1>2, <1>3 DEF StoredAsAnswered, StoredInv
<1>5. \A k \in VaultJobs : visit'[k] # NoJob /\ visit'[k].alone => visit'[k].stage # "write"
  BY DEF StoredInv, LoneVisits
<1>6. LoadedIsCurrent'
  BY <1>5 DEF LoadedIsCurrent
<1>. QED
  BY <1>4, <1>6 DEF StoredInv

\* The blob and credentials_json that save_user_vault leaves give the vault it was handed.
LEMMA SavedGives ==
    ASSUME NEW v \in Vaults, NEW active, NEW connected,
           keySet \/ v["fyers"] = NoToken
    PROVE  \A d \in BrokerCodes : MergedVault(Saved(v, active, connected))[d] = v[d]
<1>1. /\ Saved(v, active, connected).cred = v["zerodha"]
      /\ keySet => Saved(v, active, connected).cipher = v
  BY DEF Saved
<1>. QED
  BY <1>1, MergedEntries DEF BrokerCodes, Vaults

\* A connect stores its token over the vault it loaded.
LEMMA StoredConnection ==
    ASSUME StoredInv, VaultTypeOK', NEW j \in VaultJobs, StoreConnection(j)
    PROVE  StoredInv'
<1> DEFINE b == visit[j].broker
           token == visit[j].token
<1>1. visit[j] \in Jobs /\ visit[j] # NoJob /\ visit[j].op = "connect"
      /\ visit[j].stage = "write"
  BY DEF StoreConnection, JobAt, StoredInv, VaultTypeOK
<1>2. /\ b \in BrokerCodes /\ token \in Stored /\ visit[j].vault \in Vaults
      /\ keySet' = keySet /\ EndJob(j) /\ Settle(b, token, visit[j].alone)
      /\ b = "fyers" => keySet
  BY <1>1 DEF Jobs, StoreConnection, StoredInv, NeedsKey
<1>3. CASE keySet
  <2> DEFINE v == [visit[j].vault EXCEPT ![b] = token]
  <2>1. v \in Vaults /\ v[b] = token /\ v[Other(b)] = visit[j].vault[Other(b)]
    BY <1>2 DEF Vaults, Other, BrokerCodes
  <2>2. master' = Saved(v, b, TRUE)
    BY <1>3 DEF StoreConnection, WriteRow
  <2> HIDE DEF v
  <2>3. \A d \in BrokerCodes : MergedVault(master')[d] = v[d]
    <3>1. master'.cred = v["zerodha"] /\ master'.cipher = v
      BY <1>3, <2>2 DEF Saved
    <3>. QED
      BY <1>3, <2>1, <3>1, MergedEntries DEF BrokerCodes, Vaults
  <2>4. visit[j].alone => visit[j].vault = MergedVault(master)
    BY <1>1, <1>3 DEF StoredInv, LoadedIsCurrent
  <2>5. Other(b) \in BrokerCodes
    BY DEF Other, BrokerCodes
  <2>6. NoBlobWithoutKey'
    BY <1>2, <1>3 DEF NoBlobWithoutKey
  <2>. QED
    BY <1>1, <1>2, <2>1, <2>3, <2>4, <2>5, <2>6, LoneEnd, StoredWrite
<1>4. CASE ~keySet
  <2>1. b = "zerodha"
    BY <1>2, <1>4 DEF BrokerCodes
  <2>2. master' = [master EXCEPT !.cred = token, !.active = "zerodha", !.connected = TRUE]
    BY <1>4 DEF StoreConnection, WriteRow
  <2>3. master \in Rows
    BY DEF StoredInv, VaultTypeOK
  <2>4. master'.cred = token /\ master'.cipher = master.cipher
    BY <2>2, <2>3 DEF Rows
  <2>5. /\ MergedVault(master')["zerodha"] = token
        /\ MergedVault(master')["fyers"] = NoToken /\ MergedVault(master)["fyers"] = NoToken
    BY <1>4, <2>4, MergedEntries
  <2>6. NoBlobWithoutKey'
    BY <1>2, <2>4 DEF NoBlobWithoutKey, StoredInv
  <2>7. Other("zerodha") = "fyers"
    BY DEF Other
  <2>. QED
    BY <1>1, <1>2, <2>1, <2>5, <2>6, <2>7, LoneEnd, StoredWrite
<1>. QED
  BY <1>3, <1>4

\* A disconnect empties its entry in the vault it loaded.
LEMMA StoredDisconnection ==
    ASSUME StoredInv, VaultTypeOK', NEW j \in VaultJobs, StoreDisconnect(j)
    PROVE  StoredInv'
<1> DEFINE b == visit[j].broker
           v == [visit[j].vault EXCEPT ![b] = NoToken]
           rest == v[Other(b)] # NoToken
<1>1. visit[j] \in Jobs /\ visit[j] # NoJob /\ visit[j].op = "disconnect"
      /\ visit[j].stage = "write" /\ visit \in [VaultJobs -> {NoJob} \cup Jobs]
  BY DEF StoreDisconnect, JobAt, StoredInv, VaultTypeOK
<1>2. /\ b \in BrokerCodes /\ visit[j].vault \in Vaults
      /\ keySet' = keySet /\ Settle(b, NoToken, visit[j].alone)
      /\ \/ b = "fyers" /\ ~rest /\ visit' = [visit EXCEPT ![j].stage = "flag"]
         \/ EndJob(j)
  BY <1>1 DEF Jobs, StoreDisconnect
<1>3. /\ v \in Vaults /\ v[b] = NoToken /\ v[Other(b)] = visit[j].vault[Other(b)]
      /\ Other(b) \in BrokerCodes
  BY <1>2 DEF Vaults, Stored, Other, BrokerCodes
<1>4. visit[j].alone => visit[j].vault = MergedVault(master)
  BY <1>1 DEF StoredInv, LoadedIsCurrent
<1>5. /\ LoneVisits' /\ NeedsKey'
      /\ \A k \in VaultJobs \ {j} : visit'[k] = visit[k]
      /\ visit'[j] # NoJob => visit'[j].stage # "write"
  <2>1. CASE EndJob(j)
    BY <1>2, <2>1, LoneEnd
  <2>2. CASE visit' = [visit EXCEPT ![j].stage = "flag"]
    <3>1. /\ \A k \in VaultJobs \ {j} : visit'[k] = visit[k]
          /\ visit'[j].alone = visit[j].alone /\ visit'[j].op = visit[j].op
          /\ visit'[j].stage = "flag"
      BY <1>1, <2>2 DEF Jobs
    <3>. QED
      BY <1>1, <1>2, <3>1 DEF StoredInv, LoneVisits, NeedsKey
  <2>. QED
    BY <1>2, <2>1, <2>2
<1>6. CASE keySet \/ b = "fyers"
  <2>1. master' = Saved(v, NextActive(j), rest)
    BY <1>6 DEF StoreDisconnect, WriteRow
  <2>2. keySet \/ v["fyers"] = NoToken
    BY <1>3, <1>6
  <2> HIDE DEF v
  <2>3. \A d \in BrokerCodes : MergedVault(master')[d] = v[d]
    BY <1>3, <2>1, <2>2, SavedGives
  <2>4. NoBlobWithoutKey'
    BY <1>2, <2>1 DEF NoBlobWithoutKey, Saved, Empty
  <2>. QED
    BY <1>1, <1>2, <1>3, <1>4, <1>5, <2>3, <2>4, StoredWrite
<1>7. CASE ~keySet /\ b = "zerodha"
  <2>1. master' = [master EXCEPT !.cred = NoToken, !.active = NextActive(j),
                                 !.connected = rest]
    BY <1>7 DEF StoreDisconnect, WriteRow
  <2>2. master \in Rows
    BY DEF StoredInv, VaultTypeOK
  <2>3. master'.cred = NoToken /\ master'.cipher = master.cipher
    BY <2>1, <2>2 DEF Rows
  <2>4. /\ MergedVault(master')["zerodha"] = NoToken
        /\ MergedVault(master')["fyers"] = NoToken /\ MergedVault(master)["fyers"] = NoToken
    BY <1>7, <2>3, MergedEntries
  <2>5. NoBlobWithoutKey'
    BY <1>2, <2>3 DEF NoBlobWithoutKey, StoredInv
  <2>6. Other("zerodha") = "fyers"
    BY DEF Other
  <2>. QED
    BY <1>1, <1>2, <1>5, <1>7, <2>4, <2>5, <2>6, StoredWrite
<1>. QED
  BY <1>2, <1>6, <1>7 DEF BrokerCodes

\* Every step: the steps that are not a request's write leave both entries as they were,
\* or mark the Zerodha one as torn.
LEMMA StoredStep ==
    ASSUME StoredInv, VaultTypeOK', [VaultNext]_vaultVars
    PROVE  StoredInv'
<1>0. visit \in [VaultJobs -> {NoJob} \cup Jobs] /\ master \in Rows
  BY DEF StoredInv, VaultTypeOK
<1>1. ASSUME visit' = visit, keySet' = keySet, owed' = owed, torn' = torn,
             master'.cipher = master.cipher, master'.cred = master.cred
      PROVE  StoredInv'
  <2>1. LoneVisits' /\ NeedsKey'
    BY <1>1 DEF StoredInv, LoneVisits, NeedsKey
  <2>. QED
    BY <1>1, <2>1, StoredWhenRowKept
<1>2. ASSUME NEW j \in VaultJobs, EndJob(j), keySet' = keySet, owed' = owed, torn' = torn,
             master'.cipher = master.cipher, master'.cred = master.cred
      PROVE  StoredInv'
  BY <1>2, LoneEnd, StoredWhenRowKept
<1>3. ASSUME NEW j \in VaultJobs, ClearFlag(j) \/ StoreActive(j) \/ DropJob(j)
      PROVE  StoredInv'
  <2>1. /\ EndJob(j) /\ keySet' = keySet /\ owed' = owed /\ torn' = torn
        /\ master'.cipher = master.cipher /\ master'.cred = master.cred
    BY <1>0, <1>3 DEF ClearFlag, StoreActive, DropJob, WriteRow, Rows
  <2>. QED
    BY <1>2, <2>1
<1>4. CASE ConnectRefused \/ OpenSettings \/ ClearShared
  <2>1. /\ visit' = visit /\ keySet' = keySet /\ owed' = owed /\ torn' = torn
        /\ master'.cipher = master.cipher /\ master'.cred = master.cred
    BY <1>0, <1>4 DEF ConnectRefused, OpenSettings, ClearShared, WriteRow, Rows
  <2>. QED
    BY <1>1, <2>1
<1>5. ASSUME NEW b \in BrokerCodes, PutShared(b)
      PROVE  StoredInv'
  BY <1>1, <1>5 DEF PutShared
<1>6. CASE ConfigureKey
  <2>1. /\ ~keySet /\ keySet' /\ master' = master /\ owed' = owed /\ torn' = torn
        /\ \A j \in VaultJobs : visit'[j] = NoJob
    BY <1>6 DEF ConfigureKey
  <2>2. master.cipher = Empty
    BY <2>1 DEF StoredInv, NoBlobWithoutKey
  <2>3. MergedVault(master)' = MergedVault(master)
    BY <2>1, <2>2 DEF MergedVault, Empty
  <2>4. StoredAsAnswered'
    BY <2>1, <2>3 DEF StoredInv, StoredAsAnswered
  <2>5. LoneVisits' /\ NeedsKey' /\ LoadedIsCurrent'
    BY <2>1 DEF LoneVisits, NeedsKey, LoadedIsCurrent
  <2>6. NoBlobWithoutKey'
    BY <2>1 DEF NoBlobWithoutKey
  <2>. QED
    BY <2>4, <2>5, <2>6 DEF StoredInv
<1>7. CASE PutSettings
  <2>1. /\ keySet' = keySet /\ owed' = owed
        /\ torn' = IF page.cred = master.cred THEN torn ELSE torn \cup {"zerodha"}
        /\ master'.cipher = master.cipher /\ master'.cred = page.cred
        /\ \A k \in VaultJobs :
              visit'[k] = IF visit[k] = NoJob THEN NoJob ELSE [visit[k] EXCEPT !.alone = FALSE]
    BY <1>0, <1>7 DEF PutSettings, WriteRow, Rows
  <2>2. \A k \in VaultJobs : visit'[k] # NoJob =>
            /\ visit'[k].alone = FALSE
            /\ visit[k] # NoJob
            /\ visit'[k].op = visit[k].op /\ visit'[k].broker = visit[k].broker
            /\ visit'[k].stage = visit[k].stage
    <3>1. \A k \in VaultJobs : visit'[k] # NoJob =>
             /\ visit[k] # NoJob /\ visit[k] \in Jobs
             /\ visit'[k] = [visit[k] EXCEPT !.alone = FALSE]
      BY <1>0, <2>1
    <3>. QED
      BY <3>1 DEF Jobs
  <2>3. LoneVisits' /\ LoadedIsCurrent'
    BY <2>2 DEF LoneVisits, LoadedIsCurrent
  <2>4. NeedsKey'
    BY <2>1, <2>2 DEF StoredInv, NeedsKey
  <2>5. NoBlobWithoutKey'
    BY <2>1 DEF StoredInv, NoBlobWithoutKey
  <2>6. StoredAsAnswered'
    <3>1. CASE page.cred = master.cred
      BY <2>1, <3>1, MergedKept DEF StoredInv, StoredAsAnswered
    <3>2. CASE page.cred # master.cred
      <4>1. MergedVault(master)'["fyers"] = MergedVault(master)["fyers"]
        BY <2>1 DEF MergedVault, BrokerCodes
      <4>. QED
        BY <2>1, <3>2, <4>1 DEF StoredInv, StoredAsAnswered, BrokerCodes
    <3>. QED
      BY <3>1, <3>2
  <2>. QED
    BY <2>3, <2>4, <2>5, <2>6 DEF StoredInv
<1>8. ASSUME NEW c \in BrokerCalls, CallStep(c)
      PROVE  StoredInv'
  <2>1. visit' = visit /\ keySet' = keySet /\ owed' = owed /\ torn' = torn /\ master' = master
    BY <1>8 DEF CallStep, BeginCall, ReadActiveCode, GuessActive, ReadZerodha, ReadFyers,
       Probe, NoneLive, UseShared, CallKeeps
  <2>. QED
    BY <1>1, <2>1
<1>9. CASE UNCHANGED vaultVars
  BY <1>1, <1>9 DEF vaultVars
<1>10. ASSUME NEW j \in VaultJobs,
              \/ \E b \in BrokerCodes : Connect(j, b) \/ Disconnect(j, b) \/ Activate(j, b)
              \/ ReadPrevious(j) \/ LoadVault(j) \/ StoreConnection(j) \/ StoreDisconnect(j)
       PROVE  StoredInv'
  BY <1>10, StoredRequest, StoredRead, StoredConnection, StoredDisconnection
<1>. QED
  BY <1>3, <1>4, <1>5, <1>6, <1>7, <1>8, <1>9, <1>10 DEF VaultNext, CallStep

\* The invariant and the property of the runs that it holds.
THEOREM StoredInvariant == VaultSpec => []StoredInv
<1>1. VaultInit => StoredInv
  BY VaultTypeInit, MergedEntries DEF VaultInit, StoredInv, LoneVisits, NeedsKey,
     LoadedIsCurrent, NoBlobWithoutKey, StoredAsAnswered, BrokerCodes, Empty
<1>2. StoredInv /\ [VaultNext]_vaultVars => StoredInv'
  BY VaultTypeStep, StoredStep DEF StoredInv
<1>. QED
  BY <1>1, <1>2, PTL DEF VaultSpec

\* For any number of requests and logins, with or without the key and across the day it
\* is set: a load gives each broker what the last request for it stored, unless requests
\* overlapped or an old settings page was put back.
THEOREM StoredAsAnsweredHolds == VaultSpec => []StoredAsAnswered
<1>1. StoredInv => StoredAsAnswered
  BY DEF StoredInv
<1>. QED
  BY <1>1, StoredInvariant, PTL

-----------------------------------------------------------------------------
(* BrokerVault: a LIVE order's session *)

\* While a call picks its session the history has what the row holds, what it found is in
\* the history, what is left to try was found (the probe's list is not made
\* before), and only PAPER reaches the shared row.
OwnSoFar(c) ==
    call[c].stage \in CallStages =>
        /\ TokensOf(master) \subseteq seen[c]
        /\ \A b \in BrokerCodes : call[c].found[b] \in seen[c] \cup {NoToken}
        /\ \A b \in call[c].left : call[c].found[b] # NoToken
        /\ call[c].left # {} => call[c].stage = "probe"
        /\ call[c].stage = "shared" => call[c].mode = "PAPER"

\* A LIVE call that has ended with a session.
OwnAtEnd(c) ==
    call[c].stage = "done" /\ call[c].mode = "LIVE" /\ call[c].source # "none" =>
        call[c].token \in seen[c]

\* Inductive.
OwnInv == VaultTypeOK /\ \A c \in BrokerCalls : OwnSoFar(c) /\ OwnAtEnd(c)

\* A write of the row puts its tokens into the history of the calls under way.
LEMMA OwnWrite ==
    ASSUME OwnInv, NEW r, WriteRow(r), keySet' = keySet, call' = call,
           NEW c \in BrokerCalls
    PROVE  OwnSoFar(c)' /\ OwnAtEnd(c)'
<1>1. /\ TokensOf(master') = TokensOf(r)
      /\ seen'[c] = IF call[c].stage \in CallStages THEN seen[c] \cup TokensOf(r)
                    ELSE seen[c]
  BY DEF WriteRow
<1>2. TokensOf(master)' = TokensOf(master')
  BY DEF TokensOf, MergedVault
<1>. QED
  BY <1>1, <1>2 DEF OwnInv, OwnSoFar, OwnAtEnd, CallStages

\* Steps that change neither the row nor a call.
LEMMA OwnKept ==
    ASSUME OwnInv, UNCHANGED <<keySet, master, call, seen>>, NEW c \in BrokerCalls
    PROVE  OwnSoFar(c)' /\ OwnAtEnd(c)'
<1>1. TokensOf(master)' = TokensOf(master)
  BY DEF TokensOf, MergedVault
<1>. QED
  BY <1>1 DEF OwnInv, OwnSoFar, OwnAtEnd

\* A load's entry is a token of the row, or none.
LEMMA LoadedToken ==
    ASSUME NEW b \in BrokerCodes
    PROVE  MergedVault(master)[b] \in TokensOf(master) \cup {NoToken}
  BY DEF TokensOf

\* A call's own steps.
LEMMA OwnCallStep ==
    ASSUME OwnInv, NEW c \in BrokerCalls, CallStep(c)
    PROVE  OwnSoFar(c)' /\ OwnAtEnd(c)'
<1> DEFINE t == call[c]
<1>0. /\ OwnSoFar(c) /\ OwnAtEnd(c) /\ VaultTypeOK
      /\ call \in [BrokerCalls -> {NoCallYet} \cup Resolving \cup Resolved]
  BY DEF OwnInv, VaultTypeOK
<1>1. TokensOf(master)' = TokensOf(master)
  <2>1. UNCHANGED <<keySet, master>>
    BY DEF CallStep, BeginCall, ReadActiveCode, GuessActive, ReadZerodha, ReadFyers,
       Probe, NoneLive, UseShared, CallKeeps
  <2>. QED
    BY <2>1 DEF TokensOf, MergedVault
<1>2. ASSUME NEW new, call' = [call EXCEPT ![c] = new]
      PROVE  call'[c] = new
  BY <1>0, <1>2
<1>3. ASSUME NEW mode \in {"PAPER", "LIVE"}, NEW admin \in BOOLEAN, BeginCall(c, mode, admin)
      PROVE  OwnSoFar(c)' /\ OwnAtEnd(c)'
  <2> DEFINE new == [stage |-> "active", mode |-> mode, admin |-> admin,
                     active |-> "none", found |-> Empty, left |-> {}]
  <2>1. call'[c] = new
    BY <1>2, <1>3 DEF BeginCall
  <2>2. seen'[c] = TokensOf(master)
    BY <1>0, <1>3 DEF BeginCall, VaultTypeOK
  <2>. QED
    BY <1>1, <2>1, <2>2 DEF OwnSoFar, OwnAtEnd, Empty
<1>4. ASSUME t \in Resolving, seen' = seen, call'[c].stage # "done",
             \A b \in BrokerCodes : call'[c].found[b] \in seen[c] \cup {NoToken},
             \A b \in call'[c].left : call'[c].found[b] # NoToken,
             call'[c].left # {} => call'[c].stage = "probe",
             call'[c].stage = "shared" => call'[c].mode = "PAPER"
      PROVE  OwnSoFar(c)' /\ OwnAtEnd(c)'
  <2>1. seen'[c] = seen[c] /\ t.stage \in CallStages
    BY <1>4 DEF Resolving
  <2>. QED
    BY <1>0, <1>1, <1>4, <2>1 DEF OwnSoFar, OwnAtEnd
<1>5. ASSUME t \in Resolving, NEW source, NEW token, Finished(c, source, token), seen' = seen,
             t.mode = "LIVE" /\ source # "none" => token \in seen[c]
      PROVE  OwnSoFar(c)' /\ OwnAtEnd(c)'
  <2>1. call'[c] = [stage |-> "done", mode |-> t.mode, source |-> source, token |-> token]
    BY <1>2, <1>5 DEF Finished
  <2>. QED
    BY <1>5, <2>1 DEF OwnSoFar, OwnAtEnd, CallStages
<1>6. t \in Resolving =>
          /\ \A b \in BrokerCodes : t.found[b] \in seen[c] \cup {NoToken}
          /\ \A b \in t.left : t.found[b] # NoToken
          /\ t.left \subseteq BrokerCodes
          /\ t.left # {} => t.stage = "probe"
  BY <1>0 DEF OwnSoFar, Resolving
<1>7. \A b \in BrokerCodes : t \in Resolving => MergedVault(master)[b] \in seen[c] \cup {NoToken}
  BY <1>0, LoadedToken DEF OwnSoFar, Resolving
<1>8. CASE ReadActiveCode(c) \/ GuessActive(c)
  <2>1. t \in Resolving /\ seen' = seen /\ t.stage # "probe"
    BY <1>0, <1>8, CallShape DEF ReadActiveCode, GuessActive, CallStages, CallKeeps
  <2>2. /\ call'[c].found = t.found /\ call'[c].left = t.left
        /\ call'[c].stage \in {"guess", "zerodha"}
    BY <1>0, <1>8, <2>1 DEF ReadActiveCode, GuessActive, Resolving
  <2>. QED
    BY <1>4, <1>6, <2>1, <2>2
<1>9. CASE ReadZerodha(c)
  <2>1. t \in Resolving /\ seen' = seen /\ t.stage # "probe"
    BY <1>0, <1>9, CallShape DEF ReadZerodha, CallStages, CallKeeps
  <2>2. /\ call'[c].left = t.left /\ call'[c].stage = "fyers"
        /\ \A b \in BrokerCodes : call'[c].found[b] =
              IF b = "zerodha" THEN MergedVault(master)["zerodha"] ELSE t.found[b]
    <3>1. ZerodhaSession(FALSE) = MergedVault(master)["zerodha"]
      BY DEF ZerodhaSession
    <3>. QED
      BY <1>0, <1>9, <2>1, <3>1 DEF ReadZerodha, Resolving, Vaults
  <2>. QED
    BY <1>4, <1>6, <1>7, <2>1, <2>2 DEF BrokerCodes
<1>10. CASE ReadFyers(c)
  <2>1. t \in Resolving /\ seen' = seen
    BY <1>0, <1>10, CallShape DEF ReadFyers, CallStages, CallKeeps
  <2> DEFINE found == [t.found EXCEPT !["fyers"] = MergedVault(master)["fyers"]]
  <2>2. \A b \in BrokerCodes : found[b] \in seen[c] \cup {NoToken}
    BY <1>6, <1>7, <2>1 DEF Resolving, Vaults, BrokerCodes
  <2>3. call'[c] = [t EXCEPT !.found = found, !.stage = "probe",
                             !.left = {b \in BrokerCodes : found[b] # NoToken}]
    BY <1>0, <1>10 DEF ReadFyers
  <2> HIDE DEF found
  <2>4. /\ call'[c].found = found /\ call'[c].stage = "probe"
        /\ call'[c].left = {b \in BrokerCodes : found[b] # NoToken}
    BY <2>1, <2>3 DEF Resolving
  <2>. QED
    BY <1>4, <2>1, <2>2, <2>4
<1>11. CASE Probe(c)
  <2>1. t \in Resolving /\ seen' = seen /\ t.stage = "probe" /\ t.left # {}
    BY <1>0, <1>11, CallShape DEF Probe, CallStages, CallKeeps
  <2>2. Preferred(c) \in t.left /\ Preferred(c) \in BrokerCodes
    BY <1>6, <2>1 DEF Preferred, BrokerCodes
  <2>3. CASE call' = [call EXCEPT ![c].left = @ \ {Preferred(c)}]
    <3>1. /\ call'[c].found = t.found /\ call'[c].stage = "probe"
          /\ call'[c].left = t.left \ {Preferred(c)}
      BY <1>0, <2>1, <2>3 DEF Resolving
    <3>. QED
      BY <1>4, <1>6, <2>1, <3>1
  <2>4. CASE Finished(c, IF Preferred(c) = "fyers" THEN "user_fyers" ELSE "user_zerodha",
                      call[c].found[Preferred(c)])
    <3>1. t.found[Preferred(c)] \in seen[c]
      BY <1>6, <2>1, <2>2
    <3>. QED
      BY <1>5, <2>1, <2>4, <3>1
  <2>. QED
    BY <1>11, <2>3, <2>4 DEF Probe
<1>12. CASE NoneLive(c)
  <2>1. t \in Resolving /\ seen' = seen /\ t.left = {}
    BY <1>0, <1>12, CallShape DEF NoneLive, CallStages, CallKeeps
  <2>2. CASE t.mode = "PAPER" /\ call' = [call EXCEPT ![c].stage = "shared"]
    <3>1. /\ call'[c].found = t.found /\ call'[c].stage = "shared"
          /\ call'[c].left = {} /\ call'[c].mode = "PAPER"
      BY <1>0, <2>1, <2>2 DEF Resolving
    <3>. QED
      BY <1>4, <1>6, <2>1, <3>1
  <2>3. CASE Finished(c, "none", NoToken)
    BY <1>5, <2>1, <2>3
  <2>. QED
    BY <1>12, <2>2, <2>3 DEF NoneLive
<1>13. CASE UseShared(c)
  <2>1. t \in Resolving /\ seen' = seen /\ t.mode = "PAPER"
    BY <1>0, <1>13, CallShape DEF UseShared, CallStages, CallKeeps, OwnSoFar
  <2>. QED
    BY <1>5, <1>13, <2>1 DEF UseShared
<1>. QED
  BY <1>3, <1>8, <1>9, <1>10, <1>11, <1>12, <1>13 DEF CallStep

\* Every step.
LEMMA OwnStep ==
    ASSUME OwnInv, VaultTypeOK', [VaultNext]_vaultVars
    PROVE  OwnInv'
<1> SUFFICES ASSUME NEW c \in BrokerCalls
             PROVE  OwnSoFar(c)' /\ OwnAtEnd(c)'
  BY DEF OwnInv
<1>1. ASSUME NEW j \in VaultJobs,
             StoreConnection(j) \/ StoreDisconnect(j) \/ ClearFlag(j) \/ StoreActive(j)
      PROVE  OwnSoFar(c)' /\ OwnAtEnd(c)'
  BY <1>1, OwnWrite DEF StoreConnection, StoreDisconnect, ClearFlag, StoreActive
<1>2. CASE ConnectRefused \/ PutSettings
  BY <1>2, OwnWrite DEF ConnectRefused, PutSettings
<1>3. ASSUME NEW j \in VaultJobs,
             \/ \E b \in BrokerCodes : Connect(j, b) \/ Disconnect(j, b) \/ Activate(j, b)
             \/ ReadPrevious(j) \/ LoadVault(j) \/ DropJob(j)
      PROVE  OwnSoFar(c)' /\ OwnAtEnd(c)'
  BY <1>3, OwnKept DEF Connect, Disconnect, Activate, ReadPrevious, LoadVault, DropJob
<1>4. CASE OpenSettings \/ ClearShared \/ (\E b \in BrokerCodes : PutShared(b))
  BY <1>4, OwnKept DEF OpenSettings, ClearShared, PutShared
<1>5. CASE ConfigureKey
  <2>1. call'[c] = NoCallYet
    BY <1>5 DEF ConfigureKey
  <2>. QED
    BY <2>1 DEF NoCallYet, OwnSoFar, OwnAtEnd, CallStages
<1>6. ASSUME NEW d \in BrokerCalls, CallStep(d)
      PROVE  OwnSoFar(c)' /\ OwnAtEnd(c)'
  <2>1. CASE d = c
    BY <1>6, <2>1, OwnCallStep
  <2>2. CASE d # c
    <3>1. call'[c] = call[c] /\ seen'[c] = seen[c]
      BY <1>6, <2>2, OtherCalls DEF OwnInv
    <3>2. UNCHANGED <<keySet, master>>
      BY <1>6 DEF CallStep, BeginCall, ReadActiveCode, GuessActive, ReadZerodha, ReadFyers,
         Probe, NoneLive, UseShared, CallKeeps
    <3>3. TokensOf(master)' = TokensOf(master)
      BY <3>2 DEF TokensOf, MergedVault
    <3>. QED
      BY <3>1, <3>3 DEF OwnInv, OwnSoFar, OwnAtEnd
  <2>. QED
    BY <2>1, <2>2
<1>7. CASE UNCHANGED vaultVars
  BY <1>7, OwnKept DEF vaultVars
<1>. QED
  BY <1>1, <1>2, <1>3, <1>4, <1>5, <1>6, <1>7 DEF VaultNext, CallStep

\* For any number of calls and requests: a LIVE order goes out with a token of this
\* user's own vault, whatever is connected or expires while its session is picked.
THEOREM LiveOnOwnSessionHolds == VaultSpec => []LiveOnOwnSession
<1>1. VaultInit => OwnInv
  BY VaultTypeInit DEF VaultInit, OwnInv, OwnSoFar, OwnAtEnd, NoCallYet, CallStages
<1>2. OwnInv /\ [VaultNext]_vaultVars => OwnInv'
  BY VaultTypeStep, OwnStep DEF OwnInv
<1>3. OwnInv => LiveOnOwnSession
  BY DEF OwnInv, OwnAtEnd, LiveOnOwnSession
<1>. QED
  BY <1>1, <1>2, <1>3, PTL DEF VaultSpec

-----------------------------------------------------------------------------
(* EvolutionApproval *)


ApprovalStages == {"source", "exists", "create", "log", "mark"}

\* An approval knows where its proposal comes from.
JobsKnow ==
    \A a \in Admins : job[a].stage \in ApprovalStages =>
        /\ proposal[job[a].proposal] # Unborn
        /\ proposal[job[a].proposal].from = job[a].from

\* Who is about to write the changelog made the version: nobody has told of it.
LogsFirst ==
    \A a \in Admins : job[a].stage = "log" =>
        /\ catalog[job[a].to] # Absent
        /\ \A x \in changelog : x.to # job[a].to

\* Two requests never made the same version.
LogsApart ==
    \A a, b \in Admins :
        a # b /\ job[a].stage = "log" /\ job[b].stage = "log" => job[a].to # job[b].to

\* Who is about to mark the proposal has told of the version.
MarksLast ==
    \A a \in Admins : job[a].stage = "mark" =>
        catalog[job[a].to] # Absent /\ LogRow(a) \in changelog

\* The changelog tells of versions that are there.
LogOfVersions == \A x \in changelog : catalog[x.to] # Absent

OriginInv == LogsFirst /\ LogsApart /\ LogOfVersions /\ OneOrigin
EvoInv == EvoTypeOK /\ JobsKnow /\ MarksLast /\ OriginInv /\ ImplementedIsBacked

-----------------------------------------------------------------------------
(* Types *)

\* What a job's stage says of its fields.
LEMMA JobShape ==
  ASSUME EvoTypeOK, NEW a \in Admins
  PROVE  /\ job[a].stage \in ApprovalStages <=> job[a] \in Approving
         /\ job[a].stage \in {"rules", "propose"} <=> job[a] \in Generating
         /\ job[a].stage = "free" <=> job[a] = Free
BY DEF EvoTypeOK, ApprovalStages, Approving, Generating, Free

\* A proposal that is there has a source version.
LEMMA ProposalShape ==
  ASSUME EvoTypeOK, NEW p \in Proposals
  PROVE  /\ proposal[p].status = "none" <=> proposal[p] = Unborn
         /\ proposal[p] # Unborn => proposal[p].from \in Versions
         /\ proposal[p].status = "PENDING_REVIEW" => proposal[p] \in Born
         /\ proposal[p].status = "IMPLEMENTED" =>
              proposal[p] \in Done /\ proposal[p].version \in Versions
BY DEF EvoTypeOK, Unborn, Born, Done

\* An approval that goes on is still an approval.
LEMMA ProceedType ==
  ASSUME EvoTypeOK, NEW a \in Admins, job[a] \in Approving,
         NEW s \in ApprovalStages, Proceed(a, s)
  PROVE  job' \in [Admins -> {Free} \cup Generating \cup Approving]
<1>1. [job[a] EXCEPT !.stage = s] \in Approving
  BY DEF Approving, ApprovalStages
<1>2. job' = [job EXCEPT ![a] = [job[a] EXCEPT !.stage = s]]
  BY DEF Proceed
<1>. QED
  BY <1>1, <1>2 DEF EvoTypeOK

LEMMA LeaveType ==
  ASSUME EvoTypeOK, NEW a \in Admins, Leave(a)
  PROVE  job' \in [Admins -> {Free} \cup Generating \cup Approving]
BY DEF EvoTypeOK, Leave

\* Every step keeps the shape of the variables.
LEMMA EvoTypeStep == EvoTypeOK /\ JobsKnow /\ [EvoNext]_evoVars => EvoTypeOK'
<1>. SUFFICES ASSUME EvoTypeOK, JobsKnow, [EvoNext]_evoVars
              PROVE  EvoTypeOK'
  OBVIOUS
<1>1. ASSUME NEW v \in Versions, CreateStrategy(v) \/ SetPublishStatus(v)
      PROVE  EvoTypeOK'
  BY <1>1 DEF EvoTypeOK, CreateStrategy, SetPublishStatus, PublishStatus
<1>2. ASSUME NEW p \in Proposals, Reject(p)
      PROVE  EvoTypeOK'
  <2>1. proposal[p] \in Born
    BY <1>2, ProposalShape DEF Reject
  <2>2. [proposal[p] EXCEPT !.status = "REJECTED"] \in Born
    BY <2>1 DEF Born
  <2>3. proposal' = [proposal EXCEPT ![p] = [proposal[p] EXCEPT !.status = "REJECTED"]]
    BY <1>2 DEF Reject
  <2>. QED
    BY <1>2, <2>2, <2>3 DEF EvoTypeOK, Reject
<1>3. ASSUME NEW a \in Admins, NEW v \in Versions, ApplyRules(a, v)
      PROVE  EvoTypeOK'
  <2>1. [stage |-> "rules", from |-> v] \in Generating
    BY DEF Generating
  <2>. QED
    BY <1>3, <2>1 DEF EvoTypeOK, ApplyRules
<1>4. ASSUME NEW a \in Admins, NEW p \in Proposals, ReadProposal(a, p)
      PROVE  EvoTypeOK'
  <2>1. proposal[p] \in Born
    BY <1>4, ProposalShape DEF ReadProposal
  <2>2. [stage |-> "source", proposal |-> p, from |-> proposal[p].from,
         to |-> proposal[p].from] \in Approving
    BY <2>1 DEF Born, Approving
  <2>. QED
    BY <1>4, <2>2 DEF EvoTypeOK, ReadProposal
<1>5. ASSUME NEW a \in Admins, SkipDuplicate(a)
      PROVE  EvoTypeOK'
  <2>1. job[a] \in Generating
    BY <1>5, JobShape DEF SkipDuplicate, InStage
  <2>2. CASE Leave(a)
    BY <1>5, <2>2, LeaveType DEF EvoTypeOK, SkipDuplicate
  <2>3. CASE Proceed(a, "propose")
    <3>1. [job[a] EXCEPT !.stage = "propose"] \in Generating
      BY <2>1 DEF Generating
    <3>2. job' = [job EXCEPT ![a] = [job[a] EXCEPT !.stage = "propose"]]
      BY <2>3 DEF Proceed
    <3>. QED
      BY <1>5, <3>1, <3>2 DEF EvoTypeOK, SkipDuplicate
  <2>. QED
    BY <1>5, <2>2, <2>3 DEF SkipDuplicate
<1>6. ASSUME NEW a \in Admins, Propose(a)
      PROVE  EvoTypeOK'
  <2>1. job[a] \in Generating
    BY <1>6, JobShape DEF Propose, InStage
  <2>2. [status |-> "PENDING_REVIEW", from |-> job[a].from] \in Born
    BY <2>1 DEF Generating, Born
  <2>. QED
    BY <1>6, <2>2, LeaveType DEF EvoTypeOK, Propose
<1>7. ASSUME NEW a \in Admins, ReadSource(a)
      PROVE  EvoTypeOK'
  <2>1. job[a] \in Approving
    BY <1>7, JobShape DEF ReadSource, InStage, ApprovalStages
  <2>2. ASSUME NEW v \in Versions,
               job' = [job EXCEPT ![a].stage = "exists", ![a].to = v]
        PROVE  job' \in [Admins -> {Free} \cup Generating \cup Approving]
    <3>1. [job[a] EXCEPT !.stage = "exists", !.to = v] \in Approving
      BY <2>1 DEF Approving
    <3>2. job' = [job EXCEPT ![a] = [job[a] EXCEPT !.stage = "exists", !.to = v]]
      BY <2>1, <2>2 DEF EvoTypeOK, Approving
    <3>. QED
      BY <3>1, <3>2 DEF EvoTypeOK
  <2>. QED
    BY <1>7, <2>2, LeaveType DEF EvoTypeOK, ReadSource
<1>8. ASSUME NEW a \in Admins, CheckVersion(a)
      PROVE  EvoTypeOK'
  <2>1. job[a] \in Approving
    BY <1>8, JobShape DEF CheckVersion, InStage, ApprovalStages
  <2>. QED
    BY <1>8, <2>1, LeaveType, ProceedType
    DEF EvoTypeOK, CheckVersion, ApprovalStages
<1>9. ASSUME NEW a \in Admins, CreateVersion(a)
      PROVE  EvoTypeOK'
  <2>1. job[a] \in Approving
    BY <1>9, JobShape DEF CreateVersion, InStage, ApprovalStages
  <2>2. job' \in [Admins -> {Free} \cup Generating \cup Approving]
    BY <1>9, <2>1, LeaveType, ProceedType DEF CreateVersion, ApprovalStages
  <2>. QED
    BY <1>9, <2>2 DEF EvoTypeOK, CreateVersion, PublishStatus
<1>10. ASSUME NEW a \in Admins, WriteChangelog(a)
       PROVE  EvoTypeOK'
  <2>1. job[a] \in Approving
    BY <1>10, JobShape DEF WriteChangelog, InStage, ApprovalStages
  <2>2. LogRow(a) \in [proposal : Proposals, from : Versions, to : Versions]
    BY <2>1 DEF LogRow, Approving
  <2>3. job' \in [Admins -> {Free} \cup Generating \cup Approving]
    BY <1>10, <2>1, ProceedType DEF WriteChangelog, ApprovalStages
  <2>. QED
    BY <1>10, <2>2, <2>3 DEF EvoTypeOK, WriteChangelog
<1>11. ASSUME NEW a \in Admins, MarkImplemented(a)
       PROVE  EvoTypeOK'
  <2>1. job[a] \in Approving /\ job[a].stage \in ApprovalStages
    BY <1>11, JobShape DEF MarkImplemented, InStage, ApprovalStages
  <2>. DEFINE p == job[a].proposal
  <2>2. p \in Proposals /\ job[a].to \in Versions
    BY <2>1 DEF Approving
  <2>3. proposal[p].from \in Versions
    BY <2>1, <2>2, ProposalShape DEF JobsKnow
  <2>4. [status |-> "IMPLEMENTED", from |-> proposal[p].from, version |-> job[a].to]
          \in Done
    BY <2>2, <2>3 DEF Done
  <2>. QED
    BY <1>11, <2>2, <2>4, LeaveType DEF EvoTypeOK, MarkImplemented
<1>12. ASSUME NEW a \in Admins, FailJob(a)
       PROVE  EvoTypeOK'
  BY <1>12, LeaveType DEF EvoTypeOK, FailJob
<1>13. CASE UNCHANGED evoVars
  BY <1>13 DEF EvoTypeOK, evoVars
<1>. QED
  BY <1>1, <1>2, <1>3, <1>4, <1>5, <1>6, <1>7, <1>8, <1>9, <1>10, <1>11, <1>12, <1>13
  DEF EvoNext
-----------------------------------------------------------------------------
(* What a step leaves of the rows *)

\* A row of the catalog is never deleted.
LEMMA CatalogGrows ==
  ASSUME EvoTypeOK, [EvoNext]_evoVars, NEW v \in Versions, catalog[v] # Absent
  PROVE  catalog'[v] # Absent
<1>1. ASSUME NEW w \in Versions, CreateStrategy(w) \/ SetPublishStatus(w)
      PROVE  catalog'[v] # Absent
  BY <1>1 DEF EvoTypeOK, CreateStrategy, SetPublishStatus, PublishStatus, Absent
<1>2. ASSUME NEW a \in Admins, CreateVersion(a)
      PROVE  catalog'[v] # Absent
  BY <1>2 DEF EvoTypeOK, CreateVersion, Absent
<1>. QED
  BY <1>1, <1>2
  DEF EvoNext, evoVars, Reject, ApplyRules, ReadProposal, SkipDuplicate, Propose,
      ReadSource, CheckVersion, WriteChangelog, MarkImplemented, FailJob

\* Nor is a row of the changelog.
LEMMA ChangelogGrows ==
  ASSUME [EvoNext]_evoVars
  PROVE  changelog \subseteq changelog'
BY DEF EvoNext, evoVars, Reject, ApplyRules, ReadProposal, SkipDuplicate, Propose,
       ReadSource, CheckVersion, WriteChangelog, MarkImplemented, FailJob,
       CreateVersion, CreateStrategy, SetPublishStatus

\* A proposal keeps its source version once it is there.
LEMMA ProposalStays ==
  ASSUME EvoTypeOK, [EvoNext]_evoVars, NEW p \in Proposals, proposal[p] # Unborn
  PROVE  proposal'[p] # Unborn /\ proposal'[p].from = proposal[p].from
<1>. DEFINE Kept == proposal'[p] # Unborn /\ proposal'[p].from = proposal[p].from
<1>1. ASSUME NEW q \in Proposals, Reject(q)
      PROVE  Kept
  <2>1. CASE q = p
    <3>1. proposal'[p] = [proposal[p] EXCEPT !.status = "REJECTED"]
      BY <1>1, <2>1 DEF EvoTypeOK, Reject
    <3>2. proposal[p] \in Born
      BY <1>1, <2>1, ProposalShape DEF Reject
    <3>. QED
      BY <3>1, <3>2 DEF Born, Unborn
  <2>2. CASE q # p
    BY <1>1, <2>2 DEF EvoTypeOK, Reject
  <2>. QED
    BY <2>1, <2>2
<1>2. ASSUME NEW a \in Admins, Propose(a)
      PROVE  Kept
  BY <1>2 DEF EvoTypeOK, Propose
<1>3. ASSUME NEW a \in Admins, MarkImplemented(a)
      PROVE  Kept
  <2>1. CASE job[a].proposal = p
    BY <1>3, <2>1 DEF EvoTypeOK, MarkImplemented, Unborn
  <2>2. CASE job[a].proposal # p
    BY <1>3, <2>2 DEF EvoTypeOK, MarkImplemented
  <2>. QED
    BY <2>1, <2>2
<1>. QED
  BY <1>1, <1>2, <1>3
  DEF EvoNext, evoVars, ApplyRules, ReadProposal, SkipDuplicate, ReadSource,
      CheckVersion, CreateVersion, WriteChangelog, FailJob, CreateStrategy,
      SetPublishStatus

-----------------------------------------------------------------------------
(* How one request moves *)

\* A step of the requests is one request's.
LEMMA JobStep ==
  ASSUME EvoTypeOK, [EvoNext]_evoVars, NEW b \in Admins, job'[b] # job[b]
  PROVE  \/ \E v \in Versions : ApplyRules(b, v)
         \/ \E p \in Proposals : ReadProposal(b, p)
         \/ SkipDuplicate(b) \/ Propose(b) \/ ReadSource(b) \/ CheckVersion(b)
         \/ CreateVersion(b) \/ WriteChangelog(b) \/ MarkImplemented(b) \/ FailJob(b)
<1>1. ASSUME NEW v \in Versions, CreateStrategy(v) \/ SetPublishStatus(v)
      PROVE  FALSE
  BY <1>1 DEF CreateStrategy, SetPublishStatus
<1>2. ASSUME NEW p \in Proposals, Reject(p)
      PROVE  FALSE
  BY <1>2 DEF Reject
<1>3. ASSUME NEW a \in Admins, a # b, NEW v \in Versions, ApplyRules(a, v)
      PROVE  FALSE
  BY <1>3 DEF EvoTypeOK, ApplyRules
<1>4. ASSUME NEW a \in Admins, a # b, NEW p \in Proposals, ReadProposal(a, p)
      PROVE  FALSE
  BY <1>4 DEF EvoTypeOK, ReadProposal
<1>5. ASSUME NEW a \in Admins, a # b,
             SkipDuplicate(a) \/ Propose(a) \/ CheckVersion(a) \/ CreateVersion(a)
      PROVE  FALSE
  BY <1>5
  DEF EvoTypeOK, SkipDuplicate, Propose, CheckVersion, CreateVersion, Leave, Proceed
<1>6. ASSUME NEW a \in Admins, a # b,
             WriteChangelog(a) \/ MarkImplemented(a) \/ FailJob(a)
      PROVE  FALSE
  BY <1>6 DEF EvoTypeOK, WriteChangelog, MarkImplemented, FailJob, Leave, Proceed
<1>7. ASSUME NEW a \in Admins, a # b, ReadSource(a)
      PROVE  FALSE
  BY <1>7 DEF EvoTypeOK, ReadSource, Leave
<1>. QED
  BY <1>1, <1>2, <1>3, <1>4, <1>5, <1>6, <1>7 DEF EvoNext, evoVars

\* An approval that moves on keeps its proposal, and its version from the check on.
LEMMA ApprovalMoves ==
  ASSUME EvoTypeOK, [EvoNext]_evoVars, NEW b \in Admins, job'[b] # job[b],
         job'[b].stage \in ApprovalStages
  PROVE  \/ /\ job'[b].stage = "source"
            /\ proposal[job'[b].proposal].status = "PENDING_REVIEW"
            /\ job'[b].proposal \in Proposals
            /\ job'[b].from = proposal[job'[b].proposal].from
            /\ UNCHANGED <<proposal, catalog, changelog>>
         \/ /\ job[b] \in Approving
            /\ job'[b].proposal = job[b].proposal
            /\ job'[b].from = job[b].from
            /\ job'[b].stage = "log" =>
                  CreateVersion(b) /\ job'[b].to = job[b].to
                  /\ catalog[job[b].to] = Absent
            /\ job'[b].stage = "mark" =>
                  WriteChangelog(b) /\ job'[b].to = job[b].to
<1>. DEFINE Moved ==
         /\ job[b] \in Approving
         /\ job'[b].proposal = job[b].proposal
         /\ job'[b].from = job[b].from
         /\ job'[b].stage = "log" =>
               CreateVersion(b) /\ job'[b].to = job[b].to /\ catalog[job[b].to] = Absent
         /\ job'[b].stage = "mark" => WriteChangelog(b) /\ job'[b].to = job[b].to
<1>1. ASSUME NEW v \in Versions, ApplyRules(b, v)
      PROVE  FALSE
  BY <1>1 DEF EvoTypeOK, ApplyRules, ApprovalStages
<1>2. ASSUME Leave(b)
      PROVE  FALSE
  BY <1>2 DEF EvoTypeOK, Leave, Free, ApprovalStages
<1>3. ASSUME SkipDuplicate(b)
      PROVE  FALSE
  <2>1. CASE Proceed(b, "propose")
    <3>1. job'[b] = [job[b] EXCEPT !.stage = "propose"]
      BY <2>1 DEF EvoTypeOK, Proceed
    <3>2. job[b] \in Generating
      BY <1>3, JobShape DEF SkipDuplicate, InStage
    <3>. QED
      BY <3>1, <3>2 DEF Generating, ApprovalStages
  <2>. QED
    BY <1>2, <1>3, <2>1 DEF SkipDuplicate
<1>4. ASSUME NEW s \in ApprovalStages, Proceed(b, s), job[b] \in Approving
      PROVE  job'[b].proposal = job[b].proposal /\ job'[b].from = job[b].from
             /\ job'[b].to = job[b].to /\ job'[b].stage = s
  <2>1. job'[b] = [job[b] EXCEPT !.stage = s]
    BY <1>4 DEF EvoTypeOK, Proceed
  <2>. QED
    BY <2>1, <1>4 DEF Approving
<1>5. CASE ReadSource(b)
  <2>1. job[b] \in Approving
    BY <1>5, JobShape DEF ReadSource, InStage, ApprovalStages
  <2>2. PICK v \in Versions : job' = [job EXCEPT ![b].stage = "exists", ![b].to = v]
    BY <1>2, <1>5 DEF ReadSource
  <2>3. job'[b] = [job[b] EXCEPT !.stage = "exists", !.to = v]
    BY <2>1, <2>2 DEF EvoTypeOK, Approving
  <2>4. Moved
    BY <2>1, <2>3 DEF Approving
  <2>. QED
    BY <2>4
<1>6. CASE CheckVersion(b)
  <2>1. job[b] \in Approving
    BY <1>6, JobShape DEF CheckVersion, InStage, ApprovalStages
  <2>2. Proceed(b, "create")
    BY <1>2, <1>6 DEF CheckVersion
  <2>3. "create" \in ApprovalStages
    BY DEF ApprovalStages
  <2>4. Moved
    BY <1>4, <2>1, <2>2, <2>3
  <2>. QED
    BY <2>4
<1>7. CASE CreateVersion(b)
  <2>1. job[b] \in Approving
    BY <1>7, JobShape DEF CreateVersion, InStage, ApprovalStages
  <2>2. Proceed(b, "log") /\ catalog[job[b].to] = Absent
    BY <1>2, <1>7 DEF CreateVersion
  <2>3. "log" \in ApprovalStages
    BY DEF ApprovalStages
  <2>4. Moved
    BY <1>4, <1>7, <2>1, <2>2, <2>3
  <2>. QED
    BY <2>4
<1>8. CASE WriteChangelog(b)
  <2>1. job[b] \in Approving
    BY <1>8, JobShape DEF WriteChangelog, InStage, ApprovalStages
  <2>2. Proceed(b, "mark")
    BY <1>8 DEF WriteChangelog
  <2>3. "mark" \in ApprovalStages
    BY DEF ApprovalStages
  <2>4. Moved
    BY <1>4, <1>8, <2>1, <2>2, <2>3
  <2>. QED
    BY <2>4
<1>9. ASSUME NEW p \in Proposals, ReadProposal(b, p)
      PROVE  /\ job'[b].stage = "source"
             /\ proposal[job'[b].proposal].status = "PENDING_REVIEW"
             /\ job'[b].proposal \in Proposals
             /\ job'[b].from = proposal[job'[b].proposal].from
             /\ UNCHANGED <<proposal, catalog, changelog>>
  BY <1>9 DEF EvoTypeOK, ReadProposal
<1>. QED
  BY <1>1, <1>2, <1>3, <1>5, <1>6, <1>7, <1>8, <1>9, JobStep
  DEF Propose, MarkImplemented, FailJob
-----------------------------------------------------------------------------
(* The invariant, part by part *)

\* An approval goes on knowing where its proposal comes from.
LEMMA JobsKnowStep ==
  ASSUME EvoTypeOK, JobsKnow, [EvoNext]_evoVars
  PROVE  JobsKnow'
<1>1. ASSUME NEW b \in Admins, job'[b].stage \in ApprovalStages
      PROVE  /\ proposal'[job'[b].proposal] # Unborn
             /\ proposal'[job'[b].proposal].from = job'[b].from
  <2>1. CASE job'[b] = job[b]
    <3>1. job[b] \in Approving /\ job[b].stage \in ApprovalStages
      BY <1>1, <2>1, JobShape
    <3>2. job[b].proposal \in Proposals
      BY <3>1 DEF Approving
    <3>. QED
      BY <2>1, <3>1, <3>2, ProposalStays DEF JobsKnow
  <2>2. CASE job'[b] # job[b]
    <3>1. CASE /\ proposal[job'[b].proposal].status = "PENDING_REVIEW"
               /\ job'[b].from = proposal[job'[b].proposal].from
               /\ UNCHANGED proposal
      BY <3>1 DEF Unborn
    <3>2. CASE /\ job[b] \in Approving
               /\ job'[b].proposal = job[b].proposal
               /\ job'[b].from = job[b].from
      <4>1. job[b].stage \in ApprovalStages
        BY <3>2, JobShape
      <4>2. job[b].proposal \in Proposals
        BY <3>2 DEF Approving
      <4>. QED
        BY <3>2, <4>1, <4>2, ProposalStays DEF JobsKnow
    <3>. QED
      BY <1>1, <2>2, <3>1, <3>2, ApprovalMoves
  <2>. QED
    BY <2>1, <2>2
<1>. QED
  BY <1>1 DEF JobsKnow

\* A changelog row is written by a request that was about to write it.
LEMMA NewRows ==
  ASSUME [EvoNext]_evoVars, NEW x \in changelog', x \notin changelog
  PROVE  \E a \in Admins : WriteChangelog(a) /\ job[a].stage = "log" /\ x = LogRow(a)
<1>1. \E a \in Admins : WriteChangelog(a)
  BY DEF EvoNext, evoVars, Reject, ApplyRules, ReadProposal, SkipDuplicate, Propose,
         ReadSource, CheckVersion, MarkImplemented, FailJob, CreateVersion,
         CreateStrategy, SetPublishStatus
<1>. QED
  BY <1>1 DEF WriteChangelog, InStage

\* The request that writes the changelog marks next, so it is no longer at "log".
LEMMA WriterMarksNext ==
  ASSUME EvoTypeOK, NEW a \in Admins, WriteChangelog(a)
  PROVE  job'[a].stage = "mark" /\ \A b \in Admins \ {a} : job'[b] = job[b]
<1>1. job[a] \in Approving
  BY JobShape DEF WriteChangelog, InStage, ApprovalStages
<1>2. job'[a] = [job[a] EXCEPT !.stage = "mark"]
  BY DEF EvoTypeOK, WriteChangelog, Proceed
<1>. QED
  BY <1>1, <1>2 DEF EvoTypeOK, WriteChangelog, Proceed, Approving

\* The changelog tells of versions that are there, and one row of each.
LEMMA LogStep ==
  ASSUME EvoTypeOK, OriginInv, [EvoNext]_evoVars
  PROVE  LogOfVersions' /\ OneOrigin'
<1>1. ASSUME NEW x \in changelog', x \notin changelog
      PROVE  /\ x.to \in Versions /\ catalog[x.to] # Absent
             /\ \A y \in changelog : y.to # x.to
             /\ \A y \in changelog' : y.to = x.to => y = x
  <2>1. PICK a \in Admins : WriteChangelog(a) /\ job[a].stage = "log" /\ x = LogRow(a)
    BY <1>1, NewRows
  <2>2. job[a] \in Approving
    BY <2>1, JobShape DEF ApprovalStages
  <2>3. x.to = job[a].to /\ job[a].to \in Versions
    BY <2>1, <2>2 DEF LogRow, Approving
  <2>4. changelog' = changelog \cup {x}
    BY <2>1 DEF WriteChangelog
  <2>. QED
    BY <2>1, <2>3, <2>4 DEF OriginInv, LogsFirst
<1>2. LogOfVersions'
  <2>1. ASSUME NEW x \in changelog'
        PROVE  catalog'[x.to] # Absent
    <3>1. x.to \in Versions /\ catalog[x.to] # Absent
      BY <1>1 DEF OriginInv, LogOfVersions, EvoTypeOK
    <3>. QED
      BY <3>1, CatalogGrows
  <2>. QED
    BY <2>1 DEF LogOfVersions
<1>3. OneOrigin'
  <2>1. ASSUME NEW x \in changelog', NEW y \in changelog', x.to = y.to
        PROVE  x = y
    BY <1>1, <2>1 DEF OriginInv, OneOrigin
  <2>. QED
    BY <2>1 DEF OneOrigin
<1>. QED
  BY <1>2, <1>3

\* A request that comes to write the changelog has just made a version that was not
\* there, so neither the changelog nor another request knows it.
LEMMA FirstStep ==
  ASSUME EvoTypeOK, OriginInv, [EvoNext]_evoVars
  PROVE  LogsFirst' /\ LogsApart'
<1>1. ASSUME NEW b \in Admins, job'[b].stage = "log", job'[b] # job[b]
      PROVE  /\ CreateVersion(b) /\ job'[b].to = job[b].to
             /\ job[b].to \in Versions /\ catalog[job[b].to] = Absent
  <2>1. job'[b].stage \in ApprovalStages /\ job'[b].stage # "source"
    BY <1>1 DEF ApprovalStages
  <2>2. /\ job[b] \in Approving
        /\ CreateVersion(b) /\ job'[b].to = job[b].to /\ catalog[job[b].to] = Absent
    BY <1>1, <2>1, ApprovalMoves
  <2>. QED
    BY <2>2 DEF Approving
<1>2. ASSUME NEW b \in Admins, job'[b].stage = "log", job'[b] = job[b]
      PROVE  job[b].stage = "log" /\ job[b].to \in Versions
  BY <1>2, JobShape DEF ApprovalStages, Approving
<1>3. LogsFirst'
  <2>1. ASSUME NEW b \in Admins, job'[b].stage = "log"
        PROVE  /\ catalog'[job'[b].to] # Absent
               /\ \A x \in changelog' : x.to # job'[b].to
    <3>1. CASE job'[b] # job[b]
      <4>1. /\ CreateVersion(b) /\ job'[b].to = job[b].to
            /\ job[b].to \in Versions /\ catalog[job[b].to] = Absent
        BY <1>1, <2>1, <3>1
      <4>2. catalog'[job[b].to] # Absent /\ changelog' = changelog
        BY <4>1 DEF EvoTypeOK, CreateVersion, Absent
      <4>. QED
        BY <4>1, <4>2 DEF OriginInv, LogOfVersions
    <3>2. CASE job'[b] = job[b]
      <4>1. job[b].stage = "log" /\ job[b].to \in Versions
        BY <1>2, <2>1, <3>2
      <4>2. catalog'[job[b].to] # Absent
        BY <4>1, CatalogGrows DEF OriginInv, LogsFirst
      <4>3. ASSUME NEW x \in changelog', x.to = job[b].to
            PROVE  FALSE
        <5>1. x \notin changelog
          BY <4>1, <4>3 DEF OriginInv, LogsFirst
        <5>2. PICK a \in Admins :
                WriteChangelog(a) /\ job[a].stage = "log" /\ x = LogRow(a)
          BY <5>1, NewRows
        <5>3. a # b
          BY <2>1, <5>2, WriterMarksNext
        <5>4. x.to = job[a].to
          BY <5>2 DEF LogRow
        <5>. QED
          BY <4>1, <4>3, <5>2, <5>3, <5>4 DEF OriginInv, LogsApart
      <4>. QED
        BY <3>2, <4>2, <4>3
    <3>. QED
      BY <3>1, <3>2
  <2>. QED
    BY <2>1 DEF LogsFirst
<1>4. LogsApart'
  <2>1. ASSUME NEW b \in Admins, NEW c \in Admins, b # c,
               job'[b].stage = "log", job'[c].stage = "log", job'[b] # job[b]
        PROVE  job'[b].to # job'[c].to
    <3>1. /\ CreateVersion(b) /\ job'[b].to = job[b].to
          /\ catalog[job[b].to] = Absent
      BY <1>1, <2>1
    <3>2. job'[c] = job[c]
      BY <2>1, <3>1 DEF EvoTypeOK, CreateVersion, Leave, Proceed
    <3>3. job[c].stage = "log"
      BY <1>2, <2>1, <3>2
    <3>. QED
      BY <3>1, <3>2, <3>3 DEF OriginInv, LogsFirst
  <2>2. ASSUME NEW b \in Admins, NEW c \in Admins, b # c,
               job'[b].stage = "log", job'[c].stage = "log"
        PROVE  job'[b].to # job'[c].to
    <3>1. CASE job'[b] # job[b]
      BY <2>1, <2>2, <3>1
    <3>2. CASE job'[c] # job[c]
      <4>1. job'[c].to # job'[b].to
        BY <2>1, <2>2, <3>2
      <4>. QED
        BY <4>1
    <3>3. CASE job'[b] = job[b] /\ job'[c] = job[c]
      BY <2>2, <3>3 DEF OriginInv, LogsApart
    <3>. QED
      BY <3>1, <3>2, <3>3
  <2>. QED
    BY <2>2 DEF LogsApart
<1>. QED
  BY <1>3, <1>4

\* A request that comes to mark its proposal has just written the changelog.
LEMMA MarksStep ==
  ASSUME EvoTypeOK, OriginInv, MarksLast, [EvoNext]_evoVars
  PROVE  MarksLast'
<1>1. ASSUME NEW b \in Admins, job'[b].stage = "mark"
      PROVE  /\ catalog'[job'[b].to] # Absent
             /\ [proposal |-> job'[b].proposal, from |-> job'[b].from, to |-> job'[b].to]
                  \in changelog'
  <2>1. CASE job'[b] = job[b]
    <3>1. job[b].stage = "mark" /\ job[b].to \in Versions
      BY <1>1, <2>1, JobShape DEF ApprovalStages, Approving
    <3>2. LogRow(b) \in changelog'
      BY <3>1, ChangelogGrows DEF MarksLast
    <3>. QED
      BY <2>1, <3>1, <3>2, CatalogGrows DEF MarksLast, LogRow
  <2>2. CASE job'[b] # job[b]
    <3>1. job'[b].stage \in ApprovalStages /\ job'[b].stage # "source"
      BY <1>1 DEF ApprovalStages
    <3>2. /\ job[b] \in Approving /\ WriteChangelog(b)
          /\ job'[b].proposal = job[b].proposal
          /\ job'[b].from = job[b].from /\ job'[b].to = job[b].to
      BY <1>1, <2>2, <3>1, ApprovalMoves
    <3>3. catalog[job[b].to] # Absent
      BY <3>2 DEF OriginInv, LogsFirst, WriteChangelog, InStage
    <3>. QED
      BY <3>2, <3>3 DEF WriteChangelog, LogRow
  <2>. QED
    BY <2>1, <2>2
<1>. QED
  BY <1>1 DEF MarksLast, LogRow

\* Only the request that marks a proposal makes it IMPLEMENTED.
LEMMA ImplementedStep ==
  ASSUME EvoTypeOK, JobsKnow, MarksLast, ImplementedIsBacked, [EvoNext]_evoVars
  PROVE  ImplementedIsBacked'
<1>1. ASSUME NEW p \in Proposals, proposal'[p].status = "IMPLEMENTED"
      PROVE  /\ catalog'[proposal'[p].version] # Absent
             /\ [proposal |-> p, from |-> proposal'[p].from, to |-> proposal'[p].version]
                  \in changelog'
  <2>1. CASE proposal'[p] = proposal[p]
    <3>1. proposal[p].version \in Versions
      BY <1>1, <2>1, ProposalShape
    <3>. QED
      BY <1>1, <2>1, <3>1, CatalogGrows, ChangelogGrows DEF ImplementedIsBacked
  <2>2. CASE proposal'[p] # proposal[p]
    <3>1. ASSUME NEW q \in Proposals, Reject(q)
          PROVE  FALSE
      <4>1. q = p
        BY <2>2, <3>1 DEF EvoTypeOK, Reject
      <4>2. proposal'[p] = [proposal[p] EXCEPT !.status = "REJECTED"]
        BY <3>1, <4>1 DEF EvoTypeOK, Reject
      <4>3. proposal[p] \in Born
        BY <3>1, <4>1, ProposalShape DEF Reject
      <4>. QED
        BY <1>1, <4>2, <4>3 DEF Born
    <3>2. ASSUME NEW a \in Admins, Propose(a)
          PROVE  FALSE
      BY <1>1, <2>2, <3>2 DEF EvoTypeOK, Propose
    <3>3. PICK a \in Admins : MarkImplemented(a)
      BY <2>2, <3>1, <3>2
      DEF EvoNext, evoVars, ApplyRules, ReadProposal, SkipDuplicate, ReadSource,
          CheckVersion, CreateVersion, WriteChangelog, FailJob, CreateStrategy,
          SetPublishStatus
    <3>4. job[a].stage = "mark" /\ job[a].stage \in ApprovalStages
      BY <3>3 DEF MarkImplemented, InStage, ApprovalStages
    <3>5. job[a].proposal = p
      BY <2>2, <3>3 DEF EvoTypeOK, MarkImplemented
    <3>6. /\ proposal'[p].from = proposal[p].from
          /\ proposal'[p].version = job[a].to
          /\ UNCHANGED <<catalog, changelog>>
      BY <3>3, <3>5 DEF EvoTypeOK, MarkImplemented
    <3>7. proposal[p].from = job[a].from
      BY <3>4, <3>5 DEF JobsKnow
    <3>8. catalog[job[a].to] # Absent /\ LogRow(a) \in changelog
      BY <3>4 DEF MarksLast
    <3>. QED
      BY <3>5, <3>6, <3>7, <3>8 DEF LogRow
  <2>. QED
    BY <2>1, <2>2
<1>. QED
  BY <1>1 DEF ImplementedIsBacked

-----------------------------------------------------------------------------
(* Theorems *)

\* The invariant holds in every state of an execution.
THEOREM EvoInvariant == EvoSpec => []EvoInv
<1>1. EvoInit => EvoInv
  <2>. SUFFICES ASSUME EvoInit
                PROVE  EvoInv
    OBVIOUS
  <2>1. EvoTypeOK
    BY EvolutionAssumption DEF EvoInit, EvoTypeOK, PublishStatus, Versions
  <2>2. JobsKnow /\ MarksLast /\ LogsFirst /\ LogsApart
    BY DEF EvoInit, JobsKnow, MarksLast, LogsFirst, LogsApart, ApprovalStages, Free
  <2>3. LogOfVersions /\ OneOrigin /\ ImplementedIsBacked
    BY DEF EvoInit, LogOfVersions, OneOrigin, ImplementedIsBacked, Unborn
  <2>. QED
    BY <2>1, <2>2, <2>3 DEF EvoInv, OriginInv
<1>2. EvoInv /\ [EvoNext]_evoVars => EvoInv'
  <2>. SUFFICES ASSUME EvoInv, [EvoNext]_evoVars
                PROVE  EvoInv'
    OBVIOUS
  <2>1. EvoTypeOK' /\ JobsKnow'
    BY EvoTypeStep, JobsKnowStep DEF EvoInv
  <2>2. OriginInv'
    BY LogStep, FirstStep DEF EvoInv, OriginInv
  <2>3. MarksLast' /\ ImplementedIsBacked'
    BY MarksStep, ImplementedStep DEF EvoInv
  <2>. QED
    BY <2>1, <2>2, <2>3 DEF EvoInv
<1>. QED
  BY <1>1, <1>2, PTL DEF EvoSpec

\* Every variable keeps its shape.
THEOREM EvoTypeCorrect == EvoSpec => []EvoTypeOK
<1>1. EvoInv => EvoTypeOK
  BY DEF EvoInv
<1>. QED
  BY <1>1, EvoInvariant, PTL

\* What an IMPLEMENTED proposal names is in the catalog and in the changelog.
THEOREM ImplementedHolds == EvoSpec => []ImplementedIsBacked
<1>1. EvoInv => ImplementedIsBacked
  BY DEF EvoInv
<1>. QED
  BY <1>1, EvoInvariant, PTL

\* A version has one origin, however approvals overlap.
THEOREM OneOriginHolds == EvoSpec => []OneOrigin
<1>1. EvoInv => OneOrigin
  BY DEF EvoInv, OriginInv
<1>. QED
  BY <1>1, EvoInvariant, PTL

\* A settled proposal is not touched by any step: only an approval that had already
\* read it as pending could, and there is none.
THEOREM DecisionIsFinal == EvoSpec => DecisionStands
<1>1. EvoTypeOK /\ [EvoNext]_evoVars =>
        [\A p \in Proposals :
           Settled(p) => Settled(p)' /\ proposal'[p] = proposal[p]]_evoVars
  <2>. SUFFICES ASSUME EvoTypeOK, [EvoNext]_evoVars, NEW p \in Proposals, Settled(p)
                PROVE  Settled(p)' /\ proposal'[p] = proposal[p]
    OBVIOUS
  <2>1. proposal'[p] = proposal[p]
    <3>1. ASSUME NEW q \in Proposals, Reject(q)
          PROVE  proposal'[p] = proposal[p]
      BY <3>1 DEF EvoTypeOK, Reject, Settled
    <3>2. ASSUME NEW a \in Admins, Propose(a)
          PROVE  proposal'[p] = proposal[p]
      BY <3>2 DEF EvoTypeOK, Propose, Settled, Unborn
    <3>3. ASSUME NEW a \in Admins, MarkImplemented(a)
          PROVE  proposal'[p] = proposal[p]
      <4>1. job[a] \in Approving
        BY <3>3, JobShape DEF MarkImplemented, InStage, ApprovalStages
      <4>2. job[a].proposal # p
        BY <4>1 DEF Settled, UnderApproval
      <4>. QED
        BY <3>3, <4>2 DEF EvoTypeOK, MarkImplemented
    <3>. QED
      BY <3>1, <3>2, <3>3
      DEF EvoNext, evoVars, ApplyRules, ReadProposal, SkipDuplicate, ReadSource,
          CheckVersion, CreateVersion, WriteChangelog, FailJob, CreateStrategy,
          SetPublishStatus
  <2>2. ASSUME NEW b \in Admins, job'[b] \in Approving, job'[b].proposal = p
        PROVE  FALSE
    <3>1. CASE job'[b] = job[b]
      BY <2>2, <3>1 DEF Settled, UnderApproval
    <3>2. CASE job'[b] # job[b]
      <4>1. job'[b].stage \in ApprovalStages
        BY <2>2 DEF Approving, ApprovalStages
      <4>. QED
        BY <2>2, <3>2, <4>1, ApprovalMoves DEF Settled, UnderApproval
    <3>. QED
      BY <3>1, <3>2
  <2>3. ~UnderApproval(p)'
    BY <2>2 DEF UnderApproval
  <2>. QED
    BY <2>1, <2>3 DEF Settled
<1>. QED
  BY <1>1, EvoTypeCorrect, PTL DEF EvoSpec, DecisionStands
=============================================================================
