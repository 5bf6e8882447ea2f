------------------------------ MODULE BrokerVault ------------------------------
(***************************************************************************)
(* One user's broker connections: the row of s004_user_master_settings as  *)
(* services/broker_accounts.py reads and writes it, the requests that      *)
(* change it (routes_brokers, routes_settings), the platform's shared row  *)
(* (routes_admin), and the calls that pick a session from them             *)
(* (broker_runtime.resolve_broker_context).                                *)
(*                                                                         *)
(* The Zerodha token is stored twice, in the encrypted blob and in         *)
(* credentials_json, and a load merges the two.  Every request reads the   *)
(* row, awaits, and writes the whole blob back.  A token stands for the    *)
(* key and token of one login; a blob that does not exist is an empty one. *)
(***************************************************************************)
EXTENDS Integers

CONSTANTS
    VaultJobs,       \* tasks that serve requests which change a connection
    BrokerCalls,     \* tasks that resolve a session: LIVE orders, PAPER quotes
    MaxLogins        \* bound on the tokens the brokers hand out

ASSUME VaultAssumption == MaxLogins \in Nat

VARIABLES
    keySet,          \* S004_CREDENTIALS_FERNET_KEY is set for the server
    master,          \* cipher (the blob), cred, active, connected
    shared,          \* s004_platform_broker_shared: code, and whether it has a blob
    visit,           \* what each VaultJob is doing
    call,            \* what each BrokerCall is doing
    issued,          \* number of tokens handed out so far
    page,            \* cred and connected as a settings page shows them
    owed,            \* history: what the last request for each broker stored
    torn,            \* history: brokers whose entry may be an older one again
    seen             \* history: the user's tokens each call could have met

vaultVars == <<keySet, master, shared, visit, call, issued, page, owed, torn, seen>>

BrokerCodes == {"zerodha", "fyers"}
NoToken == 0
SharedToken == -1    \* the platform's session
ServerToken == -2    \* ZERODHA_ACCESS_TOKEN of the server's environment
UserTokens == 1..MaxLogins
Stored == UserTokens \cup {NoToken}
Vaults == [BrokerCodes -> Stored]
Empty == [b \in BrokerCodes |-> NoToken]
Other(b) == IF b = "zerodha" THEN "fyers" ELSE "zerodha"

Rows == [cipher : Vaults, cred : Stored, active : BrokerCodes \cup {"none"},
         connected : BOOLEAN]

JobOps == {"connect", "disconnect", "activate"}
JobStages == {"active", "load", "write", "flag"}
NoJob == [stage |-> "idle"]
Jobs == [stage : JobStages, op : JobOps, broker : BrokerCodes, token : Stored,
         prev : BrokerCodes \cup {"none"}, vault : Vaults, alone : BOOLEAN]

CallStages == {"active", "guess", "zerodha", "fyers", "probe", "shared"}
Sources == {"user_fyers", "user_zerodha", "platform_shared",
            "platform_only_unavailable", "none"}
NoCallYet == [stage |-> "idle"]
Resolving == [stage : CallStages, mode : {"PAPER", "LIVE"}, admin : BOOLEAN,
              active : BrokerCodes \cup {"none"}, found : Vaults,
              left : SUBSET BrokerCodes]
Resolved == [stage : {"done"}, mode : {"PAPER", "LIVE"}, source : Sources,
             token : UserTokens \cup {NoToken, SharedToken, ServerToken}]

VaultInit ==
    /\ keySet \in BOOLEAN
    /\ master = [cipher |-> Empty, cred |-> NoToken, active |-> "none",
              connected |-> FALSE]
    /\ shared = [code |-> "zerodha", filled |-> FALSE]
    /\ visit = [j \in VaultJobs |-> NoJob]
    /\ call = [c \in BrokerCalls |-> NoCallYet]
    /\ issued = 0
    /\ page = [cred |-> NoToken, connected |-> FALSE]
    /\ owed = Empty
    /\ torn = {}
    /\ seen = [c \in BrokerCalls |-> {}]

-----------------------------------------------------------------------------
(* The row *)

\* Mutant of MergedVault: the blob alone.
BlobOnly(r) == IF keySet THEN r.cipher ELSE Empty

\* load_merged_vault: a Zerodha token in credentials_json stands over that of the blob.
MergedVault(r) ==
    [b \in BrokerCodes |->
        IF b = "zerodha" /\ r.cred # NoToken THEN r.cred
        ELSE IF keySet THEN r.cipher[b] ELSE NoToken]

TokensOf(r) == {MergedVault(r)[b] : b \in BrokerCodes} \ {NoToken}

WriteRow(r) ==
    /\ master' = r
    /\ seen' = [c \in BrokerCalls |->
                  IF call[c].stage \in CallStages THEN seen[c] \cup TokensOf(r)
                  ELSE seen[c]]

\* Mutant of Saved: credentials_json is left as it was.
SavedUnsynced(v, active, connected) ==
    [cipher |-> IF keySet THEN v ELSE Empty, cred |-> master.cred,
     active |-> IF active = "none" THEN master.active ELSE active,
     connected |-> connected]

\* save_user_vault: the whole blob and credentials_json; active_broker = None leaves
\* the active broker as it is.
Saved(v, active, connected) ==
    [cipher |-> IF keySet THEN v ELSE Empty, cred |-> v["zerodha"],
     active |-> IF active = "none" THEN master.active ELSE active,
     connected |-> connected]

\* What the write of a request for broker b makes of the history: the entry of b is
\* settled if no other request overlapped, otherwise nothing can be said of either.
Settle(b, token, alone) ==
    /\ owed' = [owed EXCEPT ![b] = token]
    /\ torn' = IF alone THEN torn \ {b} ELSE BrokerCodes

-----------------------------------------------------------------------------
(* Requests that change a connection *)

\* A request starts: whatever is in flight is overlapped from now on.
BeginJob(j, op, b, token, stage) ==
    /\ visit[j] = NoJob
    /\ visit' = [x \in VaultJobs |->
                 IF x = j
                   THEN [stage |-> stage, op |-> op, broker |-> b, token |-> token,
                         prev |-> "none", vault |-> Empty,
                         alone |-> \A y \in VaultJobs \ {j} : visit[y] = NoJob]
                 ELSE IF visit[x] = NoJob THEN NoJob
                 ELSE [visit[x] EXCEPT !.alone = FALSE]]

JobAt(j, op, stage) == visit[j] # NoJob /\ visit[j].op = op /\ visit[j].stage = stage
EndJob(j) == visit' = [visit EXCEPT ![j] = NoJob]

\* post_fyers_connect, connect_zerodha up to the profile that the broker answered with.
\* FYERS is refused without the key.
Connect(j, b) ==
    /\ b = "fyers" => keySet
    /\ issued < MaxLogins
    /\ issued' = issued + 1
    /\ BeginJob(j, "connect", b, issued + 1,
                IF keySet THEN "load" ELSE "write")
    /\ UNCHANGED <<keySet, master, shared, call, page, owed, torn, seen>>

\* connect_zerodha when Kite refuses: the flag is cleared, the stored tokens stay.
ConnectRefused ==
    /\ WriteRow([master EXCEPT !.connected = FALSE])
    /\ UNCHANGED <<keySet, shared, visit, call, issued, page, owed, torn>>

\* disconnect_zerodha, post_fyers_disconnect up to their first SELECT.
Disconnect(j, b) ==
    /\ BeginJob(j, "disconnect", b, NoToken, "active")
    /\ UNCHANGED <<keySet, master, shared, call, issued, page, owed, torn, seen>>

ReadPrevious(j) ==
    /\ JobAt(j, "disconnect", "active")
    /\ visit' = [visit EXCEPT ![j].prev = master.active, ![j].stage = "load"]
    /\ UNCHANGED <<keySet, master, shared, call, issued, page, owed, torn, seen>>

\* put_active_broker
Activate(j, b) ==
    /\ BeginJob(j, "activate", b, NoToken, "load")
    /\ UNCHANGED <<keySet, master, shared, call, issued, page, owed, torn, seen>>

\* load_merged_vault; an activation of a broker without a token is refused.
LoadVault(j) ==
    LET vault == MergedVault(master) IN
    /\ visit[j] # NoJob /\ visit[j].stage = "load"
    /\ IF visit[j].op = "activate" /\ vault[visit[j].broker] = NoToken
         THEN EndJob(j)
         ELSE visit' = [visit EXCEPT ![j].vault = vault, ![j].stage = "write"]
    /\ UNCHANGED <<keySet, master, shared, call, issued, page, owed, torn, seen>>

\* The write of a connect: the blob with the new entry, or, without a key,
\* credentials_json.
StoreConnection(j) ==
    LET b == visit[j].broker IN
    /\ JobAt(j, "connect", "write")
    /\ IF keySet
         THEN WriteRow(Saved([visit[j].vault EXCEPT ![b] = visit[j].token], b, TRUE))
         ELSE WriteRow([master EXCEPT !.cred = visit[j].token, !.active = "zerodha",
                                   !.connected = TRUE])
    /\ Settle(b, visit[j].token, visit[j].alone)
    /\ EndJob(j)
    /\ UNCHANGED <<keySet, shared, call, issued, page>>

\* The broker that is active after a disconnect, "none" for None.
NextActive(j) ==
    LET b == visit[j].broker
        rest == visit[j].vault[Other(b)] # NoToken IN
    IF visit[j].prev = b THEN IF rest THEN Other(b) ELSE "none"
    ELSE IF b = "fyers" /\ visit[j].prev = "none" /\ rest THEN "zerodha"
    ELSE visit[j].prev

\* The write of a disconnect.  Without a key only disconnect_zerodha has a statement of
\* its own, which does set active_broker_code to NULL.
StoreDisconnect(j) ==
    LET b == visit[j].broker
        vault == [visit[j].vault EXCEPT ![b] = NoToken]
        rest == vault[Other(b)] # NoToken IN
    /\ JobAt(j, "disconnect", "write")
    /\ IF keySet \/ b = "fyers"
         THEN WriteRow(Saved(vault, NextActive(j), rest))
         ELSE WriteRow([master EXCEPT !.cred = NoToken, !.active = NextActive(j),
                                   !.connected = rest])
    /\ Settle(b, NoToken, visit[j].alone)
    /\ IF b = "fyers" /\ ~rest THEN visit' = [visit EXCEPT ![j].stage = "flag"]
       ELSE EndJob(j)
    /\ UNCHANGED <<keySet, shared, call, issued, page>>

\* post_fyers_disconnect clears broker_connected once more.
ClearFlag(j) ==
    /\ JobAt(j, "disconnect", "flag")
    /\ WriteRow([master EXCEPT !.connected = FALSE])
    /\ EndJob(j)
    /\ UNCHANGED <<keySet, shared, call, issued, page, owed, torn>>

StoreActive(j) ==
    /\ JobAt(j, "activate", "write")
    /\ WriteRow([master EXCEPT !.active = visit[j].broker])
    /\ EndJob(j)
    /\ UNCHANGED <<keySet, shared, call, issued, page, owed, torn>>

\* A request ends where it is: an exception, a client that left, a restart.
DropJob(j) ==
    /\ visit[j] # NoJob
    /\ EndJob(j)
    /\ UNCHANGED <<keySet, master, shared, call, issued, page, owed, torn, seen>>

\* The server comes back with the key set; tokens stored before are in credentials_json
\* only.
ConfigureKey ==
    /\ ~keySet
    /\ keySet' = TRUE
    /\ visit' = [j \in VaultJobs |-> NoJob]
    /\ call' = [c \in BrokerCalls |-> NoCallYet]
    /\ UNCHANGED <<master, shared, issued, page, owed, torn, seen>>

\* GET /settings, and the PUT /settings of a page that was loaded some time ago: it
\* writes credentials_json and broker_connected back as the page shows them.
OpenSettings ==
    /\ page' = [cred |-> master.cred, connected |-> master.connected]
    /\ UNCHANGED <<keySet, master, shared, visit, call, issued, owed, torn, seen>>

PutSettings ==
    /\ WriteRow([master EXCEPT !.cred = page.cred, !.connected = page.connected])
    /\ torn' = IF page.cred = master.cred THEN torn ELSE torn \cup {"zerodha"}
    /\ visit' = [j \in VaultJobs |->
                 IF visit[j] = NoJob THEN NoJob ELSE [visit[j] EXCEPT !.alone = FALSE]]
    /\ UNCHANGED <<keySet, shared, call, issued, page, owed>>

\* save_platform_shared_vault: the row takes the new code and the new blob;
\* clear_platform_shared keeps the code.
SharedRow(b) == [code |-> b, filled |-> TRUE]

PutShared(b) ==
    /\ keySet
    /\ shared' = SharedRow(b)
    /\ UNCHANGED <<keySet, master, visit, call, issued, page, owed, torn, seen>>

ClearShared ==
    /\ shared' = [shared EXCEPT !.filled = FALSE]
    /\ UNCHANGED <<keySet, master, visit, call, issued, page, owed, torn, seen>>

-----------------------------------------------------------------------------
(* resolve_broker_context *)

BeginCall(c, mode, admin) ==
    /\ call[c].stage \in {"idle", "done"}
    /\ call' = [call EXCEPT ![c] = [stage |-> "active", mode |-> mode, admin |-> admin,
                                    active |-> "none", found |-> Empty, left |-> {}]]
    /\ seen' = [seen EXCEPT ![c] = TokensOf(master)]
    /\ UNCHANGED <<keySet, master, shared, visit, issued, page, owed, torn>>

CallKeeps == UNCHANGED <<keySet, master, shared, visit, issued, page, owed, torn, seen>>

\* get_active_broker_code: the column, or else (a second SELECT) the broker that has a
\* token, Zerodha first.
ReadActiveCode(c) ==
    /\ call[c].stage = "active"
    /\ call' = IF master.active = "none" THEN [call EXCEPT ![c].stage = "guess"]
               ELSE [call EXCEPT ![c].active = master.active, ![c].stage = "zerodha"]
    /\ CallKeeps

GuessActive(c) ==
    LET vault == MergedVault(master) IN
    /\ call[c].stage = "guess"
    /\ call' = [call EXCEPT ![c].stage = "zerodha",
                            ![c].active = IF vault["zerodha"] # NoToken THEN "zerodha"
                                          ELSE IF vault["fyers"] # NoToken THEN "fyers"
                                          ELSE "none"]
    /\ CallKeeps

\* user_zerodha_kite: env_fallback takes the server's token when the user has none.
ZerodhaSession(envFallback) ==
    LET z == MergedVault(master)["zerodha"] IN
    IF z # NoToken THEN z ELSE IF envFallback THEN ServerToken ELSE NoToken

\* Mutant of ReadZerodha: the parameter's default, env_fallback = True.
ReadZerodhaEnv(c) ==
    /\ call[c].stage = "zerodha"
    /\ call' = [call EXCEPT ![c].found["zerodha"] = ZerodhaSession(TRUE),
                            ![c].stage = "fyers"]
    /\ CallKeeps

\* _resolve_user_provider asks without the fallback, whichever broker is active.
ReadZerodha(c) ==
    /\ call[c].stage = "zerodha"
    /\ call' = [call EXCEPT ![c].found["zerodha"] = ZerodhaSession(FALSE),
                            ![c].stage = "fyers"]
    /\ CallKeeps

\* user_fyers_client; the brokers with a provider are left to try.
ReadFyers(c) ==
    LET found == [call[c].found EXCEPT !["fyers"] = MergedVault(master)["fyers"]] IN
    /\ call[c].stage = "fyers"
    /\ call' = [call EXCEPT
                  ![c].found = found, ![c].stage = "probe",
                  ![c].left = {b \in BrokerCodes : found[b] # NoToken}]
    /\ CallKeeps

Finished(c, source, token) ==
    call' = [call EXCEPT ![c] = [stage |-> "done", mode |-> call[c].mode,
                                 source |-> source, token |-> token]]

\* The next broker to try: the active one, then FYERS, then Zerodha.
Preferred(c) ==
    IF call[c].active \in call[c].left THEN call[c].active
    ELSE IF "fyers" \in call[c].left THEN "fyers" ELSE "zerodha"

\* session_ok of the next provider; an exception is a "no".
Probe(c) ==
    /\ call[c].stage = "probe" /\ call[c].left # {}
    /\ \/ Finished(c, IF Preferred(c) = "fyers" THEN "user_fyers" ELSE "user_zerodha",
                   call[c].found[Preferred(c)])
       \/ call' = [call EXCEPT ![c].left = @ \ {Preferred(c)}]
    /\ CallKeeps

\* No provider of the user's own is live: only PAPER of a non-admin goes on.
NoneLive(c) ==
    /\ call[c].stage = "probe" /\ call[c].left = {}
    /\ IF call[c].mode = "PAPER" /\ ~call[c].admin
         THEN call' = [call EXCEPT ![c].stage = "shared"]
         ELSE Finished(c, "none", NoToken)
    /\ CallKeeps

\* Mutant of NoneLive: the mode is not looked at.
NoneLiveAnyMode(c) ==
    /\ call[c].stage = "probe" /\ call[c].left = {}
    /\ IF ~call[c].admin THEN call' = [call EXCEPT ![c].stage = "shared"]
       ELSE Finished(c, "none", NoToken)
    /\ CallKeeps

\* platform_shared_zerodha_kite, platform_shared_fyers_client: a session needs the blob
\* and the key that opens it.
SharedUsable == shared.filled /\ keySet

\* _resolve_platform_shared_provider, and platform_shared_slot_configured when it
\* answers None: a slot that is filled between the two is "unavailable".
UseShared(c) ==
    /\ call[c].stage = "shared"
    /\ \/ SharedUsable /\ Finished(c, "platform_shared", SharedToken)
       \/ SharedUsable /\ Finished(c, "platform_only_unavailable", NoToken)
       \/ ~SharedUsable /\ Finished(c, "none", NoToken)
    /\ CallKeeps

VaultNext ==
    \/ \E j \in VaultJobs :
         \/ \E b \in BrokerCodes : Connect(j, b) \/ Disconnect(j, b) \/ Activate(j, b)
         \/ ReadPrevious(j) \/ LoadVault(j) \/ StoreConnection(j) \/ StoreDisconnect(j)
         \/ ClearFlag(j) \/ StoreActive(j) \/ DropJob(j)
    \/ ConfigureKey \/ ConnectRefused \/ OpenSettings \/ PutSettings \/ ClearShared
    \/ \E b \in BrokerCodes : PutShared(b)
    \/ \E c \in BrokerCalls :
         \/ \E mode \in {"PAPER", "LIVE"}, admin \in BOOLEAN : BeginCall(c, mode, admin)
         \/ ReadActiveCode(c) \/ GuessActive(c) \/ ReadZerodha(c) \/ ReadFyers(c)
         \/ Probe(c) \/ NoneLive(c) \/ UseShared(c)

VaultSpec == VaultInit /\ [][VaultNext]_vaultVars

-----------------------------------------------------------------------------
(* Properties *)

\* Every variable keeps its shape.
VaultTypeOK ==
    /\ keySet \in BOOLEAN
    /\ master \in Rows
    /\ shared \in [code : BrokerCodes, filled : BOOLEAN]
    /\ visit \in [VaultJobs -> {NoJob} \cup Jobs]
    /\ call \in [BrokerCalls -> {NoCallYet} \cup Resolving \cup Resolved]
    /\ issued \in 0..MaxLogins
    /\ page \in [cred : Stored, connected : BOOLEAN]
    /\ owed \in Vaults
    /\ torn \subseteq BrokerCodes
    /\ seen \in [BrokerCalls -> SUBSET UserTokens]

\* What a load of the vault gives for a broker is what the last request for that
\* broker stored: the two copies of the Zerodha token never disagree so that a
\* disconnected one comes back or a new one is hidden, and a request for one broker
\* keeps the other's entry.  Only requests that overlapped, or a settings page older
\* than the row, can put an older entry back.
StoredAsAnswered ==
    \A b \in BrokerCodes \ torn : MergedVault(master)[b] = owed[b]

\* A LIVE order goes out with a token that was in this user's own vault at some moment
\* of the call, never with the platform's shared session or the server's token,
\* whatever is connected, disconnected or expires while the call picks its session.
LiveOnOwnSession ==
    \A c \in BrokerCalls :
        call[c].stage = "done" /\ call[c].mode = "LIVE" /\ call[c].source # "none" =>
            call[c].token \in seen[c]
=============================================================================
