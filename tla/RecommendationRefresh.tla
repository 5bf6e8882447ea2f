------------------------- MODULE RecommendationRefresh -------------------------
(***************************************************************************)
(* trades_service.ensure_recommendations: the refresh of the rows of       *)
(* s004_trade_recommendations of one strategy.  Each user has a throttle   *)
(* (_REC_CACHE_TS) and a lock, but a refresh that is run for one user      *)
(* writes the rows and the throttles of all users subscribed to the        *)
(* strategy, each with an UPDATE or DELETE of its own, while the refreshes *)
(* of the others, the executions and a change of a user's intent go on.    *)
(***************************************************************************)
EXTENDS Naturals

CONSTANTS
    Users,       \* the users with an ACTIVE subscription to the strategy
    Admins,      \* those of them who are ADMIN
    Tasks,       \* requests and loop iterations that call the refresh
    UserOf,      \* Tasks -> Users: whose refresh they ask for
    Symbols,     \* option contracts
    MaxMoves,    \* bound: changes of the market
    MaxSaves,    \* bound: changes of an intent
    MaxFaults    \* bound: refreshes that fail or are cancelled

Free == "free"           \* who has a lock that nobody holds

ASSUME RefreshAssumption ==
    /\ Free \notin Tasks
    /\ Admins \subseteq Users
    /\ UserOf \in [Tasks -> Users]
    /\ {MaxMoves, MaxSaves, MaxFaults} \subseteq Nat

VARIABLES
    status,      \* status of each row, by user and id
    intent,      \* tradeActionIntent in the settings of each user
    throttled,   \* users whose _REC_CACHE_TS is less than 20 s old
    holder,      \* who has each user's lock
    run,         \* the refresh each task is in
    saver,       \* where PUT .../intent of each user is
    market,      \* the symbols the strategy would recommend now
    left         \* what is left of the bounds

refreshVars == <<status, intent, throttled, holder, run, saver, market, left>>

Intents == {"long_premium", "short_premium"}

\* _stable_recommendation_id hashes user, strategy, symbol and side; the side
\* follows from the intent.
Ids == Symbols \X Intents

NoRun == [pc |-> "idle"]
RunStages == {"lock", "session", "params", "fetch", "clear", "cleared",
              "delete", "deleted", "upsert", "stamp"}
Run == [pc : RunStages, intent : Intents, found : SUBSET Symbols,
        todo : SUBSET (Users \cup (Users \X Symbols)), at : Users]

\* subscribed_users: an admin's refresh is for the admin alone.
Peers(u) == IF u \in Admins THEN {u} ELSE Users

Mine(t) == UserOf[t]
At(t, pc) == run[t].pc = pc
Goto(t, pc) == run' = [run EXCEPT ![t].pc = pc]
Finish(t) ==
    /\ run' = [run EXCEPT ![t] = NoRun]
    /\ holder' = [holder EXCEPT ![Mine(t)] = IF @ = t THEN Free ELSE @]
Rows == UNCHANGED <<status, intent>>
World == UNCHANGED <<saver, market>>

Generated(u) == {i \in Ids : status[u][i] = "GENERATED"}

RefreshInit ==
    /\ status = [u \in Users |-> [i \in Ids |-> "absent"]]
    /\ intent \in [Users -> Intents]
    /\ throttled = {}
    /\ holder = [u \in Users |-> Free]
    /\ run = [t \in Tasks |-> NoRun]
    /\ saver = [u \in Users |-> "idle"]
    /\ market \in SUBSET Symbols
    /\ left = [moves |-> MaxMoves, saves |-> MaxSaves, faults |-> MaxFaults]

-----------------------------------------------------------------------------
(* ensure_recommendations *)

\* The fast path: a throttled call returns at once.
Enter(t) ==
    /\ run[t] = NoRun
    /\ Mine(t) \notin throttled
    /\ run' = [run EXCEPT ![t] = [pc |-> "lock", intent |-> intent[Mine(t)],
                                  found |-> {}, todo |-> {}, at |-> Mine(t)]]
    /\ Rows /\ World /\ UNCHANGED <<throttled, holder, left>>

\* Mutant of Lock: async with lock is gone.
LockNot(t) ==
    /\ At(t, "lock")
    /\ IF Mine(t) \in throttled
         THEN run' = [run EXCEPT ![t] = NoRun]
         ELSE Goto(t, "session")
    /\ Rows /\ World /\ UNCHANGED <<throttled, holder, left>>

\* With the lock the throttle is looked at again.
Lock(t) ==
    /\ At(t, "lock")
    /\ holder[Mine(t)] = Free
    /\ IF Mine(t) \in throttled
         THEN run' = [run EXCEPT ![t] = NoRun] /\ UNCHANGED holder
         ELSE Goto(t, "session") /\ holder' = [holder EXCEPT ![Mine(t)] = t]
    /\ Rows /\ World /\ UNCHANGED <<throttled, left>>

Fault == left.faults > 0 /\ left' = [left EXCEPT !.faults = @ - 1]

\* No live market-data session: the caller alone is throttled.
Session(t) ==
    /\ At(t, "session")
    /\ \/ Goto(t, "params") /\ UNCHANGED <<throttled, holder, left>>
       \/ Fault /\ Finish(t) /\ throttled' = throttled \cup {Mine(t)}
    /\ Rows /\ World

\* get_strategy_score_params of the user who asks; when it raises, all are
\* throttled.
ReadParams(t) ==
    /\ At(t, "params")
    /\ \/ /\ run' = [run EXCEPT ![t].pc = "fetch", ![t].intent = intent[Mine(t)]]
          /\ UNCHANGED <<throttled, holder, left>>
       \/ Fault /\ Finish(t) /\ throttled' = throttled \cup Peers(Mine(t))
    /\ Rows /\ World

\* The chain is read and the candidates are made; when that fails the rows stay
\* as they are.
Fetch(t) ==
    /\ At(t, "fetch")
    /\ \/ /\ run' = [run EXCEPT ![t].found = market,
                                ![t].todo = Peers(Mine(t)),
                                ![t].pc = IF market = {} THEN "clear" ELSE "delete"]
          /\ UNCHANGED <<throttled, holder, left>>
       \/ Fault /\ Finish(t) /\ throttled' = throttled \cup Peers(Mine(t))
    /\ Rows /\ World

\* Mutant of Erase: the DELETE has lost its status condition.
EraseAny(u, I) ==
    status' = [status EXCEPT ![u] = [i \in Ids |-> IF i \in I THEN "absent" ELSE @[i]]]

\* DELETE ... AND status = 'GENERATED'.
Erase(u, I) ==
    status' = [status EXCEPT ![u] = [i \in Ids |->
                 IF i \in I /\ @[i] = "GENERATED" THEN "absent" ELSE @[i]]]

\* Mutant of Clear: without a candidate the rows stay, as after a failed fetch.
ClearNot(t) ==
    /\ At(t, "clear")
    /\ \E u \in run[t].todo :
         run' = [run EXCEPT ![t].pc = "cleared", ![t].at = u, ![t].todo = @ \ {u}]
    /\ Rows /\ World /\ UNCHANGED <<throttled, holder, left>>

\* Without a candidate the rows of each user are deleted ...
Clear(t) ==
    /\ At(t, "clear")
    /\ \E u \in run[t].todo :
         /\ Erase(u, Ids)
         /\ run' = [run EXCEPT ![t].pc = "cleared", ![t].at = u, ![t].todo = @ \ {u}]
    /\ World /\ UNCHANGED <<intent, throttled, holder, left>>

\* ... and the user's throttle is set.
Cleared(t) ==
    /\ At(t, "cleared")
    /\ throttled' = throttled \cup {run[t].at}
    /\ IF run[t].todo = {} THEN Finish(t) ELSE Goto(t, "clear") /\ UNCHANGED holder
    /\ Rows /\ World /\ UNCHANGED left

NewIds(t) == run[t].found \X {run[t].intent}

\* Mutant of Delete: rows are compared by symbol, not by id.
DeleteOtherSymbols(t) ==
    /\ At(t, "delete")
    /\ \E u \in run[t].todo :
         /\ Erase(u, {i \in Ids : i[1] \notin run[t].found})
         /\ run' = [run EXCEPT ![t].pc = "deleted", ![t].at = u, ![t].todo = @ \ {u}]
    /\ World /\ UNCHANGED <<intent, throttled, holder, left>>

\* Otherwise the rows that are no longer candidates are deleted ...
Delete(t) ==
    /\ At(t, "delete")
    /\ \E u \in run[t].todo :
         /\ Erase(u, Ids \ NewIds(t))
         /\ run' = [run EXCEPT ![t].pc = "deleted", ![t].at = u, ![t].todo = @ \ {u}]
    /\ World /\ UNCHANGED <<intent, throttled, holder, left>>

\* ... which lifts the user's throttle until the end of the refresh.
Deleted(t) ==
    /\ At(t, "deleted")
    /\ throttled' = throttled \ {run[t].at}
    /\ run' = IF run[t].todo # {}
                THEN [run EXCEPT ![t].pc = "delete"]
                ELSE [run EXCEPT ![t].pc = "upsert",
                                 ![t].todo = Peers(Mine(t)) \X run[t].found]
    /\ Rows /\ World /\ UNCHANGED <<holder, left>>

\* INSERT ... ON CONFLICT DO UPDATE ... WHERE status = 'GENERATED', a statement for
\* each candidate and user.
Upsert(t) ==
    /\ At(t, "upsert")
    /\ \E p \in run[t].todo :
         LET i == <<p[2], run[t].intent>> IN
           /\ status' = [status EXCEPT ![p[1]][i] =
                           IF @ = "absent" THEN "GENERATED" ELSE @]
           /\ run' = [run EXCEPT ![t].todo = @ \ {p},
                                 ![t].pc = IF run[t].todo = {p} THEN "stamp" ELSE @]
    /\ World /\ UNCHANGED <<intent, throttled, holder, left>>

Stamp(t) ==
    /\ At(t, "stamp")
    /\ throttled' = throttled \cup Peers(Mine(t))
    /\ Finish(t)
    /\ Rows /\ World /\ UNCHANGED left

\* The refresh is cancelled (the 90 s of GET /recommendations) or a statement
\* raises: the lock is released and what was written stays.
Cancel(t) ==
    /\ run[t] # NoRun
    /\ Fault
    /\ Finish(t)
    /\ Rows /\ World /\ UNCHANGED throttled

RefreshStep(t) ==
    \/ Lock(t) \/ Session(t) \/ ReadParams(t) \/ Fetch(t)
    \/ Clear(t) \/ Cleared(t) \/ Delete(t) \/ Deleted(t) \/ Upsert(t) \/ Stamp(t)

-----------------------------------------------------------------------------
(* The rest of the system *)

\* PUT /strategies/{id}/{version}/intent: the settings, the GENERATED rows and the
\* throttle, one after the other.
SaveIntent(u) ==
    /\ saver[u] = "idle"
    /\ left.saves > 0
    /\ left' = [left EXCEPT !.saves = @ - 1]
    /\ \E v \in Intents \ {intent[u]} : intent' = [intent EXCEPT ![u] = v]
    /\ saver' = [saver EXCEPT ![u] = "delete"]
    /\ UNCHANGED <<status, throttled, holder, run, market>>

DeleteOld(u) ==
    /\ saver[u] = "delete"
    /\ Erase(u, Ids)
    /\ saver' = [saver EXCEPT ![u] = "invalidate"]
    /\ UNCHANGED <<intent, throttled, holder, run, market, left>>

Invalidate(u) ==
    /\ saver[u] = "invalidate"
    /\ throttled' = throttled \ {u}
    /\ saver' = [saver EXCEPT ![u] = "idle"]
    /\ UNCHANGED <<status, intent, holder, run, market, left>>

SaveStep(u) == DeleteOld(u) \/ Invalidate(u)

\* 20 seconds are over.
Expire(u) ==
    /\ u \in throttled
    /\ throttled' = throttled \ {u}
    /\ UNCHANGED <<status, intent, holder, run, saver, market, left>>

\* execute_recommendation.
Accept(u) ==
    /\ \E i \in Generated(u) : status' = [status EXCEPT ![u][i] = "ACCEPTED"]
    /\ UNCHANGED <<intent, throttled, holder, run, saver, market, left>>

MarketMoves ==
    /\ left.moves > 0
    /\ left' = [left EXCEPT !.moves = @ - 1]
    /\ market' \in SUBSET Symbols \ {market}
    /\ UNCHANGED <<status, intent, throttled, holder, run, saver>>

RefreshNext ==
    \/ \E t \in Tasks : Enter(t) \/ RefreshStep(t) \/ Cancel(t)
    \/ \E u \in Users : SaveIntent(u) \/ SaveStep(u) \/ Expire(u) \/ Accept(u)
    \/ MarketMoves

RefreshSpec == RefreshInit /\ [][RefreshNext]_refreshVars

\* Every user is polled every 20 s (the auto-execute loop, the pages), what is
\* under way goes on, and time passes.
RefreshFairSpec ==
    /\ RefreshSpec
    /\ \A t \in Tasks : WF_refreshVars(Enter(t)) /\ WF_refreshVars(RefreshStep(t))
    /\ \A u \in Users : WF_refreshVars(SaveStep(u)) /\ WF_refreshVars(Expire(u))

-----------------------------------------------------------------------------
(* Properties *)

\* Every variable keeps its shape.
RefreshTypeOK ==
    /\ status \in [Users -> [Ids -> {"absent", "GENERATED", "ACCEPTED"}]]
    /\ intent \in [Users -> Intents]
    /\ throttled \in SUBSET Users
    /\ holder \in [Users -> Tasks \cup {Free}]
    /\ run \in [Tasks -> {NoRun} \cup Run]
    /\ saver \in [Users -> {"idle", "delete", "invalidate"}]
    /\ market \in SUBSET Symbols
    /\ left \in [moves : 0 .. MaxMoves, saves : 0 .. MaxSaves, faults : 0 .. MaxFaults]

\* "Serialize ensure_recommendations per user": two refreshes that run at the same
\* time are for different users, cancellations included.
OneRefreshPerUser ==
    \A t, s \in Tasks :
        /\ run[t].pc \notin {"idle", "lock"}
        /\ run[s].pc \notin {"idle", "lock"}
        /\ Mine(t) = Mine(s)
        => t = s

\* A recommendation that was executed is left alone by every refresh and every
\* change of intent: it does not go, and it is not offered again.
AcceptedRowsStay ==
    [][\A u \in Users, i \in Ids :
          status[u][i] = "ACCEPTED" => status'[u][i] = "ACCEPTED"]_refreshVars

\* When the market stands still the rows come to match it, whatever refreshes
\* overlapped or failed on the way: what is no candidate is gone for good, and
\* time and again every candidate has a row.
RowsFollowMarket ==
    \A u \in Users :
        /\ <>[](\A i \in Generated(u) : i[1] \in market)
        /\ []<>(\A s \in market : \E v \in Intents : status[u][<<s, v>>] # "absent")

\* "so next cycle regenerates side/target/SL consistently with the new strategy
\* intent": once a user stops changing the intent, the rows that are offered have
\* the side it asks for.
RowsFollowIntent ==
    \A u \in Users : <>[](\A i \in Generated(u) : i[2] = intent[u])
=============================================================================
