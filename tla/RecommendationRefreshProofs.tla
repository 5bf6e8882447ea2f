---------------------- MODULE RecommendationRefreshProofs ----------------------
(***************************************************************************)
(* Theorems of RecommendationRefresh, for any users, requests and          *)
(* contracts: the lock of a user is held through every refresh that has    *)
(* passed it, and no refresh and no change of intent touches a row that    *)
(* was executed.                                                           *)
(***************************************************************************)
EXTENDS RecommendationRefresh, TLAPS

\* What is left to do is a list of users, or of rows once the INSERTs have begun.
TodoShape ==
    \A t \in Tasks :
        /\ run[t].pc \in {"clear", "cleared", "delete", "deleted"} =>
             run[t].todo \in SUBSET Users
        /\ run[t].pc = "upsert" => run[t].todo \in SUBSET (Users \X Symbols)

\* Who has passed the lock of a user still holds it.
LockHeld ==
    \A t \in Tasks : run[t].pc \notin {"idle", "lock"} => holder[Mine(t)] = t

\* The inductive invariant: types, the shape of what is left to do and the lock.
RefreshInv == RefreshTypeOK /\ TodoShape /\ LockHeld

-----------------------------------------------------------------------------
(* The shape of a refresh *)

\* A refresh that has begun has its fields.
LEMMA RunShape ==
    ASSUME RefreshTypeOK, NEW t \in Tasks, run[t].pc # "idle"
    PROVE  run[t] \in Run
  BY DEF RefreshTypeOK, NoRun

\* A refresh goes on with other fields, or ends.
LEMMA RunUpdate ==
    ASSUME RefreshTypeOK, NEW t \in Tasks, NEW r \in {NoRun} \cup Run
    PROVE  [run EXCEPT ![t] = r] \in [Tasks -> {NoRun} \cup Run]
  BY DEF RefreshTypeOK

\* The users a refresh writes for are users.
LEMMA PeersAreUsers ==
    ASSUME NEW u \in Users
    PROVE  Peers(u) \in SUBSET Users
  BY DEF Peers

\* Finish keeps the types.
LEMMA FinishShape ==
    ASSUME RefreshTypeOK, NEW t \in Tasks, Finish(t)
    PROVE  /\ run' \in [Tasks -> {NoRun} \cup Run]
           /\ holder' \in [Users -> Tasks \cup {Free}]
  BY RefreshAssumption DEF Finish, RefreshTypeOK, Mine

\* A fault is taken from what is left.
LEMMA FaultShape ==
    ASSUME RefreshTypeOK, Fault
    PROVE  left' \in [moves : 0 .. MaxMoves, saves : 0 .. MaxSaves,
                      faults : 0 .. MaxFaults]
  BY RefreshAssumption DEF Fault, RefreshTypeOK

\* A DELETE keeps the types.
LEMMA EraseShape ==
    ASSUME RefreshTypeOK, NEW u \in Users, NEW I, Erase(u, I)
    PROVE  status' \in [Users -> [Ids -> {"absent", "GENERATED", "ACCEPTED"}]]
  BY DEF Erase, RefreshTypeOK

-----------------------------------------------------------------------------
(* The inductive invariant *)

\* The initial state.
LEMMA RefreshInitInv == RefreshInit => RefreshInv
  BY RefreshAssumption
  DEF RefreshInit, RefreshInv, RefreshTypeOK, TodoShape, LockHeld, NoRun

\* What a user does leaves the refreshes and the locks alone.
LEMMA UserStep ==
    ASSUME RefreshInv, NEW u \in Users,
           SaveIntent(u) \/ SaveStep(u) \/ Expire(u) \/ Accept(u)
    PROVE  RefreshInv'
<1>1. run' = run /\ holder' = holder
  BY DEF SaveIntent, SaveStep, DeleteOld, Invalidate, Expire, Accept
<1>2. TodoShape' /\ LockHeld'
  BY <1>1 DEF RefreshInv, TodoShape, LockHeld, Mine
<1>3. RefreshTypeOK'
  <2>1. CASE SaveIntent(u)
    BY <2>1, RefreshAssumption DEF SaveIntent, RefreshInv, RefreshTypeOK
  <2>2. CASE DeleteOld(u)
    BY <2>2, EraseShape DEF DeleteOld, RefreshInv, RefreshTypeOK
  <2>3. CASE Invalidate(u) \/ Expire(u)
    BY <2>3 DEF Invalidate, Expire, RefreshInv, RefreshTypeOK
  <2>4. CASE Accept(u)
    BY <2>4 DEF Accept, Generated, RefreshInv, RefreshTypeOK
  <2>. QED
    BY <2>1, <2>2, <2>3, <2>4 DEF SaveStep
<1>. QED
  BY <1>2, <1>3 DEF RefreshInv

\* Neither does the market.
LEMMA MarketStep == RefreshInv /\ MarketMoves => RefreshInv'
  BY RefreshAssumption
  DEF MarketMoves, RefreshInv, RefreshTypeOK, TodoShape, LockHeld, Mine

\* A task that ends gives back its own lock only.
LEMMA FinishInv ==
    ASSUME RefreshInv, NEW t \in Tasks, Finish(t)
    PROVE  TodoShape' /\ LockHeld'
<1>1. ASSUME NEW s \in Tasks
      PROVE  run'[s] = IF s = t THEN NoRun ELSE run[s]
  BY <1>1 DEF Finish, RefreshInv, RefreshTypeOK
<1>2. TodoShape'
  BY <1>1 DEF RefreshInv, TodoShape, NoRun
<1>3. ASSUME NEW s \in Tasks, run'[s].pc \notin {"idle", "lock"}
      PROVE  holder'[Mine(s)] = s
  <2>1. s # t /\ run[s].pc \notin {"idle", "lock"}
    BY <1>1, <1>3 DEF NoRun
  <2>2. holder[Mine(s)] = s /\ Mine(s) \in Users
    BY <2>1, RefreshAssumption DEF RefreshInv, LockHeld, Mine
  <2>. QED
    BY <2>1, <2>2 DEF Finish, RefreshInv, RefreshTypeOK
<1>. QED
  BY <1>2, <1>3 DEF LockHeld, Mine

\* A task that goes on behind the lock keeps it.
LEMMA GoOnInv ==
    ASSUME RefreshInv, NEW t \in Tasks, NEW r \in Run,
           run[t].pc \notin {"idle", "lock"},
           run' = [run EXCEPT ![t] = r], UNCHANGED holder,
           r.pc \in {"clear", "cleared", "delete", "deleted"} => r.todo \in SUBSET Users,
           r.pc = "upsert" => r.todo \in SUBSET (Users \X Symbols)
    PROVE  TodoShape' /\ LockHeld'
  BY DEF RefreshInv, RefreshTypeOK, TodoShape, LockHeld, Mine

\* Every step of a task keeps types and lock.
LEMMA TaskStep ==
    ASSUME RefreshInv, NEW t \in Tasks, Enter(t) \/ RefreshStep(t) \/ Cancel(t)
    PROVE  RefreshInv'
<1>. USE DEF RefreshInv, Rows, World
<1>0. Mine(t) \in Users /\ Peers(Mine(t)) \in SUBSET Users
  BY RefreshAssumption, PeersAreUsers DEF Mine
<1>1. CASE Enter(t)
  <2> DEFINE r == [pc |-> "lock", intent |-> intent[Mine(t)], found |-> {},
                   todo |-> {}, at |-> Mine(t)]
  <2>1. r \in Run /\ r.pc = "lock"
    BY <1>0 DEF RefreshTypeOK, Run, RunStages
  <2>2. run' = [run EXCEPT ![t] = r] /\ UNCHANGED holder
    BY <1>1 DEF Enter
  <2>3. RefreshTypeOK'
    <3>1. run' \in [Tasks -> {NoRun} \cup Run]
      BY <2>1, <2>2, RunUpdate
    <3>. QED
      BY <1>1, <3>1 DEF Enter, RefreshTypeOK
  <2>4. TodoShape' /\ LockHeld'
    <3> HIDE DEF r
    <3>. QED
      BY <2>1, <2>2 DEF TodoShape, LockHeld, RefreshTypeOK, Mine
  <2>. QED
    BY <2>3, <2>4
<1>2. CASE Lock(t)
  <2>1. CASE Mine(t) \in throttled
    <3>1. run' = [run EXCEPT ![t] = NoRun] /\ UNCHANGED holder
      BY <1>2, <2>1 DEF Lock
    <3>2. RefreshTypeOK'
      BY <1>2, <3>1, RunUpdate DEF Lock, RefreshTypeOK
    <3>3. TodoShape' /\ LockHeld'
      BY <3>1 DEF RefreshTypeOK, TodoShape, LockHeld, Mine, NoRun
    <3>. QED
      BY <3>2, <3>3
  <2>2. CASE Mine(t) \notin throttled
    <3> DEFINE r == [run[t] EXCEPT !.pc = "session"]
    <3>1. r \in Run /\ r.pc = "session"
      BY <1>2, RunShape DEF Lock, At, Run, RunStages
    <3>2. /\ run' = [run EXCEPT ![t] = r]
          /\ holder[Mine(t)] = Free /\ holder' = [holder EXCEPT ![Mine(t)] = t]
      BY <1>2, <2>2 DEF Lock, Goto
    <3>3. RefreshTypeOK'
      <4>1. run' \in [Tasks -> {NoRun} \cup Run]
        BY <3>1, <3>2, RunUpdate
      <4>. QED
        BY <1>2, <4>1, <3>2, <1>0 DEF Lock, RefreshTypeOK
    <3>4. TodoShape'
      BY <3>1, <3>2 DEF TodoShape, RefreshTypeOK
    <3>5. LockHeld'
      <4> HIDE DEF r
      <4>1. ASSUME NEW s \in Tasks, run'[s].pc \notin {"idle", "lock"}
            PROVE  holder'[Mine(s)] = s
        <5>1. CASE s = t
          BY <5>1, <3>2, <1>0 DEF RefreshTypeOK
        <5>2. CASE s # t
          <6>1. holder[Mine(s)] = s
            BY <4>1, <5>2, <3>2 DEF LockHeld, RefreshTypeOK
          <6>2. Mine(s) # Mine(t)
            BY <6>1, <3>2, RefreshAssumption
          <6>. QED
            BY <6>1, <6>2, <3>2 DEF RefreshTypeOK
        <5>. QED
          BY <5>1, <5>2
      <4>. QED
        BY <4>1 DEF LockHeld, Mine
    <3>. QED
      BY <3>3, <3>4, <3>5
  <2>. QED
    BY <2>1, <2>2
<1>3. ASSUME Finish(t), UNCHANGED <<status, intent, saver, market>>,
             throttled' \in SUBSET Users,
             left' \in [moves : 0 .. MaxMoves, saves : 0 .. MaxSaves,
                        faults : 0 .. MaxFaults]
      PROVE  RefreshInv'
  <2>1. TodoShape' /\ LockHeld'
    BY <1>3, FinishInv
  <2>2. RefreshTypeOK'
    BY <1>3, FinishShape DEF RefreshTypeOK
  <2>. QED
    BY <2>1, <2>2
<1>4. ASSUME NEW r \in Run, run[t].pc \notin {"idle", "lock"},
             run' = [run EXCEPT ![t] = r], UNCHANGED <<holder, intent, saver, market, left>>,
             r.pc \in {"clear", "cleared", "delete", "deleted"} =>
               r.todo \in SUBSET Users,
             r.pc = "upsert" => r.todo \in SUBSET (Users \X Symbols),
             throttled' \in SUBSET Users,
             status' \in [Users -> [Ids -> {"absent", "GENERATED", "ACCEPTED"}]]
      PROVE  RefreshInv'
  <2>1. TodoShape' /\ LockHeld'
    BY <1>4, GoOnInv
  <2>2. run' \in [Tasks -> {NoRun} \cup Run]
    BY <1>4, RunUpdate
  <2>3. RefreshTypeOK'
    BY <1>4, <2>2 DEF RefreshTypeOK
  <2>. QED
    BY <2>1, <2>3
<1>5. CASE Session(t)
  <2>1. CASE Goto(t, "params") /\ UNCHANGED <<throttled, holder, left>>
    <3>1. [run[t] EXCEPT !.pc = "params"] \in Run
      BY <1>5, RunShape DEF Session, At, Run, RunStages
    <3>. QED
      BY <1>5, <2>1, <3>1, <1>4, RunShape DEF Session, At, Goto, RefreshTypeOK, Run
  <2>2. CASE Fault /\ Finish(t) /\ throttled' = throttled \cup {Mine(t)}
    BY <1>5, <2>2, <1>3, <1>0, FaultShape DEF Session, RefreshTypeOK
  <2>. QED
    BY <1>5, <2>1, <2>2 DEF Session
<1>6. CASE ReadParams(t)
  <2>1. CASE /\ run' = [run EXCEPT ![t].pc = "fetch", ![t].intent = intent[Mine(t)]]
             /\ UNCHANGED <<throttled, holder, left>>
    <3> DEFINE r == [run[t] EXCEPT !.pc = "fetch", !.intent = intent[Mine(t)]]
    <3>1. r \in Run /\ r.pc = "fetch"
      BY <1>6, <1>0, RunShape DEF ReadParams, At, Run, RunStages, RefreshTypeOK
    <3>2. run' = [run EXCEPT ![t] = r]
      BY <2>1 DEF RefreshTypeOK
    <3> HIDE DEF r
    <3>. QED
      BY <1>6, <2>1, <3>1, <3>2, <1>4 DEF ReadParams, At, RefreshTypeOK
  <2>2. CASE Fault /\ Finish(t) /\ throttled' = throttled \cup Peers(Mine(t))
    BY <1>6, <2>2, <1>3, <1>0, FaultShape DEF ReadParams, RefreshTypeOK
  <2>. QED
    BY <1>6, <2>1, <2>2 DEF ReadParams
<1>7. CASE Fetch(t)
  <2>1. CASE /\ run' = [run EXCEPT ![t].found = market, ![t].todo = Peers(Mine(t)),
                          ![t].pc = IF market = {} THEN "clear" ELSE "delete"]
             /\ UNCHANGED <<throttled, holder, left>>
    <3> DEFINE r == [run[t] EXCEPT !.found = market, !.todo = Peers(Mine(t)),
                       !.pc = IF market = {} THEN "clear" ELSE "delete"]
    <3>1. /\ r \in Run /\ r.pc \in {"clear", "delete"} /\ r.todo \in SUBSET Users
      BY <1>7, <1>0, RunShape DEF Fetch, At, Run, RunStages, RefreshTypeOK
    <3>2. run' = [run EXCEPT ![t] = r]
      BY <2>1 DEF RefreshTypeOK
    <3> HIDE DEF r
    <3>. QED
      BY <1>7, <2>1, <3>1, <3>2, <1>4 DEF Fetch, At, RefreshTypeOK
  <2>2. CASE Fault /\ Finish(t) /\ throttled' = throttled \cup Peers(Mine(t))
    BY <1>7, <2>2, <1>3, <1>0, FaultShape DEF Fetch, RefreshTypeOK
  <2>. QED
    BY <1>7, <2>1, <2>2 DEF Fetch
<1>8. ASSUME NEW pc \in {"cleared", "deleted"}, NEW u \in run[t].todo,
             run[t].pc \in {"clear", "delete"},
             status' \in [Users -> [Ids -> {"absent", "GENERATED", "ACCEPTED"}]],
             run' = [run EXCEPT ![t].pc = pc, ![t].at = u, ![t].todo = @ \ {u}],
             UNCHANGED <<intent, throttled, holder, saver, market, left>>
      PROVE  RefreshInv'
  <2>1. run[t] \in Run /\ run[t].todo \in SUBSET Users /\ u \in Users
    BY <1>8, RunShape DEF TodoShape
  <2> DEFINE r == [run[t] EXCEPT !.pc = pc, !.at = u, !.todo = @ \ {u}]
  <2>2. r \in Run /\ r.pc = pc /\ r.todo \in SUBSET Users
    BY <2>1 DEF Run, RunStages
  <2>3. run' = [run EXCEPT ![t] = r]
    BY <1>8 DEF RefreshTypeOK
  <2> HIDE DEF r
  <2>. QED
    BY <1>8, <2>2, <2>3, <1>4 DEF RefreshTypeOK
<1>9. CASE Clear(t)
  <2>1. PICK u \in run[t].todo :
          /\ Erase(u, Ids)
          /\ run' = [run EXCEPT ![t].pc = "cleared", ![t].at = u, ![t].todo = @ \ {u}]
    BY <1>9 DEF Clear
  <2>2. run[t].pc \in {"clear", "delete"}
    BY <1>9 DEF Clear, At
  <2>3. UNCHANGED <<intent, throttled, holder, saver, market, left>>
    BY <1>9 DEF Clear
  <2>4. u \in Users
    BY <1>9, <2>1 DEF Clear, At, TodoShape
  <2>5. status' \in [Users -> [Ids -> {"absent", "GENERATED", "ACCEPTED"}]]
    BY <2>1, <2>4, EraseShape
  <2>. QED
    BY <2>1, <2>2, <2>3, <2>5, <1>8
<1>10. CASE Delete(t)
  <2>1. PICK u \in run[t].todo :
          /\ Erase(u, Ids \ NewIds(t))
          /\ run' = [run EXCEPT ![t].pc = "deleted", ![t].at = u, ![t].todo = @ \ {u}]
    BY <1>10 DEF Delete
  <2>2. run[t].pc \in {"clear", "delete"}
    BY <1>10 DEF Delete, At
  <2>3. UNCHANGED <<intent, throttled, holder, saver, market, left>>
    BY <1>10 DEF Delete
  <2>4. u \in Users
    BY <1>10, <2>1 DEF Delete, At, TodoShape
  <2>5. status' \in [Users -> [Ids -> {"absent", "GENERATED", "ACCEPTED"}]]
    BY <2>1, <2>4, EraseShape
  <2>. QED
    BY <2>1, <2>2, <2>3, <2>5, <1>8
<1>11. CASE Cleared(t)
  <2>1. run[t] \in Run /\ run[t].todo \in SUBSET Users /\ throttled' \in SUBSET Users
    BY <1>11, RunShape DEF Cleared, At, TodoShape, Run, RefreshTypeOK
  <2>2. CASE run[t].todo = {}
    BY <1>11, <2>1, <2>2, <1>3 DEF Cleared, RefreshTypeOK
  <2>3. CASE run[t].todo # {}
    <3>1. /\ [run[t] EXCEPT !.pc = "clear"] \in Run
          /\ [run[t] EXCEPT !.pc = "clear"].todo \in SUBSET Users
          /\ [run[t] EXCEPT !.pc = "clear"].pc = "clear"
      BY <2>1 DEF Run, RunStages
    <3>2. run' = [run EXCEPT ![t] = [run[t] EXCEPT !.pc = "clear"]]
      BY <1>11, <2>3 DEF Cleared, Goto, RefreshTypeOK
    <3>. QED
      BY <1>11, <2>1, <2>3, <3>1, <3>2, <1>4 DEF Cleared, At, RefreshTypeOK
  <2>. QED
    BY <2>2, <2>3
<1>12. CASE Deleted(t)
  <2>1. run[t] \in Run /\ run[t].todo \in SUBSET Users /\ throttled' \in SUBSET Users
    BY <1>12, RunShape DEF Deleted, At, TodoShape, Run, RefreshTypeOK
  <2>2. CASE run[t].todo # {}
    <3>1. /\ [run[t] EXCEPT !.pc = "delete"] \in Run
          /\ [run[t] EXCEPT !.pc = "delete"].todo \in SUBSET Users
          /\ [run[t] EXCEPT !.pc = "delete"].pc = "delete"
      BY <2>1 DEF Run, RunStages
    <3>2. run' = [run EXCEPT ![t] = [run[t] EXCEPT !.pc = "delete"]]
      BY <1>12, <2>2 DEF Deleted, RefreshTypeOK
    <3>. QED
      BY <1>12, <2>1, <3>1, <3>2, <1>4 DEF Deleted, At, RefreshTypeOK
  <2>3. CASE run[t].todo = {}
    <3> DEFINE r == [run[t] EXCEPT !.pc = "upsert", !.todo = Peers(Mine(t)) \X run[t].found]
    <3>1. Peers(Mine(t)) \X run[t].found \in SUBSET (Users \X Symbols)
      BY <2>1, <1>0 DEF Run
    <3>2. r \in Run /\ r.pc = "upsert" /\ r.todo \in SUBSET (Users \X Symbols)
      BY <2>1, <3>1 DEF Run, RunStages
    <3>3. run' = [run EXCEPT ![t] = r]
      BY <1>12, <2>3 DEF Deleted, RefreshTypeOK
    <3> HIDE DEF r
    <3>. QED
      BY <1>12, <2>1, <3>2, <3>3, <1>4 DEF Deleted, At, RefreshTypeOK
  <2>. QED
    BY <2>2, <2>3
<1>13. CASE Upsert(t)
  <2>1. run[t] \in Run /\ run[t].todo \in SUBSET (Users \X Symbols)
    BY <1>13, RunShape DEF Upsert, At, TodoShape
  <2>2. PICK p \in run[t].todo :
          /\ status' = [status EXCEPT ![p[1]][<<p[2], run[t].intent>>] =
                          IF @ = "absent" THEN "GENERATED" ELSE @]
          /\ run' = [run EXCEPT ![t].todo = @ \ {p},
                                ![t].pc = IF run[t].todo = {p} THEN "stamp" ELSE @]
    BY <1>13 DEF Upsert
  <2> DEFINE r == [run[t] EXCEPT !.todo = @ \ {p},
                                 !.pc = IF run[t].todo = {p} THEN "stamp" ELSE @]
  <2>3. /\ r \in Run /\ r.pc \in {"upsert", "stamp"}
        /\ r.todo \in SUBSET (Users \X Symbols)
    BY <1>13, <2>1 DEF Upsert, At, Run, RunStages
  <2>4. run' = [run EXCEPT ![t] = r]
    BY <2>2 DEF RefreshTypeOK
  <2>5. status' \in [Users -> [Ids -> {"absent", "GENERATED", "ACCEPTED"}]]
    <3> DEFINE i == <<p[2], run[t].intent>>
               row == [status[p[1]] EXCEPT ![i] = IF @ = "absent" THEN "GENERATED" ELSE @]
    <3>1. p[1] \in Users
      BY <2>1
    <3>2. status[p[1]] \in [Ids -> {"absent", "GENERATED", "ACCEPTED"}]
      BY <3>1 DEF RefreshTypeOK
    <3>3. row \in [Ids -> {"absent", "GENERATED", "ACCEPTED"}]
      BY <3>2
    <3>4. status' = [status EXCEPT ![p[1]] = row]
      BY <2>2
    <3>. QED
      BY <3>3, <3>4 DEF RefreshTypeOK
  <2> HIDE DEF r
  <2>. QED
    BY <1>13, <2>3, <2>4, <2>5, <1>4 DEF Upsert, At, RefreshTypeOK
<1>14. CASE Stamp(t)
  BY <1>14, <1>3, <1>0 DEF Stamp, RefreshTypeOK
<1>15. CASE Cancel(t)
  BY <1>15, <1>3, FaultShape DEF Cancel, RefreshTypeOK
<1>. QED
  BY <1>1, <1>2, <1>5, <1>6, <1>7, <1>9, <1>10, <1>11, <1>12, <1>13, <1>14, <1>15
  DEF RefreshStep

\* Every step keeps the invariant.
LEMMA RefreshInvStep == RefreshInv /\ [RefreshNext]_refreshVars => RefreshInv'
<1>1. RefreshInv /\ RefreshNext => RefreshInv'
  BY TaskStep, UserStep, MarketStep DEF RefreshNext
<1>2. RefreshInv /\ UNCHANGED refreshVars => RefreshInv'
  BY DEF refreshVars, RefreshInv, RefreshTypeOK, TodoShape, LockHeld, Mine
<1>. QED
  BY <1>1, <1>2

LEMMA RefreshAlways == RefreshSpec => []RefreshInv
  BY RefreshInitInv, RefreshInvStep, PTL DEF RefreshSpec

-----------------------------------------------------------------------------
(* Theorems *)

\* Every variable keeps its shape.
THEOREM RefreshTypeCorrect == RefreshSpec => []RefreshTypeOK
<1>1. RefreshInv => RefreshTypeOK
  BY DEF RefreshInv
<1>. QED
  BY <1>1, RefreshAlways, PTL

\* Whatever fails or is cancelled, two refreshes beyond the lock at the same time are
\* for different users.
THEOREM OneRefreshHolds == RefreshSpec => []OneRefreshPerUser
<1>1. RefreshInv => OneRefreshPerUser
  BY DEF RefreshInv, LockHeld, OneRefreshPerUser
<1>. QED
  BY <1>1, RefreshAlways, PTL

\* What an UPDATE or DELETE of these rows may do to an executed one: nothing.
Spared == \A u \in Users, i \in Ids : status[u][i] = "ACCEPTED" => status'[u][i] = "ACCEPTED"

\* The DELETEs look at the status, ...
LEMMA EraseSpares ==
    ASSUME RefreshTypeOK, NEW u \in Users, NEW I, Erase(u, I)
    PROVE  Spared
  BY DEF Erase, RefreshTypeOK, Spared

\* ... and so does the INSERT ... ON CONFLICT.
LEMMA UpsertSpares ==
    ASSUME RefreshInv, NEW t \in Tasks, Upsert(t)
    PROVE  Spared
<1>1. PICK p \in run[t].todo :
        status' = [status EXCEPT ![p[1]][<<p[2], run[t].intent>>] =
                     IF @ = "absent" THEN "GENERATED" ELSE @]
  BY DEF Upsert
<1>2. p[1] \in Users
  BY <1>1 DEF Upsert, At, RefreshInv, TodoShape
<1> DEFINE i == <<p[2], run[t].intent>>
           row == [status[p[1]] EXCEPT ![i] = IF @ = "absent" THEN "GENERATED" ELSE @]
<1>3. \A j \in Ids : status[p[1]][j] = "ACCEPTED" => row[j] = "ACCEPTED"
  BY <1>2 DEF RefreshInv, RefreshTypeOK
<1>4. status' = [status EXCEPT ![p[1]] = row]
  BY <1>1
<1> HIDE DEF row
<1>. QED
  BY <1>2, <1>3, <1>4 DEF RefreshInv, RefreshTypeOK, Spared

\* No step touches an executed row.
LEMMA StepSpares == RefreshInv /\ [RefreshNext]_refreshVars => Spared
<1> SUFFICES ASSUME RefreshInv, [RefreshNext]_refreshVars
             PROVE  Spared
  OBVIOUS
<1>1. UNCHANGED status => Spared
  BY DEF Spared
<1>2. ASSUME NEW t \in Tasks, Clear(t) \/ Delete(t)
      PROVE  Spared
  <2>1. PICK u \in run[t].todo : Erase(u, Ids) \/ Erase(u, Ids \ NewIds(t))
    BY <1>2 DEF Clear, Delete
  <2>2. u \in Users
    BY <1>2, <2>1 DEF Clear, Delete, At, RefreshInv, TodoShape
  <2>. QED
    BY <2>1, <2>2, EraseSpares DEF RefreshInv
<1>3. ASSUME NEW u \in Users, DeleteOld(u)
      PROVE  Spared
  BY <1>3, EraseSpares DEF DeleteOld, RefreshInv
<1>4. ASSUME NEW u \in Users, Accept(u)
      PROVE  Spared
  BY <1>4 DEF Accept, RefreshInv, RefreshTypeOK, Spared
<1>5. ASSUME NEW t \in Tasks, Enter(t) \/ RefreshStep(t) \/ Cancel(t)
      PROVE  Spared
  BY <1>5, <1>1, <1>2, UpsertSpares
  DEF Enter, RefreshStep, Lock, Session, ReadParams, Fetch, Cleared, Deleted, Stamp, Cancel,
      Rows
<1>6. ASSUME NEW u \in Users, SaveIntent(u) \/ SaveStep(u) \/ Expire(u) \/ Accept(u)
      PROVE  Spared
  BY <1>6, <1>1, <1>3, <1>4 DEF SaveIntent, SaveStep, Invalidate, Expire
<1>7. CASE MarketMoves \/ UNCHANGED refreshVars
  BY <1>7, <1>1 DEF MarketMoves, refreshVars
<1>. QED
  BY <1>5, <1>6, <1>7 DEF RefreshNext

\* An executed recommendation stays executed, whoever's refresh or change of intent
\* writes the rows of its user.
THEOREM AcceptedStays == RefreshSpec => AcceptedRowsStay
<1>1. RefreshInv /\ [RefreshNext]_refreshVars
        => [\A u \in Users, i \in Ids :
              status[u][i] = "ACCEPTED" => status'[u][i] = "ACCEPTED"]_refreshVars
  BY StepSpares DEF Spared
<1>. QED
  BY <1>1, RefreshAlways, PTL DEF RefreshSpec, AcceptedRowsStay
=============================================================================
