----------------------------- MODULE PlatformPause -----------------------------
(***************************************************************************)
(* The platform's pause of trading (kill switch): PUT /admin/platform      *)
(* writes the row of s004_platform_settings and then deletes a Redis key;  *)
(* platform_risk.get_platform_trading_paused, which every entry asks,      *)
(* reads the key, or else the row, and writes the key back.  Between any   *)
(* two of these steps others may run, and Redis may fail at each.          *)
(*                                                                         *)
(* Time passes in ticks of a second.                                       *)
(***************************************************************************)
EXTENDS Naturals

CONSTANTS
    Readers,     \* calls of get_platform_trading_paused
    Puts,        \* requests that set the pause
    TTL,         \* ttl_seconds of the key (3 in the code)
    Latency      \* environment: the longest time between a read of the row and
                 \* the SET that follows it

ASSUME PauseAssumption == TTL \in Nat \ {0} /\ Latency \in Nat

VARIABLES
    row,         \* trading_paused in the row
    since,       \* seconds since it last changed
    cache,       \* the value under the key
    ttl,         \* seconds it has left
    reader,      \* the call each reader is in
    put          \* the value of each PUT that has not deleted the key yet

pauseVars == <<row, since, cache, ttl, reader, put>>

Values == {"paused", "open"}
Nothing == "nothing"
Idle == [pc |-> "idle"]
Grace == Latency + TTL

PauseInit ==
    /\ row = "open"
    /\ since = 0
    /\ cache = Nothing
    /\ ttl = 0
    /\ reader = [c \in Readers |-> Idle]
    /\ put = [a \in Puts |-> Nothing]

-----------------------------------------------------------------------------
(* get_platform_trading_paused *)

\* A hit answers and changes nothing; on a miss, or when Redis fails, the row is
\* read.
Miss(c) ==
    /\ reader[c] = Idle
    /\ reader' = [reader EXCEPT ![c] = [pc |-> "row"]]
    /\ UNCHANGED <<row, since, cache, ttl, put>>

\* When the read raises the call answers "not paused" and writes nothing back.
ReadRow(c) ==
    /\ reader[c].pc = "row"
    /\ reader' = [reader EXCEPT ![c] =
                    [pc |-> "write", value |-> row, age |-> 0]]
         \/ reader' = [reader EXCEPT ![c] = Idle]
    /\ UNCHANGED <<row, since, cache, ttl, put>>

\* Mutant of WriteBack: cache_set_json with its default of more seconds.
WriteBackLonger(c) ==
    /\ reader[c].pc = "write"
    /\ \/ cache' = reader[c].value /\ ttl' = TTL + 1
       \/ UNCHANGED <<cache, ttl>>
    /\ reader' = [reader EXCEPT ![c] = Idle]
    /\ UNCHANGED <<row, since, put>>

\* SET with the TTL, which Redis may fail to do.
WriteBack(c) ==
    /\ reader[c].pc = "write"
    /\ \/ cache' = reader[c].value /\ ttl' = TTL
       \/ UNCHANGED <<cache, ttl>>
    /\ reader' = [reader EXCEPT ![c] = Idle]
    /\ UNCHANGED <<row, since, put>>

-----------------------------------------------------------------------------
(* set_platform_risk *)

SetPause(a) ==
    /\ put[a] = Nothing
    /\ \E v \in Values :
         /\ put' = [put EXCEPT ![a] = v]
         /\ row' = v
         /\ since' = IF v = row THEN since ELSE 0
    /\ UNCHANGED <<cache, ttl, reader>>

\* invalidate_platform_settings_cache; an error of Redis is swallowed.
Invalidate(a) ==
    /\ put[a] # Nothing
    /\ put' = [put EXCEPT ![a] = Nothing]
    /\ \/ cache' = Nothing /\ ttl' = 0
       \/ UNCHANGED <<cache, ttl>>
    /\ UNCHANGED <<row, since, reader>>

-----------------------------------------------------------------------------

\* A second passes.  From Grace on the count in since does not matter.
Tick ==
    /\ \A c \in Readers : reader[c].pc = "write" => reader[c].age < Latency
    /\ reader' = [c \in Readers |->
                    IF reader[c].pc = "write"
                      THEN [reader[c] EXCEPT !.age = @ + 1] ELSE reader[c]]
    /\ since' = IF since >= Grace THEN since ELSE since + 1
    /\ ttl' = IF ttl = 0 THEN 0 ELSE ttl - 1
    /\ cache' = IF ttl' = 0 THEN Nothing ELSE cache
    /\ UNCHANGED <<row, put>>

PauseNext ==
    \/ \E c \in Readers : Miss(c) \/ ReadRow(c) \/ WriteBack(c)
    \/ \E a \in Puts : SetPause(a) \/ Invalidate(a)
    \/ Tick

PauseSpec == PauseInit /\ [][PauseNext]_pauseVars

-----------------------------------------------------------------------------
(* Properties *)

\* Every variable keeps its shape.
PauseTypeOK ==
    /\ row \in Values
    /\ since \in Nat
    /\ cache \in {Nothing} \cup Values
    /\ ttl \in Nat
    /\ reader \in [Readers ->
          [pc : {"idle", "row"}]
            \cup [pc : {"write"}, value : Values, age : 0 .. Latency]]
    /\ put \in [Puts -> {Nothing} \cup Values]

\* What is left of "paused" when reads, write-backs and deletes overlap and Redis
\* fails: Latency + TTL seconds after the row has changed no call that starts is
\* told the old value, whether or not the key could be deleted.
PauseWithinGrace ==
    since >= Grace =>
        /\ cache \in {Nothing, row}
        /\ \A c \in Readers : reader[c].pc = "write" => reader[c].value = row
=============================================================================
