---------------------------- MODULE MCControlPlane -----------------------------
(***************************************************************************)
(* Instances for TLC of the four components that requests set and trading  *)
(* reads: PlatformPause, Subscriptions, EvolutionApproval and BrokerVault. *)
(* They share no variable and no action of one looks at another, so how    *)
(* they are interleaved makes no difference to a property of one of them,  *)
(* and the run explores each alone: a component moves only while the       *)
(* others are where they started.                                          *)
(***************************************************************************)
EXTENDS PlatformPause, Subscriptions, EvolutionApproval, BrokerVault, FiniteSets, TLC
CONSTANTS r1, r2, put1, put2, a1, a2, b1, A, B, q1, q2, p1, p2, m1, m2, j1, j2, k1

TwoReaders == {r1, r2}
TwoPuts == {put1, put2}

\* Two versions of one strategy, and another strategy.
ThreeOffers == {a1, a2, b1}
TwoStrategies == [o \in ThreeOffers |-> IF o = b1 THEN B ELSE A]
TwoRequests == {q1, q2}

TwoProposals == {p1, p2}
TwoAdmins == {m1, m2}

TwoJobs == {j1, j2}
OneCall == {k1}

\* The readers, PUTs and requests are interchangeable too; more symmetry costs TLC
\* more than it saves.
ControlSymmetry ==
    Permutations(TwoProposals) \cup Permutations(TwoAdmins) \cup Permutations(TwoJobs)

\* The second version takes every status; the first is the one that starts published,
\* the third the one that ends the numbering.
EvoBound == catalog[1] # "DRAFT" /\ catalog[3] \in {Absent, "DRAFT"}

\* Jobs only read and write the row, and a call only reads it, so a call meets every
\* change with one job in flight, and its outcome is not followed further.  The
\* platform's row matters to calls only, and a settings page is open beside one job.
Flying == Cardinality({j \in VaultJobs : visit[j] # NoJob})
CallIdle == \A c \in BrokerCalls : call[c] = NoCallYet
VaultBound ==
    /\ \/ CallIdle
       \/ /\ Flying <= 1 /\ torn = {} /\ page.cred = NoToken /\ ~page.connected
          /\ \A c \in BrokerCalls : call[c].stage # "done"
    /\ \/ shared = [code |-> "zerodha", filled |-> FALSE]
       \/ Flying = 0 /\ torn = {}
    /\ Flying = 2 => page.cred = NoToken /\ ~page.connected

ControlBound == EvoBound /\ VaultBound

\* Where the vault waits while another component moves.
VaultRest == VaultInit /\ keySet

ControlInit == PauseInit /\ SubInit /\ EvoInit /\ VaultInit

ControlNext ==
    \/ SubInit /\ EvoInit /\ VaultRest /\ PauseNext
       /\ UNCHANGED <<subVars, evoVars, vaultVars>>
    \/ PauseInit /\ EvoInit /\ VaultRest /\ SubNext
       /\ UNCHANGED <<pauseVars, evoVars, vaultVars>>
    \/ PauseInit /\ SubInit /\ VaultRest /\ EvoNext
       /\ UNCHANGED <<pauseVars, subVars, vaultVars>>
    \/ PauseInit /\ SubInit /\ EvoInit /\ VaultNext
       /\ UNCHANGED <<pauseVars, subVars, evoVars>>

ControlSpec ==
    ControlInit /\ [][ControlNext]_<<pauseVars, subVars, evoVars, vaultVars>>

=============================================================================
