---------------------------- MODULE MCAutoExecute ----------------------------
(* Instances of AutoExecute for TLC: recommendations for different symbols. *)
EXTENDS AutoExecute, TLC
CONSTANTS a, c, r1, r2, r3, s1, s2, s3, u1, u2, u3

OnlyAuto == {a}
AutoAndUser == {a, c}
ThreeRecs == {r1, r2, r3}
ThreeSymbols == {s1, s2, s3}
TripleOf == (r1 :> s1) @@ (r2 :> s2) @@ (r3 :> s3)
ThreeRefs == {u1, u2, u3}
Paper == {"PAPER"}

\* A permutation of the recommendations moves their symbols along.
Along(p) == p @@ [s \in Symbols |-> SymbolOf[p[CHOOSE r \in Recs : SymbolOf[r] = s]]]
AllSymmetry == Permutations(Refs) \cup {Along(p) : p \in Permutations(Recs)}

\* One trade of the user, on the first day, is enough to move the counts of the loop
\* at any of its awaits.
UserTrades == {t \in Refs : trade[t] # NoTrade /\ trade[t].by = c}
UserIdle == call[c] = NoCall
UserBound ==
    \/ UserTrades = {} /\ UserIdle
    \/ /\ day = 1 /\ (UserTrades = {} \/ UserIdle)
       /\ Cardinality(UserTrades) <= 1
       /\ \E t \in Refs : Fresh(t)
=============================================================================
