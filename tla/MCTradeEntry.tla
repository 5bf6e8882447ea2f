----------------------------- MODULE MCTradeEntry -----------------------------
(* Instances of TradeEntry for TLC: two recommendations for one symbol. *)
EXTENDS TradeEntry, TLC
CONSTANTS c1, c2, r1, r2, s1, u1, u2, u3

TwoCallers == {c1, c2}
TwoRecs == {r1, r2}
OneSymbol == {s1}
SameSymbol == [r \in TwoRecs |-> s1]
TwoRefs == {u1, u2}
ThreeRefs == {u1, u2, u3}
AllSymmetry == Permutations(TwoRefs) \cup Permutations(TwoCallers) \cup Permutations(TwoRecs)
=============================================================================
