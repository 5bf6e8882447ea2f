------------------------ MODULE MCRecommendationRefresh ------------------------
(* Instances of RecommendationRefresh for TLC. *)
EXTENDS RecommendationRefresh, TLC
CONSTANTS u, v, p, q, s1, s2

OneUser == {u}
TwoUsers == {u, v}
NoAdmin == {}
TwoTasks == {p, q}
BothOfU == [t \in TwoTasks |-> u]
OneEach == (p :> u) @@ (q :> v)
OneSymbol == {s1}
TwoSymbols == {s1, s2}
=============================================================================
