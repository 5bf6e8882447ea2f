------------------------------- MODULE TrendSides ------------------------------
(***************************************************************************)
(* What the strategies on an index have in common: the side a signal, a    *)
(* candle or a trend takes, and the extremes of two numbers.               *)
(***************************************************************************)
EXTENDS Integers

Bull == 1
Bear == -1

Smaller(x, y) == IF x < y THEN x ELSE y
Larger(x, y) == IF x > y THEN x ELSE y
=============================================================================
