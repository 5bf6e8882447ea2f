----------------------------- MODULE HeuristicCases -----------------------------
(***************************************************************************)
(* Markets and parameters for TLC to run HeuristicRules on.                *)
(***************************************************************************)
EXTENDS HeuristicRules, TLC

Liked == [buildup |-> "long buildup", ivr |-> 15, ratio |-> 21, rsi |-> 60, ema9 |-> 103,
          ema21 |-> 100, ltp |-> 105, vwap |-> 100, delta |-> 35, oi |-> 20000,
          volume |-> 900, oiChg |-> 1200, ltpChg |-> 600]
Doubtful == [Liked EXCEPT !.buildup = "none", !.ivr = 50, !.ratio = 11, !.ema9 = 100,
                          !.delta = 48, !.oiChg = 30, !.ltpChg = -100]
Disliked == [buildup |-> "short buildup", ivr |-> 85, ratio |-> 0, rsi |-> 30, ema9 |-> 97,
             ema21 |-> 100, ltp |-> 95, vwap |-> 100, delta |-> 5, oi |-> 20000,
             volume |-> 900, oiChg |-> -900, ltpChg |-> -600]

\* Thin, busy, churning, dear, unknown in every number.
Callables ==
    {Liked, Doubtful, Disliked, [Liked EXCEPT !.oi = 500], [Doubtful EXCEPT !.ratio = 30],
     [Doubtful EXCEPT !.ratio = 30, !.volume = 100], [Liked EXCEPT !.oiChg = 10],
     [Liked EXCEPT !.ivr = 70, !.rsi = 44, !.ltpChg = Missing],
     [Liked EXCEPT !.ivr = Missing, !.rsi = Missing, !.oiChg = Missing, !.vwap = 0]}

\* Liked, while open interest falls: with the index behind it, above 5.00.
Unwinding == [Liked EXCEPT !.oiChg = -60]

\* What is bought for a call is sold for a put.
AsPut(leg) ==
    [leg EXCEPT !.delta = -leg.delta, !.ltp = 200 - leg.ltp,
                !.buildup = IF leg.buildup = "long buildup" THEN "short buildup"
                            ELSE IF leg.buildup = "short buildup" THEN "long buildup"
                            ELSE leg.buildup]

\* Two strikes at the money, a pair of calls against the same puts the other way round.
AtTheMoney(a, b) == [k \in {0, 1} |-> IF k = 0 THEN [call |-> a, put |-> AsPut(b)]
                                         ELSE [call |-> b, put |-> AsPut(a)]]
Wing(a, k) == [j \in {k, -k} |-> [call |-> a, put |-> AsPut(Liked)]]

PollMarket(chain, days, change) ==
    [chain |-> chain, spot |-> 24010, days |-> days, change |-> change]

-----------------------------------------------------------------------------
Untuned ==
    [thr |-> 300, sideThr |-> [call |-> Missing, put |-> Missing], scoreMax |-> 500,
     weights |-> <<>>, sideWeights |-> [call |-> <<>>, put |-> <<>>], minOi |-> 10000,
     minVol |-> 500, delta |-> [call |-> 35, put |-> -35], maxOtm |-> 6, rsiMin |-> 45,
     rsiMax |-> 100, short |-> FALSE, enhancements |-> <<>>]

Bare == [Untuned EXCEPT !.enhancements = [enabled |-> FALSE], !.minOi = 0, !.minVol = 0,
                        !.sideThr.call = 450, !.rsiMax = 75]
Stern == [Untuned EXCEPT !.enhancements = [single |-> TRUE, ceNotDown |-> TRUE,
                                           peNotUp |-> TRUE, dynamic |-> TRUE],
                         !.sideThr = [call |-> 345, put |-> 330]]
Reweighted == [Untuned EXCEPT !.weights = [oiChange |-> 3000, ltpChange |-> 6000, ivr |-> 500],
                         !.sideWeights.put = [oiChange |-> 1000, ltpChange |-> Off],
                         !.enhancements = [minGap |-> 0, pairShare |-> 50],
                         !.short = TRUE]
Loose == [Untuned EXCEPT !.enhancements =
                          [maxMoneyness |-> 60, minGap |-> 10,
                           cells |-> (<<"core", "ultra">> :> [ok |-> FALSE, cap |-> NoCap])
                                     @@ (<<"wide", "short">> :> [ok |-> TRUE, cap |-> 310])]]

Tunings == {Untuned, Bare, Stern, Reweighted, Loose}

SomePolls ==
    {[p |-> p, market |-> PollMarket(AtTheMoney(a, b), 5, 0)] :
       p \in Tunings, a \in Callables, b \in Callables}
    \cup {[p |-> p, market |-> PollMarket(AtTheMoney(a, Disliked), n, c)] :
            p \in Tunings, a \in Callables, n \in {0, 3, 9}, c \in {Missing, -60, 6, 60}}
    \cup {[p |-> p, market |-> PollMarket(AtTheMoney(Unwinding, b), n, c)] :
            p \in Tunings, b \in {Liked, Doubtful, [Unwinding EXCEPT !.ivr = 70]},
            n \in {1, 9}, c \in {-60, 60}}
    \cup {[p |-> p, market |-> PollMarket(Wing(a, k), n, -6)] :
            p \in Tunings, a \in Callables, k \in 2..6, n \in {1, 2, 4}}
    \cup {[p |-> Untuned, market |-> PollMarket(<<>>, 1, 0)]}
=============================================================================
