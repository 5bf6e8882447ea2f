------------------------------- MODULE LegSignals -------------------------------
(***************************************************************************)
(* What an option chain says about its legs (option_chain_zerodha): the    *)
(* gates, score and verdict of a leg for buying or selling its premium,    *)
(* the regime of the strike and of the index, the bonuses of a three-      *)
(* factor score and the vetoes.                                            *)
(*                                                                         *)
(* A series of closes and volumes is known by what the rules read of it:   *)
(*   bars             its length                                           *)
(*   ltp, vwap, ema9, ema21   last close and averages, in paise            *)
(*   rsi, rsiPrev     RSI now and a bar ago (NoValue with less than 4 bars)*)
(*   falling          RSI falls over this many closes up to now            *)
(*   bull, bear       bars since EMA9 crossed above and below EMA21        *)
(*   ratio            volume over its average, in tenths                   *)
(* The parameters p are those of fetch_option_chain_sync: thr (the score   *)
(* threshold) and the entries of indicator_params, percentages as numbers. *)
(***************************************************************************)
EXTENDS Integers, FiniteSets

NoValue == -1
NoLimit == -1

One(b) == IF b THEN 1 ELSE 0
Clamp(x, lo, hi) == IF x < lo THEN lo ELSE IF x > hi THEN hi ELSE x
Lower(a, b) == IF a < b THEN a ELSE b
Higher(a, b) == IF a > b THEN a ELSE b
Between(lo, x, hi) == lo <= x /\ x <= hi
Percent(x, n) == (x * n) \div 100

\* trades_service, for every candidate: volume above its average adds up to 19 to the
\* confidence, and a point to the score at that maximum.
VolumeBonus(ratio) == Clamp(ratio - 10, 0, 19)

\* The pack of an empty series.
NoGates == [primary |-> FALSE, ema |-> FALSE, cross |-> FALSE, rsi |-> FALSE,
            vol |-> FALSE, score |-> 0, sig |-> FALSE]

\* A cross counts for max_candles_since_cross bars, on the bar itself without a limit.
CrossCounts(s, since, p) ==
    IF p.maxCross = NoLimit THEN s.bars >= 22 /\ since = 0
                            ELSE s.bars >= 23 /\ since <= p.maxCross

\* The gates for buying, which trades_service repeats in
\* _long_premium_gates_from_rounded_metrics: a strict comparison allows a margin.
Margin(x, pct) == Percent(x, 100 - Clamp(pct, 0, 10))
AboveVwap(s, p) == IF p.strict THEN s.ltp > Margin(s.vwap, p.vwapMargin) ELSE s.ltp >= s.vwap
EmaRising(s, p) == IF p.strict THEN s.ema9 > Margin(s.ema21, p.emaMargin) ELSE s.ema9 >= s.ema21

\* _indicator_pack_from_series: is the premium worth buying?
BullGates(s, p) ==
    LET primary == AboveVwap(s, p)
        ema == EmaRising(s, p)
        cross == CrossCounts(s, s.bull, p)
        rsi == Between(p.rsiMin, s.rsi, p.rsiMax)
        busy == s.ratio > p.ratioMin
        score == One(primary) + One(ema) + One(rsi) + One(p.incCross /\ cross)
                 + One(p.incVol /\ busy)
    IN IF s.bars = 0 THEN NoGates
       ELSE [primary |-> primary, ema |-> ema, cross |-> cross, rsi |-> rsi,
             vol |-> p.incVol => busy, score |-> score,
             sig |-> primary /\ score >= p.thr /\ (p.needRsi => rsi)]

\* The rules for RSI of a leg to sell; in a three-factor score the first that is set
\* counts, and the mirrored band is the legacy's.
FallingRsi(s, n) == IF n >= 2 THEN s.falling >= n ELSE FALSE
InBand(x, lo, hi) == Between(Lower(lo, hi), x, Higher(lo, hi))
WeakRsi(s, p) ==
    IF p.mode = "three_factor"
      THEN IF "zone" \in p.rsiRules
             THEN \/ InBand(s.rsi, p.zoneLow, p.zoneHigh)
                  \/ FallingRsi(s, p.fallingBars)
                  \/ /\ p.fallingBars < 2 /\ s.rsiPrev # NoValue
                     /\ s.rsiPrev >= p.reversalFrom /\ s.rsi < s.rsiPrev
           ELSE IF "decreasing" \in p.rsiRules
             THEN s.rsiPrev # NoValue /\ s.rsi < p.rsiBelow /\ s.rsi < s.rsiPrev
           ELSE IF "direct" \in p.rsiRules THEN InBand(s.rsi, p.rsiMin, p.rsiMax)
           ELSE s.rsi < p.rsiBelow
      ELSE IF "direct" \in p.rsiRules THEN InBand(s.rsi, p.rsiMin, p.rsiMax)
           ELSE InBand(s.rsi, Higher(0, 100 - p.rsiMax), Lower(100, 100 - p.rsiMin))

\* _indicator_pack_from_series_bearish: is the premium weak enough to sell?
BearGates(s, p) ==
    LET line(x, buffer) == Percent(x, 100 + Clamp(buffer, 0, 3))
        three == p.mode = "three_factor"
        primary == s.ltp < line(s.vwap, p.vwapBuf)
        ema == s.ema9 < line(s.ema21, p.emaBuf)
        cross == CrossCounts(s, s.bear, p)
        rsi == WeakRsi(s, p)
        busy == s.ratio > p.ratioMin
        score == One(primary) + One(ema) + One(rsi) + One(~three /\ p.incCross /\ cross)
                 + One(~three /\ p.incVol /\ busy)
    IN IF s.bars = 0 THEN NoGates
       ELSE [primary |-> primary, ema |-> ema, cross |-> cross, rsi |-> rsi,
             vol |-> three \/ (p.incVol => busy), score |-> score,
             sig |-> score >= p.thr /\ ((three /\ p.vwapOptional) \/ primary)]

-----------------------------------------------------------------------------
(* Regimes: of a strike for selling, and of the index.                     *)

\* _strike_leg_regime_sell_pe and _ce, alike for both legs: at or below VWAP and a recent
\* cross down, or the averages weak on the last bar.
SellRegime(s, p) ==
    LET line(x, buffer) == Percent(x, 100 + Clamp(buffer, 0, 3))
        window == IF p.maxCross = NoLimit THEN 5 ELSE Higher(1, p.maxCross)
    IN /\ s.bars >= 5
       /\ s.ltp <= line(s.vwap, p.vwapBuf)
       /\ (s.bars >= 23 /\ s.bear <= window) \/ s.ema9 <= line(s.ema21, p.emaBuf)

NoTrend == [bull |-> 0, bear |-> 0, regime |-> "none"]

\* One side of the index's score reaches the threshold and the other does not.
TrendOf(bull, bear, p) ==
    [bull |-> bull, bear |-> bear,
     regime |-> IF bull >= p.thr /\ bear < p.thr THEN "bullish"
                ELSE IF bear >= p.thr /\ bull < p.thr THEN "bearish" ELSE "none"]

\* _spot_trend_payload_from_candles: the same packs over the index; volume always
\* counts for the bulls, and no buffer to VWAP helps the bears.
SpotTrend(s, p) ==
    IF s.bars < 5 \/ p.regimeMode = "strike" THEN NoTrend
    ELSE TrendOf(BullGates(s, [p EXCEPT !.incVol = TRUE]).score,
                 BearGates(s, [p EXCEPT !.vwapBuf = 0]).score, p)

-----------------------------------------------------------------------------
(* The chain: strikes to a call and a put.  A quoted leg has its series    *)
(* over the last fetches (hist), one made of its day's prices (quote), iv, *)
(* delta in hundredths, oi and volume.                                     *)

Sides == {"call", "put"}
OtherSide(side) == IF side = "call" THEN "put" ELSE "call"

\* The day's prices stand in for a series that is short or empty of prices.
SeriesOf(q) ==
    IF q.hist.bars < 5 \/ (q.hist.ema9 = 0 /\ q.hist.ema21 = 0 /\ q.hist.vwap = 0)
      THEN q.quote ELSE q.hist

\* _add_ivr_to_chain: where a leg's IV lies between the chain's least and highest.
IvRank(chain, q) ==
    LET ivs == {chain[k][side].iv : k \in DOMAIN chain, side \in Sides} \ {0}
        least == CHOOSE v \in ivs : \A w \in ivs : v <= w
        most == CHOOSE v \in ivs : \A w \in ivs : v >= w
    IN IF ivs = {} THEN NoValue
       ELSE IF q.iv = 0 THEN 50
       ELSE IF least = most THEN 0 ELSE ((q.iv - least) * 100) \div (most - least)

LegGates(s, p) == IF p.short THEN BearGates(s, p) ELSE BullGates(s, p)

\* A leg as _build_live_chain puts it together, from its quote and its gates.
LegWith(chain, q, gates, p) ==
    [seen |-> SeriesOf(q), gates |-> gates, tech |-> gates.score, vetoes |-> {},
     regime |-> p.short /\ p.regimeMode = "strike" /\ SellRegime(q.hist, p),
     ivr |-> IvRank(chain, q), delta |-> q.delta, oi |-> q.oi, volume |-> q.volume]

BuiltLeg(chain, k, side, p) ==
    LegWith(chain, chain[k][side], LegGates(SeriesOf(chain[k][side]), p), p)

Summed(S, f(_)) ==
    LET total[T \in SUBSET S] ==
          IF T = {} THEN 0 ELSE LET x == CHOOSE x \in T : TRUE IN f(x) + total[T \ {x}]
    IN total[S]

\* _apply_short_premium_skew_pcr_leg_scores: a point for the dearer side of the strike
\* and one for its put-call ratio (in hundredths), up to the cap; the verdict stays.
Bonus(chain, k, side, built, p) ==
    LET calls == Summed(DOMAIN chain, LAMBDA j : chain[j]["call"].oi)
        puts == Summed(DOMAIN chain, LAMBDA j : chain[j]["put"].oi)
        all == IF calls > 0 THEN (puts * 100) \div calls ELSE 0
        coi == chain[k]["call"].oi
        pcr == (chain[k]["put"].oi * 100) \div coi
        skew == built[side].ivr - built[OtherSide(side)].ivr >= p.skewMin
        against == IF side = "call" THEN pcr > all + p.pcrEpsilon ELSE pcr < all - p.pcrEpsilon
        bound == IF side = "call" THEN p.pcrMinCe # NoLimit /\ pcr >= p.pcrMinCe
                                  ELSE p.pcrMaxPe # NoLimit /\ pcr <= p.pcrMaxPe
        fixed == ~p.pcrVsChain /\ (p.pcrMinCe # NoLimit \/ p.pcrMaxPe # NoLimit)
    IN One(skew) + One(coi > 0 /\ IF fixed THEN bound ELSE against)

WithBonus(chain, k, side, built, p) ==
    [built[side] EXCEPT !.gates.score =
        Lower(Clamp(p.legCap, 3, 10), built[side].tech + Bonus(chain, k, side, built, p))]

\* _apply_short_premium_enrichment_filters: the first veto that applies to an eligible leg.
Veto(leg, p) ==
    LET s == leg.seen
        factors == One(leg.gates.primary) + One(leg.gates.ema) + One(leg.gates.rsi)
    IN IF p.expansionRsi > 0 /\ s.rsi > p.expansionRsi /\ s.ltp > s.vwap /\ s.vwap > 0
         THEN {"expansion"}
       ELSE IF p.weaknessMin > 0 /\ s.ltp < s.vwap
               /\ (s.vwap - s.ltp) * 100 < p.weaknessMin * s.vwap THEN {"distance"}
       ELSE IF p.momentumMin > 0 /\ factors < p.momentumMin THEN {"momentum"}
       ELSE IF p.ghostDrop > 0
               /\ (s.rsiPrev = NoValue \/ s.rsiPrev - s.rsi < p.ghostDrop) THEN {"ghost"}
       ELSE {}

Vetoed(leg, p) ==
    IF ~p.short \/ ~leg.gates.sig \/ Veto(leg, p) = {} THEN leg
    ELSE [leg EXCEPT !.gates.sig = FALSE, !.vetoes = Veto(leg, p)]

\* The index candles are fetched only where they are asked for.
CandlesAsked(p) ==
    \/ p.short /\ p.regimeMode # "strike"
    \/ p.adxMin > 0
    \/ p.spotAlign /\ ~p.short

\* The index's ADX takes the verdict from every leg (no candles, no filter).
AdxFiltered(leg, candles, adx, p) ==
    IF candles.bars > 0 /\ p.adxMin > 0 /\ adx < p.adxMin
      THEN [leg EXCEPT !.gates.sig = FALSE] ELSE leg

\* fetch_option_chain_sync, a strike: bonuses, vetoes and the filter on the ADX.
StrikeLegs(chain, k, built, candles, adx, p) ==
    [side \in Sides |->
       AdxFiltered(Vetoed(IF p.short /\ p.mode = "three_factor"
                            THEN WithBonus(chain, k, side, built, p) ELSE built[side], p),
                   candles, adx, p)]

ChainLegs(chain, candles, adx, p) ==
    [k \in DOMAIN chain |->
       StrikeLegs(chain, k, [side \in Sides |-> BuiltLeg(chain, k, side, p)],
                  candles, adx, p)]

ChainTrend(candles, p) ==
    IF CandlesAsked(p) /\ (p.short \/ p.spotAlign) THEN SpotTrend(candles, p) ELSE NoTrend
=============================================================================
