------------------------------ MODULE SpotSignals ------------------------------
(***************************************************************************)
(* The four strategies that read the candles of an index, supertrend_trail,*)
(* stochastic_bnf, ps_vs_mtf and trendpulse_z with its gates; the options  *)
(* that a refresh picks for a signal and what it logs of those it looked   *)
(* at; and the rule that closes such a trade again.                        *)
(*                                                                         *)
(* A view is what a strategy reads of its candles, the last of which is    *)
(* still in progress.  Only comparisons matter: the sign of a against b is *)
(* 1, 0 or -1, so that x >= 0 says a >= b.  A signal is Bull, Bear or      *)
(* Quiet.  The code writes each rule out for rising and for falling        *)
(* prices, and so do the definitions.                                      *)
(***************************************************************************)
EXTENDS TrendSides, FiniteSets

CONSTANTS
    SuperTrendViews, StochasticViews, PsVsViews, TrendPulseViews,
    LegBoards          \* option chains

Quiet == 0
Sign == {Bull, Bear, Quiet}
Unknown == 2           \* no volume

VARIABLES
    view,
    offers,            \* the recommendations of the refresh
    scanned            \* the rows it gives to the evaluation log

signalVars == <<view, offers, scanned>>

-----------------------------------------------------------------------------
(* SuperTrend: the direction of two bars, EMAs fast against slow, close    *)
(* against slow.                                                           *)

SuperTrendView == [of : {"supertrend"}, bars : BOOLEAN, dirPrev : {Bull, Bear},
                   dir : {Bull, Bear}, fast : Sign, close : Sign]

\* Trend and averages point up and the close is below the slow EMA, or the reverse.
UptrendPullback(v) ==
    v.dirPrev = Bull /\ v.dir = Bull /\ v.fast > 0 /\ v.close < 0
DowntrendPullback(v) ==
    v.dirPrev = Bear /\ v.dir = Bear /\ v.fast < 0 /\ v.close > 0

\* evaluate_supertrend_trail_signal
SuperTrendSignal(v) ==
    IF ~v.bars THEN Quiet
    ELSE IF UptrendPullback(v) THEN Bull
    ELSE IF DowntrendPullback(v) THEN Bear ELSE Quiet

-----------------------------------------------------------------------------
(* Stochastic: EMA5 against 15 and 15 against 50, K against D now and a    *)
(* bar ago, zone of K (overbought, oversold), close against VWAP, the last *)
(* candle, and whether the close before was between EMA5 and EMA15.        *)

StochasticView ==
    [of : {"stochastic"}, bars : BOOLEAN, inTime : BOOLEAN, short : Sign, long : Sign,
     adx : BOOLEAN, k : Sign, kPrev : Sign, zone : Sign, vwap : Sign \cup {Unknown},
     inBand : BOOLEAN, candle : Sign,
     confirm : BOOLEAN, useVwap : BOOLEAN, pullback : BOOLEAN]

\* bull_struct and _stoch_bull_ok, bear_struct and _stoch_bear_ok.
BullStructure(v) ==
    /\ v.short > 0 /\ v.long > 0 /\ v.adx
    /\ v.k > 0
    /\ v.confirm => v.zone > 0
BearStructure(v) ==
    /\ v.short < 0 /\ v.long < 0 /\ v.adx
    /\ v.k < 0
    /\ v.confirm => v.zone < 0

AboveVwapIfAsked(v) == v.useVwap /\ v.vwap # Unknown => v.vwap > 0
BelowVwapIfAsked(v) == v.useVwap /\ v.vwap # Unknown => v.vwap < 0

\* Mutant of CrossDown: K that touched D before does not cross it.
CrossDownFromAbove(v) == v.kPrev > 0 /\ v.k < 0

CrossUp(v) == v.kPrev <= 0 /\ v.k > 0
CrossDown(v) == v.kPrev >= 0 /\ v.k < 0

\* The pullback: a close in the band, then a candle or a cross of K that turns.
TurnsUp(v) == v.pullback => v.inBand /\ (v.candle > 0 \/ CrossUp(v))
TurnsDown(v) == v.pullback => v.inBand /\ (v.candle < 0 \/ CrossDown(v))

\* evaluate_stochastic_bnf_signal
StochasticSignal(v) ==
    IF ~v.bars \/ ~v.inTime THEN Quiet
    ELSE IF BullStructure(v) /\ AboveVwapIfAsked(v) /\ TurnsUp(v) THEN Bull
    ELSE IF BearStructure(v) /\ BelowVwapIfAsked(v) /\ TurnsDown(v) THEN Bear ELSE Quiet

-----------------------------------------------------------------------------
(* PS/VS: PS against VS on the last two 3m bars and on the last 15m bar,   *)
(* RSI and ADX of 15m, and the gap of PS and VS in fifteenths of the scale.*)

PsVsView ==
    [of : {"psvs"}, inSession : BOOLEAN, bars : BOOLEAN, bars15 : BOOLEAN,
     strict : BOOLEAN, before : Sign, last : Sign, bias : Sign, rsi : Int, adx : Int,
     range : BOOLEAN, volume : BOOLEAN, gap : Int, short : BOOLEAN]

RsiLow == 40
RsiHigh == 70
AdxMin == 10
MinConviction == 80
Capped(x) == IF x > 100 THEN 100 ELSE IF x < 0 THEN 0 ELSE x
Distance(x) == IF x < 0 THEN -x ELSE x

\* gates_ok: the 15m bars permit a call, or a put.
Permitted(v) ==
    /\ RsiLow <= v.rsi /\ v.rsi <= RsiHigh
    /\ v.adx >= AdxMin
    /\ v.range /\ v.volume
PermitsCall(v) == v.bias >= 0 /\ Permitted(v)
PermitsPut(v) == v.bias <= 0 /\ Permitted(v)

\* _conviction in hundredths of a percent, behind the gates: volume and alignment then
\* count in full.
Conviction(v) ==
    29 * 100 + 33 * Capped(25 + 5 * v.gap)
    + 19 * Capped(100 - (Distance(v.rsi - 55) * 100) \div 15)
    + 14 * 100 + 5 * Capped(5 * (v.adx - AdxMin))

\* PS crosses VS, at a close or after a dip of one bar, which is a cross as well.
CrossesUp(v) == v.before < 0 /\ v.last >= 0
CrossesDown(v) == v.before > 0 /\ v.last <= 0

\* evaluate_ps_vs_mtf_signal
PsVsSignal(v) ==
    LET convinces == Conviction(v) >= 100 * MinConviction
    IN IF ~v.inSession \/ ~v.bars \/ (~v.bars15 /\ v.strict) THEN Quiet
       ELSE IF CrossesUp(v) /\ PermitsCall(v) /\ convinces THEN Bull
       ELSE IF CrossesDown(v) /\ PermitsPut(v) /\ convinces THEN Bear ELSE Quiet

-----------------------------------------------------------------------------
(* TrendPulse: PS_z against VS_z on two bars, ADX, and the bias of the     *)
(* higher timeframe from its newest bar and from the newest bar that had   *)
(* begun when the last bar did; the gates see the time, and what the chain *)
(* says of the change of the index in hundredths of a percent and of the   *)
(* put-call ratio in hundredths: the set of that number, empty for None.   *)

HigherBars == [enough : BOOLEAN, close : Sign, fast : Sign]
TrendPulseView ==
    [of : {"trendpulse"}, bars : {"few", "just", "enough"}, before : Sign, last : Sign,
     adx : BOOLEAN, newest : HigherBars, begun : HigherBars,
     filtered : BOOLEAN, breadth : BOOLEAN, weekend : BOOLEAN, minute : Nat,
     change : SUBSET Int, pcr : SUBSET Int]

\* htf_bias_from_closes: close and fast EMA on the same side of the slow one.
Bias(h) ==
    IF ~h.enough THEN Quiet
    ELSE IF h.close > 0 /\ h.fast > 0 THEN Bull
    ELSE IF h.close < 0 /\ h.fast < 0 THEN Bear ELSE Quiet

\* detect_cross
CrossOf(v) ==
    IF v.before <= 0 /\ v.last > 0 THEN Bull
    ELSE IF v.before >= 0 /\ v.last < 0 THEN Bear ELSE Quiet

\* A cross that the bias is not with.
Against(cross, bias) ==
    \/ cross = Bull /\ bias # Bull
    \/ cross = Bear /\ bias # Bear

\* Mutant of TrendPulseSignal: a neutral bias does not veto.
TrendPulseSignalNeutral(v) ==
    IF v.bars = "few" \/ ~v.adx \/ Bias(v.newest) = -CrossOf(v) THEN Quiet ELSE CrossOf(v)

\* evaluate_trendpulse_signal
TrendPulseSignal(v) ==
    IF v.bars = "few" \/ ~v.adx \/ Against(CrossOf(v), Bias(v.newest))
      THEN Quiet ELSE CrossOf(v)

\* build_trendpulse_entry_events, for the last bar: the chart computes the signal again.
ChartedSignal(v) ==
    IF v.bars # "enough" \/ ~v.adx \/ Bias(v.begun) = Quiet
       \/ Against(CrossOf(v), Bias(v.begun))
      THEN Quiet ELSE CrossOf(v)

\* session_block_reason, with its defaults.
SessionOpen == 9 * 60 + 15
SessionClose == 15 * 60 + 30
SessionBlocks(v) ==
    v.filtered /\ (v.weekend \/ v.minute < SessionOpen + 15 \/ v.minute > SessionClose - 25)

\* breadth_block_reason, with both requirements set.
BreadthBlocks(v, cross) ==
    /\ v.breadth
    /\ \/ \E c \in v.change : \/ cross = Bull /\ c < 5
                              \/ cross = Bear /\ c > -5
       \/ \E r \in v.pcr : \/ cross = Bull /\ r > 105
                           \/ cross = Bear /\ r < 95

\* trendpulse_opening_window_blocked
OpeningBlocks(v) == ~v.weekend /\ SessionOpen <= v.minute /\ v.minute < SessionOpen + 5

\* apply_trendpulse_hard_gates and the opening window.
GatedSignal(v) ==
    LET side == TrendPulseSignal(v)
    IN IF SessionBlocks(v) \/ BreadthBlocks(v, side) \/ OpeningBlocks(v)
         THEN Quiet ELSE side

-----------------------------------------------------------------------------
(* Offers                                                                  *)

Signal(v) ==
    CASE v.of = "supertrend" -> SuperTrendSignal(v)
      [] v.of = "stochastic" -> StochasticSignal(v)
      [] v.of = "psvs" -> PsVsSignal(v)
      [] v.of = "trendpulse" -> GatedSignal(v)

\* The same prices upside down; PS/VS has one band of RSI for both sides, so RSI stays.
TurnedHigher(h) == [h EXCEPT !.close = -@, !.fast = -@]
Turned(v) ==
    CASE v.of = "supertrend" ->
           [v EXCEPT !.dirPrev = -@, !.dir = -@, !.fast = -@, !.close = -@]
      [] v.of = "stochastic" ->
           [v EXCEPT !.short = -@, !.long = -@, !.k = -@, !.kPrev = -@, !.zone = -@,
                     !.vwap = IF @ = Unknown THEN @ ELSE -@, !.candle = -@]
      [] v.of = "psvs" ->
           [v EXCEPT !.before = -@, !.last = -@, !.bias = -@]
      [] v.of = "trendpulse" ->
           [v EXCEPT !.before = -@, !.last = -@, !.newest = TurnedHigher(@),
                     !.begun = TurnedHigher(@),
                     !.change = {-c : c \in @}, !.pcr = {200 - r : r \in @}]

Views == SuperTrendViews \cup StochasticViews \cup PsVsViews \cup TrendPulseViews

-----------------------------------------------------------------------------
(* The option chain: strikes in steps from the money, the index a little   *)
(* off the strike nearest to it, deltas and shares in hundredths.          *)

Strikes == -4 .. 4
NoStrike == 99
Quote == [price : Nat, liquid : BOOLEAN, ivr : Int, delta : Int, gamma : Nat, surge : Nat]
Board == [expiry : BOOLEAN, off : Int, rows : SUBSET Strikes,
          legs : [Strikes -> [CE : Quote, PE : Quote]], byGamma : BOOLEAN, most : Nat]

NoIvr == -1
MaxOtmSteps == 3
MaxPremium == 80
IvRankMax == 70
StepWidth == 50

\* option_extrinsic_share is at least a quarter of the price.
TimeValue(b, k, type, price) ==
    LET inside == IF type = "CE" THEN b.off - k * StepWidth ELSE k * StepWidth - b.off
    IN price > 0 /\ 4 * Larger(0, price - Larger(0, inside)) >= price

\* TrendPulse's strikes: near the money, liquid, cheap, of the right delta.
Suits(b, k, type) ==
    LET leg == b.legs[k][type] IN
    /\ Distance(k) <= MaxOtmSteps
    /\ leg.liquid
    /\ leg.ivr <= IvRankMax
    /\ leg.price < MaxPremium
    /\ 40 <= Distance(leg.delta) /\ Distance(leg.delta) <= 50
    /\ TimeValue(b, k, type, leg.price)

\* Whether strike k comes before strike j: gamma (when asked for), volume (standing for the
\* change of open interest too), distance of delta to 0.35, distance to the money, and
\* then the chain's own order.
Precedes(b, type, k, j) ==
    LET x == b.legs[k][type] y == b.legs[j][type]
        aim == IF type = "CE" THEN 35 ELSE -35
        keys(l, i) == <<IF b.byGamma THEN -l.gamma ELSE 0, -l.surge,
                        Distance(l.delta - aim), Distance(i), i>>
    IN \E n \in 1 .. 5 : /\ \A m \in 1 .. n - 1 : keys(x, k)[m] = keys(y, j)[m]
                         /\ keys(x, k)[n] < keys(y, j)[n]

\* All of them, or with byGamma the first few.
Picked(b, type) ==
    LET fit == {k \in b.rows : Suits(b, k, type)}
        ahead(k) == Cardinality({j \in fit : Precedes(b, type, j, k)})
    IN IF b.byGamma THEN {k \in fit : ahead(k) < Larger(1, b.most)} ELSE fit

-----------------------------------------------------------------------------
(* The refresh *)

\* SuperTrend and Stochastic sell the option that a move with the signal makes worthless;
\* TrendPulse buys the other one.  PS/VS takes the side from the catalog's positionIntent
\* and the type from the signal alone.
Sells(v) == v.of \in {"supertrend", "stochastic"} \/ (v.of = "psvs" /\ v.short)

\* Mutant of TypeFor: the option of a strategy that buys.
TypeForBuyer(v) == IF Signal(v) = Bull THEN "CE" ELSE "PE"

TypeFor(v) ==
    IF v.of \in {"supertrend", "stochastic"}
      THEN IF Signal(v) = Bull THEN "PE" ELSE "CE"
      ELSE IF Signal(v) = Bull THEN "CE" ELSE "PE"

\* A volume bonus on top of a full score is capped, so confidence is 99; PS/VS has its
\* conviction.
Confidence(v) == IF v.of = "psvs" THEN Smaller(9900, Conviction(v)) ELSE 9900

OfferAt(v, b, k) ==
    [k |-> k, side |-> IF Sells(v) THEN "SELL" ELSE "BUY", type |-> TypeFor(v),
     entry |-> b.legs[k][TypeFor(v)].price, conf |-> Confidence(v)]

\* There is a signal, an expiry and a chain.
Ready(v, b) == Signal(v) # Quiet /\ b.expiry /\ b.rows # {}

Priced(v, b, k) == b.legs[k][TypeFor(v)].price > 0

ScanRow(k, fails) == [k |-> k, fails |-> fails]

\* What stopped the refresh before it looked at strikes, as a row of its own.
Stopped(v, b) ==
    ScanRow(NoStrike, {IF Signal(v) = Quiet THEN "signal"
                   ELSE IF ~b.expiry THEN "expiry" ELSE "chain"})

\* _one_scan_row
StrikeFails(v, b, k) ==
    (IF k = 0 THEN {} ELSE {"notAtm"}) \cup (IF Priced(v, b, k) THEN {} ELSE {"price"})

\* SuperTrend logs every strike and offers the one at the money if its row is eligible.
LadderScan(v, b) ==
    {ScanRow(k, StrikeFails(v, b, k)) : k \in b.rows}
    \cup (IF 0 \in b.rows THEN {} ELSE {ScanRow(NoStrike, {"atm"})})

\* Stochastic and PS/VS offer the strike at the money.
AtmOffers(v, b) == IF 0 \in b.rows /\ Priced(v, b, 0) THEN {OfferAt(v, b, 0)} ELSE {}

OffersFor(v, b) ==
    IF ~Ready(v, b) THEN {}
    ELSE IF v.of = "trendpulse" THEN {OfferAt(v, b, k) : k \in Picked(b, TypeFor(v))}
    ELSE IF v.of = "supertrend"
      THEN {OfferAt(v, b, r.k) : r \in {r \in LadderScan(v, b) : r.k = 0 /\ r.fails = {}}}
    ELSE AtmOffers(v, b)

\* What they log is that offer, or why there is none.
AtmScan(v, b) ==
    IF AtmOffers(v, b) # {} THEN {ScanRow(o.k, {}) : o \in AtmOffers(v, b)}
    ELSE {ScanRow(0, IF 0 \in b.rows THEN {"price"} ELSE {"atm"})}

ScanFor(v, b) ==
    IF v.of = "trendpulse" THEN {}
    ELSE IF ~Ready(v, b) THEN {Stopped(v, b)}
    ELSE IF v.of = "supertrend" THEN LadderScan(v, b) ELSE AtmScan(v, b)

\* What a strategy and a refresh may find has the shape that the rules read.
ASSUME SignalAssumption ==
    /\ SuperTrendViews \subseteq SuperTrendView /\ StochasticViews \subseteq StochasticView
    /\ PsVsViews \subseteq PsVsView /\ TrendPulseViews \subseteq TrendPulseView
    /\ LegBoards \subseteq Board

SignalInit == view \in Views /\ offers = {} /\ scanned = {}

\* _get_live_candidates_supertrend_trail and its three siblings.
RefreshSignal(b) ==
    /\ scanned = {} /\ offers = {}
    /\ offers' = OffersFor(view, b)
    /\ scanned' = ScanFor(view, b)
    /\ UNCHANGED view

SignalNext == \E b \in LegBoards : RefreshSignal(b)

SignalSpec == SignalInit /\ [][SignalNext]_signalVars

-----------------------------------------------------------------------------
(* Properties                                                              *)

\* Every variable keeps its shape.
SignalTypeOK ==
    /\ view \in Views
    /\ offers \subseteq [k : Strikes, side : {"BUY", "SELL"}, type : {"CE", "PE"},
                         entry : Nat \ {0}, conf : 8000 .. 9900]
    /\ scanned \subseteq [k : Strikes \cup {NoStrike},
                          fails : SUBSET {"signal", "expiry", "chain", "atm", "notAtm",
                                          "price"}]

\* No strategy prefers a side: the branch for falling prices, with its own comparisons and
\* limits, gives on prices turned upside down the opposite of what the branch for rising
\* prices gives, ties and gates included (evaluate_supertrend_trail_signal and the three
\* siblings of it).
MirrorAgrees == Signal(Turned(view)) = -Signal(view)

\* What an offer gains from: a bought call or a sold put from a rise.
Gains(o) == IF (o.side = "BUY") = (o.type = "CE") THEN Bull ELSE Bear

\* An offer gains when the index moves as the signal says, except for PS/VS with
\* positionIntent short_premium, which sells the option it would have bought.
GainsWithSignal(o) ==
    Gains(o) = IF view.of = "psvs" /\ view.short THEN -Signal(view) ELSE Signal(view)

\* should_exit_on_spot_supertrend_flip and should_exit_on_ema5_15_cross.
RuleExit(v, type) ==
    LET against == IF type = "PE" THEN Bear ELSE Bull
    IN \/ v.of = "supertrend" /\ v.dir = against
       \/ v.of = "stochastic" /\ v.short = against

\* Every offer gains when the signal is right, and the monitor's rule does not close its
\* trade again on the candles that it was offered on.
OffersFollowSignal == \A o \in offers : GainsWithSignal(o) /\ ~RuleExit(view, o.type)

\* The chart of entries, which computes the signal a second time, shows the engine's
\* signal on the last bar, unless the candles just suffice (the chart wants one more) or
\* the higher timeframe has a bar that began after the last bar did.
ChartAgrees ==
    view.of = "trendpulse" /\ view.bars # "just" /\ view.newest = view.begun =>
        ChartedSignal(view) = TrendPulseSignal(view)
=============================================================================
