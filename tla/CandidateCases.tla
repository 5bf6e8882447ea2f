----------------------------- MODULE CandidateCases -----------------------------
(***************************************************************************)
(* Catalogs and markets for TLC to run CandidateRules on: legs and index   *)
(* candles that are strong, weak or off in one number, in paise around a   *)
(* VWAP of 100 rupees, so that percentages are exact.                      *)
(***************************************************************************)
EXTENDS Integers

Weak == [bars |-> 30, ltp |-> 9500, vwap |-> 10000, ema9 |-> 9600, ema21 |-> 9900,
         rsi |-> 38, rsiPrev |-> 45, falling |-> 3, bull |-> 100, bear |-> 3, ratio |-> 20]
Strong == [bars |-> 30, ltp |-> 10500, vwap |-> 10000, ema9 |-> 10300, ema21 |-> 10000,
           rsi |-> 60, rsiPrev |-> 55, falling |-> 0, bull |-> 3, bear |-> 100, ratio |-> 30]
Flat == [Strong EXCEPT !.ltp = 10000, !.ema9 = 9990, !.rsi = 50, !.bull = 100, !.ratio = 9]

\* One number off: hot or barely moving, at the line, below it by half a percent.
Series ==
    {Weak, Strong, [Weak EXCEPT !.ltp = 9950], [Weak EXCEPT !.rsiPrev = 39, !.falling = 1],
     [Weak EXCEPT !.ltp = 10100, !.rsi = 48, !.ema9 = 10100],
     [Strong EXCEPT !.rsi = 80], [Strong EXCEPT !.rsi = 70], [Strong EXCEPT !.ltp = 9950], [Strong EXCEPT !.bull = 0]}

Leg(s) == [hist |-> s, quote |-> [s EXCEPT !.bars = 5], iv |-> 20, delta |-> 30,
           oi |-> 5000, volume |-> 900]

\* Untraded, thin, far from the money, dear, and fetched for the first time.
Calls == {Leg(s) : s \in Series}
    \cup {[Leg(Weak) EXCEPT !.volume = 400], [Leg(Strong) EXCEPT !.volume = 400],
          [Leg(Weak) EXCEPT !.oi = 0], [Leg(Weak) EXCEPT !.delta = 45],
          [Leg(Strong) EXCEPT !.iv = 40],
          [Leg(Strong) EXCEPT !.hist.bars = 1, !.quote.rsiPrev = -1]}
Put(call) == [call EXCEPT !.delta = -call.delta, !.iv = call.iv + 10,
                          !.hist.bars = 40 - call.hist.bars]

Indexes == {Weak, Strong, Flat}

Market(call, put, index, source) ==
    [chain |-> [k \in {0} |-> [call |-> call, put |-> put]], candles |-> index,
     adx |-> IF index = Flat THEN 12 ELSE 30, early |-> call.volume < 900, source |-> source]

\* Three strikes, so that ranks matter.
Ladder(source) ==
    [Market(Leg(Weak), Leg(Weak), Weak, source) EXCEPT
       !.chain = [k \in -1 .. 1 |-> [call |-> [Leg(Weak) EXCEPT !.oi = 5000 + k],
                                     put |-> [Leg(Strong) EXCEPT !.delta = -30]]]]

SomeMarkets ==
    {Market(c, Put(c), i, "kite") : c \in Calls, i \in Indexes}
    \cup {Market(c, Put(c), Strong, s) : c \in Calls, s \in {"zerodha", "fyers"}}
    \cup {Ladder("kite"), Ladder("fyers")}

-----------------------------------------------------------------------------
Plain ==
    [short |-> FALSE, thr |-> 3, autoThr |-> 4, scoreMax |-> 5, cap |-> 5,
     rsiMin |-> 50, rsiMax |-> 75, ratioMin |-> 15, incVol |-> TRUE, incCross |-> TRUE,
     maxCross |-> 5, needRsi |-> FALSE, strict |-> FALSE, vwapMargin |-> 0, emaMargin |-> 0,
     mode |-> "legacy", rsiRules |-> {}, rsiBelow |-> 50, zoneLow |-> 20, zoneHigh |-> 45,
     reversalFrom |-> 70, fallingBars |-> 0, vwapBuf |-> 0, emaBuf |-> 0,
     vwapOptional |-> FALSE, regimeMode |-> "spot", skewMin |-> 10, pcrEpsilon |-> 5,
     pcrMinCe |-> -1, pcrMaxPe |-> -1, pcrVsChain |-> TRUE, legCap |-> 5,
     expansionRsi |-> 0, weaknessMin |-> 0, momentumMin |-> 0, ghostDrop |-> 0,
     adxMin |-> 0, spotAlign |-> FALSE, minGamma |-> FALSE, minOi |-> 1000,
     minVol |-> 500, earlyVol |-> 0, maxOtm |-> 3, deltaMin |-> 25, deltaMax |-> 35,
     deltaOnly |-> FALSE, bands |-> {}, datm |-> {}, ivrMin |-> 0,
     ivrMinSide |-> [call |-> -1, put |-> -1], ivrLegMax |-> 0, ivrBonus |-> 0, ivrMax |-> 20]

Careful == [Plain EXCEPT !.strict = TRUE, !.vwapMargin = 1, !.emaMargin = 1, !.thr = 4,
                         !.needRsi = TRUE, !.earlyVol = 300]
Aligned == [Plain EXCEPT !.incCross = FALSE, !.spotAlign = TRUE, !.autoThr = 3,
                         !.ivrBonus = 1, !.rsiMax = 65]

BySpot == [Plain EXCEPT !.short = TRUE, !.incVol = FALSE, !.autoThr = 3, !.earlyVol = 300,
                        !.adxMin = 20]
ByStrike == [BySpot EXCEPT !.regimeMode = "strike", !.mode = "three_factor",
                           !.rsiRules = {"zone"}, !.vwapBuf = 2, !.emaBuf = 2,
                           !.ivrMin = 10, !.minGamma = TRUE, !.cap = 2, !.adxMin = 0]
WithVetoes == [BySpot EXCEPT !.rsiRules = {"direct"}, !.rsiMin = 30, !.rsiMax = 50,
                             !.mode = "three_factor", !.ghostDrop = 3, !.weaknessMin = 1,
                             !.expansionRsi = 45, !.momentumMin = 2, !.vwapOptional = TRUE,
                             !.bands = {[threshold |-> 15,
                                         above |-> [call |-> <<20, 29>>, put |-> <<-31, -20>>],
                                         atOrBelow |-> [call |-> <<20, 35>>,
                                                        put |-> <<-35, -20>>]]}]

SomeCatalogs == {Plain, Careful, Aligned, BySpot, ByStrike, WithVetoes}
SomeVixes == {-1, 12, 18}
=============================================================================
