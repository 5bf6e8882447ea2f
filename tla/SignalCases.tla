------------------------------ MODULE SignalCases ------------------------------
(***************************************************************************)
(* Views and option chains for TLC to run SpotSignals on: every side and   *)
(* comparison that a rule looks at, with numbers on both sides of each     *)
(* limit.                                                                  *)
(***************************************************************************)
EXTENDS SpotSignals

SuperTrendCases == SuperTrendView

\* EMAs in order, against each other and touching; filters all on, all off, pullback only.
StochasticCases ==
    {v \in [of : {"stochastic"}, bars : {TRUE}, inTime : {TRUE}, short : Sign, long : Sign,
            adx : {TRUE}, k : Sign, kPrev : Sign, zone : Sign, vwap : Sign \cup {Unknown},
            inBand : BOOLEAN, candle : Sign,
            confirm : BOOLEAN, useVwap : BOOLEAN, pullback : BOOLEAN] :
        /\ v.long = v.short \/ v.short = Bull
        /\ v.confirm = v.useVwap /\ (v.confirm => v.pullback)
        /\ v.zone = v.k \/ v.confirm
        /\ ~v.pullback => ~v.inBand /\ v.candle = Quiet /\ v.kPrev = Quiet}
    \cup [of : {"stochastic"}, bars : BOOLEAN, inTime : BOOLEAN, short : {Bear},
          long : {Bear}, adx : BOOLEAN, k : {Bear}, kPrev : {Bear}, zone : {Bear},
          vwap : {Unknown}, inBand : {FALSE}, candle : {Quiet},
          confirm : {TRUE}, useVwap : {TRUE}, pullback : {FALSE}]

\* Without enough 15m bars there is no ADX and no range; PS on VS is no gap.
PsVsCases ==
    {v \in [of : {"psvs"}, inSession : {TRUE}, bars : {TRUE}, bars15 : {TRUE},
            strict : {TRUE}, before : Sign, last : Sign, bias : Sign,
            rsi : {39, 40, 55, 62, 70, 71}, adx : {9, 10, 30}, range : BOOLEAN,
            volume : BOOLEAN, gap : {0, 5, 15}, short : BOOLEAN] :
        v.last = Quiet => v.gap = 0}
    \cup [of : {"psvs"}, inSession : BOOLEAN, bars : BOOLEAN, bars15 : {FALSE},
          strict : BOOLEAN, before : {Bear}, last : {Bull}, bias : {Bull}, rsi : {55},
          adx : {0}, range : {FALSE}, volume : BOOLEAN, gap : {15}, short : {FALSE}]
    \cup [of : {"psvs"}, inSession : BOOLEAN, bars : BOOLEAN, bars15 : {TRUE},
          strict : BOOLEAN, before : {Bull}, last : {Bear}, bias : {Bear}, rsi : {55},
          adx : {30}, range : {TRUE}, volume : {TRUE}, gap : {15}, short : {FALSE}]

Rising == [enough |-> TRUE, close |-> Bull, fast |-> Bull]
Falling == TurnedHigher(Rising)
Mixed == [Rising EXCEPT !.fast = Bear]
TooFew == [Rising EXCEPT !.enough = FALSE]
HigherCases == {Rising, Falling, Mixed, TooFew, [Falling EXCEPT !.close = Quiet]}

\* Every signal without filters, and a signal of each side under every filter.
TrendPulseCases ==
    [of : {"trendpulse"}, bars : {"few", "just", "enough"}, before : Sign, last : Sign,
     adx : BOOLEAN, newest : HigherCases, begun : HigherCases, filtered : {FALSE},
     breadth : {FALSE}, weekend : {FALSE}, minute : {660}, change : {{0}}, pcr : {{100}}]
    \cup
    {v \in [of : {"trendpulse"}, bars : {"enough"}, before : {Quiet}, last : {Bull, Bear},
            adx : {TRUE}, newest : {Rising, Falling}, begun : {Rising}, filtered : BOOLEAN,
            breadth : BOOLEAN, weekend : BOOLEAN,
            minute : {554, 555, 559, 560, 569, 570, 905, 906},
            change : {{-5}, {-4}, {4}, {5}, {}}, pcr : {{}, {0}, {94}, {95}, {105}, {106}}] :
        v.newest.close = v.last}

\* Cheap enough in the money, at the money and out of it, with two of the same gamma.
QuoteOf(price, delta, gamma) ==
    [price |-> price, liquid |-> TRUE, ivr |-> 70, delta |-> delta, gamma |-> gamma,
     surge |-> 1]
LegTable ==
    [k \in Strikes |->
        [CE |-> CASE k = -1 -> QuoteOf(79, 50, 4) [] k = 0 -> QuoteOf(60, 48, 5)
                  [] k = 1 -> QuoteOf(40, 40, 5) [] k = 2 -> QuoteOf(25, 39, 6)
                  [] k = 3 -> [QuoteOf(20, 45, 9) EXCEPT !.liquid = FALSE]
                  [] k = 4 -> QuoteOf(10, 45, 9) [] OTHER -> QuoteOf(90, 60, 2),
         PE |-> CASE k = 1 -> QuoteOf(79, -50, 4) [] k = 0 -> QuoteOf(60, -45, 5)
                  [] k = -1 -> [QuoteOf(45, -42, 5) EXCEPT !.ivr = 71]
                  [] k = -2 -> [QuoteOf(30, -41, 5) EXCEPT !.ivr = NoIvr]
                  [] k = -4 -> QuoteOf(10, -45, 9) [] OTHER -> QuoteOf(80, -45, 2)]]
Unpriced == [LegTable EXCEPT ![0].CE.price = 0, ![0].PE.price = 0]
BoardCases ==
    LET full == [expiry |-> TRUE, off |-> 10, rows |-> Strikes, legs |-> LegTable,
                 byGamma |-> TRUE, most |-> 1]
    IN {full, [full EXCEPT !.expiry = FALSE], [full EXCEPT !.rows = {}],
        [full EXCEPT !.rows = {-1, 1}, !.byGamma = FALSE],
        [full EXCEPT !.legs = Unpriced], [full EXCEPT !.most = 2, !.off = -20],
        [full EXCEPT !.byGamma = FALSE]}
=============================================================================
