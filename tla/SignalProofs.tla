------------------------------ MODULE SignalProofs -----------------------------
(***************************************************************************)
(* Proofs about the strategies that watch the market: the signals on an    *)
(* index (SpotSignals, from SignalAssumption) and the candidates of the    *)
(* strategies with rules (CandidateRules, from CandidateAssumption).       *)
(*                                                                         *)
(* SpotSignals.  Each strategy writes its rule out for both sides; the     *)
(* lemmas *Turns compare the two branch by branch: what holds of a view is *)
(* what the other branch says of the view turned upside down.  The other   *)
(* properties follow from what a refresh stores (SignalInv).               *)
(*                                                                         *)
(* CandidateRules.  CandInv says that the rows are the candidates of one   *)
(* refresh.  Below it are lemmas on what every stage of the chain leaves   *)
(* of a leg (IsLeg, Untouched) and every stage of the scan of a row        *)
(* (IsRow, SameRow), each stated of the operator that models the stage.    *)
(***************************************************************************)
EXTENDS SpotSignals, CandidateRules, TLAPS

-----------------------------------------------------------------------------
(* SpotSignals *)

\* A view is of one of the four strategies.
LEMMA ViewKinds ==
    ASSUME NEW v \in Views
    PROVE  \/ v \in SuperTrendView /\ v.of = "supertrend"
           \/ v \in StochasticView /\ v.of = "stochastic"
           \/ v \in PsVsView /\ v.of = "psvs"
           \/ v \in TrendPulseView /\ v.of = "trendpulse"
  BY SignalAssumption
     DEF Views, SuperTrendView, StochasticView, PsVsView, TrendPulseView

\* SuperTrend: upside down, direction, averages and close change sides together.
LEMMA SuperTrendTurns ==
    ASSUME NEW v \in SuperTrendView
    PROVE  SuperTrendSignal(Turned(v)) = -SuperTrendSignal(v)
<1> DEFINE w == [v EXCEPT !.dirPrev = -@, !.dir = -@, !.fast = -@, !.close = -@]
<1>1. Turned(v) = w
  BY DEF Turned, SuperTrendView
<1>2. /\ w.bars = v.bars /\ w.dirPrev = -v.dirPrev /\ w.dir = -v.dir
      /\ w.fast = -v.fast /\ w.close = -v.close
  BY DEF SuperTrendView
<1>3. v.dirPrev \in {1, -1} /\ v.dir \in {1, -1} /\ v.fast \in {1, -1, 0} /\ v.close \in {1, -1, 0}
  BY DEF SuperTrendView, Sign, Bull, Bear, Quiet
<1> HIDE DEF w
<1>. QED
  BY <1>1, <1>2, <1>3
     DEF SuperTrendSignal, UptrendPullback, DowntrendPullback, Quiet, Bull, Bear

\* Stochastic: what speaks for one side speaks, upside down, for the other.
LEMMA StochasticTurns ==
    ASSUME NEW v \in StochasticView
    PROVE  StochasticSignal(Turned(v)) = -StochasticSignal(v)
<1> DEFINE w == [v EXCEPT !.short = -@, !.long = -@, !.k = -@, !.kPrev = -@, !.zone = -@,
                          !.vwap = IF @ = Unknown THEN @ ELSE -@, !.candle = -@]
<1>1. Turned(v) = w
  BY DEF Turned, StochasticView
<1>2. /\ w.bars = v.bars /\ w.inTime = v.inTime /\ w.short = -v.short /\ w.long = -v.long
      /\ w.adx = v.adx /\ w.k = -v.k /\ w.kPrev = -v.kPrev /\ w.zone = -v.zone
      /\ w.inBand = v.inBand /\ w.candle = -v.candle /\ w.confirm = v.confirm
      /\ w.useVwap = v.useVwap /\ w.pullback = v.pullback
      /\ w.vwap = IF v.vwap = Unknown THEN v.vwap ELSE -v.vwap
  BY DEF StochasticView
<1>3. /\ v.short \in {1, -1, 0} /\ v.long \in {1, -1, 0} /\ v.k \in {1, -1, 0}
      /\ v.kPrev \in {1, -1, 0} /\ v.zone \in {1, -1, 0} /\ v.vwap \in {1, -1, 0, 2}
      /\ v.candle \in {1, -1, 0}
  BY DEF StochasticView, Sign, Bull, Bear, Quiet, Unknown
<1> HIDE DEF w
<1>4. /\ BullStructure(w) <=> BearStructure(v)
      /\ BearStructure(w) <=> BullStructure(v)
  BY <1>2, <1>3 DEF BullStructure, BearStructure
<1>5. /\ AboveVwapIfAsked(w) <=> BelowVwapIfAsked(v)
      /\ BelowVwapIfAsked(w) <=> AboveVwapIfAsked(v)
  BY <1>2, <1>3 DEF AboveVwapIfAsked, BelowVwapIfAsked, Unknown
<1>6. /\ TurnsUp(w) <=> TurnsDown(v)
      /\ TurnsDown(w) <=> TurnsUp(v)
  BY <1>2, <1>3 DEF TurnsUp, TurnsDown, CrossUp, CrossDown
<1>7. ~(BullStructure(v) /\ BearStructure(v))
  BY <1>3 DEF BullStructure, BearStructure
<1>. QED
  BY <1>1, <1>2, <1>4, <1>5, <1>6, <1>7 DEF StochasticSignal, Quiet, Bull, Bear

\* PS/VS: crosses and bias change sides, everything else that counts stays.
LEMMA PsVsTurns ==
    ASSUME NEW v \in PsVsView
    PROVE  PsVsSignal(Turned(v)) = -PsVsSignal(v)
<1> DEFINE w == [v EXCEPT !.before = -@, !.last = -@, !.bias = -@]
<1>1. Turned(v) = w
  BY DEF Turned, PsVsView
<1>2. /\ w.before = -v.before /\ w.last = -v.last /\ w.bias = -v.bias
      /\ w.inSession = v.inSession /\ w.bars = v.bars /\ w.bars15 = v.bars15
      /\ w.strict = v.strict /\ w.rsi = v.rsi /\ w.adx = v.adx /\ w.range = v.range
      /\ w.volume = v.volume /\ w.gap = v.gap
  BY DEF PsVsView
<1>3. v.before \in {1, -1, 0} /\ v.last \in {1, -1, 0} /\ v.bias \in {1, -1, 0}
  BY DEF PsVsView, Sign, Bull, Bear, Quiet
<1> HIDE DEF w
<1>4. Conviction(w) = Conviction(v)
  BY <1>2 DEF Conviction
<1>5. /\ CrossesUp(w) <=> CrossesDown(v)
      /\ CrossesDown(w) <=> CrossesUp(v)
  BY <1>2, <1>3 DEF CrossesUp, CrossesDown
<1>6. Permitted(w) <=> Permitted(v)
  BY <1>2 DEF Permitted
<1>7. /\ PermitsCall(w) <=> PermitsPut(v)
      /\ PermitsPut(w) <=> PermitsCall(v)
  BY <1>2, <1>3, <1>6 DEF PermitsCall, PermitsPut
<1>8. ~(CrossesUp(v) /\ CrossesDown(v))
  BY <1>3 DEF CrossesUp, CrossesDown
<1> DEFINE Convinces(x) == Conviction(x) >= 100 * MinConviction
<1>9. \A x : PsVsSignal(x) =
        IF ~x.inSession \/ ~x.bars \/ (~x.bars15 /\ x.strict) THEN 0
        ELSE IF CrossesUp(x) /\ PermitsCall(x) /\ Convinces(x) THEN 1
        ELSE IF CrossesDown(x) /\ PermitsPut(x) /\ Convinces(x) THEN -1 ELSE 0
  BY DEF PsVsSignal, Quiet, Bull, Bear
<1>10. Convinces(w) <=> Convinces(v)
  BY <1>4
<1> HIDE DEF Convinces
<1>. QED
  BY <1>1, <1>2, <1>5, <1>7, <1>8, <1>9, <1>10

\* TrendPulse: cross and bias change sides, and so do the gates on breadth.
LEMMA TrendPulseTurns ==
    ASSUME NEW v \in TrendPulseView
    PROVE  GatedSignal(Turned(v)) = -GatedSignal(v)
<1> DEFINE w == [v EXCEPT !.before = -@, !.last = -@, !.newest = TurnedHigher(@),
                          !.begun = TurnedHigher(@),
                          !.change = {-c : c \in @}, !.pcr = {200 - r : r \in @}]
<1>1. Turned(v) = w
  BY DEF Turned, TrendPulseView
<1>2. /\ w.before = -v.before /\ w.last = -v.last /\ w.newest = TurnedHigher(v.newest)
      /\ w.change = {-c : c \in v.change} /\ w.pcr = {200 - r : r \in v.pcr}
      /\ w.bars = v.bars /\ w.adx = v.adx /\ w.filtered = v.filtered
      /\ w.breadth = v.breadth /\ w.weekend = v.weekend /\ w.minute = v.minute
  BY DEF TrendPulseView
<1>3. /\ v.before \in {1, -1, 0} /\ v.last \in {1, -1, 0}
      /\ v.newest \in HigherBars /\ v.change \in SUBSET Int /\ v.pcr \in SUBSET Int
  BY DEF TrendPulseView, Sign, Bull, Bear, Quiet
<1> HIDE DEF w
<1>4. /\ w.newest.enough = v.newest.enough /\ w.newest.close = -v.newest.close
      /\ w.newest.fast = -v.newest.fast
      /\ v.newest.close \in {1, -1, 0} /\ v.newest.fast \in {1, -1, 0}
  BY <1>2, <1>3 DEF HigherBars, TurnedHigher, Sign, Bull, Bear, Quiet
<1>5. CrossOf(w) = -CrossOf(v) /\ CrossOf(v) \in {1, -1, 0}
  BY <1>2, <1>3 DEF CrossOf, Bull, Bear, Quiet
<1>6. Bias(w.newest) = -Bias(v.newest) /\ Bias(v.newest) \in {1, -1, 0}
  BY <1>4 DEF Bias, Bull, Bear, Quiet
<1>7. TrendPulseSignal(w) = -TrendPulseSignal(v) /\ TrendPulseSignal(v) \in {1, -1, 0}
  BY <1>2, <1>5, <1>6 DEF TrendPulseSignal, Against, Bull, Bear, Quiet
<1>8. (SessionBlocks(w) <=> SessionBlocks(v)) /\ (OpeningBlocks(w) <=> OpeningBlocks(v))
  BY <1>2 DEF SessionBlocks, OpeningBlocks
<1>9. ASSUME NEW side \in {1, -1, 0}
      PROVE  BreadthBlocks(w, -side) <=> BreadthBlocks(v, side)
  <2>1. /\ (\E c \in w.change : c < 5) <=> (\E c \in v.change : c > -5)
        /\ (\E c \in w.change : c > -5) <=> (\E c \in v.change : c < 5)
    <3>1. \A c \in v.change : c \in Int /\ -c \in w.change
      BY <1>2, <1>3
    <3>2. \A x \in w.change : \E c \in v.change : x = -c
      BY <1>2
    <3>. QED
      BY <3>1, <3>2
  <2>2. /\ (\E r \in w.pcr : r > 105) <=> (\E r \in v.pcr : r < 95)
        /\ (\E r \in w.pcr : r < 95) <=> (\E r \in v.pcr : r > 105)
    <3>1. \A r \in v.pcr : r \in Int /\ 200 - r \in w.pcr
      BY <1>2, <1>3
    <3>2. \A x \in w.pcr : \E r \in v.pcr : x = 200 - r
      BY <1>2
    <3>. QED
      BY <3>1, <3>2
  <2>. QED
    BY <1>2, <2>1, <2>2 DEF BreadthBlocks, Bull, Bear
<1>. QED
  BY <1>1, <1>7, <1>8, <1>9 DEF GatedSignal, Quiet

\* For any views: the two branches of a strategy say the same, each of its own side
\* (evaluate_supertrend_trail_signal, evaluate_stochastic_bnf_signal,
\* evaluate_ps_vs_mtf_signal, evaluate_trendpulse_signal with its gates).
THEOREM MirrorAgreesHolds == SignalSpec => []MirrorAgrees
<1>1. ASSUME NEW v \in Views
      PROVE  Signal(Turned(v)) = -Signal(v)
  <2>1. Turned(v).of = v.of
    BY ViewKinds DEF Turned, SuperTrendView, StochasticView, PsVsView, TrendPulseView
  <2>. QED
    BY <2>1, ViewKinds, SuperTrendTurns, StochasticTurns, PsVsTurns, TrendPulseTurns
       DEF Signal
<1>2. view \in Views => MirrorAgrees
  BY <1>1 DEF MirrorAgrees
<1>3. SignalInit => view \in Views
  BY DEF SignalInit
<1>4. view \in Views /\ [SignalNext]_signalVars => (view \in Views)'
  BY DEF SignalNext, RefreshSignal, signalVars
<1>. QED
  BY <1>2, <1>3, <1>4, PTL DEF SignalSpec

\* What a refresh leaves is nothing, or the offers and the log of one chain.
Refreshes ==
    \/ offers = {} /\ scanned = {}
    \/ \E b \in LegBoards : offers = OffersFor(view, b) /\ scanned = ScanFor(view, b)

SignalInv == view \in Views /\ Refreshes

\* The invariant holds of every refresh.
LEMMA SignalInvariant == SignalSpec => []SignalInv
<1>1. SignalInit => SignalInv
  BY DEF SignalInit, SignalInv, Refreshes
<1>2. SignalInv /\ [SignalNext]_signalVars => SignalInv'
  <2>1. ASSUME SignalInv, NEW b \in LegBoards, RefreshSignal(b)
        PROVE  SignalInv'
    BY <2>1 DEF SignalInv, Refreshes, RefreshSignal
  <2>2. ASSUME SignalInv, UNCHANGED signalVars
        PROVE  SignalInv'
    BY <2>2 DEF SignalInv, Refreshes, signalVars
  <2>. QED
    BY <2>1, <2>2 DEF SignalNext
<1>. QED
  BY <1>1, <1>2, PTL DEF SignalSpec

\* A signal that is not quiet is the trend it was read from; PS/VS has its conviction.
LEMMA SignalSides ==
    ASSUME NEW v \in Views
    PROVE  /\ Signal(v) \in Sign
           /\ v.of = "supertrend" /\ Signal(v) # Quiet => Signal(v) = v.dir
           /\ v.of = "stochastic" /\ Signal(v) # Quiet => Signal(v) = v.short
           /\ v.of = "psvs" /\ Signal(v) # Quiet => Conviction(v) >= 100 * MinConviction
<1>1. CASE v \in SuperTrendView /\ v.of = "supertrend"
  BY <1>1 DEF Signal, SuperTrendSignal, UptrendPullback, DowntrendPullback, SuperTrendView,
              Sign, Quiet, Bull, Bear
<1>2. CASE v \in StochasticView /\ v.of = "stochastic"
  BY <1>2 DEF Signal, StochasticSignal, BullStructure, BearStructure, StochasticView, Sign,
              Quiet, Bull, Bear
<1>3. CASE v \in PsVsView /\ v.of = "psvs"
  BY <1>3 DEF Signal, PsVsSignal, Sign
<1>4. CASE v \in TrendPulseView /\ v.of = "trendpulse"
  BY <1>4 DEF Signal, GatedSignal, TrendPulseSignal, CrossOf, Sign
<1>. QED
  BY <1>1, <1>2, <1>3, <1>4, ViewKinds

\* Every offer is one of a strike in the chain that has a price, on the side and of the
\* type that the strategy gives a signal.
LEMMA OffersMade ==
    ASSUME NEW v \in Views, NEW b \in Board, NEW o \in OffersFor(v, b)
    PROVE  /\ Signal(v) # Quiet
           /\ \E k \in b.rows : Priced(v, b, k) /\ o = OfferAt(v, b, k)
           /\ v.of # "trendpulse" => o = OfferAt(v, b, 0)
<1>1. Ready(v, b)
  BY DEF OffersFor
<1>2. CASE v.of = "trendpulse"
  <2>1. PICK k \in Picked(b, TypeFor(v)) : o = OfferAt(v, b, k)
    BY <1>1, <1>2 DEF OffersFor
  <2>2. k \in b.rows /\ Suits(b, k, TypeFor(v))
    BY DEF Picked
  <2>3. Priced(v, b, k)
    BY <2>2 DEF Suits, TimeValue, Priced
  <2>. QED
    BY <1>1, <1>2, <2>1, <2>2, <2>3 DEF Ready
<1>3. CASE v.of = "supertrend"
  <2>1. PICK r \in LadderScan(v, b) : r.k = 0 /\ r.fails = {} /\ o = OfferAt(v, b, r.k)
    BY <1>1, <1>3 DEF OffersFor
  <2>2. r # ScanRow(NoStrike, {"atm"})
    BY <2>1 DEF ScanRow, NoStrike
  <2>3. PICK k \in b.rows : r = ScanRow(k, StrikeFails(v, b, k))
    BY <2>1, <2>2 DEF LadderScan
  <2>4. k = 0 /\ Priced(v, b, k)
    BY <2>1, <2>3 DEF ScanRow, StrikeFails
  <2>. QED
    BY <1>1, <1>3, <2>1, <2>4 DEF Ready
<1>4. CASE v.of \notin {"trendpulse", "supertrend"}
  BY <1>1, <1>4 DEF OffersFor, AtmOffers, Ready
<1>. QED
  BY <1>2, <1>3, <1>4

\* For any views and chains: a refresh leaves offers and rows of the shape the later
\* components read, priced, with a confidence from 80 to 99.
THEOREM SignalTypeCorrect == SignalSpec => []SignalTypeOK
<1>1. ASSUME NEW v \in Views, NEW b \in Board
      PROVE  OffersFor(v, b) \subseteq
               [k : Strikes, side : {"BUY", "SELL"}, type : {"CE", "PE"},
                entry : Nat \ {0}, conf : 8000 .. 9900]
  <2> SUFFICES ASSUME NEW o \in OffersFor(v, b)
               PROVE  o \in [k : Strikes, side : {"BUY", "SELL"}, type : {"CE", "PE"},
                             entry : Nat \ {0}, conf : 8000 .. 9900]
    OBVIOUS
  <2>1. PICK k \in b.rows : Priced(v, b, k) /\ o = OfferAt(v, b, k)
    BY OffersMade
  <2>2. k \in Strikes
    BY DEF Board
  <2>3. TypeFor(v) \in {"CE", "PE"}
    BY DEF TypeFor
  <2>4. b.legs[k][TypeFor(v)].price \in Nat \ {0}
    <3>1. b.legs[k] \in [CE : Quote, PE : Quote]
      BY <2>2 DEF Board
    <3>2. b.legs[k].CE \in Quote /\ b.legs[k].PE \in Quote
      BY <3>1
    <3>3. b.legs[k][TypeFor(v)] \in Quote
      BY <2>3, <3>2
    <3>4. b.legs[k][TypeFor(v)].price \in Nat
      BY <3>3 DEF Quote
    <3>. QED
      BY <2>1, <3>4 DEF Priced
  <2>5. Confidence(v) \in 8000 .. 9900
    <3>1. CASE v.of = "psvs"
      <4>1. Conviction(v) \in Int
        <5>1. v \in PsVsView
          BY <3>1, ViewKinds
        <5>2. v.gap \in Int /\ v.rsi \in Int /\ v.adx \in Int
          BY <5>1 DEF PsVsView
        <5>3. \A x \in Int : Capped(x) \in Int /\ Distance(x) \in Int
          BY DEF Capped, Distance
        <5>4. (Distance(v.rsi - 55) * 100) \div 15 \in Int
          BY <5>2, <5>3
        <5>5. /\ Capped(25 + 5 * v.gap) \in Int
              /\ Capped(100 - (Distance(v.rsi - 55) * 100) \div 15) \in Int
              /\ Capped(5 * (v.adx - AdxMin)) \in Int
          BY <5>2, <5>3, <5>4 DEF AdxMin
        <5>. QED
          BY <5>5 DEF Conviction
      <4>2. Conviction(v) >= 8000
        BY <3>1, OffersMade, SignalSides DEF MinConviction
      <4>. QED
        BY <3>1, <4>1, <4>2 DEF Confidence, Smaller
    <3>2. CASE v.of # "psvs"
      BY <3>2 DEF Confidence
    <3>. QED
      BY <3>1, <3>2
  <2>. QED
    BY <2>1, <2>2, <2>3, <2>4, <2>5 DEF OfferAt
<1>2. ASSUME NEW v \in Views, NEW b \in Board
      PROVE  ScanFor(v, b) \subseteq
               [k : Strikes \cup {NoStrike},
                fails : SUBSET {"signal", "expiry", "chain", "atm", "notAtm", "price"}]
  <2>1. b.rows \subseteq Strikes /\ 0 \in Strikes
    BY DEF Board, Strikes
  <2>. QED
    BY <2>1 DEF ScanFor, Stopped, LadderScan, AtmScan, AtmOffers, OfferAt, ScanRow, StrikeFails
<1>3. SignalInv => SignalTypeOK
  BY <1>1, <1>2, SignalAssumption DEF SignalInv, Refreshes, SignalTypeOK
<1>. QED
  BY <1>3, SignalInvariant, PTL

\* For any views and chains: every offer gains when the signal is right and is not closed
\* again by the rule of its own strategy on the candles it was made on.
THEOREM OffersFollowSignalHolds == SignalSpec => []OffersFollowSignal
<1>1. ASSUME SignalInv, NEW b \in LegBoards, NEW o \in OffersFor(view, b)
      PROVE  GainsWithSignal(o) /\ ~RuleExit(view, o.type)
  <2>1. view \in Views /\ b \in Board
    BY <1>1, SignalAssumption DEF SignalInv
  <2>2. Signal(view) \in {Bull, Bear}
    BY <1>1, <2>1, OffersMade, SignalSides DEF Sign
  <2>3. o.type = TypeFor(view) /\ o.side = IF Sells(view) THEN "SELL" ELSE "BUY"
    BY <1>1, <2>1, OffersMade DEF OfferAt
  <2>4. view.of \in {"supertrend", "stochastic", "psvs", "trendpulse"}
    BY <2>1, ViewKinds
  <2>5. GainsWithSignal(o)
    BY <2>2, <2>3, <2>4 DEF GainsWithSignal, Gains, TypeFor, Sells, Bull, Bear
  <2>6. ~RuleExit(view, o.type)
    BY <2>1, <2>2, <2>3, SignalSides DEF RuleExit, TypeFor, Bull, Bear, Quiet
  <2>. QED
    BY <2>5, <2>6
<1>2. SignalInv => OffersFollowSignal
  BY <1>1 DEF SignalInv, Refreshes, OffersFollowSignal
<1>. QED
  BY <1>2, SignalInvariant, PTL

\* For any views: where the chart and the engine see the same bars they see one signal.
THEOREM ChartAgreesHolds == SignalSpec => []ChartAgrees
<1>1. SignalInv => ChartAgrees
  BY ViewKinds DEF SignalInv, ChartAgrees, ChartedSignal, TrendPulseSignal, Against, CrossOf,
                   TrendPulseView, Quiet, Bull, Bear
<1>. QED
  BY <1>1, SignalInvariant, PTL

-----------------------------------------------------------------------------
(* CandidateRules: legs *)

\* The shapes of gates and of a leg.
IsGates(g) ==
    g = [primary |-> g.primary, ema |-> g.ema, cross |-> g.cross, rsi |-> g.rsi,
         vol |-> g.vol, score |-> g.score, sig |-> g.sig]
IsLeg(l) ==
    /\ l = [seen |-> l.seen, gates |-> l.gates, tech |-> l.tech, vetoes |-> l.vetoes,
            regime |-> l.regime, ivr |-> l.ivr, delta |-> l.delta, oi |-> l.oi,
            volume |-> l.volume]
    /\ IsGates(l.gates)

\* What a chain's filters leave of a leg.
Untouched(l, m) ==
    /\ m.seen = l.seen /\ m.delta = l.delta /\ m.oi = l.oi /\ m.volume = l.volume
    /\ m.regime = l.regime

LEMMA OneIsNumber == \A b : One(b) \in {0, 1}
  BY DEF One

\* Both packs are gates with a score.
LEMMA PacksAreGates ==
    ASSUME NEW s, NEW p
    PROVE  /\ IsGates(BullGates(s, p)) /\ BullGates(s, p).score \in Int
           /\ IsGates(BearGates(s, p)) /\ BearGates(s, p).score \in Int
<1>1. IsGates(NoGates) /\ NoGates.score \in Int
  BY DEF NoGates, IsGates
<1>2. \A a, b, c, d, e : One(a) + One(b) + One(c) + One(d) + One(e) \in Int
  <2> TAKE a, b, c, d, e
  <2>1. One(a) \in Int /\ One(b) \in Int /\ One(c) \in Int /\ One(d) \in Int /\ One(e) \in Int
    BY OneIsNumber
  <2>. QED
    BY <2>1
<1>3. IsGates(BullGates(s, p)) /\ BullGates(s, p).score \in Int
  BY <1>1, <1>2 DEF BullGates, IsGates
<1>4. IsGates(BearGates(s, p)) /\ BearGates(s, p).score \in Int
  BY <1>1, <1>2 DEF BearGates, IsGates
<1>. QED
  BY <1>3, <1>4

\* A leg as it is put together.
LEMMA BuiltIsLeg ==
    ASSUME NEW chain, NEW q, NEW g, IsGates(g), NEW p
    PROVE  LET l == LegWith(chain, q, g, p)
           IN /\ IsLeg(l) /\ l.gates = g /\ l.vetoes = {}
              /\ l.seen = SeriesOf(q) /\ l.delta = q.delta /\ l.oi = q.oi
              /\ l.volume = q.volume
              /\ l.regime <=> p.short /\ p.regimeMode = "strike" /\ SellRegime(q.hist, p)
  BY DEF LegWith, IsLeg

\* Gates and legs with one field replaced.
LEMMA GatesReplaced ==
    ASSUME NEW g, IsGates(g), NEW y
    PROVE  /\ IsGates([g EXCEPT !.sig = y]) /\ [g EXCEPT !.sig = y].sig = y
           /\ IsGates([g EXCEPT !.score = y]) /\ [g EXCEPT !.score = y].sig = g.sig
           /\ IsGates([g EXCEPT !.primary = y]) /\ [g EXCEPT !.primary = y].primary = y
           /\ IsGates([g EXCEPT !.ema = y])
           /\ [g EXCEPT !.ema = y].primary = g.primary
  BY DEF IsGates

LEMMA LegReplaced ==
    ASSUME NEW l, IsLeg(l), NEW g, IsGates(g)
    PROVE  /\ IsLeg([l EXCEPT !.gates = g]) /\ [l EXCEPT !.gates = g].gates = g
           /\ [l EXCEPT !.gates = g].vetoes = l.vetoes
           /\ Untouched(l, [l EXCEPT !.gates = g])
  BY DEF IsLeg, Untouched

LEMMA VetoesReplaced ==
    ASSUME NEW l, IsLeg(l), NEW z
    PROVE  /\ IsLeg([l EXCEPT !.vetoes = z]) /\ [l EXCEPT !.vetoes = z].gates = l.gates
           /\ [l EXCEPT !.vetoes = z].vetoes = z
           /\ Untouched(l, [l EXCEPT !.vetoes = z])
  BY DEF IsLeg, Untouched

\* The bonus moves the score alone.
LEMMA BonusScores ==
    ASSUME NEW chain, NEW k, NEW side, NEW built, IsLeg(built[side]), NEW p
    PROVE  LET m == WithBonus(chain, k, side, built, p)
           IN /\ IsLeg(m) /\ Untouched(built[side], m) /\ m.vetoes = built[side].vetoes
              /\ m.gates.sig = built[side].gates.sig
<1> DEFINE l == built[side]
           x == Lower(Clamp(p.legCap, 3, 10), l.tech + Bonus(chain, k, side, built, p))
           g == [l.gates EXCEPT !.score = x]
<1>1. WithBonus(chain, k, side, built, p) = [l EXCEPT !.gates = g]
  BY DEF WithBonus
<1>2. IsGates(l.gates)
  BY DEF IsLeg
<1>3. IsGates(g) /\ g.sig = l.gates.sig
  <2> HIDE DEF l, x
  <2>. QED
    BY <1>2, GatesReplaced
<1> HIDE DEF g
<1>4. LET m == [l EXCEPT !.gates = g]
      IN IsLeg(m) /\ m.gates = g /\ m.vetoes = l.vetoes /\ Untouched(l, m)
  BY <1>3, LegReplaced
<1>. QED
  BY <1>1, <1>3, <1>4

\* A leg whose verdict was taken: what a veto and the filter on the ADX do.
Denied(l, no) == [l EXCEPT !.gates = [l.gates EXCEPT !.sig = no]]

LEMMA DeniedIsLeg ==
    ASSUME NEW l, IsLeg(l), NEW no
    PROVE  LET m == Denied(l, no)
           IN IsLeg(m) /\ m.gates.sig = no /\ m.vetoes = l.vetoes /\ Untouched(l, m)
<1> DEFINE g == [l.gates EXCEPT !.sig = no]
<1>1. IsGates(l.gates)
  BY DEF IsLeg
<1>2. IsGates(g) /\ g.sig = no
  BY <1>1, GatesReplaced
<1>3. Denied(l, no) = [l EXCEPT !.gates = g]
  BY DEF Denied
<1> HIDE DEF g
<1>4. LET m == [l EXCEPT !.gates = g]
      IN IsLeg(m) /\ m.gates = g /\ m.vetoes = l.vetoes /\ Untouched(l, m)
  BY <1>2, LegReplaced
<1>. QED
  BY <1>2, <1>3, <1>4

\* A verdict survives the vetoes only when none applies.
LEMMA VetoesClear ==
    ASSUME NEW l, IsLeg(l), l.vetoes = {}, NEW p
    PROVE  LET m == Vetoed(l, p)
           IN /\ IsLeg(m) /\ Untouched(l, m)
              /\ m.gates.sig => m.vetoes = {} /\ l.gates.sig /\ (p.short => Veto(l, p) = {})
<1>1. CASE ~p.short \/ ~l.gates.sig \/ Veto(l, p) = {}
  BY <1>1 DEF Vetoed, Untouched
<1>2. CASE ~(~p.short \/ ~l.gates.sig \/ Veto(l, p) = {})
  <2>1. PICK no : no = FALSE
    OBVIOUS
  <2> DEFINE d == Denied(l, no)
  <2>2. Vetoed(l, p) = [d EXCEPT !.vetoes = Veto(l, p)]
    BY <1>2, <2>1 DEF Vetoed, Denied
  <2>3. IsLeg(d) /\ d.gates.sig = no /\ Untouched(l, d)
    BY DeniedIsLeg
  <2> HIDE DEF d
  <2>4. LET m == [d EXCEPT !.vetoes = Veto(l, p)]
        IN IsLeg(m) /\ m.gates = d.gates /\ Untouched(d, m)
    BY <2>3, VetoesReplaced
  <2>5. Untouched(l, Vetoed(l, p))
    BY <2>2, <2>3, <2>4 DEF Untouched
  <2>. QED
    BY <2>1, <2>2, <2>3, <2>4, <2>5
<1>. QED
  BY <1>1, <1>2

\* A verdict survives the index's ADX only when that is high enough.
LEMMA AdxClears ==
    ASSUME NEW l, IsLeg(l), NEW candles, NEW adx, NEW p
    PROVE  LET m == AdxFiltered(l, candles, adx, p)
           IN /\ IsLeg(m) /\ Untouched(l, m) /\ m.vetoes = l.vetoes
              /\ m.gates.sig => /\ l.gates.sig
                                /\ ~(candles.bars > 0 /\ p.adxMin > 0 /\ adx < p.adxMin)
<1>1. CASE ~(candles.bars > 0 /\ p.adxMin > 0 /\ adx < p.adxMin)
  BY <1>1 DEF AdxFiltered, Untouched
<1>2. CASE candles.bars > 0 /\ p.adxMin > 0 /\ adx < p.adxMin
  <2>1. PICK no : no = FALSE
    OBVIOUS
  <2>2. AdxFiltered(l, candles, adx, p) = Denied(l, no)
    BY <1>2, <2>1 DEF AdxFiltered, Denied
  <2>. QED
    BY <2>1, <2>2, DeniedIsLeg
<1>. QED
  BY <1>1, <1>2

\* A chain's leg, with its quote's numbers; if it is eligible then by its own gates, no
\* veto applied, and the index's ADX did not speak against it.
LEMMA ChainLeg ==
    ASSUME NEW chain, NEW candles, NEW adx, NEW p, NEW k \in DOMAIN chain,
           NEW side \in Sides
    PROVE  LET q == chain[k][side]
               s == SeriesOf(q)
               l == ChainLegs(chain, candles, adx, p)[k][side]
           IN /\ IsLeg(l)
              /\ l.seen = s /\ l.delta = q.delta /\ l.oi = q.oi /\ l.volume = q.volume
              /\ l.regime => p.short
              /\ l.gates.sig =>
                   /\ l.vetoes = {}
                   /\ LegGates(s, p).sig
                   /\ p.short => ~(p.ghostDrop > 0
                                   /\ (s.rsiPrev = NoValue \/ s.rsiPrev - s.rsi < p.ghostDrop))
                   /\ ~(candles.bars > 0 /\ p.adxMin > 0 /\ adx < p.adxMin)
<1> DEFINE q == chain[k][side]
           s == SeriesOf(q)
           built == [e \in Sides |-> BuiltLeg(chain, k, e, p)]
           start == built[side]
           scored == IF p.short /\ p.mode = "three_factor"
                       THEN WithBonus(chain, k, side, built, p) ELSE start
           kept == Vetoed(scored, p)
           l == AdxFiltered(kept, candles, adx, p)
<1>1. ChainLegs(chain, candles, adx, p)[k][side] = l
  BY DEF ChainLegs, StrikeLegs
<1>2. /\ IsLeg(start) /\ start.gates = LegGates(s, p) /\ start.vetoes = {}
      /\ start.seen = s /\ start.delta = q.delta /\ start.oi = q.oi
      /\ start.volume = q.volume /\ (start.regime => p.short)
  <2>1. start = LegWith(chain, q, LegGates(s, p), p)
    BY DEF BuiltLeg
  <2>2. IsGates(LegGates(s, p))
    BY PacksAreGates DEF LegGates
  <2> HIDE DEF start
  <2>. QED
    BY <2>1, <2>2, BuiltIsLeg
<1>3. /\ IsLeg(scored) /\ scored.gates.sig = start.gates.sig /\ scored.vetoes = {}
      /\ Untouched(start, scored)
  <2>1. CASE p.short /\ p.mode = "three_factor"
    <3>1. scored = WithBonus(chain, k, side, built, p)
      BY <2>1
    <3>2. IsLeg(built[side]) /\ built[side].vetoes = {}
      BY <1>2
    <3> HIDE DEF scored, built
    <3>. QED
      BY <3>1, <3>2, BonusScores
  <2>2. CASE ~(p.short /\ p.mode = "three_factor")
    <3>1. scored = start
      BY <2>2
    <3> HIDE DEF scored, start
    <3>. QED
      BY <3>1, <1>2 DEF Untouched
  <2>. QED
    BY <2>1, <2>2
<1> HIDE DEF scored, start
<1>4. /\ IsLeg(kept) /\ Untouched(scored, kept)
      /\ kept.gates.sig => /\ kept.vetoes = {} /\ scored.gates.sig
                           /\ p.short => Veto(scored, p) = {}
  BY <1>3, VetoesClear
<1> HIDE DEF kept
<1>5. /\ IsLeg(l) /\ Untouched(kept, l) /\ l.vetoes = kept.vetoes
      /\ l.gates.sig => /\ kept.gates.sig
                        /\ ~(candles.bars > 0 /\ p.adxMin > 0 /\ adx < p.adxMin)
  BY <1>4, AdxClears
<1> HIDE DEF l
<1>6. Veto(scored, p) = {} =>
        ~(p.ghostDrop > 0
          /\ (scored.seen.rsiPrev = NoValue
              \/ scored.seen.rsiPrev - scored.seen.rsi < p.ghostDrop))
  BY DEF Veto
<1>7. /\ l.seen = s /\ l.delta = q.delta /\ l.oi = q.oi /\ l.volume = q.volume
      /\ scored.seen = s /\ (l.regime => p.short)
  BY <1>2, <1>3, <1>4, <1>5 DEF Untouched
<1>8. l.gates.sig =>
        /\ l.vetoes = {} /\ LegGates(s, p).sig
        /\ p.short => Veto(scored, p) = {}
        /\ ~(candles.bars > 0 /\ p.adxMin > 0 /\ adx < p.adxMin)
  BY <1>2, <1>3, <1>4, <1>5
<1> HIDE DEF s, q
<1>9. l.gates.sig => (p.short =>
        ~(p.ghostDrop > 0 /\ (s.rsiPrev = NoValue \/ s.rsiPrev - s.rsi < p.ghostDrop)))
  BY <1>6, <1>7, <1>8
<1>. QED
  BY <1>1, <1>5, <1>7, <1>8, <1>9 DEF s, q

\* The defaults buy premium.
LEMMA DefaultsBuy ==
    ASSUME NEW p, "short" \in DOMAIN p
    PROVE  ~ProviderDefaults(p).short
  BY DEF ProviderDefaults

\* A leg as a strategy gets it, from whatever source.  Only a chain of kite's has legs
\* that can be sold.
LEMMA BoardLeg ==
    ASSUME NEW board, NEW p, "short" \in DOMAIN p,
           NEW k \in DOMAIN board.chain, NEW side \in Sides
    PROVE  LET q == board.chain[k][side]
               s == SeriesOf(q)
               l == LegsFor(board, p)[k][side]
           IN /\ IsLeg(l)
              /\ l.seen = s /\ l.delta = q.delta /\ l.oi = q.oi /\ l.volume = q.volume
              /\ l.gates.sig => l.vetoes = {}
              /\ p.short /\ board.source # "kite" => ~l.gates.sig \/ ~l.regime
              /\ p.short /\ board.source = "kite" /\ l.gates.sig =>
                   /\ BearGates(s, p).sig
                   /\ ~(p.ghostDrop > 0
                        /\ (s.rsiPrev = NoValue \/ s.rsiPrev - s.rsi < p.ghostDrop))
                   /\ ~(board.candles.bars > 0 /\ p.adxMin > 0 /\ board.adx < p.adxMin)
<1> DEFINE q == board.chain[k][side]
           s == SeriesOf(q)
           l == LegsFor(board, p)[k][side]
           d == ProviderDefaults(p)
<1>1. CASE board.source = "fyers"
  <2> DEFINE start == LegWith(board.chain, q, LegGates(s, d), d)
             g == IF p.short THEN NoGates ELSE Filled(start.seen, p)
  <2>1. l = [start EXCEPT !.gates = g]
    BY <1>1 DEF LegsFor, FyersLeg, BuiltLeg
  <2>2. IsGates(LegGates(s, d))
    BY PacksAreGates DEF LegGates
  <2>3. /\ IsLeg(start) /\ start.vetoes = {} /\ start.seen = s /\ start.delta = q.delta
        /\ start.oi = q.oi /\ start.volume = q.volume
    BY <2>2, BuiltIsLeg
  <2>4. IsGates(g) /\ (p.short => ~g.sig)
    <3>1. IsGates(NoGates) /\ ~NoGates.sig
      BY DEF IsGates, NoGates
    <3>2. IsGates(Filled(start.seen, p))
      BY PacksAreGates DEF Filled
    <3>. QED
      BY <3>1, <3>2
  <2> HIDE DEF start, g, l
  <2>5. IsLeg(l) /\ l.gates = g /\ l.vetoes = start.vetoes /\ Untouched(start, l)
    BY <2>1, <2>3, <2>4, LegReplaced
  <2>6. /\ l.seen = s /\ l.delta = q.delta /\ l.oi = q.oi /\ l.volume = q.volume
        /\ l.vetoes = {}
    BY <2>3, <2>5 DEF Untouched
  <2>. QED
    BY <1>1, <2>4, <2>5, <2>6 DEF l
<1>2. CASE board.source = "kite"
  <2>1. l = ChainLegs(board.chain, board.candles, board.adx, p)[k][side]
    BY <1>2 DEF LegsFor
  <2>2. p.short => LegGates(s, p) = BearGates(s, p)
    BY DEF LegGates
  <2> HIDE DEF l, s
  <2>. QED
    BY <1>2, <2>1, <2>2, ChainLeg DEF l, s
<1>3. CASE board.source \notin {"fyers", "kite"}
  <2>1. l = ChainLegs(board.chain, board.candles, board.adx, d)[k][side]
    BY <1>3 DEF LegsFor
  <2>2. ~d.short
    BY DefaultsBuy
  <2> HIDE DEF l, s, d
  <2>. QED
    BY <1>3, <2>1, <2>2, ChainLeg DEF l, s
<1>. QED
  BY <1>1, <1>2, <1>3

-----------------------------------------------------------------------------
(* CandidateRules: rows *)

\* The shape of a row, and of one that a strategy with legs to buy scanned.
IsRow(r) ==
    r = [k |-> r.k, side |-> r.side, leg |-> r.leg, gates |-> r.gates, score |-> r.score,
         conf |-> r.conf, sig |-> r.sig, fails |-> r.fails]

\* What a later look keeps of a row.
SameRow(r, t) == t.k = r.k /\ t.side = r.side /\ t.leg = r.leg

LEMMA RowReplaced ==
    ASSUME NEW r, IsRow(r), NEW y
    PROVE  /\ IsRow([r EXCEPT !.gates = y]) /\ SameRow(r, [r EXCEPT !.gates = y])
           /\ [r EXCEPT !.gates = y].gates = y /\ [r EXCEPT !.gates = y].sig = r.sig
           /\ [r EXCEPT !.gates = y].fails = r.fails
           /\ IsRow([r EXCEPT !.score = y]) /\ SameRow(r, [r EXCEPT !.score = y])
           /\ [r EXCEPT !.score = y].gates = r.gates /\ [r EXCEPT !.score = y].sig = r.sig
           /\ [r EXCEPT !.score = y].fails = r.fails
           /\ IsRow([r EXCEPT !.conf = y]) /\ SameRow(r, [r EXCEPT !.conf = y])
           /\ [r EXCEPT !.conf = y].gates = r.gates /\ [r EXCEPT !.conf = y].sig = r.sig
           /\ [r EXCEPT !.conf = y].fails = r.fails
           /\ IsRow([r EXCEPT !.fails = y]) /\ SameRow(r, [r EXCEPT !.fails = y])
           /\ [r EXCEPT !.fails = y].gates = r.gates /\ [r EXCEPT !.fails = y].sig = r.sig
           /\ [r EXCEPT !.fails = y].fails = y
           /\ IsRow([r EXCEPT !.sig = y]) /\ SameRow(r, [r EXCEPT !.sig = y])
           /\ [r EXCEPT !.sig = y].gates = r.gates /\ [r EXCEPT !.sig = y].sig = y
           /\ [r EXCEPT !.sig = y].fails = r.fails
  BY DEF IsRow, SameRow

\* Ranking moves score and confidence alone.
LEMMA RankedKeeps ==
    ASSUME NEW p, NEW r, IsRow(r)
    PROVE  LET t == Ranked(p, r)
           IN IsRow(t) /\ SameRow(r, t) /\ t.gates = r.gates /\ t.sig = r.sig
              /\ t.fails = r.fails
<1> DEFINE bonus == VolumeBonus(r.leg.seen.ratio)
           score == IF bonus = 19 THEN Lower(p.scoreMax, r.score + 1) ELSE r.score
           conf == Lower(99, (score * 100) \div p.scoreMax + bonus)
           u == [r EXCEPT !.score = score]
           t == [u EXCEPT !.conf = conf]
<1>1. Ranked(p, r) = t
  BY DEF Ranked
<1> HIDE DEF score, conf
<1>2. IsRow(u) /\ SameRow(r, u) /\ u.gates = r.gates /\ u.sig = r.sig /\ u.fails = r.fails
  BY RowReplaced
<1> HIDE DEF u
<1>3. IsRow(t) /\ SameRow(u, t) /\ t.gates = u.gates /\ t.sig = u.sig /\ t.fails = u.fails
  BY <1>2, RowReplaced
<1>. QED
  BY <1>1, <1>2, <1>3 DEF SameRow

\* A row of the second tier is not eligible.
LEMMA RelaxedKeeps ==
    ASSUME NEW r, IsRow(r)
    PROVE  IsRow(Relaxed(r)) /\ SameRow(r, Relaxed(r)) /\ ~Relaxed(r).sig
           /\ Relaxed(r).gates = r.gates
<1>1. PICK no : no = FALSE
  OBVIOUS
<1> DEFINE u == [r EXCEPT !.sig = no]
           t == [u EXCEPT !.fails = u.fails \cup {"liquidity"}]
<1>2. IsRow(u) /\ SameRow(r, u) /\ u.sig = no /\ u.gates = r.gates /\ u.fails = r.fails
  BY RowReplaced
<1>3. Relaxed(r) = t
  BY <1>1, <1>2 DEF Relaxed
<1> HIDE DEF u
<1>4. IsRow(t) /\ SameRow(u, t) /\ t.sig = u.sig /\ t.gates = u.gates
  BY <1>2, RowReplaced
<1>. QED
  BY <1>1, <1>2, <1>3, <1>4 DEF SameRow

\* A candidate is a row of its leg with gates.
LEMMA CandidateIsRow ==
    ASSUME NEW p, NEW board, NEW legs, NEW trend, NEW k, NEW side,
           IsLeg(legs[k][side])
    PROVE  LET c == Candidate(p, board, legs, trend, k, side)
           IN /\ IsRow(c) /\ c.k = k /\ c.side = side /\ c.leg = legs[k][side]
              /\ IsGates(c.gates)
<1> DEFINE leg == legs[k][side]
<1>1. IsGates(leg.gates)
  BY DEF IsLeg
<1>2. LET c == ShortCandidate(p, board, trend, leg, k, side)
      IN IsRow(c) /\ c.k = k /\ c.side = side /\ c.leg = leg /\ IsGates(c.gates)
  BY <1>1 DEF ShortCandidate, IsRow
<1>3. LET c == LongCandidate(p, board, trend, leg, k, side)
      IN IsRow(c) /\ c.k = k /\ c.side = side /\ c.leg = leg /\ IsGates(c.gates)
  <2> DEFINE g == [leg.gates EXCEPT !.primary = AboveVwap(leg.seen, p),
                                    !.ema = EmaRising(leg.seen, p)]
  <2>1. IsGates(g)
    <3> DEFINE h == leg.gates
               y == AboveVwap(leg.seen, p)
               z == EmaRising(leg.seen, p)
               u == [h EXCEPT !.primary = y]
    <3> HIDE DEF h, y, z
    <3>1. IsGates(u)
      BY <1>1, GatesReplaced DEF h
    <3> HIDE DEF u
    <3>2. IsGates([u EXCEPT !.ema = z])
      BY <3>1, GatesReplaced
    <3>. QED
      BY <3>2 DEF u, h, y, z
  <2>2. LongCandidate(p, board, trend, leg, k, side).gates = g
    BY DEF LongCandidate
  <2>3. LET c == LongCandidate(p, board, trend, leg, k, side)
        IN IsRow(c) /\ c.k = k /\ c.side = side /\ c.leg = leg
    BY DEF LongCandidate, IsRow
  <2>. QED
    BY <2>1, <2>2, <2>3
<1>. QED
  BY <1>2, <1>3 DEF Candidate

\* A row that was scanned is that of a strike and a side; an eligible one is liquid and
\* was eligible as a candidate.
LEMMA ScannedRow ==
    ASSUME NEW p, NEW board, NEW legs, NEW trend,
           \A k \in DOMAIN board.chain, side \in Sides : IsLeg(legs[k][side]),
           NEW r \in ScannedIn(p, board, legs, trend)
    PROVE  /\ IsRow(r) /\ IsGates(r.gates)
           /\ r.k \in DOMAIN board.chain /\ r.side \in Sides /\ r.leg = legs[r.k][r.side]
           /\ StrikeOk(p, r.side, r.k)
           /\ r.sig => /\ Candidate(p, board, legs, trend, r.k, r.side).sig
                       /\ r.leg.oi >= p.minOi
                       /\ r.leg.volume >= MinVolume(p, board.early)
<1> DEFINE near == {x \in (DOMAIN board.chain) \X Sides : StrikeOk(p, x[2], x[1])}
           liquid == {x \in near : /\ legs[x[1]][x[2]].oi >= p.minOi
                                   /\ legs[x[1]][x[2]].volume >= MinVolume(p, board.early)}
           row(t) == Ranked(p, IF liquid = {} THEN Relaxed(t) ELSE t)
           cand(x) == Candidate(p, board, legs, trend, x[1], x[2])
<1>1. PICK x \in IF liquid = {} THEN near ELSE liquid : r = row(cand(x))
  BY DEF ScannedIn
<1>2. x \in near /\ (liquid # {} => x \in liquid)
  BY <1>1
<1>3. x[1] \in DOMAIN board.chain /\ x[2] \in Sides /\ StrikeOk(p, x[2], x[1])
  BY <1>2
<1>4. liquid # {} => /\ legs[x[1]][x[2]].oi >= p.minOi
                     /\ legs[x[1]][x[2]].volume >= MinVolume(p, board.early)
  BY <1>2
<1> DEFINE c == cand(x)
<1>5. /\ IsRow(c) /\ c.k = x[1] /\ c.side = x[2] /\ c.leg = legs[x[1]][x[2]]
      /\ IsGates(c.gates)
  BY <1>3, CandidateIsRow
<1> DEFINE t == IF liquid = {} THEN Relaxed(c) ELSE c
<1> HIDE DEF liquid, c
<1>6. IsRow(t) /\ SameRow(c, t) /\ t.gates = c.gates /\ (t.sig => c.sig /\ liquid # {})
  BY <1>5, RelaxedKeeps DEF SameRow
<1>7. r = Ranked(p, t)
  BY <1>1 DEF c
<1> HIDE DEF t
<1>8. IsRow(r) /\ SameRow(t, r) /\ r.gates = t.gates /\ r.sig = t.sig
  BY <1>6, <1>7, RankedKeeps
<1>9. r.k = x[1] /\ r.side = x[2] /\ r.leg = legs[x[1]][x[2]]
  BY <1>5, <1>6, <1>8 DEF SameRow
<1>10. IsRow(r) /\ IsGates(r.gates) /\ (r.sig => c.sig /\ liquid # {})
  BY <1>5, <1>6, <1>8
<1>11. r.sig => Candidate(p, board, legs, trend, r.k, r.side).sig
  BY <1>9, <1>10 DEF c
<1>. QED
  BY <1>3, <1>4, <1>9, <1>10, <1>11

\* What is shown of a stored row: the verdict stays, and of a strategy that buys, the
\* gates and reasons are those of the parameters given.
LEMMA RefreshedKeeps ==
    ASSUME NEW r, IsRow(r), IsGates(r.gates), NEW p
    PROVE  LET t == Refreshed(r, p)
               g == t.gates
           IN /\ IsRow(t) /\ SameRow(r, t) /\ t.sig = r.sig
              /\ p.short => t = r
              /\ ~p.short =>
                   /\ g.primary = AboveVwap(r.leg.seen, p)
                   /\ g.rsi = Between(p.rsiMin, r.leg.seen.rsi, p.rsiMax)
                   /\ t.fails = GateFails(g, p.incVol)
                                \cup (IF r.fails \cap NonLeg # {} THEN r.fails ELSE {})
<1>1. CASE p.short
  BY <1>1 DEF Refreshed, SameRow
<1>2. CASE ~p.short
  <2> DEFINE g == [r.gates EXCEPT !.primary = AboveVwap(r.leg.seen, p),
                                  !.ema = EmaRising(r.leg.seen, p),
                                  !.rsi = Between(p.rsiMin, r.leg.seen.rsi, p.rsiMax),
                                  !.vol = IF p.incVol THEN r.leg.seen.ratio > p.ratioMin ELSE @]
             plain == One(g.primary) + One(g.ema) + One(g.rsi) + One(p.incVol /\ g.vol)
             fails == GateFails(g, p.incVol)
                      \cup (IF r.fails \cap NonLeg # {} THEN r.fails ELSE {})
             u == [r EXCEPT !.gates = g]
             shown == [u EXCEPT !.fails = fails]
             scored == [shown EXCEPT !.score = plain]
  <2>1. Refreshed(r, p) = IF p.incCross THEN shown ELSE Ranked(p, scored)
    BY <1>2 DEF Refreshed
  <2>2. /\ g.primary = AboveVwap(r.leg.seen, p)
        /\ g.rsi = Between(p.rsiMin, r.leg.seen.rsi, p.rsiMax)
    BY DEF IsGates
  <2> HIDE DEF fails, plain, g
  <2>3. IsRow(u) /\ SameRow(r, u) /\ u.gates = g /\ u.sig = r.sig
    BY RowReplaced, ZenonT(60)
  <2> HIDE DEF u
  <2>4. /\ IsRow(shown) /\ SameRow(u, shown) /\ shown.gates = u.gates
        /\ shown.sig = u.sig /\ shown.fails = fails
    BY <2>3, RowReplaced, ZenonT(60)
  <2> HIDE DEF shown
  <2>5. /\ IsRow(scored) /\ SameRow(shown, scored) /\ scored.gates = shown.gates
        /\ scored.sig = shown.sig /\ scored.fails = shown.fails
    BY <2>4, RowReplaced
  <2> HIDE DEF scored
  <2>6. LET t == Ranked(p, scored)
        IN /\ IsRow(t) /\ SameRow(scored, t) /\ t.gates = scored.gates
           /\ t.sig = scored.sig /\ t.fails = scored.fails
    BY <2>5, RankedKeeps
  <2> DEFINE t == Refreshed(r, p)
  <2>7. /\ IsRow(t) /\ SameRow(r, t) /\ t.sig = r.sig /\ t.gates = g /\ t.fails = fails
    BY <2>1, <2>3, <2>4, <2>5, <2>6 DEF SameRow
  <2> HIDE DEF t
  <2>. QED
    BY <1>2, <2>2, <2>7 DEF t, fails
<1>. QED
  BY <1>1, <1>2

LEMMA ExplainedKeeps ==
    ASSUME NEW r, IsRow(r)
    PROVE  /\ SameRow(r, Explained(r)) /\ Explained(r).sig = r.sig
           /\ Explained(r).fails = IF ~r.sig /\ r.fails = {} THEN {"other"} ELSE r.fails
  BY RowReplaced DEF Explained, SameRow

-----------------------------------------------------------------------------
(* CandidateRules: the invariant *)

\* The rows are the candidates of a refresh under parameters the strategy may have, on a
\* market that it may find; an edit never turns a seller into a buyer.
CandInv ==
    /\ catalog \in Catalogs /\ vixNow \in Vixes
    /\ \/ made = NotMade /\ stored = {}
       \/ /\ made # NotMade /\ made.p \in Catalogs /\ (made.p.short = catalog.short)
          /\ \E b \in Boards, v \in Vixes :
               made.board = [chain |-> b.chain, candles |-> b.candles, adx |-> b.adx,
                             early |-> b.early, source |-> b.source, vix |-> v]
          /\ stored = Candidates(made.p, made.board)

\* The rows are always those of one refresh (trades_service, _get_live_candidates).
LEMMA CandidateInvariant == CandidateSpec => []CandInv
<1>1. CandidateInit => CandInv
  BY DEF CandidateInit, CandInv
<1>2. CandInv /\ [CandidateNext]_candidateVars => CandInv'
  <2> SUFFICES ASSUME CandInv, [CandidateNext]_candidateVars
               PROVE  CandInv'
    OBVIOUS
  <2>1. CASE UNCHANGED candidateVars
    BY <2>1 DEF candidateVars, CandInv
  <2>2. ASSUME NEW b \in Boards, Generate(b)
        PROVE  CandInv'
    <3> DEFINE w == [chain |-> b.chain, candles |-> b.candles, adx |-> b.adx,
                     early |-> b.early, source |-> b.source, vix |-> vixNow]
    <3>1. made' = [board |-> w, p |-> catalog] /\ stored' = Candidates(catalog, w)
      BY <2>2 DEF Generate, WithVix
    <3>2. catalog' = catalog /\ vixNow' = vixNow /\ catalog \in Catalogs /\ vixNow \in Vixes
      BY <2>2 DEF Generate, CandInv
    <3>3. made'.p = catalog /\ made'.board = w
      BY <3>1
    <3>4. stored' = Candidates(made'.p, made'.board)
      BY <3>1, <3>3
    <3>5. \E c \in Boards, v \in Vixes :
            made'.board = [chain |-> c.chain, candles |-> c.candles, adx |-> c.adx,
                           early |-> c.early, source |-> c.source, vix |-> v]
      BY <3>2, <3>3
    <3>6. made' # NotMade
      <4>1. "p" \in DOMAIN made'
        BY <3>1
      <4>2. "p" \notin DOMAIN NotMade
        BY DEF NotMade
      <4>. QED
        BY <4>1, <4>2
    <3>. QED
      BY <3>2, <3>3, <3>4, <3>5, <3>6 DEF CandInv
  <2>3. ASSUME NEW p \in Catalogs, EditCatalog(p)
        PROVE  CandInv'
    BY <2>3 DEF EditCatalog, CandInv
  <2>4. ASSUME NEW v \in Vixes, MoveVix(v)
        PROVE  CandInv'
    BY <2>4 DEF MoveVix, CandInv
  <2>. QED
    BY <2>1, <2>2, <2>3, <2>4 DEF CandidateNext
<1>. QED
  BY <1>1, <1>2, PTL DEF CandidateSpec

\* What the assumptions say of the market of a refresh.
LEMMA MadeTypes ==
    ASSUME CandInv, made # NotMade
    PROVE  /\ made.p \in Catalogs /\ "short" \in DOMAIN made.p
           /\ made.board.candles \in CandleSeries /\ made.board.adx \in Int
           /\ \A k \in DOMAIN made.board.chain, side \in Sides :
                made.board.chain[k][side] \in Quotes
<1>1. made.p \in Catalogs /\ "short" \in DOMAIN made.p
  BY CandidateAssumption DEF CandInv
<1>2. PICK b \in Boards, v \in Vixes :
        made.board = [chain |-> b.chain, candles |-> b.candles, adx |-> b.adx,
                      early |-> b.early, source |-> b.source, vix |-> v]
  BY DEF CandInv
<1>3. /\ b.candles \in CandleSeries /\ b.adx \in Int
      /\ \A k \in DOMAIN b.chain : b.chain[k] \in [Sides -> Quotes]
  BY CandidateAssumption
<1>. QED
  BY <1>1, <1>2, <1>3

\* The stored rows were scanned; each is a row of its leg.
LEMMA StoredRow ==
    ASSUME CandInv, NEW r \in stored
    PROVE  LET p == made.p
               board == made.board
               legs == LegsFor(board, p)
               trend == TrendFor(board, p)
           IN /\ made # NotMade
              /\ IsRow(r) /\ IsGates(r.gates)
              /\ r.k \in DOMAIN board.chain /\ r.side \in Sides
              /\ r.leg = legs[r.k][r.side]
              /\ r.sig => /\ Candidate(p, board, legs, trend, r.k, r.side).sig
                          /\ r.leg.oi >= p.minOi
                          /\ r.leg.volume >= MinVolume(p, board.early)
<1> DEFINE p == made.p
           board == made.board
           legs == LegsFor(board, p)
           trend == TrendFor(board, p)
<1>1. stored = Candidates(p, board) /\ p \in Catalogs /\ made # NotMade
  BY DEF CandInv
<1>2. "short" \in DOMAIN p
  BY <1>1, CandidateAssumption
<1>3. r \in ScannedIn(p, board, legs, trend)
  BY <1>1 DEF Candidates, BestRows, FirstRanked, Scanned
<1>4. \A k \in DOMAIN board.chain, side \in Sides : IsLeg(legs[k][side])
  BY <1>2, BoardLeg
<1> HIDE DEF legs, trend, board, p
<1>5. /\ IsRow(r) /\ IsGates(r.gates)
      /\ r.k \in DOMAIN board.chain /\ r.side \in Sides /\ r.leg = legs[r.k][r.side]
      /\ r.sig => /\ Candidate(p, board, legs, trend, r.k, r.side).sig
                  /\ r.leg.oi >= p.minOi
                  /\ r.leg.volume >= MinVolume(p, board.early)
  BY <1>3, <1>4, ScannedRow
<1>. QED
  BY <1>1, <1>5 DEF legs, trend, board, p

-----------------------------------------------------------------------------
(* CandidateRules: the two verdicts on a leg *)

\* The reasons of a candidate to sell, one by one.
LEMMA ShortVerdict ==
    ASSUME NEW p, p.short, NEW board, NEW legs, NEW trend, NEW k, NEW side
    PROVE  LET leg == legs[k][side]
           IN Candidate(p, board, legs, trend, k, side).sig <=>
                /\ IvrOk(p, side, leg.ivr)
                /\ DeltaOk(p, board.vix, side, leg.delta)
                /\ RegimeOk(p, trend, leg, side)
                /\ p.regimeMode = "strike" \/ SpotScore(trend, side) >= p.thr
                /\ leg.gates.sig
<1> DEFINE leg == legs[k][side]
           strike == p.regimeMode = "strike"
           score == IF strike THEN Lower(p.scoreMax, Higher(p.thr, leg.gates.score))
                              ELSE SpotScore(trend, side)
           fails == (IF IvrOk(p, side, leg.ivr) THEN {} ELSE {"ivr"})
               \cup (IF DeltaOk(p, board.vix, side, leg.delta) THEN {} ELSE {"delta"})
               \cup (IF RegimeOk(p, trend, leg, side) THEN {} ELSE {"regime"})
               \cup (IF strike \/ score >= p.thr THEN {} ELSE {"trend"})
               \cup (IF leg.gates.sig THEN {} ELSE {"leg"})
<1>1. Candidate(p, board, legs, trend, k, side).sig <=> fails = {}
  BY DEF Candidate, ShortCandidate
<1>2. fails = {} <=>
        /\ IvrOk(p, side, leg.ivr)
        /\ DeltaOk(p, board.vix, side, leg.delta)
        /\ RegimeOk(p, trend, leg, side)
        /\ strike \/ score >= p.thr
        /\ leg.gates.sig
  <2> HIDE DEF score, strike, leg
  <2>. QED
    OBVIOUS
<1>3. strike \/ score >= p.thr <=> strike \/ SpotScore(trend, side) >= p.thr
  OBVIOUS
<1>. QED
  BY <1>1, <1>2, <1>3

\* The blockers that the log gives a leg, one by one.
LEMMA LogVerdict ==
    ASSUME NEW p, NEW board, NEW trend, NEW leg, NEW side, NEW S \in SUBSET {"liquidity"},
           leg.vetoes = {}
    PROVE  LET mine == IF side = "put" THEN "bullish" ELSE "bearish"
           IN LegBlockers(p, board, trend, leg, side) \subseteq S <=>
                /\ "liquidity" \in S \/ ~(leg.oi < p.minOi \/ leg.volume < p.minVol)
                /\ p.regimeMode = "strike" => leg.regime
                /\ p.regimeMode # "strike" =>
                     trend.regime = mine /\ ~(SpotScore(trend, side) < p.thr)
                /\ IvrOk(p, side, leg.ivr)
                /\ leg.gates.sig
  BY DEF LegBlockers

\* With blockers there is no empty list.
LEMMA VetoBlocks ==
    ASSUME NEW p, NEW board, NEW trend, NEW leg, NEW side,
           LegBlockers(p, board, trend, leg, side) = {}
    PROVE  leg.vetoes = {}
  BY DEF LegBlockers

\* An eligible candidate of a liquid contract becomes an eligible row.
LEMMA ScannedHas ==
    ASSUME NEW p, NEW board, NEW legs, NEW trend,
           NEW k \in DOMAIN board.chain, NEW side \in Sides, IsLeg(legs[k][side]),
           StrikeOk(p, side, k), legs[k][side].oi >= p.minOi,
           legs[k][side].volume >= MinVolume(p, board.early),
           Candidate(p, board, legs, trend, k, side).sig
    PROVE  \E r \in ScannedIn(p, board, legs, trend) : r.k = k /\ r.side = side /\ r.sig
<1> DEFINE near == {x \in (DOMAIN board.chain) \X Sides : StrikeOk(p, x[2], x[1])}
           liquid == {x \in near : /\ legs[x[1]][x[2]].oi >= p.minOi
                                   /\ legs[x[1]][x[2]].volume >= MinVolume(p, board.early)}
           cand(x) == Candidate(p, board, legs, trend, x[1], x[2])
           row(t) == Ranked(p, IF liquid = {} THEN Relaxed(t) ELSE t)
           c == Candidate(p, board, legs, trend, k, side)
           r == Ranked(p, c)
<1>1. <<k, side>> \in near
  OBVIOUS
<1>2. <<k, side>> \in liquid
  BY <1>1
<1>3. IsRow(c) /\ c.k = k /\ c.side = side
  BY CandidateIsRow
<1>4. ScannedIn(p, board, legs, trend)
        = {row(cand(x)) : x \in IF liquid = {} THEN near ELSE liquid}
  BY DEF ScannedIn
<1>5. liquid # {} /\ cand(<<k, side>>) = c
  BY <1>2
<1>6. row(c) = r
  BY <1>5
<1>7. r \in ScannedIn(p, board, legs, trend)
  <2> HIDE DEF liquid, near, c, r
  <2>. QED
    BY <1>2, <1>4, <1>5, <1>6
<1> HIDE DEF c
<1>8. SameRow(c, r) /\ r.sig = c.sig
  BY <1>3, RankedKeeps
<1>9. r.k = k /\ r.side = side
  BY <1>3, <1>8 DEF SameRow
<1>10. r.sig
  BY <1>8 DEF c
<1> HIDE DEF r
<1>. QED
  BY <1>7, <1>9, <1>10

\* The two lists agree whatever the legs are, if eligible legs have no veto.
LEMMA ListsAgree ==
    ASSUME NEW p, p.short, p.thr \in Int, p.minOi \in Int, p.minVol \in Int,
           p.earlyVol \in Int,
           NEW board, NEW legs, NEW trend, trend.bull \in Int, trend.bear \in Int,
           \A k \in DOMAIN board.chain, side \in Sides :
             /\ IsLeg(legs[k][side])
             /\ legs[k][side].oi \in Int /\ legs[k][side].volume \in Int
             /\ legs[k][side].gates.sig => legs[k][side].vetoes = {}
    PROVE  AgreeOn(ScannedIn(p, board, legs, trend), DiagnosedIn(p, board, legs, trend),
                   board.early)
<1> DEFINE rows == ScannedIn(p, board, legs, trend)
           log == DiagnosedIn(p, board, legs, trend)
           blockers(k, side) == LegBlockers(p, board, trend, legs[k][side], side)
           listed == {x \in (DOMAIN board.chain) \X Sides :
                        /\ StrikeOk(p, x[2], x[1])
                        /\ DeltaOk(p, board.vix, x[2], legs[x[1]][x[2]].delta)}
           entry(x) == [k |-> x[1], side |-> x[2], blockers |-> blockers(x[1], x[2])]
<1>1. log = {entry(x) : x \in listed}
  BY DEF DiagnosedIn
<1>2. \A side : SpotScore(trend, side) \in Int
  BY DEF SpotScore
<1>3. /\ MinVolume(p, board.early) \in Int
      /\ MinVolume(p, board.early) <= p.minVol
      /\ MinVolume(p, board.early) < p.minVol => board.early
  BY DEF MinVolume, Lower
<1>4. ASSUME NEW d \in log, d.blockers = {}
      PROVE  \E r \in rows : r.k = d.k /\ r.side = d.side /\ r.sig
  <2>1. PICK x \in listed : d = entry(x)
    BY <1>1, <1>4
  <2>2. PICK k \in DOMAIN board.chain, side \in Sides :
          /\ d = [k |-> k, side |-> side, blockers |-> blockers(k, side)]
          /\ StrikeOk(p, side, k)
          /\ DeltaOk(p, board.vix, side, legs[k][side].delta)
    BY <2>1
  <2> DEFINE leg == legs[k][side]
  <2>3. /\ d.k = k /\ d.side = side
        /\ LegBlockers(p, board, trend, leg, side) = {}
    BY <1>4, <2>2
  <2>4. IsLeg(leg) /\ leg.oi \in Int /\ leg.volume \in Int
    OBVIOUS
  <2> HIDE DEF leg
  <2>5. leg.vetoes = {}
    BY <2>3, VetoBlocks
  <2>6. PICK S \in SUBSET {"liquidity"} : S = {}
    OBVIOUS
  <2>7. LegBlockers(p, board, trend, leg, side) \subseteq S
    BY <2>3
  <2> DEFINE mine == IF side = "put" THEN "bullish" ELSE "bearish"
  <2>8. /\ ~(leg.oi < p.minOi \/ leg.volume < p.minVol)
        /\ p.regimeMode = "strike" => leg.regime
        /\ p.regimeMode # "strike" =>
             trend.regime = mine /\ ~(SpotScore(trend, side) < p.thr)
        /\ IvrOk(p, side, leg.ivr)
        /\ leg.gates.sig
    BY <2>5, <2>6, <2>7, LogVerdict
  <2>9. RegimeOk(p, trend, leg, side)
    BY <2>8 DEF RegimeOk
  <2>10. p.regimeMode = "strike" \/ SpotScore(trend, side) >= p.thr
    BY <1>2, <2>8
  <2>11. leg.oi >= p.minOi /\ leg.volume >= MinVolume(p, board.early)
    BY <1>3, <2>4, <2>8
  <2>12. Candidate(p, board, legs, trend, k, side).sig
    BY <2>2, <2>8, <2>9, <2>10, ShortVerdict DEF leg
  <2>. QED
    BY <2>2, <2>3, <2>4, <2>11, <2>12, ScannedHas DEF leg
<1>5. ASSUME NEW r \in rows, r.sig
      PROVE  \E d \in log : /\ r.k = d.k /\ r.side = d.side
                            /\ d.blockers \subseteq {"liquidity"}
                            /\ d.blockers # {} => board.early
  <2> DEFINE k == r.k
             side == r.side
             leg == legs[k][side]
             d == [k |-> k, side |-> side, blockers |-> blockers(k, side)]
  <2>1. /\ k \in DOMAIN board.chain /\ side \in Sides /\ r.leg = leg
        /\ StrikeOk(p, side, k)
        /\ Candidate(p, board, legs, trend, k, side).sig
        /\ leg.oi >= p.minOi /\ leg.volume >= MinVolume(p, board.early)
    BY <1>5, ScannedRow
  <2>2. /\ IvrOk(p, side, leg.ivr)
        /\ DeltaOk(p, board.vix, side, leg.delta)
        /\ RegimeOk(p, trend, leg, side)
        /\ p.regimeMode = "strike" \/ SpotScore(trend, side) >= p.thr
        /\ leg.gates.sig
    BY <2>1, ShortVerdict
  <2>3. <<k, side>> \in listed
    BY <2>1, <2>2
  <2>4. d \in log
    BY <1>1, <2>3
  <2>5. leg.oi \in Int /\ leg.volume \in Int /\ leg.vetoes = {}
    BY <2>1, <2>2
  <2> HIDE DEF leg, k, side
  <2>6. LegBlockers(p, board, trend, leg, side) \subseteq {"liquidity"}
    <3>1. PICK S \in SUBSET {"liquidity"} : S = {"liquidity"}
      OBVIOUS
    <3>2. /\ p.regimeMode = "strike" => leg.regime
          /\ p.regimeMode # "strike" =>
               /\ trend.regime = IF side = "put" THEN "bullish" ELSE "bearish"
               /\ ~(SpotScore(trend, side) < p.thr)
      BY <1>2, <2>2 DEF RegimeOk
    <3>3. LegBlockers(p, board, trend, leg, side) \subseteq S
      BY <2>2, <2>5, <3>1, <3>2, LogVerdict
    <3>. QED
      BY <3>1, <3>3
  <2>7. LegBlockers(p, board, trend, leg, side) # {} => board.early
    <3> SUFFICES ASSUME ~board.early
                 PROVE  LegBlockers(p, board, trend, leg, side) = {}
      OBVIOUS
    <3>1. PICK S \in SUBSET {"liquidity"} : S = {}
      OBVIOUS
    <3>2. /\ p.regimeMode = "strike" => leg.regime
          /\ p.regimeMode # "strike" =>
               /\ trend.regime = IF side = "put" THEN "bullish" ELSE "bearish"
               /\ ~(SpotScore(trend, side) < p.thr)
      BY <1>2, <2>2 DEF RegimeOk
    <3>3. ~(leg.oi < p.minOi \/ leg.volume < p.minVol)
      BY <1>3, <2>1, <2>5
    <3>4. LegBlockers(p, board, trend, leg, side) \subseteq S
      BY <2>2, <2>5, <3>1, <3>2, <3>3, LogVerdict
    <3>. QED
      BY <3>1, <3>4
  <2>8. /\ d.k = r.k /\ d.side = r.side
        /\ d.blockers = LegBlockers(p, board, trend, leg, side)
    BY DEF k, side, leg
  <2>. QED
    BY <2>4, <2>6, <2>7, <2>8
<1> HIDE DEF rows, log
<1>. QED
  BY <1>4, <1>5 DEF AgreeOn, rows, log

\* The index's scores are numbers.
LEMMA TrendScores ==
    ASSUME NEW board, NEW p
    PROVE  TrendFor(board, p).bull \in Int /\ TrendFor(board, p).bear \in Int
<1>1. NoTrend.bull \in Int /\ NoTrend.bear \in Int
  BY DEF NoTrend
<1>2. \A s : SpotTrend(s, p).bull \in Int /\ SpotTrend(s, p).bear \in Int
  <2> TAKE s
  <2> DEFINE x == BullGates(s, [p EXCEPT !.incVol = TRUE]).score
             y == BearGates(s, [p EXCEPT !.vwapBuf = 0]).score
  <2>1. x \in Int /\ y \in Int
    BY PacksAreGates
  <2>2. SpotTrend(s, p) = NoTrend \/ SpotTrend(s, p) = TrendOf(x, y, p)
    BY DEF SpotTrend
  <2> HIDE DEF x, y
  <2>3. TrendOf(x, y, p).bull = x /\ TrendOf(x, y, p).bear = y
    BY DEF TrendOf
  <2>. QED
    BY <1>1, <2>1, <2>2, <2>3
<1>. QED
  BY <1>1, <1>2 DEF TrendFor, ChainTrend

\* A leg that the log calls eligible is an eligible candidate, and the other way round
\* but for volume that is enough in the early session only
\* (_build_short_leg_diagnostics, _get_live_candidates).
THEOREM VerdictsAgreeHolds == CandidateSpec => []VerdictsAgree
<1>1. CandInv => VerdictsAgree
  <2> SUFFICES ASSUME CandInv, made # NotMade, made.p.short
               PROVE  AgreeOn(Scanned(made.p, made.board), Diagnosed(made.p, made.board),
                              made.board.early)
    BY DEF VerdictsAgree
  <2> DEFINE p == made.p
             board == made.board
             legs == LegsFor(board, p)
             trend == TrendFor(board, p)
  <2>1. /\ p \in Catalogs /\ "short" \in DOMAIN p
        /\ \A k \in DOMAIN board.chain, side \in Sides : board.chain[k][side] \in Quotes
    BY MadeTypes
  <2>2. p.thr \in Int /\ p.minOi \in Int /\ p.minVol \in Int /\ p.earlyVol \in Int
    BY <2>1, CandidateAssumption
  <2>3. trend.bull \in Int /\ trend.bear \in Int
    BY TrendScores
  <2> HIDE DEF trend
  <2>4. ASSUME NEW k \in DOMAIN board.chain, NEW side \in Sides
        PROVE  /\ IsLeg(legs[k][side])
               /\ legs[k][side].oi \in Int /\ legs[k][side].volume \in Int
               /\ legs[k][side].gates.sig => legs[k][side].vetoes = {}
    <3>1. /\ IsLeg(legs[k][side])
          /\ legs[k][side].oi = board.chain[k][side].oi
          /\ legs[k][side].volume = board.chain[k][side].volume
          /\ legs[k][side].gates.sig => legs[k][side].vetoes = {}
      BY <2>1, BoardLeg
    <3>2. board.chain[k][side].oi \in Int /\ board.chain[k][side].volume \in Int
      BY <2>1 DEF Quotes
    <3>. QED
      BY <3>1, <3>2
  <2> HIDE DEF legs, board, p
  <2>5. AgreeOn(ScannedIn(p, board, legs, trend), DiagnosedIn(p, board, legs, trend),
                board.early)
    BY <2>2, <2>3, <2>4, ListsAgree DEF p
  <2>. QED
    BY <2>5 DEF Scanned, Diagnosed, legs, trend, board, p
<1>. QED
  BY <1>1, CandidateInvariant, PTL

-----------------------------------------------------------------------------
(* CandidateRules: what is shown and what is admitted *)

\* Whole prices against a line a percentage away.
LEMMA BelowLine ==
    ASSUME NEW x \in Int, NEW v \in Int, NEW n \in Int, x < Percent(v, n)
    PROVE  x * 100 < v * n
<1> DEFINE y == v * n
<1>1. y \in Int /\ x < y \div 100
  BY DEF Percent
<1> HIDE DEF y
<1>2. x * 100 < y
  BY <1>1
<1>. QED
  BY <1>2 DEF y

LEMMA AboveLine ==
    ASSUME NEW x \in Int, NEW v \in Int, NEW n \in Int, x > Percent(v, n)
    PROVE  x * 100 > v * n
<1> DEFINE y == v * n
<1>1. y \in Int /\ x > y \div 100
  BY DEF Percent
<1> HIDE DEF y
<1>2. x * 100 > y
  BY <1>1
<1>. QED
  BY <1>2 DEF y

\* The numbers of a quote.
LEMMA SeriesTypes ==
    ASSUME NEW q \in Quotes
    PROVE  /\ SeriesOf(q).ltp \in Nat /\ SeriesOf(q).vwap \in Nat
           /\ SeriesOf(q).rsi \in Int /\ SeriesOf(q).rsiPrev \in Int
           /\ q.oi \in Nat /\ q.volume \in Nat
<1>1. SeriesOf(q) \in CandleSeries
  BY DEF SeriesOf, Quotes
<1>. QED
  BY <1>1 DEF CandleSeries, Quotes

\* What an eligible candidate to buy has passed.
LEMMA LongVerdict ==
    ASSUME NEW p, ~p.short, NEW board, NEW legs, NEW trend, NEW k, NEW side,
           IsLeg(legs[k][side]), Candidate(p, board, legs, trend, k, side).sig
    PROVE  /\ AboveVwap(legs[k][side].seen, p)
           /\ p.spotAlign => trend.regime = IF side = "call" THEN "bullish" ELSE "bearish"
<1> DEFINE leg == legs[k][side]
           g == [leg.gates EXCEPT !.primary = AboveVwap(leg.seen, p),
                                  !.ema = EmaRising(leg.seen, p)]
           points == One(g.primary) + One(g.ema) + One(g.rsi) + One(p.incCross /\ g.cross)
                     + One(p.incVol /\ g.vol)
           cheap == p.ivrBonus > 0 /\ leg.ivr # NoValue /\ leg.ivr < p.ivrMax
           score == IF cheap THEN Lower(p.scoreMax, points + p.ivrBonus) ELSE points
           cleared == g.primary /\ score >= p.thr /\ (p.needRsi => g.rsi)
           with == trend.regime = IF side = "call" THEN "bullish" ELSE "bearish"
<1>1. g.primary <=> AboveVwap(leg.seen, p)
  BY SMTT(60) DEF IsLeg, IsGates
<1> HIDE DEF score, g
<1>2. Candidate(p, board, legs, trend, k, side).sig <=>
        cleared /\ ~(p.spotAlign /\ cleared /\ ~with)
  BY DEF Candidate, LongCandidate, score, g
<1>. QED
  BY <1>1, <1>2

\* What the auto-execute loop takes was cleared by the market that the refresh found.
THEOREM AdmittedWasClearedHolds == CandidateSpec => []AdmittedWasCleared
<1>1. CandInv => AdmittedWasCleared
  <2> SUFFICES ASSUME CandInv, NEW t \in AutoEligible
               PROVE  LET p == made.p
                          board == made.board
                          q == board.chain[t.k][t.side]
                          s == SeriesOf(q)
                          drop == s.rsiPrev - s.rsi
                      IN /\ q.oi >= p.minOi
                         /\ \/ q.volume >= p.minVol
                            \/ board.early /\ p.earlyVol > 0 /\ q.volume >= p.earlyVol
                         /\ ~p.short =>
                              /\ s.ltp >= s.vwap
                                 \/ (p.strict /\ s.ltp * 100
                                                  > s.vwap * (100 - Clamp(p.vwapMargin, 0, 10)))
                              /\ p.spotAlign =>
                                   IF t.side = "call"
                                     THEN SpotTrend(board.candles, p).regime = "bullish"
                                     ELSE SpotTrend(board.candles, p).regime = "bearish"
                         /\ p.short =>
                              /\ p.vwapOptional
                                 \/ s.ltp * 100 < s.vwap * (100 + Clamp(p.vwapBuf, 0, 3))
                              /\ p.ghostDrop > 0 => s.rsiPrev # NoValue /\ drop >= p.ghostDrop
                              /\ (p.adxMin > 0 /\ board.candles.bars > 0) =>
                                   board.adx >= p.adxMin
                              /\ DeltaOk(p, board.vix, t.side, q.delta)
                              /\ DeltaOk(catalog, vixNow, t.side, q.delta)
    BY DEF AdmittedWasCleared
  <2>1. PICK r \in stored : t = Explained(Refreshed(r, catalog)) /\ InBandNow(t) /\ t.sig
    BY DEF AutoEligible, Listed, MeetsBar
  <2> DEFINE p == made.p
             board == made.board
             legs == LegsFor(board, p)
             trend == TrendFor(board, p)
             k == t.k
             side == t.side
             q == board.chain[k][side]
             s == SeriesOf(q)
             leg == legs[k][side]
  <2>2. /\ made # NotMade /\ IsRow(r) /\ IsGates(r.gates)
        /\ r.k \in DOMAIN board.chain /\ r.side \in Sides /\ r.leg = legs[r.k][r.side]
        /\ r.sig => /\ Candidate(p, board, legs, trend, r.k, r.side).sig
                    /\ r.leg.oi >= p.minOi
                    /\ r.leg.volume >= MinVolume(p, board.early)
    BY StoredRow
  <2>3. SameRow(r, t) /\ r.sig
    <3> DEFINE u == Refreshed(r, catalog)
    <3>1. IsRow(u) /\ SameRow(r, u) /\ u.sig = r.sig
      BY <2>2, RefreshedKeeps
    <3> HIDE DEF u
    <3>2. SameRow(u, Explained(u)) /\ Explained(u).sig = u.sig
      BY <3>1, ExplainedKeeps
    <3>. QED
      BY <2>1, <3>1, <3>2 DEF SameRow, u
  <2>4. /\ k \in DOMAIN board.chain /\ side \in Sides /\ t.leg = leg
        /\ Candidate(p, board, legs, trend, k, side).sig
        /\ leg.oi >= p.minOi /\ leg.volume >= MinVolume(p, board.early)
    BY <2>2, <2>3 DEF SameRow
  <2>5. /\ p \in Catalogs /\ "short" \in DOMAIN p
        /\ board.candles \in CandleSeries /\ board.adx \in Int
        /\ q \in Quotes
    BY <2>2, <2>4, MadeTypes
  <2>6. /\ IsLeg(leg) /\ leg.seen = s /\ leg.delta = q.delta /\ leg.oi = q.oi
        /\ leg.volume = q.volume
        /\ p.short /\ board.source # "kite" => ~leg.gates.sig \/ ~leg.regime
        /\ p.short /\ board.source = "kite" /\ leg.gates.sig =>
             /\ BearGates(s, p).sig
             /\ ~(p.ghostDrop > 0
                  /\ (s.rsiPrev = NoValue \/ s.rsiPrev - s.rsi < p.ghostDrop))
             /\ ~(board.candles.bars > 0 /\ p.adxMin > 0 /\ board.adx < p.adxMin)
    <3>1. "short" \in DOMAIN p /\ k \in DOMAIN board.chain /\ side \in Sides
      BY <2>4, <2>5
    <3> HIDE DEF p, board, k, side
    <3>. QED
      BY <3>1, BoardLeg
  <2>7. /\ s.ltp \in Nat /\ s.vwap \in Nat /\ s.rsi \in Int /\ s.rsiPrev \in Int
        /\ q.oi \in Nat /\ q.volume \in Nat
    BY <2>5, SeriesTypes
  <2>8. /\ p.thr \in Int /\ p.minOi \in Int /\ p.minVol \in Int /\ p.earlyVol \in Int
        /\ p.vwapMargin \in Int /\ p.vwapBuf \in Int /\ p.ghostDrop \in Int
        /\ p.adxMin \in Int
    BY <2>5, CandidateAssumption
  <2>9. p.short => catalog.short
    BY <2>2 DEF CandInv
  <2> HIDE DEF p, board, legs, trend, k, side, q, s, leg
  <2>10. /\ q.oi >= p.minOi
         /\ \/ q.volume >= p.minVol
            \/ board.early /\ p.earlyVol > 0 /\ q.volume >= p.earlyVol
    BY <2>4, <2>6, <2>7, <2>8 DEF MinVolume, Lower
  <2>11. ASSUME ~p.short
         PROVE  /\ s.ltp >= s.vwap
                   \/ (p.strict /\ s.ltp * 100
                                    > s.vwap * (100 - Clamp(p.vwapMargin, 0, 10)))
                /\ p.spotAlign =>
                     IF side = "call" THEN SpotTrend(board.candles, p).regime = "bullish"
                                      ELSE SpotTrend(board.candles, p).regime = "bearish"
    <3>1. /\ AboveVwap(s, p)
          /\ p.spotAlign => trend.regime = IF side = "call" THEN "bullish" ELSE "bearish"
      BY <2>4, <2>6, <2>11, LongVerdict DEF leg
    <3>2. p.strict /\ s.ltp > Margin(s.vwap, p.vwapMargin) =>
            s.ltp * 100 > s.vwap * (100 - Clamp(p.vwapMargin, 0, 10))
      <4> DEFINE n == 100 - Clamp(p.vwapMargin, 0, 10)
      <4>1. n \in Int /\ Margin(s.vwap, p.vwapMargin) = Percent(s.vwap, n)
        BY <2>8 DEF Clamp, Margin
      <4> HIDE DEF n
      <4>2. s.ltp > Percent(s.vwap, n) => s.ltp * 100 > s.vwap * n
        BY <2>7, <4>1, AboveLine
      <4>. QED
        BY <4>1, <4>2 DEF n
    <3>3. trend.regime \in {"bullish", "bearish"} =>
            trend.regime = SpotTrend(board.candles, p).regime
      BY DEF trend, TrendFor, ChainTrend, NoTrend
    <3>. QED
      BY <2>7, <3>1, <3>2, <3>3 DEF AboveVwap
  <2>12. ASSUME p.short
         PROVE  /\ p.vwapOptional
                   \/ s.ltp * 100 < s.vwap * (100 + Clamp(p.vwapBuf, 0, 3))
                /\ p.ghostDrop > 0 => s.rsiPrev # NoValue /\ s.rsiPrev - s.rsi >= p.ghostDrop
                /\ (p.adxMin > 0 /\ board.candles.bars > 0) => board.adx >= p.adxMin
                /\ DeltaOk(p, board.vix, side, q.delta)
                /\ DeltaOk(catalog, vixNow, side, q.delta)
    <3>1. /\ DeltaOk(p, board.vix, side, leg.delta) /\ RegimeOk(p, trend, leg, side)
          /\ leg.gates.sig
      BY <2>4, <2>12, ShortVerdict DEF leg
    <3>2. board.source = "kite"
      <4>1. board.source # "kite" => trend.regime = "none"
        BY DEF trend, TrendFor, NoTrend
      <4>. QED
        BY <2>6, <2>12, <3>1, <4>1 DEF RegimeOk
    <3>3. /\ BearGates(s, p).sig
          /\ ~(p.ghostDrop > 0
               /\ (s.rsiPrev = NoValue \/ s.rsiPrev - s.rsi < p.ghostDrop))
          /\ ~(board.candles.bars > 0 /\ p.adxMin > 0 /\ board.adx < p.adxMin)
      BY <2>6, <2>12, <3>1, <3>2
    <3>4. p.vwapOptional \/ s.ltp < Percent(s.vwap, 100 + Clamp(p.vwapBuf, 0, 3))
      BY <3>3 DEF BearGates, NoGates
    <3>5. s.ltp < Percent(s.vwap, 100 + Clamp(p.vwapBuf, 0, 3)) =>
            s.ltp * 100 < s.vwap * (100 + Clamp(p.vwapBuf, 0, 3))
      <4> DEFINE n == 100 + Clamp(p.vwapBuf, 0, 3)
      <4>1. n \in Int
        BY <2>8 DEF Clamp
      <4> HIDE DEF n
      <4>2. s.ltp < Percent(s.vwap, n) => s.ltp * 100 < s.vwap * n
        BY <2>7, <4>1, BelowLine
      <4>. QED
        BY <4>2 DEF n
    <3>6. DeltaOk(catalog, vixNow, side, q.delta)
      BY <2>1, <2>4, <2>6, <2>9, <2>12 DEF InBandNow, side
    <3>7. (p.adxMin > 0 /\ board.candles.bars > 0) => board.adx >= p.adxMin
      BY <2>5, <2>8, <3>3 DEF CandleSeries
    <3>8. p.ghostDrop > 0 => s.rsiPrev # NoValue /\ s.rsiPrev - s.rsi >= p.ghostDrop
      BY <2>7, <2>8, <3>3
    <3>. QED
      BY <2>6, <3>1, <3>4, <3>5, <3>6, <3>7, <3>8
  <2>. QED
    BY <2>10, <2>11, <2>12, SMTT(60) DEF p, board, k, side, q, s
<1>. QED
  BY <1>1, CandidateInvariant, PTL

\* The reasons on the screen follow the catalog as it is, but for the gates of a row that
\* something else than the leg spoke against
\* (_refresh_long_leg_failed_conditions_from_snapshot).
THEOREM ReasonsFollowCatalogHolds == CandidateSpec => []ReasonsFollowCatalog
<1>1. CandInv => ReasonsFollowCatalog
  <2> SUFFICES ASSUME CandInv, NEW r \in stored, ~catalog.short
               PROVE  LET s == r.leg.seen
                          shown == Explained(Refreshed(r, catalog)).fails
                          follows(reason, failed) ==
                            /\ failed => reason \in shown
                            /\ reason \in shown /\ ~failed =>
                                 r.fails \cap NonLeg # {} /\ reason \in r.fails
                      IN /\ follows("rsi", ~Between(catalog.rsiMin, s.rsi, catalog.rsiMax))
                         /\ ~catalog.strict => follows("primary", s.ltp < s.vwap)
                         /\ r.fails \cap NonLeg \subseteq shown
                         /\ shown = {} => r.sig
    BY DEF ReasonsFollowCatalog
  <2> DEFINE s == r.leg.seen
             t == Refreshed(r, catalog)
             g == t.gates
             shown == Explained(t).fails
             kept == IF r.fails \cap NonLeg # {} THEN r.fails ELSE {}
  <2>1. /\ made # NotMade /\ IsRow(r) /\ IsGates(r.gates)
        /\ r.k \in DOMAIN made.board.chain /\ r.side \in Sides
        /\ r.leg = LegsFor(made.board, made.p)[r.k][r.side]
    BY StoredRow
  <2>2. s.ltp \in Nat /\ s.vwap \in Nat
    <3> DEFINE q == made.board.chain[r.k][r.side]
    <3>1. q \in Quotes /\ "short" \in DOMAIN made.p
      BY <2>1, MadeTypes
    <3>2. s = SeriesOf(q)
      BY <2>1, <3>1, BoardLeg
    <3>. QED
      BY <3>1, <3>2, SeriesTypes
  <2>3. /\ IsRow(t) /\ t.sig = r.sig
        /\ g.primary = AboveVwap(s, catalog)
        /\ g.rsi = Between(catalog.rsiMin, s.rsi, catalog.rsiMax)
        /\ t.fails = GateFails(g, catalog.incVol) \cup kept
    BY <2>1, RefreshedKeeps
  <2> HIDE DEF t, kept
  <2>4. shown = IF ~t.sig /\ t.fails = {} THEN {"other"} ELSE t.fails
    BY <2>3, ExplainedKeeps
  <2> HIDE DEF s, shown
  <2>5. /\ "rsi" \in GateFails(g, catalog.incVol) <=> ~g.rsi
        /\ "primary" \in GateFails(g, catalog.incVol) <=> ~g.primary
    BY DEF GateFails
  <2> HIDE DEF g
  <2>6. \A reason \in {"rsi", "primary"} :
          reason \in shown <=> reason \in GateFails(g, catalog.incVol) \/ reason \in kept
    BY <2>3, <2>4
  <2>7. \A reason : reason \in kept => r.fails \cap NonLeg # {} /\ reason \in r.fails
    BY DEF kept
  <2>8. ~catalog.strict => (g.primary <=> ~(s.ltp < s.vwap))
    <3>1. ~catalog.strict => (AboveVwap(s, catalog) <=> ~(s.ltp < s.vwap))
      BY <2>2 DEF AboveVwap
    <3>. QED
      BY <2>3, <3>1
  <2>9. g.rsi <=> Between(catalog.rsiMin, s.rsi, catalog.rsiMax)
    BY <2>3
  <2>10. /\ "rsi" \in shown <=> ~g.rsi \/ "rsi" \in kept
         /\ "primary" \in shown <=> ~g.primary \/ "primary" \in kept
    BY <2>5, <2>6
  <2>11. r.fails \cap NonLeg \subseteq shown
    BY <2>3, <2>4 DEF kept
  <2>12. shown = {} => r.sig
    BY <2>3, <2>4
  <2>. QED
    BY <2>7, <2>8, <2>9, <2>10, <2>11, <2>12 DEF s, t, shown
<1>. QED
  BY <1>1, CandidateInvariant, PTL
=============================================================================
