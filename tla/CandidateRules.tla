----------------------------- MODULE CandidateRules -----------------------------
(***************************************************************************)
(* From a chain to the trades that the auto-execute loop takes, for one    *)
(* strategy with rules (trades_service): the candidates of a refresh, the  *)
(* diagnostics logged beside them, what is shown after the catalog was     *)
(* edited, and the bar for automatic execution.                            *)
(*                                                                         *)
(* A refresh finds a board: the chain (strikes as steps from the money),   *)
(* the index's candles and ADX, whether the early session runs, and the    *)
(* source of the chain; VIX joins it when the refresh reads it.  A catalog *)
(* is the strategy's parameters, those of LegSignals included; deltas are  *)
(* in hundredths.                                                          *)
(***************************************************************************)
EXTENDS LegSignals, Sequences

CONSTANTS
    Catalogs,         \* parameters the strategy may be given
    Boards,           \* markets a refresh may find
    Vixes             \* values of India VIX, NoValue when its quote fails

CandleSeries ==
    [bars : Nat, ltp : Nat, vwap : Nat, ema9 : Nat, ema21 : Nat, rsi : Int, rsiPrev : Int,
     falling : Nat, bull : Nat, bear : Nat, ratio : Nat]
Quotes == [hist : CandleSeries, quote : CandleSeries, iv : Nat, delta : Int, oi : Nat,
           volume : Nat]

ASSUME CandidateAssumption ==
    /\ \A p \in Catalogs :
         /\ p.scoreMax \in 1..10 /\ p.cap \in 0..10
         /\ {"short", "regimeMode"} \subseteq DOMAIN p
         /\ {p.thr, p.minOi, p.minVol, p.earlyVol, p.vwapMargin, p.vwapBuf, p.ghostDrop,
             p.adxMin} \subseteq Int
    /\ \A b \in Boards :
         /\ b.candles \in CandleSeries /\ b.adx \in Int
         /\ \A k \in DOMAIN b.chain : b.chain[k] \in [Sides -> Quotes]

VARIABLES
    catalog,          \* the strategy's parameters now
    vixNow,           \* India VIX now
    made,             \* parameters and board of the refresh that stored the rows
    stored            \* the rows: what the candidates of that refresh were

candidateVars == <<catalog, vixNow, made, stored>>

NotMade == [board |-> "none"]

-----------------------------------------------------------------------------
(* The chain that a strategy gets.                                         *)

\* A provider's option_chain takes no threshold and no parameters, so the defaults of
\* fetch_option_chain_sync and _build_live_chain apply.
ProviderDefaults(p) ==
    [p EXCEPT !.short = FALSE, !.thr = 3, !.rsiMin = 50, !.rsiMax = 75, !.ratioMin = 15,
              !.incCross = TRUE, !.incVol = TRUE, !.strict = FALSE, !.vwapMargin = 0,
              !.emaMargin = 0, !.needRsi = FALSE, !.maxCross = NoLimit, !.adxMin = 0,
              !.spotAlign = FALSE, !.regimeMode = "spot"]

\* A FYERS chain has metrics and no gates; _fill_missing_long_premium_leg_flags_inplace
\* adds them for long premium, without margins and crosses.
Filled(s, p) ==
    BullGates([s EXCEPT !.bull = 1000],
              [p EXCEPT !.vwapMargin = 0, !.emaMargin = 0,
                        !.rsiMin = Lower(p.rsiMin, p.rsiMax),
                        !.rsiMax = Higher(p.rsiMin, p.rsiMax)])

FyersLeg(board, k, side, p) ==
    LET leg == BuiltLeg(board.chain, k, side, ProviderDefaults(p))
    IN [leg EXCEPT !.gates = IF p.short THEN NoGates ELSE Filled(leg.seen, p)]

LegsFor(board, p) ==
    IF board.source = "fyers"
      THEN [k \in DOMAIN board.chain |-> [side \in Sides |-> FyersLeg(board, k, side, p)]]
      ELSE ChainLegs(board.chain, board.candles, board.adx,
                     IF board.source = "kite" THEN p ELSE ProviderDefaults(p))

TrendFor(board, p) ==
    IF board.source = "kite" THEN ChainTrend(board.candles, p) ELSE NoTrend

-----------------------------------------------------------------------------
(* The gates that do not look at the leg's signal.                         *)

\* _resolve_short_premium_delta_corners: a band of deltas per side, by VIX if bands are
\* given; without VIX the plain band stands in.
DeltaBand(p, vix) ==
    IF p.bands = {} \/ vix = NoValue
      THEN [call |-> <<p.deltaMin, p.deltaMax>>, put |-> <<-p.deltaMax, -p.deltaMin>>]
      ELSE LET b == CHOOSE b \in p.bands : TRUE
           IN IF vix > b.threshold THEN b.above ELSE b.atOrBelow

DeltaOk(p, vix, side, delta) ==
    LET band == DeltaBand(p, vix)[side] IN Between(band[1], delta, band[2])

\* Which strikes count: all with bands, a window per side, or steps from the money, at
\* least twelve where the band of deltas is narrow.
StrikeOk(p, side, k) ==
    LET width == IF p.short /\ p.deltaMax - p.deltaMin <= 12
                   THEN Lower(20, Higher(p.maxOtm, 12)) ELSE p.maxOtm
    IN IF p.short /\ (p.bands # {} \/ p.deltaOnly) THEN TRUE
       ELSE IF p.short /\ p.datm # {}
         THEN \E w \in p.datm : w.side = side /\ Between(w.lo, k, w.hi)
       ELSE Between(-width, k, width)

\* _effective_strike_min_volume.
MinVolume(p, early) ==
    IF early /\ p.earlyVol > 0 THEN Lower(p.minVol, p.earlyVol) ELSE p.minVol

IvrOk(p, side, ivr) ==
    LET least == IF p.ivrMinSide[side] # NoLimit THEN p.ivrMinSide[side] ELSE p.ivrMin
    IN least > 0 \/ p.ivrLegMax > 0 =>
         /\ ivr # NoValue
         /\ least > 0 => ivr >= least
         /\ p.ivrLegMax > 0 => ivr <= p.ivrLegMax

\* Bulls sell puts and bears sell calls, or the strike's own regime decides.
RegimeOk(p, trend, leg, side) ==
    IF p.regimeMode = "strike" THEN leg.regime
    ELSE trend.regime = IF side = "put" THEN "bullish" ELSE "bearish"

SpotScore(trend, side) == IF side = "put" THEN trend.bull ELSE trend.bear

-----------------------------------------------------------------------------
(* _get_live_candidates                                                    *)

GateFails(g, withVol) ==
    {c \in {"primary", "ema", "rsi"} : ~g[c]} \cup IF withVol /\ ~g.vol THEN {"vol"} ELSE {}

\* A candidate for selling: its verdict needs every gate, and each that fails is a reason.
ShortCandidate(p, board, trend, leg, k, side) ==
    LET strike == p.regimeMode = "strike"
        score == IF strike THEN Lower(p.scoreMax, Higher(p.thr, leg.gates.score))
                           ELSE SpotScore(trend, side)
        fails == (IF IvrOk(p, side, leg.ivr) THEN {} ELSE {"ivr"})
            \cup (IF DeltaOk(p, board.vix, side, leg.delta) THEN {} ELSE {"delta"})
            \cup (IF RegimeOk(p, trend, leg, side) THEN {} ELSE {"regime"})
            \cup (IF strike \/ score >= p.thr THEN {} ELSE {"trend"})
            \cup (IF leg.gates.sig THEN {} ELSE {"leg"})
    IN [k |-> k, side |-> side, leg |-> leg, gates |-> leg.gates, score |-> score, conf |-> 0,
        sig |-> fails = {}, fails |-> fails]

\* A candidate for buying: gates recomputed with the margins, the leg's own verdict not
\* asked, a bonus for a low IV rank, and the index's direction if it has to agree.
LongCandidate(p, board, trend, leg, k, side) ==
    LET g == [leg.gates EXCEPT !.primary = AboveVwap(leg.seen, p),
                               !.ema = EmaRising(leg.seen, p)]
        points == One(g.primary) + One(g.ema) + One(g.rsi) + One(p.incCross /\ g.cross)
                  + One(p.incVol /\ g.vol)
        cheap == p.ivrBonus > 0 /\ leg.ivr # NoValue /\ leg.ivr < p.ivrMax
        score == IF cheap THEN Lower(p.scoreMax, points + p.ivrBonus) ELSE points
        cleared == g.primary /\ score >= p.thr /\ (p.needRsi => g.rsi)
        with == trend.regime = IF side = "call" THEN "bullish" ELSE "bearish"
        against == p.spotAlign /\ cleared /\ ~with
    IN [k |-> k, side |-> side, leg |-> leg, gates |-> g, score |-> score, conf |-> 0,
        sig |-> cleared /\ ~against,
        fails |-> GateFails(g, p.incVol) \cup IF against THEN {"spot"} ELSE {}]

\* Score and confidence with the volume bonus.
Ranked(p, r) ==
    LET bonus == VolumeBonus(r.leg.seen.ratio)
        score == IF bonus = 19 THEN Lower(p.scoreMax, r.score + 1) ELSE r.score
    IN [r EXCEPT !.score = score, !.conf = Lower(99, (score * 100) \div p.scoreMax + bonus)]

\* Mutant of Relaxed: the verdict of an illiquid contract stays.
RelaxedNot(r) == [r EXCEPT !.fails = @ \cup {"liquidity"}]

\* A row of the second tier is shown and not eligible.
Relaxed(r) == [r EXCEPT !.sig = FALSE, !.fails = @ \cup {"liquidity"}]

Candidate(p, board, legs, trend, k, side) ==
    IF p.short THEN ShortCandidate(p, board, trend, legs[k][side], k, side)
               ELSE LongCandidate(p, board, trend, legs[k][side], k, side)

\* The contracts with enough open interest and volume; if there are none, all of them.
ScannedIn(p, board, legs, trend) ==
    LET near == {x \in (DOMAIN board.chain) \X Sides : StrikeOk(p, x[2], x[1])}
        liquid == {x \in near : /\ legs[x[1]][x[2]].oi >= p.minOi
                                /\ legs[x[1]][x[2]].volume >= MinVolume(p, board.early)}
        row(r) == Ranked(p, IF liquid = {} THEN Relaxed(r) ELSE r)
    IN {row(Candidate(p, board, legs, trend, x[1], x[2])) :
          x \in IF liquid = {} THEN near ELSE liquid}

Scanned(p, board) == ScannedIn(p, board, LegsFor(board, p), TrendFor(board, p))

\* _long_premium_rec_sort_key and _short_premium_eligible_sort_key, as far as this model
\* has the numbers; the chain's order decides a tie.
SortKey(p, r) ==
    LET drop == IF r.leg.seen.rsiPrev = NoValue THEN 0
                ELSE Higher(0, r.leg.seen.rsiPrev - r.leg.seen.rsi)
        place == <<IF r.k < 0 THEN -r.k ELSE r.k, r.k, IF r.side = "call" THEN 0 ELSE 1>>
    IN IF ~p.short THEN <<-r.score, -r.leg.seen.ratio>> \o place
       ELSE <<-r.score, -r.conf>> \o (IF "decreasing" \in p.rsiRules THEN <<-drop>> ELSE <<>>)
            \o <<-r.leg.oi, -r.leg.seen.ratio>> \o place

Before(p, a, b) ==
    LET x == SortKey(p, a) y == SortKey(p, b)
    IN \E i \in DOMAIN x : x[i] < y[i] /\ \A j \in 1 .. (i - 1) : x[j] = y[j]

FirstRanked(p, n, S) == {r \in S : Cardinality({q \in S : Before(p, q, r)}) < n}

\* select_strike_by_min_gamma keeps the best eligible rows only, if there are any.
BestRows(p, rows) ==
    LET eligible == {r \in rows : r.sig}
    IN IF p.short /\ p.minGamma /\ eligible # {}
         THEN FirstRanked(p, Higher(1, p.cap), eligible) ELSE rows

Candidates(p, board) == BestRows(p, Scanned(p, board))

-----------------------------------------------------------------------------
(* _build_short_leg_diagnostics: what the evaluation log says of each leg  *)
(* in the band, from the same chain but by its own rules.                  *)

LegBlockers(p, board, trend, leg, side) ==
    LET strike == p.regimeMode = "strike"
        mine == IF side = "put" THEN "bullish" ELSE "bearish"
    IN    (IF leg.oi < p.minOi \/ leg.volume < p.minVol THEN {"liquidity"} ELSE {})
     \cup (IF strike /\ ~leg.regime THEN {"regime"} ELSE {})
     \cup (IF ~strike /\ trend.regime = "none" THEN {"mixed"} ELSE {})
     \cup (IF ~strike /\ trend.regime \notin {"none", mine} THEN {"other side"} ELSE {})
     \cup (IF IvrOk(p, side, leg.ivr) THEN {} ELSE {"ivr"})
     \cup (IF ~strike /\ trend.regime = mine /\ SpotScore(trend, side) < p.thr
             THEN {"trend"} ELSE {})
     \cup leg.vetoes
     \cup (IF leg.gates.sig \/ leg.vetoes # {} THEN {}
           ELSE IF GateFails(leg.gates, FALSE) # {} THEN {"conditions"} ELSE {"composite"})

DiagnosedIn(p, board, legs, trend) ==
    LET listed == {x \in (DOMAIN board.chain) \X Sides :
                     /\ StrikeOk(p, x[2], x[1])
                     /\ DeltaOk(p, board.vix, x[2], legs[x[1]][x[2]].delta)}
        row(x) == [k |-> x[1], side |-> x[2],
                   blockers |-> LegBlockers(p, board, trend, legs[x[1]][x[2]], x[2])]
    IN {row(x) : x \in listed}

Diagnosed(p, board) == DiagnosedIn(p, board, LegsFor(board, p), TrendFor(board, p))

-----------------------------------------------------------------------------
(* Rows after the refresh.                                                 *)

\* The reasons that a later look does not rewrite.
NonLeg == {"spot", "liquidity"}

\* Mutant of Refreshed: the reasons are rebuilt from the gates alone.
RefreshedPlain(r, p) ==
    IF p.short THEN r
    ELSE LET g == [r.gates EXCEPT !.primary = AboveVwap(r.leg.seen, p),
                                  !.ema = EmaRising(r.leg.seen, p),
                                  !.rsi = Between(p.rsiMin, r.leg.seen.rsi, p.rsiMax),
                                  !.vol = IF p.incVol THEN r.leg.seen.ratio > p.ratioMin ELSE @]
             plain == One(g.primary) + One(g.ema) + One(g.rsi) + One(p.incVol /\ g.vol)
             shown == [r EXCEPT !.gates = g, !.fails = GateFails(g, p.incVol)]
         IN IF p.incCross THEN shown ELSE Ranked(p, [shown EXCEPT !.score = plain])

\* _enrich_recommendation_item_from_storage for long premium: gates and reasons follow
\* the catalog as it is now, the score too where crosses do not count, the verdict not.
Refreshed(r, p) ==
    IF p.short THEN r
    ELSE LET g == [r.gates EXCEPT !.primary = AboveVwap(r.leg.seen, p),
                                  !.ema = EmaRising(r.leg.seen, p),
                                  !.rsi = Between(p.rsiMin, r.leg.seen.rsi, p.rsiMax),
                                  !.vol = IF p.incVol THEN r.leg.seen.ratio > p.ratioMin ELSE @]
             plain == One(g.primary) + One(g.ema) + One(g.rsi) + One(p.incVol /\ g.vol)
             kept == IF r.fails \cap NonLeg # {} THEN r.fails ELSE {}
             shown == [r EXCEPT !.gates = g, !.fails = GateFails(g, p.incVol) \cup kept]
         IN IF p.incCross THEN shown ELSE Ranked(p, [shown EXCEPT !.score = plain])

\* _normalize_failed_conditions_for_signal: a row that is not eligible says why.
Explained(r) ==
    IF ~r.sig /\ r.fails = {} THEN [r EXCEPT !.fails = {"other"}] ELSE r

\* list_recommendations_for_user: the confidence asked for is compared as stored.
Listed(minConf) ==
    {Explained(Refreshed(r, catalog)) : r \in {r \in stored : r.conf >= minConf}}

\* row_meets_auto_execute_score_bar.
MeetsBar(r) == r.conf >= 80 /\ r.sig /\ r.score >= catalog.autoThr

\* Mutant of InBandNow: the band is that of the refresh.
InBandThen(r) == catalog.short => DeltaOk(made.p, made.board.vix, r.side, r.leg.delta)

\* filter_recommendations_short_delta_band_only: by VIX now, not that of the refresh.
InBandNow(r) == catalog.short => DeltaOk(catalog, vixNow, r.side, r.leg.delta)

\* get_auto_execute_eligible_recommendations, and the strip that an admin sees: those
\* rows first, then others that reach the display threshold.
AutoEligible == {r \in Listed(80) : InBandNow(r) /\ MeetsBar(r)}
Watched == {r \in Listed(60) : r.conf >= 60 /\ r.sig /\ r.score >= catalog.thr}

-----------------------------------------------------------------------------
CandidateInit ==
    /\ catalog \in Catalogs /\ vixNow \in Vixes
    /\ made = NotMade /\ stored = {}

WithVix(board) ==
    [chain |-> board.chain, candles |-> board.candles, adx |-> board.adx,
     early |-> board.early, source |-> board.source, vix |-> vixNow]

\* A refresh stores what it found (RecommendationRefresh), nothing included.
Generate(board) ==
    /\ made' = [board |-> WithVix(board), p |-> catalog]
    /\ stored' = Candidates(catalog, WithVix(board))
    /\ UNCHANGED <<catalog, vixNow>>

\* The catalog is edited; the rows of the old one stay until the next refresh.
EditCatalog(p) ==
    /\ p.short = catalog.short
    /\ catalog' = p
    /\ UNCHANGED <<vixNow, made, stored>>

MoveVix(v) == vixNow' = v /\ UNCHANGED <<catalog, made, stored>>

CandidateNext ==
    \/ \E board \in Boards : Generate(board)
    \/ \E p \in Catalogs : EditCatalog(p)
    \/ \E v \in Vixes : MoveVix(v)

CandidateSpec == CandidateInit /\ [][CandidateNext]_candidateVars

-----------------------------------------------------------------------------
(* What the rules must keep.                                               *)

CandidateTypeOK ==
    /\ catalog \in Catalogs /\ vixNow \in Vixes
    /\ made # NotMade => made.board.vix \in Vixes /\ made.p \in Catalogs
    /\ \A r \in stored : r.score \in 0..10 /\ r.conf \in 0..99 /\ r.sig \in BOOLEAN

\* Two lists of verdicts, liquidity in the early session apart.
AgreeOn(rows, log, early) ==
    LET same(r, d) == r.k = d.k /\ r.side = d.side
    IN /\ \A d \in log : d.blockers = {} => \E r \in rows : same(r, d) /\ r.sig
       /\ \A r \in rows : r.sig =>
            \E d \in log : /\ same(r, d)
                           /\ d.blockers \subseteq {"liquidity"}
                           /\ d.blockers # {} => early

\* The verdict that is logged for a leg and the one that is traded on are computed twice
\* (_build_short_leg_diagnostics, _get_live_candidates): a leg the log calls eligible is
\* an eligible candidate, and an eligible candidate has no blocker in the log, but for
\* volume that is enough in the early session only.
VerdictsAgree ==
    made # NotMade /\ made.p.short =>
      AgreeOn(Scanned(made.p, made.board), Diagnosed(made.p, made.board), made.board.early)

\* What the auto-execute loop takes was cleared by the market that the refresh found,
\* however catalog and VIX have changed since: the contract was liquid, its premium on
\* the side of VWAP that the strategy trades, no veto's condition held, the index agreed
\* where it had to, and the delta is in the band of then and of now.
AdmittedWasCleared ==
    \A r \in AutoEligible :
      LET p == made.p
          board == made.board
          q == board.chain[r.k][r.side]
          s == SeriesOf(q)
          drop == s.rsiPrev - s.rsi
      IN /\ q.oi >= p.minOi
         /\ q.volume >= p.minVol \/ (board.early /\ p.earlyVol > 0 /\ q.volume >= p.earlyVol)
         /\ ~p.short =>
              /\ s.ltp >= s.vwap
                 \/ (p.strict /\ s.ltp * 100 > s.vwap * (100 - Clamp(p.vwapMargin, 0, 10)))
              /\ p.spotAlign =>
                   IF r.side = "call" THEN SpotTrend(board.candles, p).regime = "bullish"
                                      ELSE SpotTrend(board.candles, p).regime = "bearish"
         /\ p.short =>
              /\ p.vwapOptional \/ s.ltp * 100 < s.vwap * (100 + Clamp(p.vwapBuf, 0, 3))
              /\ p.ghostDrop > 0 => s.rsiPrev # NoValue /\ drop >= p.ghostDrop
              /\ (p.adxMin > 0 /\ board.candles.bars > 0) => board.adx >= p.adxMin
              /\ DeltaOk(p, board.vix, r.side, q.delta)
              /\ DeltaOk(catalog, vixNow, r.side, q.delta)

\* The reasons on the screen follow the catalog as it is: after an edit they name every
\* gate that the contract's numbers fail by the rules of now, and of a row that nothing
\* but the leg spoke against, no other gate; what other than the leg spoke against a row
\* is still named (_refresh_long_leg_failed_conditions_from_snapshot).
ReasonsFollowCatalog ==
    \A r \in stored : ~catalog.short =>
      LET s == r.leg.seen
          shown == Explained(Refreshed(r, catalog)).fails
          follows(reason, failed) ==
              /\ failed => reason \in shown
              /\ reason \in shown /\ ~failed => r.fails \cap NonLeg # {} /\ reason \in r.fails
      IN /\ follows("rsi", ~Between(catalog.rsiMin, s.rsi, catalog.rsiMax))
         /\ ~catalog.strict => follows("primary", s.ltp < s.vwap)
         /\ r.fails \cap NonLeg \subseteq shown
         /\ shown = {} => r.sig
=============================================================================
