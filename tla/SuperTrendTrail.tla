---------------------------- MODULE SuperTrendTrail ----------------------------
(***************************************************************************)
(* One short option of supertrend_trail, from its signal to its exit: the  *)
(* SuperTrend of the index, bar by bar, and the monitor cycles that move   *)
(* the stop with it or with the option's session VWAP (run_monitor_cycle,  *)
(* compute_hybrid_sl_short_sell).  A cycle is one step here; what may come *)
(* between its awaits is PositionMonitor's.                                *)
(*                                                                         *)
(* Index levels are in points, premiums in paise.  Stops are computed in   *)
(* 1/10000 paise and rounded to paise, as round(x, 2) does: of a number    *)
(* half way between two paise either may come out, as the binary float it  *)
(* is held in may lie on either side of it (round(1.005, 2) is 1.0).       *)
(***************************************************************************)
EXTENDS TrendSides

CONSTANTS
    Bars,              \* bars of the index: middle, reach (ATR times multiplier), close
    Premiums,          \* last prices of the option, paise
    Averages,          \* its session VWAP
    SlPoints, TargetPoints, TrailPoints,   \* the user's settings, paise
    BreakevenPct,      \* of the entry price
    StepPct, EpsPct    \* vwapStepThresholdPct, entryVsVwapEpsPct, in 1/10000

ASSUME TrailAssumption ==
    /\ Bars \subseteq [mid : Nat, reach : Nat, close : Nat \ {0}]
    /\ \A b \in Bars : b.reach < b.mid
    /\ Premiums \subseteq Nat \ {0} /\ Averages \subseteq Nat \ {0}
    /\ SlPoints \in Nat /\ TargetPoints \in Nat /\ TrailPoints \in Nat
    /\ BreakevenPct \in Nat /\ StepPct \in 0 .. 10000 /\ EpsPct \in 0 .. 10000

VARIABLES
    bands,             \* the SuperTrend of the bars that have closed
    ended,              \* the session is over
    offer,             \* the recommendation on offer
    trade

trailVars == <<bands, ended, offer, trade>>

Nothing == "none"
NoAverage == 0
Unit == 10000

NoTrade == [state |-> "none"]
NoSnap == [dir |-> 0]
Bands == [upper : Int, lower : Int, dir : {Bull, Bear}, close : Nat \ {0}]

-----------------------------------------------------------------------------
(* _supertrend_direction, one bar further *)

Tops(b) == b.mid + b.reach
Bottom(b) == b.mid - b.reach

UpperBand(b) ==
    IF Tops(b) < bands.upper \/ bands.close > bands.upper THEN Tops(b) ELSE bands.upper
LowerBand(b) ==
    IF Bottom(b) > bands.lower \/ bands.close < bands.lower THEN Bottom(b) ELSE bands.lower
Direction(b) ==
    IF b.close > bands.upper THEN Bull
    ELSE IF b.close < bands.lower THEN Bear ELSE bands.dir

\* The bands when b is the last bar: the bar in progress, or the one that closes.
Next1(b) == [upper |-> UpperBand(b), lower |-> LowerBand(b), dir |-> Direction(b),
             close |-> b.close]

-----------------------------------------------------------------------------
(* compute_hybrid_sl_short_sell *)

Away(x, y) == IF x < y THEN y - x ELSE x - y
ToPaise(x) == {(x + Unit \div 2) \div Unit, (x + Unit \div 2 - 1) \div Unit}

\* option_sl_trace_phase
Phase(entry, v) ==
    IF v = NoAverage \/ Unit * v >= entry * (Unit - EpsPct) THEN "ST" ELSE "VWAP"

\* Mutant of Pegged: the cap comes last.
PeggedCapped(entry, p, snap) ==
    LET width == Larger(snap.upper - snap.lower, 1)
        wanted == Larger(Larger(10200 * p, Unit * p + (4000 * entry * width) \div snap.close),
                         10200 * entry)
    IN Smaller(Larger(wanted, 10050 * p), 25000 * entry)

\* The stop above the price by 2% or by the width of the bands, above the entry by 2%, at
\* most two and a half times the entry, but half a percent above the price at any rate.
Pegged(entry, p, snap) ==
    LET width == Larger(snap.upper - snap.lower, 1)
        wanted == Larger(Larger(10200 * p, Unit * p + (4000 * entry * width) \div snap.close),
                         10200 * entry)
    IN Larger(Smaller(wanted, 25000 * entry), 10050 * p)

\* The stop at VWAP or 1% above the price, never above the current one unless that is
\* within half a percent of the price.
Trailed(p, v, stop) ==
    Larger(Smaller(Larger(Unit * p + Larger(Unit, 100 * p), (Unit + StepPct) * v),
                   Unit * stop),
           10050 * p)

\* Mutant of StepTaken: a step either way.
StepTakenEither(x, stop) ==
    /\ Away(x, Unit * stop) > Unit \div 2
    /\ Away(x, Unit * stop) >= Larger(2 * Unit, StepPct * stop)

\* Whether the trailed stop is worth a write: half a paisa lower, and a whole step.
StepTaken(x, stop) ==
    /\ Unit * stop - x > Unit \div 2
    /\ Unit * stop - x >= Larger(2 * Unit, StepPct * stop)

\* What the stop may be after this part of the cycle; without an index the pegged one
\* stays.
HybridStops(t, p, v, snap) ==
    IF Phase(t.entry, v) = "ST"
      THEN LET x == Pegged(t.entry, p, snap)
           IN IF snap = NoSnap \/ Away(x, Unit * t.stop) < Unit \div 2
                THEN {t.stop} ELSE ToPaise(x)
      ELSE LET x == Trailed(p, v, t.stop)
           IN IF StepTaken(x, t.stop) THEN ToPaise(x) ELSE {t.stop}

-----------------------------------------------------------------------------
(* Actions *)

TrailInit ==
    /\ \E b \in Bars :
         bands = [upper |-> Tops(b), lower |-> Bottom(b),
                  dir |-> IF b.close > Bottom(b) THEN Bull ELSE Bear, close |-> b.close]
    /\ ended = FALSE
    /\ offer = Nothing
    /\ trade = NoTrade

IsOpen == trade.state \in {"ACTIVE", "TRAIL"}

\* A bar of the index closes.
CloseBar(b) ==
    /\ ~ended
    /\ bands' = Next1(b)
    /\ UNCHANGED <<ended, offer, trade>>

EndSession ==
    /\ ended' = TRUE
    /\ UNCHANGED <<bands, offer, trade>>

\* A refresh with bar b in progress: the trend of the last two bars and a pullback
\* against the slow EMA, or nothing.
Recommend(b) ==
    /\ trade = NoTrade /\ ~ended
    /\ \/ Direction(b) = bands.dir /\ offer' = IF bands.dir = Bull THEN "PE" ELSE "CE"
       \/ offer' = Nothing
    /\ UNCHANGED <<bands, ended, trade>>

\* execute_recommendation: stop and target at the settings' distance from the quote.
Enter(p) ==
    /\ offer # Nothing /\ trade = NoTrade /\ ~ended
    /\ trade' = [state |-> "ACTIVE", type |-> offer, entry |-> p, stop |-> p + SlPoints,
                 target |-> p - TargetPoints, price |-> p, mode |-> "blind",
                 reason |-> "open"]
    /\ offer' = Nothing
    /\ UNCHANGED <<bands, ended>>

Exit(t, p, reason) == [t EXCEPT !.state = "EXIT", !.price = p, !.reason = reason]

\* should_exit_on_spot_supertrend_flip
Flipped(t, dir) == dir = IF t.type = "PE" THEN Bear ELSE Bull

\* The trade with the stop of the cycle, and which of the two methods set it.
Moved(p, v, snap, sight) ==
    IF sight = "none" THEN {[trade EXCEPT !.mode = "blind"]}
    ELSE {[trade EXCEPT !.stop = stop,
                        !.mode = IF snap = NoSnap /\ Phase(trade.entry, v) = "ST"
                                   THEN "blind" ELSE Phase(trade.entry, v)] :
            stop \in HybridStops(trade, p, v, snap)}

\* The rest of the cycle: target, stop, and the trail that starts at breakeven.
Settled(t, p) ==
    LET tighter == p + TrailPoints < t.stop
        breakeven == 100 * (t.entry - p) >= BreakevenPct * t.entry
    IN IF p <= t.target THEN Exit(t, p, "TARGET_HIT")
       ELSE IF p >= t.stop THEN Exit(t, p, "SL_HIT")
       ELSE IF tighter /\ (t.state = "TRAIL" \/ breakeven)
         THEN [t EXCEPT !.state = "TRAIL", !.stop = p + TrailPoints, !.price = p]
         ELSE [t EXCEPT !.price = p]

\* One cycle of the monitor with the quote, the average and the bar it gets: everything,
\* no index, no recommendation (an exception, or its row is gone), or nothing at all.
Cycle(p, v, b, sight) ==
    LET snap == IF sight \in {"all", "noRec"} THEN Next1(b) ELSE NoSnap
    IN /\ IsOpen
       /\ \E t \in Moved(p, v, snap, sight) :
            trade' = IF ended THEN Exit(trade, p, "TRADE_SESSION_END")
                     ELSE IF sight = "all" /\ Flipped(trade, snap.dir)
                       THEN Exit(t, p, "SUPERTREND_FLIP")
                     ELSE Settled(t, p)
       /\ UNCHANGED <<bands, ended, offer>>

Sights == {"all", "noIndex", "noRec", "none"}

TrailNext ==
    \/ \E b \in Bars : CloseBar(b) \/ Recommend(b)
    \/ EndSession
    \/ \E p \in Premiums : Enter(p)
    \/ \E p \in Premiums, v \in Averages \cup {NoAverage}, b \in Bars, sight \in Sights :
         Cycle(p, v, b, sight)

TrailSpec == TrailInit /\ [][TrailNext]_trailVars

-----------------------------------------------------------------------------
(* Properties *)

Trades ==
    [state : {"ACTIVE", "TRAIL", "EXIT"}, type : {"PE", "CE"}, entry : Premiums,
     stop : Nat, target : Int, price : Premiums, mode : {"ST", "VWAP", "blind"},
     reason : {"open", "TRADE_SESSION_END", "SUPERTREND_FLIP", "TARGET_HIT", "SL_HIT"}]

\* Every variable keeps its shape.
TrailTypeOK ==
    /\ bands \in Bands
    /\ ended \in BOOLEAN
    /\ offer \in {Nothing, "PE", "CE"}
    /\ trade \in {NoTrade} \cup Trades

\* While VWAP has not fallen below the entry, a cycle that sees the index sets the stop
\* above the price it has just read: such a cycle closes the trade at its stop only when
\* the option costs a rupee or less, where half a percent may be lost in rounding.
PeggedNeverStops ==
    trade # NoTrade /\ trade.reason = "SL_HIT" /\ trade.mode = "ST" => trade.price <= 100

\* The stop of an open trade moves away from the price in cycles of that method only.
StopRisesOnlyWhilePegged ==
    [][trade # NoTrade /\ trade'.stop > trade.stop => trade'.mode = "ST"]_trailVars
=============================================================================
