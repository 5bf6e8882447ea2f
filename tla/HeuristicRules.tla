----------------------------- MODULE HeuristicRules -----------------------------
(***************************************************************************)
(* The strategy that lets heuristics vote (heuristic_scorer,               *)
(* heuristic_enhancements, _get_live_candidates_heuristic): every leg of   *)
(* the chain has a weighted score from 1 to 5, which the enhancements      *)
(* multiply, cap or block, and at most the best call and the best put are  *)
(* offered.                                                                *)
(*                                                                         *)
(* Scores are in hundredths (of the single heuristics in tenths), weights  *)
(* in thousandths, percentages in hundredths, deltas in hundredths, ratios *)
(* of volume in tenths.  A poll is a market and the strategy's parameters. *)
(***************************************************************************)
EXTENDS LegSignals

CONSTANT Polls            \* markets and parameters a refresh may find

\* Strikes, weights, limits and factors are numbers.
IsWeights(weights) == \A h \in DOMAIN weights : weights[h] \in Int
IsTuning(given) ==
    /\ \A key \in {"jointMin", "jointMax", "churnMult", "oiWeight", "pairShare", "minGap",
                   "minSpread"} \cap DOMAIN given : given[key] \in Int
    /\ "cells" \in DOMAIN given =>
         \A c \in DOMAIN given["cells"] : given["cells"][c].cap \in Int
IsPoll(x) ==
    /\ DOMAIN x.market.chain \subseteq Int
    /\ x.p.thr \in Int /\ x.p.scoreMax \in Int /\ x.p.maxOtm \in Int
    /\ \A side \in Sides : x.p.sideThr[side] \in Int /\ IsWeights(x.p.sideWeights[side])
    /\ IsWeights(x.p.weights)
    /\ IsTuning(x.p.enhancements)
ASSUME PollAssumption == \A x \in Polls : IsPoll(x)

VARIABLES
    poll,                 \* the market and the parameters
    votes                 \* the candidates of the refresh, NotVoted before

voteVars == <<poll, votes>>

Missing == -9999          \* a number the chain does not have
Off == -1                 \* "enabled": false instead of a weight
NoCap == Missing          \* a cell without a cap: multipliers may take a score above 5.00
Step == 50                \* points of the index between strikes

NotVoted == {[k |-> Missing]}

Size(x) == IF x < 0 THEN -x ELSE x
Nearest(x, d) == (2 * x + d) \div (2 * d)

-----------------------------------------------------------------------------
(* heuristic_scorer: one leg, one heuristic.                               *)

\* The score of the first line that x reaches.
Graded(x, lines, least) ==
    LET met == {i \in DOMAIN lines : x >= lines[i][1]}
    IN IF met = {} THEN least ELSE lines[CHOOSE i \in met : \A j \in met : i <= j][2]

BuildupVote(leg, side) ==
    IF leg.buildup = "none" THEN 25
    ELSE IF (leg.buildup \in {"long buildup", "short covering"}) = (side = "call") THEN 50
    ELSE 10

IvrVote(leg) ==
    IF leg.ivr = Missing THEN 30
    ELSE Graded(leg.ivr, <<<<80, 10>>, <<60, 20>>, <<40, 30>>, <<20, 40>>>>, 50)

VolumeVote(leg) ==
    Graded(leg.ratio, <<<<20, 50>>, <<15, 40>>, <<12, 30>>, <<10, 20>>>>, 10)

\* A maximum of 100 is no maximum.
RsiVote(leg, p) ==
    IF leg.rsi = Missing THEN 30
    ELSE IF p.rsiMax >= 100
      THEN Graded(leg.rsi, <<<<p.rsiMin, 50>>, <<p.rsiMin - 10, 30>>>>, 15)
    ELSE IF Between(p.rsiMin, leg.rsi, p.rsiMax) THEN 50
    ELSE IF Between(40, leg.rsi, p.rsiMin) \/ Between(p.rsiMax, leg.rsi, 80) THEN 30 ELSE 15

EmaVote(leg) == Graded(leg.ema9 - leg.ema21, <<<<1, 50>>, <<0, 30>>>>, 10)

VwapVote(leg, side) ==
    LET line == IF leg.vwap = 0 THEN leg.ltp ELSE leg.vwap
    IN IF line <= 0 THEN 30
       ELSE IF IF side = "call" THEN leg.ltp >= line ELSE leg.ltp <= line THEN 50 ELSE 20

DeltaVote(leg, side, p) ==
    Graded(-Size(leg.delta - p.delta[side]),
           <<<<-5, 50>>, <<-10, 40>>, <<-15, 30>>, <<-25, 20>>>>, 10)

OiVote(leg) ==
    IF leg.oiChg = Missing THEN 30
    ELSE Graded(leg.oiChg,
                <<<<1000, 50>>, <<500, 45>>, <<200, 40>>, <<0, 30>>, <<-500, 20>>>>, 10)

LtpVote(leg) ==
    IF leg.ltpChg = Missing THEN 30
    ELSE Graded(leg.ltpChg, <<<<500, 50>>, <<200, 40>>, <<0, 30>>, <<-300, 20>>>>, 15)

Ballot(leg, side, p) ==
    [oiBuildup |-> BuildupVote(leg, side), ivr |-> IvrVote(leg),
     volumeSpike |-> VolumeVote(leg), rsi |-> RsiVote(leg, p),
     emaAlignment |-> EmaVote(leg), primaryVwap |-> VwapVote(leg, side),
     deltaFit |-> DeltaVote(leg, side, p), oiChange |-> OiVote(leg),
     ltpChange |-> LtpVote(leg)]

DefaultWeights ==
    [oiBuildup |-> 1200, ivr |-> 1000, volumeSpike |-> 1000, rsi |-> 800,
     emaAlignment |-> 900, primaryVwap |-> 1000, deltaFit |-> 800, oiChange |-> 700,
     ltpChange |-> 600]

\* A side's own weights if there are any, or else those of the strategy, or the defaults.
WeightsFor(p, side) ==
    IF DOMAIN p.sideWeights[side] # {} THEN p.sideWeights[side]
    ELSE IF DOMAIN p.weights # {} THEN p.weights ELSE DefaultWeights

Heuristics == DOMAIN DefaultWeights
Pair == {"ltpChange", "oiChange"}

\* What a heuristic weighs, and the sum of a number each of the nine has: keys that are
\* none of theirs are passed over.
WeightOf(weights, h) == IF h \in DOMAIN weights THEN weights[h] ELSE 0
OverAll(f) == f["oiBuildup"] + f["ivr"] + f["volumeSpike"] + f["rsi"] + f["emaAlignment"]
              + f["primaryVwap"] + f["deltaFit"] + f["oiChange"] + f["ltpChange"]
TotalWeight(weights) == OverAll([h \in Heuristics |-> WeightOf(weights, h)])

\* The weights that count; with a strong move of the premium the change of OI counts less.
Counted(e, leg, config) ==
    LET on == {h \in DOMAIN config : config[h] # Off}
        strong == /\ e.enabled /\ leg.ltpChg # Missing /\ Size(leg.ltpChg) >= e.ltpStrong
                  /\ "ltpChange" \in DOMAIN config => "ltpChange" \in on
    IN [h \in on |-> IF h = "oiChange" /\ strong THEN Percent(config[h], e.oiWeight)
                                               ELSE config[h]]

\* The two changes together have no more than a share of what all weights were.
Scaled(weights, pairWeight, most) ==
    [h \in DOMAIN weights |-> IF h \in Pair THEN (weights[h] * most) \div pairWeight
                                            ELSE weights[h]]
Shared(e, weights) ==
    LET pairWeight == WeightOf(weights, "ltpChange") + WeightOf(weights, "oiChange")
        most == Percent(TotalWeight(weights), e.pairShare)
    IN IF /\ e.enabled /\ Between(1, e.pairShare, 99) /\ Pair \subseteq DOMAIN weights
          /\ pairWeight > most /\ most > 0
         THEN Scaled(weights, pairWeight, most) ELSE weights

MeanVote(ballot, weights) ==
    LET total == TotalWeight(weights)
    IN IF total <= 0 THEN 300
       ELSE Nearest(10 * OverAll([h \in Heuristics |-> WeightOf(weights, h) * ballot[h]]),
                    total)

\* score_leg.
FinalWeights(p, e, leg, side) == Shared(e, Counted(e, leg, WeightsFor(p, side)))
LegVote(p, e, leg, side) == MeanVote(Ballot(leg, side, p), FinalWeights(p, e, leg, side))

-----------------------------------------------------------------------------
(* heuristic_enhancements                                                  *)

EnhancementDefaults ==
    [enabled |-> TRUE, maxMoneyness |-> 120, overrideMin |-> 450, flatSpot |-> 8,
     flatOi |-> 50, highRatio |-> 15, churnOi |-> 35, churnMult |-> 94, ltpStrong |-> 200,
     oiWeight |-> 45, pairShare |-> 88, jointMin |-> 72, jointMax |-> 108, minGap |-> 35,
     single |-> FALSE, minSpread |-> 40, ceNotDown |-> FALSE, peNotUp |-> FALSE,
     gateBand |-> 5, dynamic |-> FALSE, trendMin |-> 35, longIvrMax |-> 55,
     shortIvrMin |-> 65, cells |-> <<>>]

\* from_dict: what the catalog says, key by key; nothing said means the defaults.
Enhancements(p) ==
    [key \in DOMAIN EnhancementDefaults |->
        IF key \in DOMAIN p.enhancements THEN p.enhancements[key]
                                          ELSE EnhancementDefaults[key]]

Towards(change, flat) ==
    IF change = Missing \/ Between(-flat, change, flat) THEN "flat"
    ELSE IF change > 0 THEN "up" ELSE "down"

\* |K - S| / S in hundredths of a percent, compared without dividing.
Within(strike, spot, limit) == Size(strike - spot) * 10000 <= limit * spot

Moneyness(strike, spot) ==
    IF Within(strike, spot, 25) THEN "core" ELSE IF Within(strike, spot, 60) THEN "near"
    ELSE IF Within(strike, spot, 100) THEN "mid" ELSE "wide"

Horizon(days) ==
    IF days <= 1 THEN "ultra" ELSE IF days <= 3 THEN "short"
    ELSE IF days <= 7 THEN "week" ELSE "far"

\* Whether a leg so far from the money, so close to expiry, may signal, and its cap if it
\* has one.
DefaultCell(where, when) ==
    [ok |-> <<where, when>> \notin
              {<<"mid", "ultra">>, <<"wide", "ultra">>, <<"wide", "short">>},
     cap |-> CASE <<where, when>> = <<"core", "ultra">> -> 350
               [] <<where, when>> = <<"near", "ultra">> -> 320
               [] <<where, when>> = <<"mid", "short">> -> 340
               [] <<where, when>> = <<"wide", "week">> -> 360
               [] OTHER -> NoCap]

Cell(e, where, when) ==
    IF <<where, when>> \in DOMAIN e.cells THEN e.cells[<<where, when>>]
                                          ELSE DefaultCell(where, when)

\* What a call makes of the index and of its own open interest; a put sees the index
\* the other way round.
JointTable ==
    [up   |-> [up |-> 92, down |-> 104, flat |-> 96],
     down |-> [up |-> 78, down |-> 86, flat |-> 84],
     flat |-> [up |-> 90, down |-> 96, flat |-> 100]]

Opposite == [up |-> "down", down |-> "up", flat |-> "flat"]

JointMult(e, side, spotDir, oiDir) ==
    LET seen == IF side = "call" THEN spotDir ELSE Opposite[spotDir]
    IN Higher(e.jointMin, Lower(e.jointMax, JointTable[seen][oiDir]))

\* Much volume that leaves open interest where it was is churn.
ChurnMult(e, leg) ==
    IF leg.oiChg # Missing /\ leg.ratio >= e.highRatio /\ Size(leg.oiChg) < e.churnOi
      THEN e.churnMult ELSE 100

\* passes_moneyness_hard_filter, with the vote before anything is multiplied.
NearEnough(e, strike, spot, vote) ==
    Within(strike, spot, e.maxMoneyness) \/ vote >= e.overrideMin

\* passes_directional_gate.
GateOpen(e, side, change) ==
    \/ change = Missing
    \/ IF side = "call" THEN e.ceNotDown => change >= -e.gateBand
                        ELSE e.peNotUp => change <= e.gateBand

\* The best of a side is far enough ahead of the second.
Clear(e, S, top) == e.minGap > 0 => \A r \in S \ {top} : top.score - r.score >= e.minGap

\* select_best_per_side; the chain's order decides a tie.
BestOf(e, S) ==
    LET top == CHOOSE r \in S : \A q \in S : \/ q.score < r.score
                                             \/ q.score = r.score /\ q.k >= r.k
    IN IF S # {} /\ Clear(e, S, top) THEN {top} ELSE {}

OneDirection(e, calls, puts) ==
    LET ahead(S, T) == \E s \in S, t \in T : s.score - t.score >= e.minSpread
    IN IF ~e.single THEN calls \cup puts
       ELSE IF ahead(calls, puts) THEN calls
       ELSE IF ahead(puts, calls) THEN puts ELSE calls \cup puts

Selected(e, rows) ==
    OneDirection(e, BestOf(e, {r \in rows : r.sig /\ r.side = "call"}),
                    BestOf(e, {r \in rows : r.sig /\ r.side = "put"}))

-----------------------------------------------------------------------------
(* _get_live_candidates_heuristic                                          *)

Atm(m) == Step * Nearest(m.spot, Step)
StrikeOf(m, k) == Atm(m) + Step * k

CellOf(m, e, k) == Cell(e, Moneyness(StrikeOf(m, k), m.spot), Horizon(m.days))

UnderCap(x, cap) == IF cap = NoCap THEN x ELSE Lower(x, cap * 10)

\* The vote after the enhancements: joint and churn multipliers, then the cap.
EnhancedVote(m, e, leg, k, side, vote) ==
    LET joint == JointMult(e, side, Towards(m.change, e.flatSpot),
                           Towards(leg.oiChg, e.flatOi))
        churned == Nearest(Nearest(vote * joint, 10) * ChurnMult(e, leg), 100)
    IN IF e.enabled THEN Nearest(UnderCap(churned, CellOf(m, e, k).cap), 10) ELSE vote

\* A side's own threshold is asked for by the enhancements only.
ThresholdOf(p, e, side) ==
    IF e.enabled /\ p.sideThr[side] # Missing THEN p.sideThr[side] ELSE p.thr

\* Buy in a strong trend while premium is cheap, sell it dear in a quiet market.
SellsPremium(p, m, e, leg) ==
    LET strong == (IF m.change = Missing THEN 0 ELSE Size(m.change)) >= e.trendMin
        cheap == leg.ivr = Missing \/ leg.ivr <= e.longIvrMax
        dear == leg.ivr # Missing /\ leg.ivr >= e.shortIvrMin
    IN IF ~(e.enabled /\ e.dynamic) THEN p.short
       ELSE IF strong /\ cheap THEN FALSE
       ELSE IF dear /\ ~strong THEN TRUE ELSE ~strong

\* Mutant of Verdict: the score on the screen is compared.
VerdictShown(p, m, e, k, side, vote, score) ==
    (e.enabled => CellOf(m, e, k).ok) /\ score >= ThresholdOf(p, e, side)

\* The volume bonus comes after the verdict: it ranks and shows, it does not admit.
Verdict(p, m, e, k, side, vote, score) ==
    (e.enabled => CellOf(m, e, k).ok) /\ vote >= ThresholdOf(p, e, side)

Shown(p, vote, bonus) ==
    IF bonus = 19 THEN Lower(Higher(100, p.scoreMax), vote + 100) ELSE vote

RowWith(p, m, e, k, side, relaxed, vote, score) ==
    [k |-> k, side |-> side, score |-> score,
     conf |-> Lower(99, Nearest(score * 100, Higher(100, p.scoreMax))
                        + VolumeBonus(m.chain[k][side].ratio)),
     sell |-> SellsPremium(p, m, e, m.chain[k][side]),
     sig |-> ~relaxed /\ Verdict(p, m, e, k, side, vote, score)]

\* A leg with its vote becomes a row.
VotedRow(p, m, e, x, relaxed) ==
    LET leg == m.chain[x.k][x.side]
        vote == EnhancedVote(m, e, leg, x.k, x.side, x.vote)
    IN RowWith(p, m, e, x.k, x.side, relaxed, vote, Shown(p, vote, VolumeBonus(leg.ratio)))

\* The legs near the money with their votes.
Polled(p, m, e) ==
    {[k |-> k, side |-> side, vote |-> LegVote(p, e, m.chain[k][side], side)] :
       k \in {k \in DOMAIN m.chain : Size(k) <= p.maxOtm}, side \in Sides}

Liquid(p, leg) == leg.oi >= p.minOi /\ leg.volume >= p.minVol

\* Those that one pass lets through: liquid, unless it is the relaxed one, and no gate
\* or distance against them.
Passed(p, m, e, polled, relaxed) ==
    {x \in polled :
       /\ relaxed \/ Liquid(p, m.chain[x.k][x.side])
       /\ e.enabled => /\ GateOpen(e, x.side, m.change)
                       /\ NearEnough(e, StrikeOf(m, x.k), m.spot, x.vote)}

RowsOf(p, m, e, polled, relaxed) ==
    {VotedRow(p, m, e, x, relaxed) : x \in Passed(p, m, e, polled, relaxed)}

Kept(e, rows) == IF e.enabled THEN Selected(e, rows) ELSE rows

\* One pass, and a relaxed one where the first leaves nothing.
OrRelaxed(p, m, e, polled, kept) ==
    IF kept # {} \/ (p.minOi = 0 /\ p.minVol = 0) THEN kept
    ELSE Kept(e, RowsOf(p, m, e, polled, TRUE))

VotesWith(p, m, e, polled) ==
    OrRelaxed(p, m, e, polled, Kept(e, RowsOf(p, m, e, polled, FALSE)))

VotesFor(p, m) == VotesWith(p, m, Enhancements(p), Polled(p, m, Enhancements(p)))

VoteInit == poll \in Polls /\ votes = NotVoted

\* A refresh, if there is a chain.
Vote ==
    /\ votes = NotVoted
    /\ votes' = VotesFor(poll.p, poll.market)
    /\ UNCHANGED poll

VoteSpec == VoteInit /\ [][Vote]_voteVars

-----------------------------------------------------------------------------
(* Properties                                                              *)

\* Every variable keeps its shape.
VoteTypeOK ==
    votes # NotVoted =>
         \A r \in votes : /\ r.k \in DOMAIN poll.market.chain /\ r.side \in Sides
                         /\ r.score \in 0..1000 /\ r.conf \in 0..99
                         /\ r.sell \in BOOLEAN /\ r.sig \in BOOLEAN

Rivals(p, m, e, r) ==
    {q \in RowsOf(p, m, e, Polled(p, m, e), FALSE) : q.side = r.side /\ q.k # r.k}

\* What the heuristics said that weigh something; where none does the vote is 3.00.
IsMean(vote, said) ==
    IF said = {} THEN vote = 300
                 ELSE (\E v \in said : v <= vote) /\ (\E v \in said : v >= vote)

\* No weight is below zero, which nothing checks where a strategy is edited.
Weighing(e, config) ==
    e.oiWeight >= 0 /\ \A h \in DOMAIN config : config[h] = Off \/ config[h] >= 0

SaidOf(ballot, weights) ==
    {10 * ballot[h] : h \in {h \in Heuristics : WeightOf(weights, h) > 0}}

Earned(p, m, e, r, leg, vote, cell) ==
    /\ Liquid(p, leg)
    /\ EnhancedVote(m, e, leg, r.k, r.side, vote) >= ThresholdOf(p, e, r.side)
    /\ e.enabled =>
         /\ cell.ok /\ (cell.cap # NoCap => cell.cap >= ThresholdOf(p, e, r.side))
         /\ Within(StrikeOf(m, r.k), m.spot, e.maxMoneyness) \/ vote >= e.overrideMin
         /\ (r.side = "call" /\ e.ceNotDown /\ m.change # Missing) => m.change >= -e.gateBand
         /\ (r.side = "put" /\ e.peNotUp /\ m.change # Missing) => m.change <= e.gateBand
         /\ \A q \in Rivals(p, m, e, r) : q.sig => r.score - q.score >= e.minGap

StandsOut(p, m, e) ==
    /\ \A x \in Polled(p, m, e) : Weighing(e, WeightsFor(p, x.side)) =>
         IsMean(x.vote, SaidOf(Ballot(m.chain[x.k][x.side], x.side, p),
                               FinalWeights(p, e, m.chain[x.k][x.side], x.side)))
    /\ \A r \in {r \in votes : r.sig} :
         Earned(p, m, e, r, m.chain[r.k][r.side], LegVote(p, e, m.chain[r.k][r.side], r.side),
                CellOf(m, e, r.k))
    /\ e.enabled =>
         /\ \A r \in votes : r.sig
         /\ \A r, q \in votes : r # q =>
              r.side # q.side /\ (e.single => Size(r.score - q.score) < e.minSpread)

\* A signal stands out by its own merits (score_leg, apply_moneyness_dte_rules,
\* select_best_per_side).  Every vote is a mean of what its heuristics said, however
\* weights, none below zero, were moved between them; that of a signal, multiplied and
\* capped where its cell has a cap, reaches the threshold before the volume bonus that is
\* on the screen; the contract is liquid and no gate was against it.  With the
\* enhancements nothing else is offered, one leg of a side at most, no leg of that side
\* that could signal is within the gap, and a strategy of a single direction offers both
\* sides only where neither leads.
SignalsStandOut ==
    votes # NotVoted => StandsOut(poll.p, poll.market, Enhancements(poll.p))
=============================================================================
