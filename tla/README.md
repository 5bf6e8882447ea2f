# S004 verification

TLA+ models of the options-trading platform in this repository, the instances
TLC checks and the theorems TLAPS proves. All paths below are relative to
`src/backend/app/` unless they start with `src/`.

## 1. The system

S004 is one FastAPI process (`main.py`) on asyncio, a Postgres database reached
through `db_client.py`, an optional Redis, and brokers (Zerodha Kite, Fyers)
behind `services/broker_runtime.py`. The Next.js client only calls the API.
Three facts shape every model:

* **Every `await` is an interleaving point.** Requests, the auto-execute loop
  (every 20 s) and the position monitor (every 5 s) are tasks of one event loop.
  Code between two awaits is atomic; nothing else is.
* **There are no transactions.** Each `execute()` commits by itself, on whatever
  pooled connection it gets. What keeps rows consistent is the order of the
  statements and the `WHERE` of each.
* **A statement may be applied and still raise.** `db_client` repeats a statement
  once after a transient error; the second attempt may fail or meet a unique key.

### Components, their state and how they meet

| component | code | state it keeps | operations |
|---|---|---|---|
| trade entry | `trades_service.execute_recommendation` 5126-5309 | `s004_live_trades`, `s004_execution_orders`, `s004_trade_events`, status of `s004_trade_recommendations`, the broker's book | execute (from POST and from the loop) |
| position monitor and closing | `position_monitor.py`, `routes_trades.simulate_close_trade`, `routes_trades.get_open_trades` | the same trade rows, until EXIT | cycle, close button, GET that closes PAPER trades |
| trade state machine | `execution_state_machine.py` | none (a table of transitions) | `transition_state` |
| auto-execute loop | `main._auto_execute_loop`, `trades_service.run_auto_execute_cycle` | `engine_running`, the two limits, local counts | one cycle per user: gates, counts, refresh, batch |
| recommendation refresh | `trades_service.ensure_recommendations` | recommendation rows, `_REC_CACHE_TS`, `_REC_LOCKS` | refresh, change of intent, invalidation |
| platform pause, P&L limits | `platform_risk.py`, `redis_client.py`, `routes_admin.set_platform_risk` | one row, one Redis key with a TTL | read-through, PUT, invalidate |
| subscriptions, settings | `marketplace_service.py`, `routes_marketplace.py`, `routes_settings.py` | `s004_strategy_subscriptions`, settings rows | subscribe, pause, save |
| evolution | `routes_evolution.py`, `evolution_service.py` | proposals, catalog versions, changelog | generate, reject, approve |
| broker vault and runtime | `broker_accounts.py`, `broker_runtime.py`, `routes_brokers.py`, `routes_settings.py` | one encrypted blob per user beside `credentials_json`, the active broker, the platform's shared row | connect, disconnect, activate, save settings, resolve a session |
| expiry choice | `option_chain_zerodha.py`, `broker_runtime.py`, `trades_service.py` | none; follows the date and what a broker lists | list or estimate expiries, pick one by days to expiry and weekday |
| candidates of strategies with rules | `option_chain_zerodha.py` (legs, regimes, bonuses), `trades_service.py` (`_get_live_candidates`, diagnostics, display, automatic bar) | the details stored with each row, caches of quotes | refresh, edit of the catalog, take |
| candidates that heuristics vote for | `heuristic_scorer.py`, `heuristic_enhancements.py`, `trades_service.py` | none | one refresh |
| candidates of the strategies on an index | `strategies/`, `trendpulse_*`, `trades_service.py` | caches of candles | one refresh, the rule that closes |
| SuperTrend trail | `strategies/supertrend_trail.py`, the strategy's branch of the monitor | the stop in the trade row | bar, entry, monitor cycle |
| snapshots, end-of-day reports | `trade_chain_snapshot_service.py`, `strategy_eod_report_service.py` | samples, report rows, the hour last done | sample cycle, run once per hour under a lock, an admin's run |
| market data, sentiment, evaluation log, analytics, dashboard, auth | see `PROJECT.json` | read-mostly or append-only | |
| scaffolds (`w04_*`, `w05_*`, `risk_gates`, `candle_builder`, `alert_escalation`, ...) | | in-memory objects that only the tests drive | |

The components meet in the rows: the refresh publishes a recommendation row,
trade entry turns it into a trade row and marks it ACCEPTED, the monitor and the
users' requests move the trade row to EXIT. The loop is a client of entry and of
the refresh. The pause is asked by entry and by the loop. What the refresh publishes comes from the
candidate code, which asks the expiry choice for a series and the vault for a session;
the reports read the closed trades.

### What is hard here, and what correctness means

* *Check-then-act over awaits* (entry, loop): a count or a SELECT is old by the
  time the INSERT follows. Correct: limits hold, or are passed by a stated bound.
* *Several closers of one trade*: correct when the result is decided once, P&L
  belongs to the trade's own prices, and events never run ahead of the rows.
* *Half-done sequences* (exceptions, cancellation, restart between two
  statements): correct when what is left never claims more than was done.
* *Refreshes that write other users' rows*: correct when an executed row is left
  alone and the rows come to match market and settings.
* *A cache that outlives its source* (pause): correct when it ends in stated time.
* *One blob behind many requests* (vault): correct when what a load gives is what the
  last request for that broker stored, and LIVE never falls back to a session that is
  not the user's.
* *One rule written several times* (candidates: for the log and for the trade, for
  calls and for puts, for the engine and for the chart, for the refresh and for the
  screen): correct when the copies agree, and what is taken was cleared.
* *Work that must be done once an hour by whoever comes first* (reports): correct when
  "done" is not said too early.

The full list, each at its line, is `hazards` in `PROJECT.json`, with those no
property covers yet and why.

## 2. Modules

| module | models | main correspondence |
|---|---|---|
| `TradeBook` | the abstract promise: `ALLOWED_TRANSITIONS` plus one result per trade, fixed at EXIT | `Transition` = `transition_state` |
| `PositionMonitor` | the three pieces of code that close a trade | an action is what a task does between two awaits; `task[a]` holds the locals, `rows` the rows as they were read |
| `TradeEntry` | `execute_recommendation` for any number of tasks of one user | `call[c].pc` names the await the task is at; `Gate` the early `ValueError`s; `Abort` and `Restart` end a call anywhere |
| `AutoExecute` | extends `TradeEntry` with one user's turn of the loop, the engine switch, days | `cycle` holds the locals (`open`, `taken`, the slice `queue`); its calls are those of task `Loop` |
| `RecommendationRefresh` | `ensure_recommendations` for the subscribers of one strategy, `update_strategy_intent`, accepts | `throttled` = `_REC_CACHE_TS` younger than 20 s, `holder` = the per-user lock |
| `PlatformPause` | the row, the Redis key and its TTL, readers and PUTs | `Miss`/`ReadRow`/`WriteBack` are the read-through, `SetPause`/`Invalidate` the PUT |
| `Subscriptions` | one user's subscription and settings rows: subscribe, pause, stop, intent, save, and which strategy runs | an action is one SQL statement; `request[r].stage` is the statement that is due, `subNewer` and `setNewer` the order of the `updated_at` columns, `Serving` = `_get_user_strategy` |
| `EvolutionApproval` | proposals, the versions of one strategy, the changelog; generate, reject, approve and the catalog's other writers | `job[a].stage` is the statement an admin's request is at; `FailJob` ends it anywhere |
| `BrokerVault` | a user's broker connections: the row with its two copies of the Zerodha token, the requests that change it, the settings page, the shared row, and calls that pick a session | an action is what a request does between two awaits; `visit[j]` holds the row as it was read, `call[c]` what `resolve_broker_context` has in hand |
| `EodReports` | the hourly report of each strategy, the lock and the marker, an admin's run, the sample cycles | a report row is the set of trades its aggregates were computed from |
| `ExpiryCalendar` | the expiries a broker lists or the weeklies estimated without one, and the choice among them | dates are day numbers; `PickExpiry` is what a strategy with `min_dte` asks for, `Resolve` = `resolve_expiry_min_dte_weekday_with_fallback` |
| `LegSignals` | operators: gates, score and verdict of a leg, regimes, bonuses, vetoes | a series of closes is known by what the rules read of it |
| `CandidateRules` | EXTENDS `LegSignals`: candidates of a refresh, diagnostics, display after edits, the bar for automatic execution | `Generate` is a refresh, `EditCatalog` and `MoveVix` what happens to its rows' surroundings |
| `HeuristicRules` | EXTENDS `LegSignals`: nine heuristics, weights, enhancements, gates, tiers, the best leg of a side | `Vote` is a refresh |
| `SpotSignals` | the four strategies on an index, what is offered and logged for a signal, the rule that closes | a view is the comparisons a strategy reads off its candles; the branch for rising and the one for falling prices are two definitions, as in the code |
| `TrendSides`, `SuperTrendTrail` | one short option from signal to exit: bands bar by bar, two phases of the stop, the price checks of a cycle | `CloseBar`, `Enter`, `Cycle`; premiums in paise; `round(x, 2)` gives the nearest paisa, and at an exact half (`round(1.005, 2)` is 1.0) either |
| `CandidateCases`, `HeuristicCases`, `SignalCases` | markets and parameters for TLC | |
| `PositionMonitorProofs`, `TradeEntryProofs`, `AutoExecuteProofs`, `RecommendationRefreshProofs`, `SubscriptionsProofs` | theorems about the module of that name | |
| `ControlPlaneProofs` | theorems about `PlatformPause`, `BrokerVault`, `EvolutionApproval` | |
| `ServicesProofs` | theorems about `EodReports`, `ExpiryCalendar`, `SuperTrendTrail`, `HeuristicRules` | |
| `SignalProofs` | theorems about `SpotSignals` and `CandidateRules` | |
| `MC*` | instances for TLC | |

Composition: `AutoExecute` EXTENDS `TradeEntry` and is shown to implement it, by
TLC (`ImplementsEntry`) and by TLAPS (`AutoImplementsEntry`): to the rows, the loop
is one more caller. `PositionMonitor` implements `TradeBook` under the mapping
in its last section, by TLC (`RefinesBook`) and by TLAPS (`BookHolds`).
`CandidateRules` and `HeuristicRules` extend `LegSignals`; `SpotSignals` and
`SuperTrendTrail` extend `TrendSides`. `PlatformPause`, `Subscriptions`,
`EvolutionApproval` and `BrokerVault` share no variable, nor do the six components of
`MCServices`: `MCControlPlane` and `MCServices` hold instances of them and explore each
alone, which loses no behaviour of any.
In `TradeEntry` the closing of a trade is the single action
`Close`, in `PositionMonitor` the trades exist from the start; the two share the
trade row. `SuperTrendTrail` takes a whole monitor cycle as one step and computes the
stop; `PositionMonitor` takes the cycle apart and lets the stop be any the rule can give.

Abstractions made: one tick is one unit of price and a trade is one contract
(`PositionMonitor`); in the modules that decide about trades rather than candidates,
scores, quotes and indicators are any value; in the candidate modules the arithmetic of an
indicator is left out and its value taken from a set, on both sides of each limit the
rules compare it with; a gate whose
inputs are not modelled (risk limits, trade window, session) may answer either
way; an exception, a lost answer and a cancelled request are the same action
where the code leaves the same state behind. `PlatformPause` follows the stored
value: a failing read of the row is answered "not paused" by the code (a listed
hazard) and is not one of its actions. `AutoExecute` has no change of approvals:
a refusal for want of one is the same to the rows as a refusal for risk. A token of
`BrokerVault` stands for the key and token of one login.

## 3. What is checked

| run | instance | shows |
|---|---|---|
| `monitor_race` | one LIVE short SuperTrend trade, monitor and closer, 2 faults, prices 1-3 | `AuditTrail`: events never run ahead of the rows; `OneExitPerActor`: a task repeats an exit order only where it was cut off after the first; `RefinesBook` |
| `monitor_paper` | one PAPER long trade, monitor, closer, viewer, 1 fault, prices 1-5 | `PnlMatchesEntry`, `StopOnlyTightens` |
| `monitor_fair` | two PAPER trades, one without entry quote, one with a rule exit, 1 fault | `GapServed`: a price that stays beyond target or stop closes the trade, cycles that raise included |
| `entry_overlap` | 2 tasks, 2 recommendations for one symbol, 2 trades | `TradeBacked`, `AcceptedHasTrade`: what is left by a cut-off call; `OneOpenPerCaller` |
| `entry_symbol_cap` (violation) | the same | `SymbolCap` |
| `auto_loop` | the loop and a user who trades once, 3 recommendations, 3 trades, 2 days, batches of 2 | `AutoParallelCap`; `DayOvershoot`; `StopBound`: a stopped engine opens at most the rest of the batch; `ImplementsEntry` |
| `auto_day_cap` (violation) | the loop alone | `DayCap` |
| `refresh_solo` | 1 user, 2 requests, 2 symbols, 1 intent change, 1 market move, 1 fault | `OneRefreshPerUser`; `RowsFollowIntent` |
| `refresh_shared` | 2 users, a request each, 1 market move, 1 fault | `AcceptedRowsStay`, `RowsFollowMarket` |
| `refresh_intent` (violation) | 2 users, 1 intent change | `RowsFollowIntent` |
| `control_plane` | 2 readers, 2 PUTs, TTL 3, latency 4 | `PauseWithinGrace` |
| | 2 versions of one strategy and another strategy, 2 requests, any of them cut short | `OneActive`, `SettingsReady`: what is not yet in order is accounted for by a subscribe under way or cut off; `LastWins`: after a subscribe that nothing overlapped, it is what runs |
| | 2 proposals, 2 admins, 3 versions, requests that fail anywhere | `ImplementedIsBacked`, `OneOrigin`, `DecisionStands` |
| | 2 requests on one vault and a call that picks a session, 2 logins, both brokers, with and without the server's key | `StoredAsAnswered`: the two copies of a token never bring back what was disconnected; `LiveOnOwnSession` |
| `services` | 3 closed trades of 2 strategies, 2 hourly runs, an admin's run, 2 sample cycles, 2 days | `MarkedHourIsDone`, `OneLateSample` |
| | 17 days, 3 sets of holidays, 5 listings, 4 needs | `ServesNeed`, `RollsForward`: a strategy's expiry is far enough away, not too far, and never steps back |
| | candidates: a refresh of each catalog and market, then edits of the catalog and a move of VIX | `VerdictsAgree` (log and trade), `AdmittedWasCleared`, `ReasonsFollowCatalog` |
| | heuristics: a refresh of each market and parameters | `SignalsStandOut` |
| | the strategies on an index: a refresh of each view and chain | `MirrorAgrees`, `OffersFollowSignal`, `ChartAgrees` |
| | SuperTrend trail: 4 bars, 4 premiums from 0.40 to 10.00 and a rupee among them, 2 averages, both phases | `PeggedNeverStops`, `StopRisesOnlyWhilePegged` |

A run of several components checks all its properties on each of them; a property
speaks of the variables of one. Type invariants are theorems (section 4), but for
`CandidateTypeOK` and `VoteTypeOK`, which say what the variables hold in these instances
and are no property of a run.

**Why the bounds are enough.** The races here need two tasks that overlap on one
row; every passing race run has at least two tasks, two rows where order between
rows matters, and a fault where a fault matters. Prices have room for an
entry, a target, a stop and a level beyond each. Batches of two with a third
recommendation are the least in which a batch both fits under one limit and
passes the other, and two days let a batch straddle midnight; one trade of the user
moves every count of the loop (`UserBound`). TTL and latency are
chosen apart (3 and 4), so that neither hides the other. Two logins tell an old token
from a new one, and a call meets every change with one request in flight
(`VaultBound`). Reports have a trade before and after 15:25, one of another strategy, and
a second day for runs that cross midnight (`EodBound`); samples and reports do not meet, so
samples are followed while no report runs. Seventeen days pass two expiries of a
weekly series and one moved by a holiday. A refresh of the candidate modules forgets the
one before, so one is enough; their markets take each number a rule compares on both
sides of its limit, one number off at a time and in the pairs that rules join.
The index of `SuperTrendTrail` is scaled down so that TLC's 32-bit integers hold its products.
Counters without a bound in the
code are bounded by `MaxFaults`, `MaxMoves`, `MaxSaves`, `MaxLogins`, `LastDay`, `LastHour`,
`FinalDay`, `LastVersion` (`EvoBound` fixes which statuses its versions take), or by the
fresh refs. `CHECK_DEADLOCK FALSE` stands where the instance really may run out:
all trades closed, all refs used, a refresh that happens once. Every property has a mutant of the code in
`PROJECT.json` that breaks it under the run's own configuration.

**Fairness.** `PositionMonitor!FairSpec` assumes weak fairness of the monitor's
next step only: `position_monitor_loop` is `while True` with a sleep of five
seconds and catches whatever a cycle raises. Nothing is assumed of users or the
market; the price in `GapServed` stays where it is by the property's own premise.
`RecommendationRefresh!RefreshFairSpec` assumes that every user's refresh is asked
for again and again (the loop polls every 20 s), that a refresh under way goes on
and that 20 seconds pass. `Cancel`, `MarketMoves`, `SaveIntent` and `Accept` are
not fair. The other specifications state safety only.

### Where code and its own text disagree

* `entry_symbol_cap`: two overlapping executes both pass the symbol check.
  `OneOpenPerCaller` is what is left, and the theorem `SerialSymbolCap` says that
  without overlap the cap holds.
* `auto_day_cap`: the batch is cut to the room under `max_parallel_trades` but
  not to the room left of `max_trades_day`. `DayOvershoot` is what is left.
* `refresh_intent`: with two subscribers a user's rows keep coming back with the
  side of the other's intent. `refresh_solo` shows that alone the comment holds.

More observations have no run of their own, since the properties that stand
say how far they go.

*Trades.* Aligning a trade that was entered without a quote assigns to
an `asyncpg.Record`, which raises and ends the monitor's cycle for all rows
behind it (`AlignEntry`); `GapServed` shows that later cycles make up for it. A LIVE exit
goes to the broker that is active then, which need not be that of the entry.

*Pause, subscriptions, evolution.* After
a PUT that pauses trading has returned, a reader may write the old value back, or
the delete of the key may have failed; `PauseWithinGrace` says for how long.
Two overlapping subscribes to two versions of a strategy can pause each other, so
that none is ACTIVE although both were answered so; `OneActive` speaks of too many,
not of too few, and `LastWins` of subscribes that nothing overlaps. The last UPDATE
of an approval does not look at the status, so a rejection during an approval is
overwritten; `DecisionStands` is what is left. An approval that failed after the
version was made is refused with 409 when it is repeated with that version:
the catalog keeps a DRAFT no proposal names. `update_strategy_intent` reads the
JSON details, awaits, and writes them whole; a save in between is lost
(`Subscriptions` leaves the values out).

*Vault.* Saving a settings page that was loaded before a disconnect writes the old
credentials back (`routes_settings.py:639`); `StoredAsAnswered` sets such entries aside
(`torn`). Disconnecting Fyers without a Zerodha login answers that no broker is active
while the row keeps `fyers`. A refusal by Kite clears `broker_connected` although the
tokens stay.

*Reports.* A run that reads a trade between its EXIT row and its exit event
counts the reason as UNKNOWN; the next hour's run repairs it. An admin's recompute takes
no lock.

*Expiries and chains.* Where FYERS lists monthlies only, estimated weeklies stand in until
ten days before the first of them, and when the list takes over again the choice can step
back to a nearer date; `RollsForward` speaks of Kite. The
provider's `option_chain` drops thresholds and indicator parameters
(`broker_runtime.py:97`); a provider that quotes one leg of a strike only makes the refresh raise an
`AttributeError`; `_RECENT_FETCHES` is shared by all users.

*Rules.* A veto by ADX has no effect on long strategies. With `short_premium` the PS/VS
strategy sells against its own signal, and the strategies on an index do not look at the
trade intent. PS touching VS (a gap of 0) never reaches conviction 80, and `strict15m` makes no difference under the
default `adxMin` and `atrRangeMin`. Score and confidence of the SuperTrend, Stochastic
and TrendPulse offers are always full. Docstrings speak of the latest closed bar where the
bar in progress is read. After an edit of the catalog, a row that the index's direction or
liquidity spoke against keeps its old reasons whole, RSI band included
(`trades_service.py:529-534`), where the docstring of that function says that it "avoids
stale 'RSI 50–75' after catalog edits"; `ReasonsFollowCatalog` says how far that goes. In the ST phase the stop of a short option is pegged above each price that
is read, so it never fires above a rupee (`PeggedNeverStops`), where
`supertrend_trail_strategy.sql:32` has the stop follow the user's settings.

*Heuristics.* `maxLtpOiCombinedWeightShare` bounds the share of the total before
scaling, so the pair may pass the "Max fraction of total weight on LTP+OI pair" of
`src/backend/docs/HEURISTIC_ENHANCEMENTS.md:25` afterwards; `oiChange` is weighed down even
where `ltpChange` is not configured. `scoreThresholdCE` and `scoreThresholdPE` are not read
without the enhancements, and the relaxed tier offers nothing with them. For puts the
VWAP heuristic favours a premium below VWAP and the EMA heuristic a rising one. The
moneyness limit of 1.2 percent is never reached within three strikes of NIFTY. A cell of
the moneyness and expiry table without a cap lets the multipliers take a score above 5.00,
to 5.20 by default. The volume
bonus comes after the caps: it can lift a capped row over the bar for automatic
execution, and level two rows so that the gap drops the side. Nothing refuses a weight
below zero, with which a score is no mean of what was said and may leave the scale from 1
to 5; `SignalsStandOut` speaks of means where no weight is (`Weighing`). Where all weights
come to 0 every leg scores 3.00.

## 4. What is proved

For every value of the constants allowed by the `ASSUME`s of the modules.

* `PositionMonitorProofs` (assumes `MonitorAssumption`: at least one trade, the tasks are
  different ones, prices and settings are naturals). A first part says what each action
  does to the task that takes it (the `...Does` lemmas); four invariants then share it.
  `AuditInv` adds `Announced`: a task about to write an event has the row
  already in the state the event reports, and no step takes a row back (`Forward`);
  hence `AuditTrailHolds`. `OrderInv` says of an order that was not cut off that its row
  is in the task's hand or will not be come to again (`OrderOf`), which needs that
  a row in hand is no longer in the work list and that a try block is left with its row
  (`Disciplined`); hence `OneExitHolds`. `PnlInv` says that rows entered at a quote
  keep their entry in the table and in every snapshot, however old (`Anchored`), as only
  pending rows are re-anchored (`AlignsPending`); hence `PnlHolds`. `PriceInv` says that snapshots
  and exit prices have prices in them; with it every step is one of
  `TradeBook` or a stutter: `BookHolds`. `StopInv` says that of every row the monitor
  may still write a stop to, it knows the stop in the table (`Fresh`), which is why a
  comparison with a snapshot is enough: `StopTightens`.
* `RecommendationRefreshProofs` (assumes `RefreshAssumption`: the value for "nobody" is
  no task, and every task asks for a user). `RefreshInv` adds to the types what is still on the list
  of a refresh at each stage (`TodoShape`, which the types of the next stage
  need) and that whoever is past the lock holds it (`LockHeld`), from which `OneRefreshHolds`
  follows however refreshes fail or are cancelled. `AcceptedStays` goes through every
  statement that writes rows.
* `ServicesProofs`, `SuperTrendTrail` (assumes `TrailAssumption`: bars around their middle, positive premiums).
  `HybridStopMoves` is the lemma on `compute_hybrid_sl_short_sell`: in one phase the
  stop ends up above the price, in the other it only comes down. `TrailInv` adds to
  `PeggedNeverStops` that an open trade has no exit reason. `PeggedHolds` and `StopRisesHolds` follow.
* `TradeEntryProofs` (assumes `SymbolOf \in [Recs -> Symbols]`). The invariant
  `EntryInv` adds to the properties: refs of calls in flight differ
  (`CallsApart`, from the fresh uuids), what a call has already written matches
  its stage (`WrittenSoFar`), and a task past the symbol check has no open
  position of its own in the symbol (`PastCheckAlone`). The last is why
  `OneOpenPerCaller` is not inductive by itself: the INSERT comes four awaits
  after the check. Consequences: `TradesAreBacked`, `AcceptedRecsHaveTrades`,
  `SymbolExposure`, `SerialSymbolCap` (one task: at most one open position per
  symbol) and `AcceptedIsFinal`.
* `AutoExecuteProofs` (assumes `AutoAssumption`: the limits are positive, `Refs` and
  `Recs` finite). `AutoImplementsEntry` is the step simulation. `AutoCap` rests on
  `AutoInv`: the loop executes only in a batch (`BatchOnly`), its open trades are
  no more than the count it took until the batch starts, and in the batch open
  trades + queue + the call that has not inserted yet stay within
  `max_parallel_trades` (`Room`). Everyone else can only close the loop's trades
  (`OthersKeepInv`), so an old count errs on the safe side. `AutoKeepsRows` carries the
  theorems of `TradeEntry` over to the composition. The day's overshoot and the stopped
  engine need invariants of their own (`LimitsInvariant`). `StopInv` says that no cycle is
  before its batch when the loop has opened a trade on a stopped engine, since none starts
  there, and that in the batch what was opened since the stop, the queue and the call that
  has not inserted yet stay within `max_parallel_trades`. `DayInv` says that a cycle before
  its batch has no trade of a later day than the one it counted, and that in the batch the
  trades of that day or of any later one, with queue and call, pass `max_trades_day - 1` by
  at most `max_parallel_trades`, wherever midnight falls. Hence
  `DayOvershootHolds` and `StopBoundHolds`.
* `SubscriptionsProofs` (assumes that there is an offer; `StrategyOf` is any
  function). `OneActive` and `SettingsReady` are made inductive by saying who
  is to blame: a duty not yet done belongs to a subscribe at an earlier
  stage or is in `undone`, what a cut-off subscribe left (`OneActiveHolds`,
  `SettingsFollow`). `LastWins` needs `LoneInv`: a request nothing has overlapped
  is the only one (`LoneRequests`), and from its UPDATE of the settings on its
  row is the newest (`LonePath`, `LastLeads`).
* `ControlPlaneProofs`, `EvolutionApproval` (assumes at least one version number). `EvoInv` says who
  made a version: a request about to write the changelog inserted the version
  itself, so no row names it yet (`LogsFirst`) and no other request is there for
  the same version (`LogsApart`); one about to mark the proposal has written its
  row (`MarksLast`). The check for the version three statements earlier plays no part:
  the unique key does the work. `OneOriginHolds`, `ImplementedHolds` and
  `DecisionIsFinal` follow.
* `ControlPlaneProofs`, `PlatformPause` (assumes a positive TTL and that a read-through takes at
  most `Latency` seconds from its SELECT to its SET, which the code does not
  enforce but the drivers' timeouts do). `PauseInv` says that a value that is no
  longer the row's was read before the change (`StaleReads`), or carries a TTL
  that ends in time (`StaleKey`); `PauseReachesEveryCall` follows.

* `ControlPlaneProofs`, `BrokerVault` (assumes that the bound on logins is a natural).
  `StoredInv` follows what a request has in hand: one that nothing has overlapped is the
  only one (`LoneVisits`), what it is about to write over is what a load would give
  (`LoadedIsCurrent`), and without the server's key nothing was encrypted
  (`NoBlobWithoutKey`, `NeedsKey`): `StoredAsAnsweredHolds`. `OwnInv` says that whatever
  token a call has found was in the user's row since the call began, and that the
  platform's shared session is reached in PAPER mode only: `LiveOnOwnSessionHolds`, for any
  number of requests and calls.
* `ServicesProofs`, `EodReports` (assumes `EodAssumption`: a run is hourly or an admin's, not
  both). `EodInv` says that the one hourly run that reads or writes holds the lock
  (`LockHeld`), that no hour is done that has not begun (`NothingAhead`), and that a run
  which has read has the trades it needs and has put them into the report bucket by bucket
  (`RunReads`): `MarkedHourIsDoneHolds`. `SampleInv` says that no trade a cycle has left to
  sample has a late sample yet: `OneLateSampleHolds`.
* `ServicesProofs`, `ExpiryCalendar` (assumes `CalendarAssumption`: the exchange is never
  closed for three weeks on end, so that a holiday moves an expiry to a day that exists).
  The choice is written as a function of a list and a date; that it exists is the least
  element of a set of days, from the well-founded order of the naturals. `ServesNeedHolds`
  and `RollsForwardHolds` are then monotonicity of that function.
* `ServicesProofs`, `HeuristicRules` (assumes `PollAssumption`: strikes, weights, limits and
  factors are numbers). A vote is a rounded quotient: were all that was said by heuristics
  with a weight above it, the sum would be too large for it, and the same below
  (`MeanVoteHolds`, from three lemmas on division and two on sums over the nine);
  `CountedWeights` and `SharedWeights` say that moving weights takes none below zero. Most
  cells have no cap, so that nothing bounds a score; the best of a side is there to be
  chosen because finitely many strikes are near the money and each has one score: it is the
  one that fewest are ahead of (`BestExists`). `RowOfLeg` says what a row has passed, `SelectedHolds` what is kept of a side: `SignalsStandOutHolds`.
* `SignalProofs`, `SpotSignals` (assumes `SignalAssumption`: the views are of the four
  strategies). For each strategy each condition of the branch for rising prices is shown to
  be that of the branch for falling prices on the market turned upside down
  (`MirrorAgreesHolds`); `SignalInv` says that offers and log are those of the view, from
  which `OffersFollowSignalHolds` and `ChartAgreesHolds`.
* `SignalProofs`, `CandidateRules` (assumes `CandidateAssumption`: limits and indices are
  numbers, both legs of a strike are quoted, a score of at most 10). `CandInv` says that the rows are the candidates
  of one refresh. Each stage of the chain has a lemma on what it leaves of a leg (`IsLeg`,
  `Untouched`: bonuses change the score, vetoes and the ADX only take a verdict away) and
  each stage of the scan one on a row (`IsRow`, `SameRow`). `VerdictsAgreeHolds` computes
  the verdict of the log and that of the trade from the same leg;
  `AdmittedWasClearedHolds` and `ReasonsFollowCatalogHolds` read theirs off the stages.

Every invariant and action property of a passing run is a theorem. Only model-checked are
the liveness properties (`GapServed`, `RowsFollowMarket`, `RowsFollowIntent`), for which the
installed provers have neither fairness nor ENABLED. Induction over data is out of their
reach too: where a proof needs a least or a greatest number it takes it from a set
(`LeastNatural`, `GreatestInteger`), and the sum over the heuristics is written out. The
candidate modules still sum over the chain by a recursive function (`Summed`), of which
the proofs use nothing. No module uses a RECURSIVE operator.

## 5. Not modelled

See `components` in `PROJECT.json` for each part and its reason. In short: the floating-point
arithmetic of indicators and Greeks, the fetches of market data and text feeds (the models take
any outcome), logs and pages that nothing reads back, authentication, the web client, scripts
and containers. Of the modelled parts: quantities and lot sizes, the sums of the
daily P&L limits, an admin's refresh over several strategies and changes of
subscriptions during a refresh, the ranking by order flow, the values in the settings, what the
aggregates of a report are computed to.
Smaller things: GET /settings may insert the settings row it does not find; an UPDATE of the
hybrid stop that is applied and then raises leaves the monitor's own copy at the old stop
for the rest of that cycle; the code's estimate of weeklies goes on until it has six, the
model's looks 56 days ahead, eight weeks, and has fewer after long holidays. Comparisons of floating-point numbers are decided as for exact numbers,
roundings of `SuperTrendTrail` apart. The order of a log and its wording are left out, and
no property is about what a strategy on an index logs: its rows are built from the offers,
or the offers from them.

## 6. Plan

Done, in this order: `TradeBook`, `PositionMonitor`, `TradeEntry` with proofs,
`AutoExecute` with proofs, `RecommendationRefresh`, `PlatformPause`,
`Subscriptions` and `EvolutionApproval` with proofs; then `BrokerVault`, `EodReports`,
`ExpiryCalendar`, `LegSignals` with `CandidateRules` and `HeuristicRules`, `SpotSignals`,
`SuperTrendTrail` with proofs, the proofs of `PositionMonitor` and
`RecommendationRefresh`; then those of the loop's day and stop limits, of `BrokerVault`,
`EodReports`, `ExpiryCalendar`, `SpotSignals`, `CandidateRules` and `HeuristicRules`.

Next, most important first:

1. Steps towards the liveness properties that are safety: what each fair step does and
   that nothing undoes it, for `GapServed` first.
2. The loop for several users: one user's exception and the users after him
   (`trades_service.py:5604`).
3. Daily P&L limits as operators over bounded trades; lot sizes and quantities.
4. The scaffold classes with state of their own (`candle_builder`, `alert_escalation`,
   `subscription_workflow`, `execution_adapter`).
