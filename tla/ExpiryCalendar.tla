----------------------------- MODULE ExpiryCalendar -----------------------------
(***************************************************************************)
(* Which expiry a strategy trades: what a broker lists or, without one,    *)
(* weeklies estimated from a weekday and a list of holidays, and the       *)
(* choice among them by days to expiry and weekday                         *)
(* (option_chain_zerodha, broker_runtime and trades_service).              *)
(*                                                                         *)
(* A date is its day number; day 0 is a Monday.  The server's date and the *)
(* date in India are taken to be the same.                                 *)
(***************************************************************************)
EXTENDS Integers, FiniteSets

CONSTANTS
    LastDay,          \* bound on the days followed
    HolidaySets,      \* the values S004_NSE_HOLIDAYS may have
    Listings,         \* the sets of expiries a broker may publish, {} without one
    Needs             \* min_dte_calendar_days of the strategies

\* The exchange is never closed for three weeks: otherwise Preponed has no value where
\* the code goes on searching the days before.
ASSUME CalendarAssumption ==
    /\ LastDay \in Nat
    /\ HolidaySets \subseteq SUBSET Int /\ Listings \subseteq SUBSET Int
    /\ Needs \subseteq Int
    /\ \A H \in HolidaySets, d \in 1 .. (LastDay + 56) :
          \E e \in (d - 21) .. d : e % 7 <= 4 /\ e \notin H

VARIABLES
    today,            \* the date
    holidays,         \* read from the environment
    feed,             \* which broker's listing the caller gets
    published         \* the expiries that broker publishes

calendarVars == <<today, holidays, feed, published>>

NoExpiry == -1
Friday == 4
Tuesday == 1
Weekday(d) == d % 7

EarliestOf(S) == CHOOSE d \in S : \A e \in S : d <= e
FirstOf(n, S) == {d \in S : Cardinality({e \in S : e <= d}) <= n}

CalendarInit ==
    /\ today = 0
    /\ holidays \in HolidaySets
    /\ feed \in {"kite", "fyers"}
    /\ published \in Listings

NextDay ==
    /\ today < LastDay
    /\ today' = today + 1
    /\ UNCHANGED <<holidays, feed, published>>

\* Series are added, moved and dropped; a session comes and goes.
Publish(S, f) ==
    /\ published' = S /\ feed' = f
    /\ UNCHANGED <<today, holidays>>

-----------------------------------------------------------------------------
(* The lists.                                                              *)

Closed(d) == Weekday(d) > Friday \/ d \in holidays

\* The last open day up to d.
Preponed(d) == CHOOSE e \in (d - 21) .. d : ~Closed(e) /\ \A f \in (e + 1) .. d : Closed(f)

\* get_expiries_for_instrument: six of them; one that moved to today or before is skipped.
EstimatedWeeklies(wd) ==
    LET weekly == {d \in (today + 1) .. (today + 56) : Weekday(d) = wd}
    IN FirstOf(6, {e \in {Preponed(d) : d \in weekly} : e > today})

\* list_expiries_from_nfo_sync.
KiteListing == FirstOf(16, {d \in published : d >= today})

\* FyersProvider.expiries: as published, but monthlies alone give way to the estimate.
FyersListing ==
    IF published # {} /\ EarliestOf(published) - today > 10
      THEN EstimatedWeeklies(Tuesday) ELSE published

\* get_expiries_for_analytics falls back to the estimate; a FYERS list stays empty.
ListedExpiries ==
    IF feed = "fyers" THEN FyersListing
    ELSE IF KiteListing # {} THEN KiteListing ELSE EstimatedWeeklies(Tuesday)

-----------------------------------------------------------------------------
(* The choice.                                                             *)

Qualified(L, need) == {d \in L : d - today >= IF need > 0 THEN need ELSE 0}
OrNone(S) == IF S = {} THEN NoExpiry ELSE EarliestOf(S)

\* select_expiry_min_dte_and_weekday, without and with a weekday.
EarliestListed(L, need) == OrNone(Qualified(L, need))
EarliestOn(L, need, wd) == OrNone({d \in Qualified(L, need) : Weekday(d) = wd})

\* Mutant of Resolve: the gap is compared the other way round.
ResolveNearGap(L, need, wd) ==
    LET any == EarliestListed(L, need)
        on == EarliestOn(L, need, wd)
    IN IF on = NoExpiry \/ (any < on /\ on - any <= 6) THEN any ELSE on

\* resolve_expiry_min_dte_weekday_with_fallback: a date six or more days before the
\* weekday's own is that weekday's, moved by a holiday.
Resolve(L, need, wd) ==
    LET any == EarliestListed(L, need)
        on == EarliestOn(L, need, wd)
    IN IF on = NoExpiry \/ (any < on /\ on - any >= 6) THEN any ELSE on

\* _pick_expiry_from_provider_list and pick_primary_expiry_str: without a number of
\* days the first listed counts, which on FYERS may have expired.
PickExpiry(L, need, wd) == IF need <= 0 THEN OrNone(L) ELSE Resolve(L, need, wd)

\* trading_sessions_from_tomorrow_through_expiry.
SessionsTo(d) == Cardinality({e \in (today + 1) .. d : ~Closed(e)})

\* pick_expiry_two_trading_dte_tuesday_preferred, for StochasticBNF.
PickTwoSessions ==
    LET two == {d \in ListedExpiries : d > today /\ SessionsTo(d) = 2}
        tuesdays == {d \in two : Weekday(d) = Tuesday}
    IN OrNone(IF tuesdays # {} THEN tuesdays ELSE two)

CalendarNext ==
    \/ NextDay
    \/ \E S \in Listings, f \in {"kite", "fyers"} : Publish(S, f)

CalendarSpec == CalendarInit /\ [][CalendarNext]_calendarVars

-----------------------------------------------------------------------------
(* What the choice must do.                                                *)

CalendarTypeOK ==
    /\ today \in 0..LastDay /\ holidays \in HolidaySets
    /\ feed \in {"kite", "fyers"} /\ published \in Listings

\* As days pass a strategy's expiry rolls forward and never back to a nearer one, while
\* the broker lists the same series: neither the preference for Tuesdays nor the rule
\* for series moved by a holiday (resolve_expiry_min_dte_weekday_with_fallback), the
\* limit of the list, or the estimate without a broker may undo a roll; nor does the
\* expiry two sessions ahead step back.  (On FYERS it can: see the README.)
RollsForward ==
    [][today' # today /\ feed = "kite" =>
         /\ \A need \in Needs, wd \in 0..Friday :
              LET now == PickExpiry(ListedExpiries, need, wd)
              IN now' # NoExpiry => now' >= now
         /\ PickTwoSessions' # NoExpiry => PickTwoSessions' >= PickTwoSessions]_calendarVars

\* Whatever is listed, the expiry taken is open for trading, has the days to expiry that
\* the strategy asks for, and is at most five days later than the earliest that has.
ServesNeed ==
    LET L == ListedExpiries
    IN \A need \in Needs : need > 0 =>
         LET fit == {d \in L : d - today >= need}
         IN fit # {} => \A wd \in 0..Friday :
              LET taken == PickExpiry(L, need, wd)
              IN taken \in fit /\ taken - EarliestOf(fit) <= 5
=============================================================================
