---------------------------- MODULE MarketCalendar ----------------------------
(***************************************************************************)
(* Market time: days are counted from 0 in the market's time zone, a day   *)
(* has SlotsPerDay slots and the regular session is its first OpenSlots.   *)
(* The holiday list is verified for the days of some years only; a walk    *)
(* that needs any other weekday raises CalendarYearNotVerifiedError.       *)
(***************************************************************************)
EXTENDS Integers, FiniteSetsExt

CONSTANTS
  SlotsPerDay, OpenSlots,
  Weekend,    \* the Saturdays and Sundays
  Holidays,   \* segment -> days off
  Verified,   \* the days of the years in HOLIDAYS_BY_YEAR
  None        \* an absent value, and the error of an unverified year

ASSUME CalendarOK == SlotsPerDay \in Nat \ {0} /\ None \notin Int

MaxWalkDays == 30

DayOf(t) == t \div SlotsPerDay
InSession(t) == t % SlotsPerDay < OpenSlots

\* is_trading_day of a day that does not raise.
IsTradingDay(day, segment) == day \notin Weekend \cup Holidays[segment]
Raises(day) == day \notin Weekend \cup Verified

\* The walk of next_ and previous_trading_day stops at the first day that
\* trades or raises.
Stops(days, segment) == {day \in days : Raises(day) \/ IsTradingDay(day, segment)}
WalkEnd(stop) == IF Raises(stop) THEN None ELSE stop
NextTradingDay(day, segment) ==
  LET stops == Stops(day + 1 .. day + MaxWalkDays, segment)
  IN  IF stops = {} THEN None ELSE WalkEnd(Min(stops))
PreviousTradingDay(day, segment) ==
  LET stops == Stops(day - MaxWalkDays .. day - 1, segment)
  IN  IF stops = {} THEN None ELSE WalkEnd(Max(stops))

\* An unverified year is treated as one without holidays.
IsMarketOpen(t) ==
  /\ DayOf(t) \notin Weekend /\ InSession(t)
  /\ DayOf(t) \in Verified => IsTradingDay(DayOf(t), "EQUITY")
=============================================================================
