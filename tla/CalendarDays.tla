---------------------------- MODULE CalendarDays ----------------------------
(***************************************************************************)
(* Calendar days of São Paulo and instants, as period.util.ts of the       *)
(* backend and date-range.ts of the frontend compute them: a fixed offset  *)
(* from UTC and no daylight saving.  An instant is an integer; a day is    *)
(* numbered from 1, the first day of month 1.  A date is the pair month    *)
(* and day of the month that a text YYYY-MM-DD carries (the year is one    *)
(* more digit of the month).                                               *)
(***************************************************************************)
EXTENDS Integers, Sequences, FiniteSets

CONSTANTS
    DayLength,      \* instants of a day
    SpOffset,       \* instants by which São Paulo is behind UTC
    MonthLengths    \* days of each month of the calendar

ASSUME CalendarAssumption ==
    /\ DayLength \in Nat \ {0}
    /\ SpOffset \in 0..(DayLength - 1)
    /\ MonthLengths \in Seq(Nat \ {0}) /\ MonthLengths # <<>>

CalendarMonths == DOMAIN MonthLengths

\* the number of the first day of each month
MonthStart[m \in CalendarMonths] ==
    IF m = 1 THEN 1 ELSE MonthStart[m - 1] + MonthLengths[m - 1]

LastDay == MonthStart[Len(MonthLengths)] + MonthLengths[Len(MonthLengths)] - 1

\* addDaysToDateOnly, compareDateOnly and diffDaysInclusive are +, <= and this
DaysInclusive(from, to) == to - from + 1

\* saoPauloDateOnly and dateOnlyToUtcInstant
DayOf(instant) == (instant - SpOffset) \div DayLength
InstantOf(day) == day * DayLength + SpOffset

\* the calendar date of a day: getUTCMonth and getUTCDate
DateOf(day) ==
    LET m == CHOOSE n \in CalendarMonths :
                 MonthStart[n] <= day /\ day < MonthStart[n] + MonthLengths[n]
    IN  [month |-> m, day |-> day - MonthStart[m] + 1]

\* Date.UTC: a day past the end of its month is one of the next month
RolledDay(date) == MonthStart[date.month] + date.day - 1

\* parseDateOnlyStrict and parseDateOnly: the day a text names, none when it
\* names no day of the calendar
Parsed(date) ==
    {n \in 1..LastDay : n = RolledDay(date) /\ DateOf(n) = date}

\* Math.round of a length in days
RoundedDays(length) == (2 * length + DayLength) \div (2 * DayLength)

\* listDaysInWindow
DaysInWindow(from, to) == [k \in 1..RoundedDays(to - from) |-> DayOf(from) + k - 1]
=============================================================================
