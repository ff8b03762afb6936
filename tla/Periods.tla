------------------------------ MODULE Periods ------------------------------
(***************************************************************************)
(* The period of the dashboards: the filter of the page turns a shortcut   *)
(* or two typed dates into the dates of the URL (date-range.ts,            *)
(* DateRangeFilter.tsx), the page reads them back, and the backend turns   *)
(* them into the window of the period and that of its comparison           *)
(* (resolveKpiPeriod).  Page and backend each look at the clock when they  *)
(* need it, so that midnight may pass in between, and a URL may be opened  *)
(* on another day or written by hand.                                      *)
(***************************************************************************)
EXTENDS CalendarDays

CONSTANTS
    FirstInstant,   \* the clock starts at this instant
    LastInstant,    \* bound: the clock stops at this one
    DefaultDays,    \* DEFAULT_KPI_RANGE_DAYS, and the length of "last30"
    WeekDays,       \* the length of "last7"
    MaxRangeDays,   \* MAX_RANGE_DAYS of the page, NO_PRACTICAL_RANGE_CAP_DAYS
    DateTexts       \* dates that are typed or written in a URL

ASSUME PeriodsAssumption ==
    /\ {DefaultDays, WeekDays, MaxRangeDays} \subseteq Nat \ {0}
    /\ DefaultDays <= MaxRangeDays /\ WeekDays <= MaxRangeDays
    /\ \A m \in CalendarMonths : MonthLengths[m] <= MaxRangeDays
    /\ FirstInstant \in Nat /\ LastInstant \in Nat /\ FirstInstant <= LastInstant
    \* the calendar begins before the oldest shortcut and lasts as long as the clock runs
    /\ \A n \in {DefaultDays, WeekDays, MonthLengths[1] + 1} : n <= DayOf(FirstInstant)
    /\ DayOf(LastInstant) <= LastDay
    /\ DateTexts \subseteq [month : CalendarMonths, day : Nat \ {0}]

VARIABLES
    clock,    \* the present instant
    url,      \* from and to of the URL, and whether a control of the page wrote them
    windows   \* the answer of resolveKpiPeriod to the last request

periodVars == <<clock, url, windows>>

NoDate == [month |-> 0, day |-> 0]
UrlDates == DateTexts \cup {DateOf(n) : n \in 1..LastDay} \cup {NoDate}
NoWindows == [code |-> "none", days |-> <<>>, current |-> <<>>, previous |-> <<>>]
Today == DayOf(clock)

\* A window is the pair of its first instant and the one after its last.
InstantsIn(w) == w[1] .. (w[2] - 1)

PeriodsInit ==
    /\ clock = FirstInstant
    /\ url = [from |-> NoDate, to |-> NoDate, picked |-> TRUE]
    /\ windows = NoWindows

TimePasses ==
    /\ clock < LastInstant
    /\ clock' = clock + 1
    /\ UNCHANGED <<url, windows>>

-----------------------------------------------------------------------------
(* The page. *)

MonthOf(day) == MonthStart[DateOf(day).month]

\* resolvePreset
PresetRange(key) ==
    CASE key = "today" -> <<Today, Today>>
      [] key = "yesterday" -> <<Today - 1, Today - 1>>
      [] key = "last7" -> <<Today - WeekDays + 1, Today>>
      [] key = "last30" -> <<Today - DefaultDays + 1, Today>>
      [] key = "thisMonth" -> <<MonthOf(Today), Today>>
      [] key = "lastMonth" -> <<MonthOf(MonthOf(Today) - 1), MonthOf(Today) - 1>>

Presets == {"today", "yesterday", "last7", "last30", "thisMonth", "lastMonth"}

Written(range, byControl) ==
    url' = [from |-> DateOf(range[1]), to |-> DateOf(range[2]), picked |-> byControl]

\* applyPreset, and resetToDefault with "last30"
PickPreset(key) ==
    /\ Written(PresetRange(key), TRUE)
    /\ UNCHANGED <<clock, windows>>

\* validateDateRangeStrings
ValidRange(from, to) ==
    /\ Parsed(from) # {} /\ Parsed(to) # {}
    /\ LET f == RolledDay(from)  t == RolledDay(to)
       IN  f <= t /\ t <= Today /\ DaysInclusive(f, t) <= MaxRangeDays

\* applyCustom: a range that is not valid leaves the URL as it is
PickCustom(from, to) ==
    /\ ValidRange(from, to)
    /\ Written(<<RolledDay(from), RolledDay(to)>>, TRUE)
    /\ UNCHANGED <<clock, windows>>

\* a link, a bookmark, or an address typed by hand
OpenUrl(from, to) ==
    /\ url' = [from |-> from, to |-> to, picked |-> FALSE]
    /\ UNCHANGED <<clock, windows>>

\* readPeriodFromSearchParams and resolveEffectivePeriod: the dates asked for,
\* none when the URL has an error, which the page shows instead of asking
EffectiveDates ==
    CASE url.from = NoDate /\ url.to = NoDate ->
            {[from |-> DateOf(Today - DefaultDays + 1), to |-> DateOf(Today)]}
      [] (url.from = NoDate) # (url.to = NoDate) -> {}
      [] OTHER -> IF ValidRange(url.from, url.to)
                  THEN {[from |-> url.from, to |-> url.to]} ELSE {}

-----------------------------------------------------------------------------
(* The backend. *)

Refused(code) == [NoWindows EXCEPT !.code = code]

\* Mutant of WindowsOf: the comparison is a day short.
WindowsOfShort(f, t) ==
    [code |-> "ok", days |-> DaysInWindow(InstantOf(f), InstantOf(t + 1)),
     current |-> <<InstantOf(f), InstantOf(t + 1)>>,
     previous |-> <<InstantOf(f - (t - f)), InstantOf(f)>>]

WindowsOf(f, t) ==
    [code |-> "ok", days |-> DaysInWindow(InstantOf(f), InstantOf(t + 1)),
     current |-> <<InstantOf(f), InstantOf(t + 1)>>,
     previous |-> <<InstantOf(f - DaysInclusive(f, t)), InstantOf(f)>>]

InFuture(day) == day > Today

\* the days named in the request, the last DefaultDays when it names none
RangeOf(from, to) ==
    IF from = NoDate /\ to = NoDate THEN [ok |-> TRUE, f |-> Today - DefaultDays + 1, t |-> Today]
    ELSE [ok |-> Parsed(from) # {} /\ Parsed(to) # {}, f |-> RolledDay(from), t |-> RolledDay(to)]

\* resolveKpiPeriod
Resolved(from, to) ==
    IF (from = NoDate) # (to = NoDate) THEN Refused("MISSING_PARAMETER")
    ELSE LET range == RangeOf(from, to) IN
         CASE ~range.ok -> Refused("INVALID_DATE_FORMAT")
           [] range.ok /\ range.f > range.t -> Refused("FROM_AFTER_TO")
           [] range.ok /\ range.f <= range.t /\ InFuture(range.t) -> Refused("TO_IN_FUTURE")
           [] OTHER -> IF DaysInclusive(range.f, range.t) > MaxRangeDays
                       THEN Refused("RANGE_TOO_LONG") ELSE WindowsOf(range.f, range.t)

\* the page asks with the dates of the URL
AskForPeriod ==
    /\ \E dates \in EffectiveDates : windows' = Resolved(dates.from, dates.to)
    /\ UNCHANGED <<clock, url>>

\* any other client of the endpoint
AskDirectly(from, to) ==
    /\ windows' = Resolved(from, to)
    /\ UNCHANGED <<clock, url>>

PeriodsNext ==
    \/ TimePasses
    \/ \E key \in Presets : PickPreset(key)
    \/ \E from, to \in DateTexts : PickCustom(from, to)
    \/ \E from, to \in DateTexts \cup {NoDate} : OpenUrl(from, to)
    \/ AskForPeriod
    \/ \E from, to \in DateTexts \cup {NoDate} : AskDirectly(from, to)

PeriodsSpec == PeriodsInit /\ [][PeriodsNext]_periodVars

-----------------------------------------------------------------------------
PeriodsTypeOK ==
    /\ clock \in FirstInstant..LastInstant
    /\ url \in [from : UrlDates, to : UrlDates, picked : BOOLEAN]
    /\ windows.code \in {"none", "ok", "MISSING_PARAMETER", "INVALID_DATE_FORMAT",
                         "FROM_AFTER_TO", "TO_IN_FUTURE", "RANGE_TOO_LONG"}

\* An answered period is whole days of São Paulo: its window holds exactly the
\* instants of the days it lists, ends no later than today, and is preceded,
\* without gap or overlap, by a comparison of as many days.
WindowsTile ==
    windows.code = "ok" =>
        LET days == {windows.days[k] : k \in DOMAIN windows.days}
        IN  /\ \A i \in InstantsIn(windows.current) : DayOf(i) \in days
            /\ \A d \in days : /\ d <= Today
                               /\ InstantOf(d)..(InstantOf(d + 1) - 1) \subseteq InstantsIn(windows.current)
            /\ windows.previous[2] = windows.current[1]
            /\ windows.current[2] - windows.current[1] = windows.previous[2] - windows.previous[1]

\* A period that a control of the page once wrote is never refused, whenever
\* and however late it is asked for: not by the page, which would show an error
\* for its own link, nor by the backend, whose clock says another day.
PickedPeriodsStay ==
    url.picked =>
        /\ EffectiveDates # {}
        /\ Resolved(url.from, url.to).code = "ok"
        /\ \A dates \in EffectiveDates : Resolved(dates.from, dates.to).code = "ok"

\* Periods are typed, tile the calendar and stay valid once picked.
PeriodsInv == PeriodsTypeOK /\ WindowsTile /\ PickedPeriodsStay
=============================================================================
