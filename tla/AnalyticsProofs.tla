--------------------------- MODULE AnalyticsProofs --------------------------
(***************************************************************************)
(* Proofs about the calendar, the periods of the dashboards and the        *)
(* figures of the analytics.                                               *)
(***************************************************************************)
EXTENDS Periods, Analytics, CoverageProofs, FiniteSetTheorems, SequenceTheorems, TLAPS

-----------------------------------------------------------------------------
(* The calendar (CalendarDays), for months of any lengths and days of any  *)
(* length                                                                  *)

Months == Len(MonthLengths)
StartFrom(f, m) == IF m = 1 THEN 1 ELSE f[m - 1] + MonthLengths[m - 1]
\* The beginnings of the first k months.
Starts(f, k) == f = [m \in 1..k |-> StartFrom(f, m)]

LEMMA NumbersUpTo ==
    ASSUME NEW n \in Nat, NEW S, S \subseteq 0..n
    PROVE  S \in SUBSET Int /\ IsFiniteSet(S)
  <1>1. IsFiniteSet(0..n)
    BY FS_Interval
  <1>2. 0..n \subseteq Int
    OBVIOUS
  <1>3. S \subseteq Int
    BY <1>2
  <1> QED BY <1>1, <1>3, FS_Subset

LEMMA MonthsAre ==
    /\ Months \in Nat \ {0} /\ CalendarMonths = 1..Months
    /\ \A m \in CalendarMonths : MonthLengths[m] \in Nat \ {0}
  BY CalendarAssumption DEF Months, CalendarMonths

\* One month more.
LEMMA StartsGrow ==
    ASSUME NEW k \in Nat \ {0}, NEW f, Starts(f, k - 1)
    PROVE  \E g : Starts(g, k)
  <1> DEFINE g == [m \in 1..k |-> IF m < k THEN f[m] ELSE StartFrom(f, k)]
  <1>1. ASSUME NEW m \in 1..k
        PROVE  g[m] = StartFrom(g, m)
    <2>1. CASE m < k
      <3>1. m \in 1..(k - 1)
        BY <2>1
      <3>2. g[m] = f[m] /\ f[m] = StartFrom(f, m)
        BY <2>1, <3>1 DEF Starts
      <3>3. m # 1 => m - 1 \in 1..k /\ m - 1 < k
        BY <3>1
      <3>4. m # 1 => g[m - 1] = f[m - 1]
        BY <3>3
      <3> HIDE DEF g
      <3> QED BY <3>2, <3>4 DEF StartFrom
    <2>2. CASE m = k
      <3>1. g[m] = StartFrom(f, m)
        BY <2>2
      <3>2. m # 1 => m - 1 \in 1..k /\ m - 1 < k
        BY <2>2
      <3>3. m # 1 => g[m - 1] = f[m - 1]
        BY <3>2
      <3> HIDE DEF g
      <3> QED BY <3>1, <3>3 DEF StartFrom
    <2> QED BY <2>1, <2>2
  <1>2. g = [m \in 1..k |-> g[m]]
    OBVIOUS
  <1> HIDE DEF g
  <1>3. g = [m \in 1..k |-> StartFrom(g, m)]
    BY <1>1, <1>2
  <1> QED BY <1>3 DEF Starts

\* Otherwise there were a smallest number of months without beginnings.
LEMMA StartsExist ==
    ASSUME NEW n \in Nat
    PROVE  \E f : Starts(f, n)
  <1> DEFINE B == {k \in 0..n : ~\E f : Starts(f, k)}
  <1> SUFFICES ASSUME B # {} PROVE FALSE
    <2>1. n \in 0..n
      OBVIOUS
    <2> QED BY <2>1
  <1>1. B \subseteq 0..n
    OBVIOUS
  <1>2. B \in SUBSET Int /\ IsFiniteSet(B)
    <2> HIDE DEF B
    <2> QED BY <1>1, NumbersUpTo
  <1>3. PICK k \in B : \A m \in B : k <= m
    <2> HIDE DEF B
    <2> QED BY <1>2, Least
  <1>4. k \in 0..n /\ ~\E f : Starts(f, k)
    OBVIOUS
  <1>5. CASE k = 0
    <2>1. Starts([m \in 1..0 |-> 0], 0)
      BY DEF Starts
    <2> QED BY <1>4, <1>5, <2>1
  <1>6. CASE k # 0
    <2>1. k - 1 \in 0..n /\ k \in Nat \ {0} /\ ~(k <= k - 1)
      BY <1>4, <1>6
    <2>2. k - 1 \notin B
      BY <1>3, <2>1
    <2>3. \E f : Starts(f, k - 1)
      BY <2>1, <2>2
    <2> QED BY <1>4, <2>1, <2>3, StartsGrow
  <1> QED BY <1>5, <1>6

\* The beginnings of the months are what their recursion says.
LEMMA MonthStartIs ==
    /\ MonthStart[1] = 1
    /\ \A m \in CalendarMonths : m # 1 => MonthStart[m] = MonthStart[m - 1] + MonthLengths[m - 1]
  <1>1. PICK f : Starts(f, Months)
    BY MonthsAre, StartsExist
  <1>2. f = [m \in CalendarMonths |-> IF m = 1 THEN 1 ELSE f[m - 1] + MonthLengths[m - 1]]
    BY <1>1, MonthsAre DEF Starts, StartFrom
  <1>3. MonthStart = CHOOSE g : g = [m \in CalendarMonths |->
                                        IF m = 1 THEN 1 ELSE g[m - 1] + MonthLengths[m - 1]]
    BY DEF MonthStart
  <1>4. MonthStart = [m \in CalendarMonths |->
                         IF m = 1 THEN 1 ELSE MonthStart[m - 1] + MonthLengths[m - 1]]
    BY <1>2, <1>3
  <1>5. 1 \in CalendarMonths
    BY MonthsAre
  <1> HIDE DEF MonthStart
  <1> QED BY <1>4, <1>5

\* Months begin on days from the first on; one of them would otherwise be the
\* first that does not.
LEMMA MonthStartType == \A m \in CalendarMonths : MonthStart[m] \in Nat \ {0}
  <1> DEFINE B == {m \in CalendarMonths : MonthStart[m] \notin Nat \ {0}}
  <1> SUFFICES ASSUME B # {} PROVE FALSE
    OBVIOUS
  <1>1. B \subseteq 1..Months
    BY MonthsAre
  <1>2. B \in SUBSET Int /\ IsFiniteSet(B)
    <2>1. B \subseteq 0..Months /\ Months \in Nat
      <3> HIDE DEF B
      <3> QED BY <1>1, MonthsAre
    <2> HIDE DEF B
    <2> QED BY <2>1, NumbersUpTo
  <1>3. PICK k \in B : \A m \in B : k <= m
    <2> HIDE DEF B
    <2> QED BY <1>2, Least
  <1>4. k \in CalendarMonths /\ MonthStart[k] \notin Nat \ {0}
    OBVIOUS
  <1>5. k # 1
    BY <1>4, MonthStartIs
  <1>6. k - 1 \in CalendarMonths /\ ~(k <= k - 1)
    BY <1>4, <1>5, MonthsAre
  <1>7. MonthStart[k - 1] \in Nat \ {0}
    BY <1>3, <1>6
  <1>8. MonthLengths[k - 1] \in Nat \ {0}
    BY <1>6, MonthsAre
  <1>9. MonthStart[k] = MonthStart[k - 1] + MonthLengths[k - 1]
    BY <1>4, <1>5, MonthStartIs
  <1> QED BY <1>4, <1>7, <1>8, <1>9

\* A month and the days in it.
InMonth(day, m) ==
    m \in CalendarMonths /\ MonthStart[m] <= day /\ day < MonthStart[m] + MonthLengths[m]

LEMMA EveryDayHasAMonth ==
    ASSUME NEW day \in 1..LastDay
    PROVE  \E m : InMonth(day, m)
  <1> DEFINE S == {m \in CalendarMonths : MonthStart[m] <= day}
  <1>1. S \subseteq 1..Months
    BY MonthsAre
  <1>2. S \in SUBSET Int /\ IsFiniteSet(S)
    <2>1. S \subseteq 0..Months /\ Months \in Nat
      <3> HIDE DEF S
      <3> QED BY <1>1, MonthsAre
    <2> HIDE DEF S
    <2> QED BY <2>1, NumbersUpTo
  <1>3. Months \in CalendarMonths /\ 1 \in CalendarMonths /\ LastDay \in Int
    BY MonthsAre, MonthStartType DEF LastDay, Months
  <1>4. day \in Int /\ 1 <= day /\ day <= LastDay
    BY <1>3
  <1>5. 1 \in S
    BY <1>3, <1>4, MonthStartIs
  <1>6. PICK m \in S : \A q \in S : q <= m
    <2>1. S # {}
      BY <1>5
    <2> HIDE DEF S
    <2> QED BY <1>2, <2>1, Greatest
  <1>7. m \in CalendarMonths /\ MonthStart[m] <= day
    OBVIOUS
  <1>8. /\ MonthStart[m] \in Nat /\ MonthLengths[m] \in Nat /\ m \in 1..Months /\ Months \in Nat
    BY <1>7, MonthsAre, MonthStartType
  <1>9. day < MonthStart[m] + MonthLengths[m]
    <2>1. CASE m = Months
      BY <1>4, <1>8, <2>1 DEF LastDay, Months
    <2>2. CASE m # Months
      <3>1. m + 1 \in CalendarMonths /\ m + 1 # 1 /\ (m + 1) - 1 = m /\ ~(m + 1 <= m)
        BY <1>8, <2>2, MonthsAre
      <3>2. m + 1 \notin S
        BY <1>6, <3>1
      <3>3. ~(MonthStart[m + 1] <= day)
        BY <3>1, <3>2
      <3>4. MonthStart[m + 1] = MonthStart[m] + MonthLengths[m]
        BY <3>1, MonthStartIs
      <3> QED BY <1>4, <1>8, <3>3, <3>4
    <2> QED BY <2>1, <2>2
  <1> QED BY <1>7, <1>9 DEF InMonth

\* The date of a day, and back.
LEMMA DateOfDay ==
    ASSUME NEW n \in 1..LastDay
    PROVE  /\ InMonth(n, DateOf(n).month)
           /\ DateOf(n).month \in CalendarMonths
           /\ RolledDay(DateOf(n)) = n
           /\ Parsed(DateOf(n)) = {n}
           /\ DateOf(n) # NoDate
           /\ LastDay \in Int
  <1>0. LastDay \in Int
    BY MonthsAre, MonthStartType DEF LastDay, Months
  <1>1. PICK m : m = CHOOSE q \in CalendarMonths :
                        MonthStart[q] <= n /\ n < MonthStart[q] + MonthLengths[q]
    OBVIOUS
  <1>2. InMonth(n, m)
    BY <1>1, EveryDayHasAMonth DEF InMonth
  <1>3. DateOf(n) = [month |-> m, day |-> n - MonthStart[m] + 1]
    BY <1>1 DEF DateOf
  <1>4. DateOf(n).month = m /\ DateOf(n).day = n - MonthStart[m] + 1
    BY <1>3
  <1>5. MonthStart[m] \in Nat /\ n \in Int /\ m \in Nat \ {0}
    BY <1>0, <1>2, MonthStartType, MonthsAre DEF InMonth
  <1>6. RolledDay(DateOf(n)) = n
    BY <1>4, <1>5 DEF RolledDay
  <1>7. Parsed(DateOf(n)) = {n}
    BY <1>6 DEF Parsed
  <1>8. DateOf(n) # NoDate
    BY <1>4, <1>5 DEF NoDate
  <1> QED BY <1>0, <1>2, <1>4, <1>6, <1>7, <1>8 DEF InMonth

\* A date that names a day is the date of that day.
LEMMA ParsedDay ==
    ASSUME NEW date, Parsed(date) # {}
    PROVE  RolledDay(date) \in 1..LastDay /\ DateOf(RolledDay(date)) = date
  BY DEF Parsed

-----------------------------------------------------------------------------
(* The period of the dashboards (Periods), for any calendar, clock and     *)
(* dates typed                                                             *)

LEMMA QuotientIs ==
    ASSUME NEW m \in Nat \ {0}, NEW q \in Int, NEW x \in Int, m * q <= x, x < m * (q + 1)
    PROVE  x \div m = q
  OBVIOUS

LEMMA QuotientBounds ==
    ASSUME NEW m \in Nat \ {0}, NEW x \in Int
    PROVE  /\ x \div m \in Int
           /\ m * (x \div m) <= x /\ x < m * ((x \div m) + 1)
  OBVIOUS

LEMMA ProductsGrow ==
    ASSUME NEW m \in Nat \ {0}, NEW a \in Int, NEW b \in Int
    PROVE  /\ m * a \in Int /\ m * (a + 1) = m * a + m
           /\ a * m = m * a
           /\ a <= b <=> m * a <= m * b
  <1>1. m * a \in Int /\ m * (a + 1) = m * a + m /\ a * m = m * a
    OBVIOUS
  <1>2. a <= b => m * a <= m * b
    OBVIOUS
  <1>3. ~(a <= b) => ~(m * a <= m * b)
    OBVIOUS
  <1> QED BY <1>1, <1>2, <1>3

LEMMA QuotientsGrow ==
    ASSUME NEW m \in Nat \ {0}, NEW x \in Int, NEW y \in Int, x <= y
    PROVE  x \div m <= y \div m
  <1>1. PICK q \in Int : q = x \div m /\ m * q <= x
    BY QuotientBounds
  <1>2. PICK r \in Int : r = y \div m /\ y < m * (r + 1)
    BY QuotientBounds
  <1>3. m * q \in Int /\ m * (r + 1) \in Int
    BY <1>1, <1>2, ProductsGrow
  <1>4. ~(m * (r + 1) <= m * q)
    BY <1>1, <1>2, <1>3
  <1>5. ~(r + 1 <= q)
    BY <1>4, ProductsGrow
  <1>6. q <= r
    BY <1>5
  <1> QED BY <1>1, <1>2, <1>6

\* An instant and its day.
LEMMA DayOfInstant ==
    ASSUME NEW i \in Int
    PROVE  /\ DayOf(i) \in Int
           /\ InstantOf(DayOf(i)) <= i /\ i < InstantOf(DayOf(i) + 1)
           /\ \A j \in Int : i <= j => DayOf(i) <= DayOf(j)
  <1>1. DayLength \in Nat \ {0} /\ SpOffset \in Int
    BY CalendarAssumption
  <1>2. i - SpOffset \in Int
    BY <1>1
  <1>3. PICK q \in Int : /\ q = DayOf(i)
                         /\ DayLength * q <= i - SpOffset
                         /\ i - SpOffset < DayLength * (q + 1)
    BY <1>1, <1>2, QuotientBounds DEF DayOf
  <1>4. /\ DayLength * q \in Int /\ DayLength * (q + 1) \in Int
        /\ q * DayLength = DayLength * q /\ (q + 1) * DayLength = DayLength * (q + 1)
    BY <1>1, ProductsGrow
  <1>5. InstantOf(q) <= i /\ i < InstantOf(q + 1)
    BY <1>1, <1>3, <1>4 DEF InstantOf
  <1>6. \A j \in Int : i <= j => DayOf(i) <= DayOf(j)
    BY <1>1, QuotientsGrow DEF DayOf
  <1> QED BY <1>3, <1>5, <1>6

LEMMA InstantOfDay ==
    ASSUME NEW d \in Int
    PROVE  /\ InstantOf(d) \in Int
           /\ DayOf(InstantOf(d)) = d
           /\ InstantOf(d + 1) = InstantOf(d) + DayLength
           /\ \A e \in Int : d <= e <=> InstantOf(d) <= InstantOf(e)
  <1>1. DayLength \in Nat \ {0} /\ SpOffset \in Int
    BY CalendarAssumption
  <1>2. /\ DayLength * d \in Int /\ DayLength * (d + 1) = DayLength * d + DayLength
        /\ d * DayLength = DayLength * d /\ (d + 1) * DayLength = DayLength * (d + 1)
    BY <1>1, ProductsGrow
  <1>3. InstantOf(d) \in Int /\ InstantOf(d + 1) = InstantOf(d) + DayLength
    BY <1>1, <1>2 DEF InstantOf
  <1>4. InstantOf(d) - SpOffset = DayLength * d
    BY <1>1, <1>2 DEF InstantOf
  <1>5. (DayLength * d) \div DayLength = d
    BY <1>1, <1>2, QuotientIs
  <1>6. DayOf(InstantOf(d)) = d
    BY <1>4, <1>5 DEF DayOf
  <1>7. ASSUME NEW e \in Int
        PROVE  d <= e <=> InstantOf(d) <= InstantOf(e)
    <2>1. /\ DayLength * e \in Int /\ e * DayLength = DayLength * e
          /\ d <= e <=> DayLength * d <= DayLength * e
      BY <1>1, ProductsGrow
    <2> QED BY <1>1, <1>2, <2>1 DEF InstantOf
  <1> QED BY <1>3, <1>6, <1>7

\* A window of whole days is n lengths of a day.
LEMMA SpanOfDays ==
    ASSUME NEW f \in Int, NEW t \in Int
    PROVE  /\ InstantOf(t) - InstantOf(f) = (t - f) * DayLength
           /\ (t - f) * DayLength \in Int
  <1>1. DayLength \in Nat \ {0} /\ SpOffset \in Int
    BY CalendarAssumption
  <1>2. PICK n \in Int : n = t - f
    OBVIOUS
  <1>3. t = f + n
    BY <1>2
  <1>4. (f + n) * DayLength = f * DayLength + n * DayLength
    BY <1>1
  <1>5. f * DayLength \in Int /\ n * DayLength \in Int
    BY <1>1, ProductsGrow
  <1>6. InstantOf(t) = f * DayLength + n * DayLength + SpOffset
    BY <1>3, <1>4 DEF InstantOf
  <1>7. InstantOf(f) = f * DayLength + SpOffset
    BY DEF InstantOf
  <1>8. InstantOf(t) - InstantOf(f) = n * DayLength
    BY <1>1, <1>5, <1>6, <1>7
  <1> QED BY <1>2, <1>5, <1>8

LEMMA RoundedIsExact ==
    ASSUME NEW n \in Int
    PROVE  RoundedDays(n * DayLength) = n
  <1>1. PICK D \in Nat \ {0} : D = DayLength
    BY CalendarAssumption
  <1>2. PICK x \in Int : x = n * D
    BY <1>1, ProductsGrow
  <1>3. 2 * D \in Nat \ {0} /\ 2 * x + D \in Int
    BY <1>2
  <1>4. (2 * D) * n = 2 * x /\ (2 * D) * (n + 1) = 2 * x + 2 * D
    <2>1. (2 * D) * n = 2 * (n * D)
      OBVIOUS
    <2>2. (2 * D) * (n + 1) = (2 * D) * n + 2 * D
      BY <1>3, ProductsGrow
    <2> QED BY <1>2, <2>1, <2>2
  <1>5. (2 * D) * n <= 2 * x + D /\ 2 * x + D < (2 * D) * (n + 1)
    BY <1>2, <1>4
  <1>6. (2 * x + D) \div (2 * D) = n
    BY <1>3, <1>5, QuotientIs
  <1> QED BY <1>1, <1>2, <1>6 DEF RoundedDays

\* The days listed for a window are those from the first to the last.
LEMMA DaysListed ==
    ASSUME NEW f \in Int, NEW t \in Int, f <= t
    PROVE  LET days == DaysInWindow(InstantOf(f), InstantOf(t + 1))
           IN  {days[k] : k \in DOMAIN days} = f..t
  <1>1. RoundedDays(InstantOf(t + 1) - InstantOf(f)) = t + 1 - f
    BY SpanOfDays, RoundedIsExact
  <1>2. DayOf(InstantOf(f)) = f
    BY InstantOfDay
  <1>3. DaysInWindow(InstantOf(f), InstantOf(t + 1)) = [k \in 1..(t + 1 - f) |-> f + k - 1]
    BY <1>1, <1>2 DEF DaysInWindow
  <1>4. ASSUME NEW d \in f..t
        PROVE  d - f + 1 \in 1..(t + 1 - f) /\ f + (d - f + 1) - 1 = d
    OBVIOUS
  <1>5. \A k \in 1..(t + 1 - f) : f + k - 1 \in f..t
    OBVIOUS
  <1> DEFINE days == [k \in 1..(t + 1 - f) |-> f + k - 1]
  <1>6. {days[k] : k \in DOMAIN days} = f..t
    <2>1. \A d \in f..t : \E k \in DOMAIN days : days[k] = d
      <3> TAKE d \in f..t
      <3> QED BY <1>4
    <2>2. \A k \in DOMAIN days : days[k] \in f..t
      BY <1>5
    <2> HIDE DEF days
    <2> QED BY <2>1, <2>2
  <1> QED BY <1>3, <1>6

\* An answer of whole days tiles the calendar, if its last day is no later
\* than today.
LEMMA WholeDaysTile ==
    ASSUME NEW f \in Int, NEW t \in Int, f <= t, t <= Today, Today \in Int,
           windows = WindowsOf(f, t)
    PROVE  WindowsTile
  <1>1. /\ windows.days = DaysInWindow(InstantOf(f), InstantOf(t + 1))
        /\ windows.current = <<InstantOf(f), InstantOf(t + 1)>>
        /\ windows.previous = <<InstantOf(f - DaysInclusive(f, t)), InstantOf(f)>>
    BY DEF WindowsOf
  <1>2. {windows.days[k] : k \in DOMAIN windows.days} = f..t
    BY <1>1, DaysListed
  <1>3. /\ windows.current[1] = InstantOf(f) /\ windows.current[2] = InstantOf(t + 1)
        /\ windows.previous[1] = InstantOf(f - DaysInclusive(f, t))
        /\ windows.previous[2] = InstantOf(f)
    BY <1>1
  <1>4. InstantsIn(windows.current) = InstantOf(f)..(InstantOf(t + 1) - 1)
    BY <1>3 DEF InstantsIn
  <1>5. InstantOf(f) \in Int /\ InstantOf(t + 1) \in Int
    BY InstantOfDay
  <1>6. ASSUME NEW i \in InstantOf(f)..(InstantOf(t + 1) - 1)
        PROVE  DayOf(i) \in f..t
    <2>1. i \in Int /\ InstantOf(f) <= i /\ i < InstantOf(t + 1)
      BY <1>5
    <2>2. DayOf(i) \in Int /\ InstantOf(DayOf(i)) <= i /\ i < InstantOf(DayOf(i) + 1)
      BY <2>1, DayOfInstant
    <2>3. PICK d \in Int : d = DayOf(i)
      BY <2>2
    <2>4. InstantOf(d) \in Int /\ InstantOf(d + 1) \in Int
      <3>1. d \in Int /\ d + 1 \in Int
        BY <2>3
      <3> QED BY <3>1, InstantOfDay
    <2>5. ~(InstantOf(t + 1) <= InstantOf(d)) /\ ~(InstantOf(d + 1) <= InstantOf(f))
      BY <1>5, <2>1, <2>2, <2>3, <2>4
    <2>6. ~(t + 1 <= d) /\ ~(d + 1 <= f)
      BY <2>5, InstantOfDay
    <2> QED BY <2>3, <2>6
  <1>7. ASSUME NEW d \in f..t
        PROVE  /\ d <= Today
               /\ InstantOf(d)..(InstantOf(d + 1) - 1) \subseteq InstantOf(f)..(InstantOf(t + 1) - 1)
    <2>1. d \in Int /\ d + 1 \in Int /\ f <= d /\ d + 1 <= t + 1 /\ d <= Today
      OBVIOUS
    <2>2. InstantOf(f) <= InstantOf(d) /\ InstantOf(d + 1) <= InstantOf(t + 1)
      BY <2>1, InstantOfDay
    <2>3. PICK e \in Int : e = d + 1
      BY <2>1
    <2>4. InstantOf(d) \in Int /\ InstantOf(e) \in Int
      BY <2>1, InstantOfDay
    <2> QED BY <1>5, <2>1, <2>2, <2>3, <2>4
  <1>8. windows.current[2] - windows.current[1] = windows.previous[2] - windows.previous[1]
    <2>1. PICK n \in Int : n = DaysInclusive(f, t)
      BY DEF DaysInclusive
    <2>2. (t + 1) - f = n /\ f - (f - n) = n /\ f - n \in Int
      BY <2>1 DEF DaysInclusive
    <2>3. InstantOf(t + 1) - InstantOf(f) = n * DayLength
      BY <2>2, SpanOfDays
    <2>4. InstantOf(f) - InstantOf(f - n) = n * DayLength
      BY <2>2, SpanOfDays
    <2> QED BY <1>3, <2>1, <2>3, <2>4
  <1> QED BY <1>2, <1>3, <1>4, <1>6, <1>7, <1>8 DEF WindowsTile

\* The answers that refuse, and those of whole days.
Refusals == {"MISSING_PARAMETER", "INVALID_DATE_FORMAT", "FROM_AFTER_TO", "TO_IN_FUTURE",
             "RANGE_TOO_LONG"}
WholeDays(w) == \E f, t \in Int : f <= t /\ t <= Today /\ w = WindowsOf(f, t)

LEMMA RefusedCode == \A code : Refused(code).code = code
  BY DEF Refused, NoWindows

LEMMA WindowsCode == \A f, t : WindowsOf(f, t).code = "ok"
  BY DEF WindowsOf

\* What resolveKpiPeriod does with two days that were named.
LEMMA NamedDays ==
    ASSUME NEW from, NEW to, ~(from = NoDate /\ to = NoDate), (from = NoDate) = (to = NoDate),
           NEW f \in Int, NEW t \in Int, f = RolledDay(from), t = RolledDay(to),
           Parsed(from) # {}, Parsed(to) # {}, Today \in Int
    PROVE  /\ f > t => Resolved(from, to) = Refused("FROM_AFTER_TO")
           /\ f <= t /\ t > Today => Resolved(from, to) = Refused("TO_IN_FUTURE")
           /\ f <= t /\ t <= Today => Resolved(from, to) =
                  IF DaysInclusive(f, t) > MaxRangeDays THEN Refused("RANGE_TOO_LONG")
                  ELSE WindowsOf(f, t)
  <1>1. RangeOf(from, to) = [ok |-> TRUE, f |-> f, t |-> t]
    BY DEF RangeOf
  <1>2. /\ RangeOf(from, to).ok = TRUE /\ RangeOf(from, to).f = f /\ RangeOf(from, to).t = t
    BY <1>1
  <1>3. f > t <=> ~(f <= t)
    OBVIOUS
  <1>4. t > Today <=> ~(t <= Today)
    OBVIOUS
  <1> QED BY <1>2, <1>3, <1>4 DEF Resolved, InFuture

\* Without names it answers the default days.
LEMMA DefaultDaysAnswer ==
    ASSUME Today \in Int
    PROVE  /\ Resolved(NoDate, NoDate) = WindowsOf(Today - DefaultDays + 1, Today)
           /\ Today - DefaultDays + 1 \in Int /\ Today - DefaultDays + 1 <= Today
  <1>1. RangeOf(NoDate, NoDate) = [ok |-> TRUE, f |-> Today - DefaultDays + 1, t |-> Today]
    BY DEF RangeOf
  <1>2. /\ RangeOf(NoDate, NoDate).ok = TRUE
        /\ RangeOf(NoDate, NoDate).f = Today - DefaultDays + 1
        /\ RangeOf(NoDate, NoDate).t = Today
    BY <1>1
  <1>3. /\ Today - DefaultDays + 1 \in Int /\ Today - DefaultDays + 1 <= Today
        /\ ~(Today - DefaultDays + 1 > Today) /\ ~(Today > Today)
        /\ ~(DaysInclusive(Today - DefaultDays + 1, Today) > MaxRangeDays)
    BY PeriodsAssumption DEF DaysInclusive
  <1>4. Resolved(NoDate, NoDate) = WindowsOf(Today - DefaultDays + 1, Today)
    <2> DEFINE f == Today - DefaultDays + 1
    <2> HIDE DEF f
    <2>1. /\ RangeOf(NoDate, NoDate).ok = TRUE /\ RangeOf(NoDate, NoDate).f = f
          /\ RangeOf(NoDate, NoDate).t = Today
      BY <1>2 DEF f
    <2>2. ~(f > Today) /\ ~(Today > Today) /\ ~(DaysInclusive(f, Today) > MaxRangeDays)
      BY <1>3 DEF f
    <2>3. Resolved(NoDate, NoDate) = WindowsOf(f, Today)
      BY <2>1, <2>2 DEF Resolved, InFuture
    <2> QED BY <2>3 DEF f
  <1> QED BY <1>3, <1>4

\* Whatever is asked for, whole days are answered or a code that refuses.
LEMMA ResolvedIs ==
    ASSUME NEW from, NEW to, Today \in Int
    PROVE  \/ \E code \in Refusals : Resolved(from, to) = Refused(code)
           \/ WholeDays(Resolved(from, to))
  <1>1. CASE (from = NoDate) # (to = NoDate)
    BY <1>1 DEF Resolved, Refusals
  <1>2. CASE from = NoDate /\ to = NoDate
    <2>1. /\ Resolved(from, to) = WindowsOf(Today - DefaultDays + 1, Today)
          /\ Today - DefaultDays + 1 \in Int /\ Today - DefaultDays + 1 <= Today
      BY <1>2, DefaultDaysAnswer
    <2>2. Today <= Today
      OBVIOUS
    <2> QED BY <2>1, <2>2 DEF WholeDays
  <1>3. CASE from # NoDate /\ to # NoDate
    <2>1. CASE Parsed(from) = {} \/ Parsed(to) = {}
      <3>1. RangeOf(from, to).ok = FALSE
        BY <1>3, <2>1 DEF RangeOf
      <3>2. Resolved(from, to) = Refused("INVALID_DATE_FORMAT")
        BY <1>3, <3>1 DEF Resolved
      <3> QED BY <3>2 DEF Refusals
    <2>2. CASE Parsed(from) # {} /\ Parsed(to) # {}
      <3>1. RolledDay(from) \in Int /\ RolledDay(to) \in Int
        <4>1. LastDay \in Int
          BY MonthsAre, MonthStartType DEF LastDay, Months
        <4> QED BY <2>2, <4>1, ParsedDay
      <3>2. PICK f \in Int : f = RolledDay(from)
        BY <3>1
      <3>3. PICK t \in Int : t = RolledDay(to)
        BY <3>1
      <3>4. /\ f > t => Resolved(from, to) = Refused("FROM_AFTER_TO")
            /\ f <= t /\ t > Today => Resolved(from, to) = Refused("TO_IN_FUTURE")
            /\ f <= t /\ t <= Today => Resolved(from, to) =
                   IF DaysInclusive(f, t) > MaxRangeDays THEN Refused("RANGE_TOO_LONG")
                   ELSE WindowsOf(f, t)
        BY <1>3, <2>2, <3>2, <3>3, NamedDays
      <3>5. f > t \/ (f <= t /\ t > Today) \/ (f <= t /\ t <= Today)
        OBVIOUS
      <3> QED BY <3>4, <3>5 DEF Refusals, WholeDays
    <2> QED BY <2>1, <2>2
  <1> QED BY <1>1, <1>2, <1>3

-----------------------------------------------------------------------------
\* A range of days a control of the page may write: it lies in the past and
\* is no longer than the page allows, on every later day as well.
Pickable(f, t) ==
    /\ f \in 1..LastDay /\ t \in 1..LastDay
    /\ f <= t /\ t <= Today /\ DaysInclusive(f, t) <= MaxRangeDays

WindowCodes == {"none", "ok"} \cup Refusals

PeriodIInv ==
    /\ clock \in FirstInstant..LastInstant
    /\ url \in [from : UrlDates, to : UrlDates, picked : BOOLEAN]
    /\ url.picked =>
          \/ url.from = NoDate /\ url.to = NoDate
          \/ \E f, t \in 1..LastDay : /\ Pickable(f, t)
                                      /\ url.from = DateOf(f) /\ url.to = DateOf(t)
    /\ windows.code \in WindowCodes
    /\ windows.code = "ok" => WholeDays(windows)

LEMMA ClockType ==
    ASSUME clock \in FirstInstant..LastInstant
    PROVE  /\ clock \in Int /\ Today \in Int
           /\ DayOf(FirstInstant) <= Today /\ Today <= DayOf(LastInstant)
           /\ DayOf(FirstInstant) \in Int /\ DayOf(LastInstant) \in Int
  <1>1. /\ clock \in Int /\ FirstInstant \in Int /\ LastInstant \in Int
        /\ FirstInstant <= clock /\ clock <= LastInstant
    BY PeriodsAssumption
  <1> QED BY <1>1, DayOfInstant DEF Today

\* The shortcuts name days of the calendar, none of them in the future.
LEMMA TodayInCalendar ==
    ASSUME clock \in FirstInstant..LastInstant
    PROVE  /\ Today \in 1..LastDay /\ LastDay \in Int
           /\ Today >= DefaultDays /\ Today >= WeekDays /\ Today > MonthLengths[1]
  <1>1. LastDay \in Int
    BY MonthsAre, MonthStartType DEF LastDay, Months
  <1>2. MonthLengths[1] \in Nat \ {0}
    BY MonthsAre
  <1>3. /\ DefaultDays <= DayOf(FirstInstant) /\ WeekDays <= DayOf(FirstInstant)
        /\ MonthLengths[1] + 1 <= DayOf(FirstInstant) /\ DayOf(LastInstant) <= LastDay
        /\ DefaultDays \in Nat \ {0} /\ WeekDays \in Nat \ {0}
    BY PeriodsAssumption
  <1>4. /\ Today \in Int /\ DayOf(FirstInstant) \in Int /\ DayOf(LastInstant) \in Int
        /\ DayOf(FirstInstant) <= Today /\ Today <= DayOf(LastInstant)
    BY ClockType
  <1> QED BY <1>1, <1>2, <1>3, <1>4

LEMMA MonthOfDay ==
    ASSUME NEW n \in 1..LastDay
    PROVE  /\ MonthOf(n) \in 1..LastDay /\ MonthOf(n) <= n
           /\ DaysInclusive(MonthOf(n), n) <= MaxRangeDays
           /\ n > MonthLengths[1] => MonthOf(n) - 1 \in 1..LastDay
  <1>1. PICK m : m = DateOf(n).month
    OBVIOUS
  <1>2. /\ m \in CalendarMonths /\ MonthStart[m] <= n /\ n < MonthStart[m] + MonthLengths[m]
        /\ LastDay \in Int
    BY <1>1, DateOfDay DEF InMonth
  <1>3. /\ MonthStart[m] \in Nat \ {0} /\ MonthLengths[m] \in Nat \ {0} /\ n \in Int
        /\ MonthLengths[m] <= MaxRangeDays /\ MaxRangeDays \in Nat
    BY <1>2, MonthsAre, MonthStartType, PeriodsAssumption
  <1>4. MonthOf(n) = MonthStart[m]
    BY <1>1 DEF MonthOf
  <1>5. ASSUME n > MonthLengths[1]
        PROVE  MonthStart[m] >= 2
    <2>1. m # 1
      BY <1>2, <1>3, <1>5, MonthStartIs
    <2>2. MonthStart[m] = MonthStart[m - 1] + MonthLengths[m - 1] /\ m - 1 \in CalendarMonths
      BY <1>2, <2>1, MonthStartIs, MonthsAre
    <2>3. MonthStart[m - 1] \in Nat \ {0} /\ MonthLengths[m - 1] \in Nat \ {0}
      BY <2>2, MonthsAre, MonthStartType
    <2> QED BY <2>2, <2>3
  <1> QED BY <1>2, <1>3, <1>4, <1>5 DEF DaysInclusive

LEMMA PresetsArePickable ==
    ASSUME clock \in FirstInstant..LastInstant, NEW key \in Presets
    PROVE  Pickable(PresetRange(key)[1], PresetRange(key)[2])
  <1>0. /\ Today \in 1..LastDay /\ LastDay \in Int /\ Today \in Int
        /\ Today >= DefaultDays /\ Today >= WeekDays /\ Today > MonthLengths[1]
        /\ MonthLengths[1] \in Nat \ {0}
    BY TodayInCalendar, ClockType, MonthsAre
  <1>1. /\ DefaultDays \in Nat \ {0} /\ WeekDays \in Nat \ {0} /\ MaxRangeDays \in Nat \ {0}
        /\ DefaultDays <= MaxRangeDays /\ WeekDays <= MaxRangeDays
    BY PeriodsAssumption
  <1>2. CASE key = "today"
    <2>1. PresetRange(key) = <<Today, Today>>
      BY <1>2 DEF PresetRange
    <2> QED BY <1>0, <1>1, <2>1 DEF Pickable, DaysInclusive
  <1>3. CASE key = "yesterday"
    <2>1. PresetRange(key) = <<Today - 1, Today - 1>>
      BY <1>3 DEF PresetRange
    <2> QED BY <1>0, <1>1, <2>1 DEF Pickable, DaysInclusive
  <1>4. CASE key = "last7"
    <2>1. PresetRange(key) = <<Today - WeekDays + 1, Today>>
      BY <1>4 DEF PresetRange
    <2> QED BY <1>0, <1>1, <2>1 DEF Pickable, DaysInclusive
  <1>5. CASE key = "last30"
    <2>1. PresetRange(key) = <<Today - DefaultDays + 1, Today>>
      BY <1>5 DEF PresetRange
    <2> QED BY <1>0, <1>1, <2>1 DEF Pickable, DaysInclusive
  <1>6. CASE key = "thisMonth"
    <2>1. PresetRange(key) = <<MonthOf(Today), Today>>
      BY <1>6 DEF PresetRange
    <2>2. /\ MonthOf(Today) \in 1..LastDay /\ MonthOf(Today) <= Today
          /\ DaysInclusive(MonthOf(Today), Today) <= MaxRangeDays
      BY <1>0, MonthOfDay
    <2> QED BY <1>0, <2>1, <2>2 DEF Pickable
  <1>7. CASE key = "lastMonth"
    <2>1. PresetRange(key) = <<MonthOf(MonthOf(Today) - 1), MonthOf(Today) - 1>>
      BY <1>7 DEF PresetRange
    <2>2. MonthOf(Today) \in 1..LastDay /\ MonthOf(Today) <= Today
      BY <1>0, MonthOfDay
    <2>3. PICK q \in 1..LastDay : q = MonthOf(Today) - 1
      BY <1>0, MonthOfDay
    <2>4. q <= Today
      BY <1>0, <2>2, <2>3
    <2>5. /\ MonthOf(q) \in 1..LastDay /\ MonthOf(q) <= q
          /\ DaysInclusive(MonthOf(q), q) <= MaxRangeDays
      BY MonthOfDay
    <2> QED BY <2>1, <2>3, <2>4, <2>5 DEF Pickable
  <1> QED BY <1>2, <1>3, <1>4, <1>5, <1>6, <1>7 DEF Presets

LEMMA PeriodsInitially == PeriodsInit => PeriodIInv
  <1> SUFFICES ASSUME PeriodsInit PROVE PeriodIInv
    OBVIOUS
  <1>1. clock \in FirstInstant..LastInstant
    BY PeriodsAssumption DEF PeriodsInit
  <1>2. /\ url \in [from : UrlDates, to : UrlDates, picked : BOOLEAN]
        /\ url.from = NoDate /\ url.to = NoDate
    BY DEF PeriodsInit, UrlDates
  <1>3. windows.code = "none"
    BY DEF PeriodsInit, NoWindows
  <1> QED BY <1>1, <1>2, <1>3 DEF PeriodIInv, WindowCodes

\* A later clock leaves what was picked and what was answered as it is.
LEMMA TimeKeeps ==
    ASSUME PeriodIInv, clock' \in FirstInstant..LastInstant, clock <= clock',
           UNCHANGED <<url, windows>>
    PROVE  PeriodIInv'
  <1>1. /\ clock \in Int /\ clock' \in Int /\ Today \in Int
    BY ClockType, PeriodsAssumption DEF PeriodIInv
  <1>2. Today' \in Int /\ Today <= Today'
    BY <1>1, DayOfInstant DEF Today
  <1>3. \A f, t \in 1..LastDay : Pickable(f, t) => Pickable(f, t)'
    <2>1. LastDay \in Int
      BY MonthsAre, MonthStartType DEF LastDay, Months
    <2> QED BY <1>1, <1>2, <2>1 DEF Pickable
  <1>4. ASSUME WholeDays(windows)
        PROVE  WholeDays(windows)'
    <2>1. PICK f, t \in Int : f <= t /\ t <= Today /\ windows = WindowsOf(f, t)
      BY <1>4 DEF WholeDays
    <2>2. t <= Today'
      BY <1>1, <1>2, <2>1
    <2> QED BY <2>1, <2>2 DEF WholeDays, WindowsOf
  <1> QED BY <1>3, <1>4 DEF PeriodIInv

\* Writing two dates to the URL.
LEMMA WritingKeeps ==
    ASSUME PeriodIInv, UNCHANGED <<clock, windows>>, NEW from \in UrlDates, NEW to \in UrlDates,
           NEW picked \in BOOLEAN, url' = [from |-> from, to |-> to, picked |-> picked],
           picked => \E f, t \in 1..LastDay :
                        Pickable(f, t) /\ from = DateOf(f) /\ to = DateOf(t)
    PROVE  PeriodIInv'
  <1>1. /\ url' \in [from : UrlDates, to : UrlDates, picked : BOOLEAN]
        /\ url'.from = from /\ url'.to = to /\ url'.picked = picked
    OBVIOUS
  <1>2. Today' = Today
    BY DEF Today
  <1>3. \A f, t \in 1..LastDay : Pickable(f, t) => Pickable(f, t)'
    BY <1>2 DEF Pickable
  <1>4. WholeDays(windows) => WholeDays(windows)'
    BY <1>2 DEF WholeDays, WindowsOf
  <1> QED BY <1>1, <1>3, <1>4 DEF PeriodIInv

LEMMA AnswerIsKept ==
    ASSUME PeriodIInv, UNCHANGED <<clock, url>>, NEW from, NEW to, windows' = Resolved(from, to)
    PROVE  PeriodIInv'
  <1>0. Today \in Int
    BY ClockType DEF PeriodIInv
  <1>1. Today' = Today
    BY DEF Today
  <1>2. /\ windows'.code \in WindowCodes
        /\ windows'.code = "ok" => WholeDays(windows')
    <2>1. CASE \E code \in Refusals : Resolved(from, to) = Refused(code)
      <3>1. windows'.code \in Refusals
        BY <2>1, RefusedCode
      <3> QED BY <3>1 DEF WindowCodes, Refusals
    <2>2. CASE WholeDays(Resolved(from, to))
      <3>1. windows'.code = "ok"
        BY <2>2, WindowsCode DEF WholeDays
      <3> QED BY <2>2, <3>1 DEF WindowCodes
    <2> QED BY <1>0, <2>1, <2>2, ResolvedIs
  <1>3. \A f, t \in 1..LastDay : Pickable(f, t) => Pickable(f, t)'
    BY <1>1 DEF Pickable
  <1>4. WholeDays(windows') => WholeDays(windows)'
    BY <1>1 DEF WholeDays, WindowsOf
  <1> QED BY <1>2, <1>3, <1>4 DEF PeriodIInv

LEMMA PeriodsKeep == PeriodIInv /\ [PeriodsNext]_periodVars => PeriodIInv'
  <1> SUFFICES ASSUME PeriodIInv, [PeriodsNext]_periodVars PROVE PeriodIInv'
    OBVIOUS
  <1>0. clock \in FirstInstant..LastInstant /\ clock \in Int /\ LastDay \in Int
    BY ClockType, TodayInCalendar DEF PeriodIInv
  <1>1. CASE TimePasses
    BY <1>0, <1>1, PeriodsAssumption, TimeKeeps DEF TimePasses
  <1>2. ASSUME NEW key \in Presets, PickPreset(key)
        PROVE  PeriodIInv'
    <2>1. PICK f, t : f = PresetRange(key)[1] /\ t = PresetRange(key)[2]
      OBVIOUS
    <2>2. Pickable(f, t) /\ f \in 1..LastDay /\ t \in 1..LastDay
      BY <1>0, <2>1, PresetsArePickable DEF Pickable
    <2>3. url' = [from |-> DateOf(f), to |-> DateOf(t), picked |-> TRUE]
      BY <1>2, <2>1 DEF PickPreset, Written
    <2>4. DateOf(f) \in UrlDates /\ DateOf(t) \in UrlDates
      BY <2>2 DEF UrlDates
    <2> QED BY <1>2, <2>2, <2>3, <2>4, WritingKeeps DEF PickPreset
  <1>3. ASSUME NEW from \in DateTexts, NEW to \in DateTexts, PickCustom(from, to)
        PROVE  PeriodIInv'
    <2>1. PICK f, t : f = RolledDay(from) /\ t = RolledDay(to)
      OBVIOUS
    <2>2. /\ f \in 1..LastDay /\ t \in 1..LastDay
          /\ f <= t /\ t <= Today /\ DaysInclusive(f, t) <= MaxRangeDays
      BY <1>3, <2>1, ParsedDay DEF PickCustom, ValidRange
    <2>3. url' = [from |-> DateOf(f), to |-> DateOf(t), picked |-> TRUE]
      BY <1>3, <2>1 DEF PickCustom, Written
    <2>4. DateOf(f) \in UrlDates /\ DateOf(t) \in UrlDates
      BY <2>2 DEF UrlDates
    <2> QED BY <1>3, <2>2, <2>3, <2>4, WritingKeeps DEF PickCustom, Pickable
  <1>4. ASSUME NEW from \in DateTexts \cup {NoDate}, NEW to \in DateTexts \cup {NoDate},
               OpenUrl(from, to)
        PROVE  PeriodIInv'
    <2>1. from \in UrlDates /\ to \in UrlDates
      BY DEF UrlDates
    <2> QED BY <1>4, <2>1, WritingKeeps DEF OpenUrl
  <1>5. CASE AskForPeriod
    BY <1>5, AnswerIsKept DEF AskForPeriod
  <1>6. ASSUME NEW from, NEW to, AskDirectly(from, to)
        PROVE  PeriodIInv'
    BY <1>6, AnswerIsKept DEF AskDirectly
  <1>7. CASE UNCHANGED periodVars
    <2>1. clock <= clock
      BY <1>0
    <2> QED BY <1>0, <1>7, <2>1, TimeKeeps DEF periodVars
  <1> QED BY <1>1, <1>2, <1>3, <1>4, <1>5, <1>6, <1>7 DEF PeriodsNext

-----------------------------------------------------------------------------
\* A range that was pickable is valid for the page and answered by the backend.
LEMMA PickableStays ==
    ASSUME NEW f \in 1..LastDay, NEW t \in 1..LastDay, Pickable(f, t), Today \in Int
    PROVE  /\ ValidRange(DateOf(f), DateOf(t))
           /\ Resolved(DateOf(f), DateOf(t)).code = "ok"
           /\ DateOf(f) # NoDate /\ DateOf(t) # NoDate
  <1>1. PICK from, to : from = DateOf(f) /\ to = DateOf(t)
    OBVIOUS
  <1>2. /\ RolledDay(from) = f /\ RolledDay(to) = t
        /\ Parsed(from) # {} /\ Parsed(to) # {}
        /\ from # NoDate /\ to # NoDate /\ LastDay \in Int
    BY <1>1, DateOfDay
  <1>3. f \in Int /\ t \in Int /\ DaysInclusive(f, t) \in Int /\ MaxRangeDays \in Int
    BY <1>2, PeriodsAssumption DEF DaysInclusive
  <1>4. f <= t /\ t <= Today /\ ~(DaysInclusive(f, t) > MaxRangeDays)
    BY <1>3 DEF Pickable
  <1>5. Resolved(from, to) = WindowsOf(f, t)
    BY <1>2, <1>3, <1>4, NamedDays
  <1>6. ValidRange(from, to)
    BY <1>2 DEF ValidRange, Pickable
  <1> QED BY <1>1, <1>2, <1>5, <1>6, WindowsCode

\* The days the page asks for when its URL names none.
LEMMA DefaultRangeStays ==
    ASSUME clock \in FirstInstant..LastInstant
    PROVE  LET f == Today - DefaultDays + 1
           IN  Pickable(f, Today) /\ f \in 1..LastDay /\ Today \in 1..LastDay
  <1>1. "last30" \in Presets /\ PresetRange("last30") = <<Today - DefaultDays + 1, Today>>
    BY DEF Presets, PresetRange
  <1> QED BY <1>1, PresetsArePickable DEF Pickable

LEMMA PeriodsSound == PeriodIInv => PeriodsInv
  <1> SUFFICES ASSUME PeriodIInv PROVE PeriodsInv
    OBVIOUS
  <1>0. clock \in FirstInstant..LastInstant /\ Today \in Int
    BY ClockType DEF PeriodIInv
  <1>1. PeriodsTypeOK
    BY DEF PeriodIInv, PeriodsTypeOK, WindowCodes, Refusals
  <1>2. WindowsTile
    <2>1. CASE windows.code = "ok"
      <3>1. PICK f, t \in Int : f <= t /\ t <= Today /\ windows = WindowsOf(f, t)
        BY <2>1 DEF PeriodIInv, WholeDays
      <3> QED BY <1>0, <3>1, WholeDaysTile
    <2>2. CASE windows.code # "ok"
      BY <2>2 DEF WindowsTile
    <2> QED BY <2>1, <2>2
  <1>3. ASSUME url.picked
        PROVE  /\ EffectiveDates # {}
               /\ Resolved(url.from, url.to).code = "ok"
               /\ \A dates \in EffectiveDates : Resolved(dates.from, dates.to).code = "ok"
    <2>1. CASE url.from = NoDate /\ url.to = NoDate
      <3>1. PICK f : f = Today - DefaultDays + 1
        OBVIOUS
      <3>2. Pickable(f, Today) /\ f \in 1..LastDay /\ Today \in 1..LastDay
        BY <1>0, <3>1, DefaultRangeStays
      <3>3. Resolved(DateOf(f), DateOf(Today)).code = "ok"
        BY <1>0, <3>2, PickableStays
      <3>4. EffectiveDates = {[from |-> DateOf(f), to |-> DateOf(Today)]}
        BY <2>1, <3>1 DEF EffectiveDates
      <3>5. Resolved(NoDate, NoDate).code = "ok"
        BY <1>0, DefaultDaysAnswer, WindowsCode
      <3> QED BY <2>1, <3>3, <3>4, <3>5
    <2>2. CASE ~(url.from = NoDate /\ url.to = NoDate)
      <3>1. PICK f, t \in 1..LastDay : /\ Pickable(f, t)
                                       /\ url.from = DateOf(f) /\ url.to = DateOf(t)
        BY <1>3, <2>2 DEF PeriodIInv
      <3>2. /\ ValidRange(url.from, url.to) /\ Resolved(url.from, url.to).code = "ok"
            /\ url.from # NoDate /\ url.to # NoDate
        BY <1>0, <3>1, PickableStays
      <3>3. EffectiveDates = {[from |-> url.from, to |-> url.to]}
        BY <3>2 DEF EffectiveDates
      <3> QED BY <3>2, <3>3
    <2> QED BY <2>1, <2>2
  <1> QED BY <1>1, <1>2, <1>3 DEF PeriodsInv, PickedPeriodsStay

(* A period is whole days of São Paulo, its comparison lies before it with *)
(* as many days, and a period that a control of the page wrote is never    *)
(* refused later, for any calendar, clock, limits and typed dates.         *)
THEOREM PeriodsTheorem == PeriodsSpec => []PeriodsInv
  BY PeriodsInitially, PeriodsKeep, PeriodsSound, PTL DEF PeriodsSpec

---------------------------------------------------------------------------
(* The figures of the analytics (Analytics), for any orders.               *)

AllRows == FirstOrders \cup NewOrders

ItemRow(r) == r.item.units \in Nat /\ r.item.price \in Nat

LEMMA RowsAre ==
  ASSUME NEW rows, rows \subseteq AllRows
  PROVE  /\ IsFiniteSet(rows)
         /\ \A o \in rows : o.amount \in Nat /\ o.at \in Int /\ o.class \in Classes
  BY OrdersAssumption, FS_Subset DEF AllRows

LEMMA ItemRowsAre ==
  ASSUME NEW rows, rows \subseteq AllRows
  PROVE  /\ IsFiniteSet(ItemRows(rows))
         /\ \A r \in ItemRows(rows) : r.order \in rows /\ ItemRow(r)
<1> DEFINE Of(o) == {[order |-> o, item |-> i] : i \in o.items}
<1>1. IsFiniteSet(rows) /\ \A o \in rows : IsFiniteSet(o.items)
  BY RowsAre, OrdersAssumption DEF AllRows
<1>2. \A o \in rows : IsFiniteSet(Of(o))
  <2> SUFFICES ASSUME NEW o \in rows PROVE IsFiniteSet(Of(o))
    OBVIOUS
  <2> DEFINE f == [i \in o.items |-> [order |-> o, item |-> i]]
  <2>1. IsFiniteSet({f[i] : i \in DOMAIN f})
    <3>1. IsFiniteSet(DOMAIN f)
      BY <1>1
    <3>2. f \in Surjection(DOMAIN f, {f[i] : i \in DOMAIN f})
      BY DEF Surjection
    <3> QED
      BY <3>1, <3>2, FS_Surjection
  <2>2. {f[i] : i \in DOMAIN f} = Of(o)
    OBVIOUS
  <2> QED
    BY <2>1, <2>2
<1>3. IsFiniteSet({Of(o) : o \in rows})
  <2> DEFINE g == [o \in rows |-> Of(o)]
  <2>1. IsFiniteSet({g[o] : o \in DOMAIN g})
    <3>1. IsFiniteSet(DOMAIN g)
      BY <1>1
    <3>2. g \in Surjection(DOMAIN g, {g[o] : o \in DOMAIN g})
      BY DEF Surjection
    <3> QED
      BY <3>1, <3>2, FS_Surjection
  <2>2. {g[o] : o \in DOMAIN g} = {Of(o) : o \in rows}
    <3> HIDE DEF Of
    <3> QED
      OBVIOUS
  <2> QED
    BY <2>1, <2>2
<1>4. ItemRows(rows) = UNION {Of(o) : o \in rows}
  BY DEF ItemRows
<1>5. \A o \in rows : \A r \in Of(o) : r.order \in rows /\ ItemRow(r)
  BY OrdersAssumption DEF AllRows, ItemRow
<1>6. \A s \in {Of(o) : o \in rows} : IsFiniteSet(s)
  BY <1>2
<1> HIDE DEF Of
<1>7. IsFiniteSet(UNION {Of(o) : o \in rows})
  BY <1>3, <1>6, FS_UNION
<1> QED
  BY <1>4, <1>5, <1>7

\* A set of rows in three parts.
Splits(T, A, B, C) ==
    T = A \cup B \cup C /\ A \cap B = {} /\ A \cap C = {} /\ B \cap C = {}

LEMMA SumSplits ==
  ASSUME NEW T, NEW A, NEW B, NEW C, Splits(T, A, B, C), IsFiniteSet(T),
         NEW fun, \A x \in T : fun[x] \in Nat
  PROVE  SumFunctionOnSet(fun, T) = SumFunctionOnSet(fun, A) + SumFunctionOnSet(fun, B)
                                       + SumFunctionOnSet(fun, C)
<1>1. /\ T = (A \cup B) \cup C /\ (A \cup B) \cap C = {} /\ A \cap B = {}
      /\ A \subseteq T /\ B \subseteq T /\ C \subseteq T
  BY DEF Splits
<1>2. IsFiniteSet(A) /\ IsFiniteSet(B) /\ IsFiniteSet(C) /\ IsFiniteSet(A \cup B)
  BY <1>1, FS_Subset, FS_Union
<1>3. (\A x \in (A \cup B) \cup C : fun[x] \in Nat) /\ \A x \in A \cup B : fun[x] \in Nat
  BY <1>1
<1>4. SumFunctionOnSet(fun, (A \cup B) \cup C)
         = SumFunctionOnSet(fun, A \cup B) + SumFunctionOnSet(fun, C)
  BY <1>1, <1>2, <1>3, SumOfUnion
<1>5. SumFunctionOnSet(fun, A \cup B) = SumFunctionOnSet(fun, A) + SumFunctionOnSet(fun, B)
  BY <1>1, <1>2, <1>3, SumOfUnion
<1> QED
  BY <1>1, <1>4, <1>5

LEMMA CountSplits ==
  ASSUME NEW T, NEW A, NEW B, NEW C, Splits(T, A, B, C), IsFiniteSet(T)
  PROVE  Cardinality(T) = Cardinality(A) + Cardinality(B) + Cardinality(C)
<1>1. /\ T = (A \cup B) \cup C /\ (A \cup B) \cap C = {} /\ A \cap B = {}
      /\ A \subseteq T /\ B \subseteq T /\ C \subseteq T
  BY DEF Splits
<1>2. IsFiniteSet(A) /\ IsFiniteSet(B) /\ IsFiniteSet(C) /\ IsFiniteSet(A \cup B)
  BY <1>1, FS_Subset, FS_Union
<1> DEFINE D == A \cup B
<1>3. IsFiniteSet(D) /\ D \cap C = {}
  BY <1>1, <1>2
<1>4. Cardinality({}) = 0
  BY FS_EmptySet
<1>5. Cardinality(D) = Cardinality(A) + Cardinality(B) - Cardinality(A \cap B)
  BY <1>2, FS_Union
<1> HIDE DEF D
<1>6. Cardinality(D \cup C) = Cardinality(D) + Cardinality(C) - Cardinality(D \cap C)
  BY <1>2, <1>3, FS_Union
<1>7. Cardinality(A) \in Nat /\ Cardinality(B) \in Nat /\ Cardinality(C) \in Nat
  BY <1>2, FS_CardinalityType
<1>8. Cardinality(D) = Cardinality(A) + Cardinality(B)
  <2>1. Cardinality(A \cap B) = 0
    BY <1>1, <1>4, Zenon
  <2> QED
    BY <1>5, <1>7, <2>1
<1>9. Cardinality(D \cup C) = Cardinality(D) + Cardinality(C)
  <2>1. Cardinality(D \cap C) = 0
    BY <1>3, <1>4, Zenon
  <2> QED
    BY <1>6, <1>7, <1>8, <2>1
<1>10. T = D \cup C
  BY <1>1 DEF D
<1> QED
  BY <1>8, <1>9, <1>10

\* The money, the units and the value of rows, as sums of one function.
LEMMA AmountIs ==
  ASSUME NEW T, T \subseteq AllRows, NEW S, S \subseteq T
  PROVE  /\ AmountOf(S) = SumFunctionOnSet([o \in T |-> o.amount], S)
         /\ AmountOf(S) \in Nat
<1>1. IsFiniteSet(S) /\ \A o \in S : o.amount \in Nat
  BY RowsAre, FS_Subset
<1> DEFINE f == [o \in S |-> o.amount]
           g == [o \in T |-> o.amount]
<1>2. \A o \in S : f[o] = g[o] /\ f[o] \in Nat
  BY <1>1
<1>3. AmountOf(S) = SumFunctionOnSet(f, S)
  BY DEF AmountOf, SumOver
<1> HIDE DEF f, g
<1>4. SumFunctionOnSet(f, S) = SumFunctionOnSet(g, S)
  BY <1>1, <1>2, SumSame
<1>5. SumFunctionOnSet(f, S) \in Nat
  BY <1>1, <1>2, SumIsNat
<1> QED
  BY <1>3, <1>4, <1>5 DEF g

LEMMA UnitsAre ==
  ASSUME NEW T, T \subseteq AllRows, NEW S, S \subseteq T
  PROVE  /\ UnitsOf(S) = SumFunctionOnSet([r \in ItemRows(T) |-> r.item.units], ItemRows(S))
         /\ UnitsOf(S) \in Nat
         /\ ItemRows(S) \subseteq ItemRows(T)
<1>1. ItemRows(S) \subseteq ItemRows(T)
  BY DEF ItemRows
<1>2. IsFiniteSet(ItemRows(S)) /\ \A r \in ItemRows(S) : r.item.units \in Nat
  BY ItemRowsAre DEF ItemRow
<1> DEFINE f == [r \in ItemRows(S) |-> r.item.units]
           g == [r \in ItemRows(T) |-> r.item.units]
<1>3. \A r \in ItemRows(S) : f[r] = g[r] /\ f[r] \in Nat
  BY <1>1, <1>2
<1>4. UnitsOf(S) = SumFunctionOnSet(f, ItemRows(S))
  BY DEF UnitsOf, SumOver
<1> HIDE DEF f, g
<1>5. SumFunctionOnSet(f, ItemRows(S)) = SumFunctionOnSet(g, ItemRows(S))
  BY <1>2, <1>3, SumSame
<1>6. SumFunctionOnSet(f, ItemRows(S)) \in Nat
  BY <1>2, <1>3, SumIsNat
<1> QED
  BY <1>1, <1>4, <1>5, <1>6 DEF g

LEMMA ValueIs ==
  ASSUME NEW T, T \subseteq AllRows, NEW S, S \subseteq T
  PROVE  /\ ValueOf(ItemRows(S))
               = SumFunctionOnSet([r \in ItemRows(T) |-> r.item.units * r.item.price], ItemRows(S))
         /\ ValueOf(ItemRows(S)) \in Nat
<1>1. ItemRows(S) \subseteq ItemRows(T)
  BY DEF ItemRows
<1>2. IsFiniteSet(ItemRows(S)) /\ \A r \in ItemRows(S) : r.item.units * r.item.price \in Nat
  <2>1. IsFiniteSet(ItemRows(S)) /\ \A r \in ItemRows(S) : ItemRow(r)
    BY ItemRowsAre
  <2>2. \A m, n \in Nat : m * n \in Nat
    OBVIOUS
  <2> QED
    BY <2>1, <2>2 DEF ItemRow
<1> DEFINE f == [r \in ItemRows(S) |-> r.item.units * r.item.price]
           g == [r \in ItemRows(T) |-> r.item.units * r.item.price]
<1>3. \A r \in ItemRows(S) : f[r] = g[r] /\ f[r] \in Nat
  BY <1>1, <1>2
<1>4. ValueOf(ItemRows(S)) = SumFunctionOnSet(f, ItemRows(S))
  BY DEF ValueOf, SumOver
<1> HIDE DEF f, g
<1>5. SumFunctionOnSet(f, ItemRows(S)) = SumFunctionOnSet(g, ItemRows(S))
  BY <1>2, <1>3, SumSame
<1>6. SumFunctionOnSet(f, ItemRows(S)) \in Nat
  BY <1>2, <1>3, SumIsNat
<1> QED
  BY <1>4, <1>5, <1>6 DEF g

\* Every figure of rows in three parts is the sum of those of the parts.
LEMMA FiguresSplit ==
  ASSUME NEW T, NEW A, NEW B, NEW C, Splits(T, A, B, C), T \subseteq AllRows
  PROVE  /\ AmountOf(T) = AmountOf(A) + AmountOf(B) + AmountOf(C)
         /\ Cardinality(T) = Cardinality(A) + Cardinality(B) + Cardinality(C)
         /\ UnitsOf(T) = UnitsOf(A) + UnitsOf(B) + UnitsOf(C)
         /\ ValueOf(ItemRows(T))
               = ValueOf(ItemRows(A)) + ValueOf(ItemRows(B)) + ValueOf(ItemRows(C))
<1>1. A \subseteq T /\ B \subseteq T /\ C \subseteq T /\ T \subseteq T
  BY DEF Splits
<1>2. IsFiniteSet(T) /\ \A o \in T : o.amount \in Nat
  BY RowsAre
<1>3. AmountOf(T) = AmountOf(A) + AmountOf(B) + AmountOf(C)
  <2> DEFINE f == [o \in T |-> o.amount]
  <2>1. /\ AmountOf(T) = SumFunctionOnSet(f, T)
        /\ AmountOf(A) = SumFunctionOnSet(f, A)
        /\ AmountOf(B) = SumFunctionOnSet(f, B)
        /\ AmountOf(C) = SumFunctionOnSet(f, C)
    BY <1>1, AmountIs
  <2>2. \A o \in T : f[o] \in Nat
    BY <1>2
  <2> HIDE DEF f
  <2>3. SumFunctionOnSet(f, T) = SumFunctionOnSet(f, A) + SumFunctionOnSet(f, B)
                                    + SumFunctionOnSet(f, C)
    BY <1>2, <2>2, SumSplits
  <2> QED
    BY <2>1, <2>3
<1>4. Cardinality(T) = Cardinality(A) + Cardinality(B) + Cardinality(C)
  BY <1>2, CountSplits
<1>5. Splits(ItemRows(T), ItemRows(A), ItemRows(B), ItemRows(C))
  <2>1. ItemRows(T) = ItemRows(A) \cup ItemRows(B) \cup ItemRows(C)
    BY DEF Splits, ItemRows
  <2>2. \A R, S \in SUBSET AllRows : R \cap S = {} => ItemRows(R) \cap ItemRows(S) = {}
    <3> SUFFICES ASSUME NEW R \in SUBSET AllRows, NEW S \in SUBSET AllRows, R \cap S = {},
                        NEW r \in ItemRows(R), r \in ItemRows(S)
                 PROVE  FALSE
      OBVIOUS
    <3>1. r.order \in R /\ r.order \in S
      BY ItemRowsAre
    <3> QED
      BY <3>1
  <2>3. A \in SUBSET AllRows /\ B \in SUBSET AllRows /\ C \in SUBSET AllRows
    BY <1>1
  <2> QED
    BY <2>1, <2>2, <2>3 DEF Splits
<1>6. IsFiniteSet(ItemRows(T)) /\ \A r \in ItemRows(T) : ItemRow(r)
  BY ItemRowsAre
<1>7. UnitsOf(T) = UnitsOf(A) + UnitsOf(B) + UnitsOf(C)
  <2> DEFINE f == [r \in ItemRows(T) |-> r.item.units]
  <2>1. /\ UnitsOf(T) = SumFunctionOnSet(f, ItemRows(T))
        /\ UnitsOf(A) = SumFunctionOnSet(f, ItemRows(A))
        /\ UnitsOf(B) = SumFunctionOnSet(f, ItemRows(B))
        /\ UnitsOf(C) = SumFunctionOnSet(f, ItemRows(C))
    BY <1>1, UnitsAre
  <2>2. \A r \in ItemRows(T) : f[r] \in Nat
    BY <1>6 DEF ItemRow
  <2> HIDE DEF f
  <2> QED
    BY <1>5, <1>6, <2>1, <2>2, SumSplits
<1>8. ValueOf(ItemRows(T)) = ValueOf(ItemRows(A)) + ValueOf(ItemRows(B)) + ValueOf(ItemRows(C))
  <2> DEFINE f == [r \in ItemRows(T) |-> r.item.units * r.item.price]
  <2>1. /\ ValueOf(ItemRows(T)) = SumFunctionOnSet(f, ItemRows(T))
        /\ ValueOf(ItemRows(A)) = SumFunctionOnSet(f, ItemRows(A))
        /\ ValueOf(ItemRows(B)) = SumFunctionOnSet(f, ItemRows(B))
        /\ ValueOf(ItemRows(C)) = SumFunctionOnSet(f, ItemRows(C))
    BY <1>1, ValueIs
  <2>2. \A m, n \in Nat : m * n \in Nat
    OBVIOUS
  <2>3. \A r \in ItemRows(T) : f[r] \in Nat
    BY <1>6, <2>2 DEF ItemRow
  <2> HIDE DEF f
  <2> QED
    BY <1>5, <1>6, <2>1, <2>3, SumSplits
<1> QED
  BY <1>3, <1>4, <1>7, <1>8

\* The rows of a group of the breakdown.
Part(rows, g) == {o \in rows : o.class \in Groups(g)}

LEMMA GroupsAre ==
  /\ Groups("full") = {"FULL"}
  /\ Groups("nonFull") = {"SELLER"}
  /\ Groups("unknown") = {"UNKNOWN"}
  /\ Groups("total") = Classes
  BY DEF Groups

LEMMA PartsSplit ==
  ASSUME NEW rows, rows \subseteq AllRows
  PROVE  /\ Splits(Part(rows, "total"), Part(rows, "full"), Part(rows, "nonFull"),
                   Part(rows, "unknown"))
         /\ \A g \in GroupNames : Part(rows, g) \subseteq rows
<1>1. \A o \in rows : o.class \in {"FULL", "SELLER", "UNKNOWN"}
  BY RowsAre DEF Classes
<1> QED
  BY <1>1, GroupsAre DEF Splits, Part, Classes

LEMMA TotalsOfPart ==
  ASSUME NEW rows, NEW g
  PROVE  LET paid == Part(Where(rows, IsPaid), g)
             cancelled == Part(Where(rows, IsCancelled), g)
             gross == Part(Where(rows, IsGrossSale), g)
         IN  /\ OrderTotals(Part(rows, g)) =
                   [revenue |-> AmountOf(paid), orders |-> Cardinality(paid),
                    cancelled |-> Cardinality(cancelled),
                    cancelledRevenue |-> AmountOf(cancelled),
                    salesRevenue |-> AmountOf(gross), salesOrders |-> Cardinality(gross)]
             /\ ItemTotals(Part(rows, g)).units = UnitsOf(paid)
             /\ ItemTotals(Part(rows, g)).itemsRevenue = ValueOf(ItemRows(paid))
             /\ ItemTotals(Part(rows, g)).cancelledUnits = UnitsOf(cancelled)
             /\ ItemTotals(Part(rows, g)).salesUnits = UnitsOf(gross)
<1>1. /\ Where(Part(rows, g), IsPaid) = Part(Where(rows, IsPaid), g)
      /\ Where(Part(rows, g), IsCancelled) = Part(Where(rows, IsCancelled), g)
      /\ Where(Part(rows, g), IsGrossSale) = Part(Where(rows, IsGrossSale), g)
  BY DEF Part, Where
<1> QED
  BY <1>1 DEF OrderTotals, ItemTotals

OrderFigures ==
    {"revenue", "orders", "cancelled", "cancelledRevenue", "salesRevenue", "salesOrders"}
ItemFigures == {"units", "itemsRevenue", "cancelledUnits", "salesUnits"}

\* What the breakdown shows, of the orders and of their items.
OrdersOfGroups(G) ==
    /\ DOMAIN G["total"] = OrderFigures
    /\ \A f \in OrderFigures : G["total"][f] = G["full"][f] + G["nonFull"][f] + G["unknown"][f]
    /\ \A g \in GroupNames : \A f \in OrderFigures : G[g][f] \in Nat
    /\ \A g \in GroupNames : G[g].orders + G[g].cancelled = 0 => G[g].salesOrders = 0
ItemsOfGroups(G) ==
    \A f \in ItemFigures : G["total"][f] = G["full"][f] + G["nonFull"][f] + G["unknown"][f]

\* The figures of a group are those of its paid, cancelled and gross rows.
LEMMA FiguresOfParts ==
  ASSUME NEW rows, rows \subseteq AllRows
  PROVE  OrdersOfGroups(ByGroup(rows, OrderTotals)) /\ ItemsOfGroups(ByGroup(rows, ItemTotals))
<1> DEFINE paid(g) == Part(Where(rows, IsPaid), g)
           cancelled(g) == Part(Where(rows, IsCancelled), g)
           gross(g) == Part(Where(rows, IsGrossSale), g)
           G == ByGroup(rows, OrderTotals)
           H == ByGroup(rows, ItemTotals)
<1>1. \A g \in GroupNames : G[g] = OrderTotals(Part(rows, g)) /\ H[g] = ItemTotals(Part(rows, g))
  BY DEF ByGroup, Part
<1>2. "full" \in GroupNames /\ "nonFull" \in GroupNames /\ "unknown" \in GroupNames
         /\ "total" \in GroupNames
  BY DEF GroupNames
<1>3. ASSUME NEW g \in GroupNames
      PROVE  /\ DOMAIN G[g] = OrderFigures
             /\ G[g].revenue = AmountOf(paid(g)) /\ G[g].orders = Cardinality(paid(g))
             /\ G[g].cancelled = Cardinality(cancelled(g))
             /\ G[g].cancelledRevenue = AmountOf(cancelled(g))
             /\ G[g].salesRevenue = AmountOf(gross(g)) /\ G[g].salesOrders = Cardinality(gross(g))
  <2>1. G[g] = [revenue |-> AmountOf(paid(g)), orders |-> Cardinality(paid(g)),
                cancelled |-> Cardinality(cancelled(g)),
                cancelledRevenue |-> AmountOf(cancelled(g)),
                salesRevenue |-> AmountOf(gross(g)), salesOrders |-> Cardinality(gross(g))]
    BY <1>1, TotalsOfPart
  <2> HIDE DEF G, paid, cancelled, gross
  <2> QED
    BY <2>1 DEF OrderFigures
<1>4. \A g \in GroupNames :
         /\ H[g].units = UnitsOf(paid(g)) /\ H[g].itemsRevenue = ValueOf(ItemRows(paid(g)))
         /\ H[g].cancelledUnits = UnitsOf(cancelled(g)) /\ H[g].salesUnits = UnitsOf(gross(g))
  BY <1>1, TotalsOfPart
<1>5. /\ Where(rows, IsPaid) \subseteq AllRows
      /\ Where(rows, IsCancelled) \subseteq AllRows
      /\ Where(rows, IsGrossSale) \subseteq AllRows
  BY DEF Where
<1>6. /\ Splits(paid("total"), paid("full"), paid("nonFull"), paid("unknown"))
      /\ Splits(cancelled("total"), cancelled("full"), cancelled("nonFull"), cancelled("unknown"))
      /\ Splits(gross("total"), gross("full"), gross("nonFull"), gross("unknown"))
  BY <1>5, PartsSplit
<1>7. \A g \in GroupNames : /\ paid(g) \subseteq AllRows
                            /\ cancelled(g) \subseteq AllRows
                            /\ gross(g) \subseteq AllRows
  BY <1>5, PartsSplit
<1>8. \A g \in GroupNames : gross(g) \subseteq paid(g) \cup cancelled(g)
  BY DEF Part, Where, IsGrossSale
<1> HIDE DEF paid, cancelled, gross, G, H
<1>9. \A g \in GroupNames :
         /\ AmountOf(paid(g)) \in Nat /\ Cardinality(paid(g)) \in Nat
         /\ AmountOf(cancelled(g)) \in Nat /\ Cardinality(cancelled(g)) \in Nat
         /\ AmountOf(gross(g)) \in Nat /\ Cardinality(gross(g)) \in Nat
  <2>1. ASSUME NEW R, R \subseteq AllRows
        PROVE  AmountOf(R) \in Nat /\ Cardinality(R) \in Nat
    BY <2>1, AmountIs, RowsAre, FS_CardinalityType
  <2> QED
    BY <1>7, <2>1
<1>10. OrdersOfGroups(G)
  <2>1. DOMAIN G["total"] = OrderFigures
    BY <1>2, <1>3 DEF OrderFigures
  <2>2. \A g \in GroupNames : \A f \in OrderFigures : G[g][f] \in Nat
    <3> SUFFICES ASSUME NEW g \in GroupNames, NEW f \in OrderFigures
                 PROVE  G[g][f] \in Nat
      OBVIOUS
    <3> QED
      BY <1>3, <1>9 DEF OrderFigures
  <2>3. \A g \in GroupNames : G[g].orders + G[g].cancelled = 0 => G[g].salesOrders = 0
    <3> SUFFICES ASSUME NEW g \in GroupNames, G[g].orders + G[g].cancelled = 0
                 PROVE  G[g].salesOrders = 0
      OBVIOUS
    <3>1. Cardinality(paid(g)) = 0 /\ Cardinality(cancelled(g)) = 0
      BY <1>3, <1>9
    <3>2. IsFiniteSet(paid(g)) /\ IsFiniteSet(cancelled(g))
      BY <1>7, RowsAre
    <3>3. paid(g) = {} /\ cancelled(g) = {}
      BY <3>1, <3>2, FS_EmptySet
    <3>4. gross(g) = {}
      BY <1>8, <3>3
    <3>5. Cardinality(gross(g)) = 0
      BY <3>4, FS_EmptySet
    <3> QED
      BY <1>3, <3>5
  <2>4. /\ AmountOf(paid("total")) = AmountOf(paid("full")) + AmountOf(paid("nonFull"))
                                        + AmountOf(paid("unknown"))
        /\ Cardinality(paid("total")) = Cardinality(paid("full")) + Cardinality(paid("nonFull"))
                                           + Cardinality(paid("unknown"))
    BY <1>2, <1>6, <1>7, FiguresSplit
  <2>5. /\ AmountOf(cancelled("total")) = AmountOf(cancelled("full"))
                 + AmountOf(cancelled("nonFull")) + AmountOf(cancelled("unknown"))
        /\ Cardinality(cancelled("total")) = Cardinality(cancelled("full"))
                 + Cardinality(cancelled("nonFull")) + Cardinality(cancelled("unknown"))
    BY <1>2, <1>6, <1>7, FiguresSplit
  <2>6. /\ AmountOf(gross("total")) = AmountOf(gross("full")) + AmountOf(gross("nonFull"))
                                         + AmountOf(gross("unknown"))
        /\ Cardinality(gross("total")) = Cardinality(gross("full")) + Cardinality(gross("nonFull"))
                                            + Cardinality(gross("unknown"))
    BY <1>2, <1>6, <1>7, FiguresSplit
  <2>7. \A f \in OrderFigures :
           G["total"][f] = G["full"][f] + G["nonFull"][f] + G["unknown"][f]
    BY <1>2, <1>3, <2>4, <2>5, <2>6 DEF OrderFigures
  <2> QED
    BY <2>1, <2>2, <2>3, <2>7 DEF OrdersOfGroups
<1>11. ItemsOfGroups(H)
  <2>1. /\ UnitsOf(paid("total")) = UnitsOf(paid("full")) + UnitsOf(paid("nonFull"))
                                       + UnitsOf(paid("unknown"))
        /\ ValueOf(ItemRows(paid("total"))) = ValueOf(ItemRows(paid("full")))
                 + ValueOf(ItemRows(paid("nonFull"))) + ValueOf(ItemRows(paid("unknown")))
    BY <1>2, <1>6, <1>7, FiguresSplit
  <2>2. UnitsOf(cancelled("total")) = UnitsOf(cancelled("full")) + UnitsOf(cancelled("nonFull"))
                                         + UnitsOf(cancelled("unknown"))
    BY <1>2, <1>6, <1>7, FiguresSplit
  <2>3. UnitsOf(gross("total")) = UnitsOf(gross("full")) + UnitsOf(gross("nonFull"))
                                     + UnitsOf(gross("unknown"))
    BY <1>2, <1>6, <1>7, FiguresSplit
  <2> QED
    BY <1>2, <1>4, <2>1, <2>2, <2>3 DEF ItemsOfGroups, ItemFigures
<1> QED
  BY <1>10, <1>11 DEF G, H

LEMMA ThreePositive ==
  ASSUME NEW a \in Nat, NEW b \in Nat, NEW c \in Nat
  PROVE  a + b + c > 0 <=> (a > 0 \/ b > 0 \/ c > 0)
  OBVIOUS

\* From these facts, what is checked of an answer.
LEMMA GroupsToPartition ==
  ASSUME Answered("groups") => OrdersOfGroups(answer["groups"]),
         Answered("groupItems") => ItemsOfGroups(answer["groupItems"])
  PROVE  GroupsPartition
<1>1. ASSUME Answered("groups")
      PROVE  /\ \A f \in DOMAIN answer.groups["total"] :
                   answer.groups["total"][f] = answer.groups["full"][f]
                       + answer.groups["nonFull"][f] + answer.groups["unknown"][f]
             /\ FullCoverage = "complete" => ~HasGroupData("unknown")
             /\ HasGroupData("total") <=> \E g \in GroupNames \ {"total"} : HasGroupData(g)
  <2> DEFINE G == answer["groups"]
  <2>1. OrdersOfGroups(G)
    BY <1>1
  <2> HIDE DEF G
  <2>2. G = answer.groups
    BY DEF G
  <2>3. \A g \in GroupNames : /\ G[g].orders \in Nat /\ G[g].cancelled \in Nat
                              /\ G[g].salesOrders \in Nat
    BY <2>1 DEF OrdersOfGroups, OrderFigures
  <2>4. FullCoverage = "complete" => ~HasGroupData("unknown")
    <3> SUFFICES ASSUME FullCoverage = "complete"
                 PROVE  ~HasGroupData("unknown")
      OBVIOUS
    <3>1. RawOrderCount("unknown") = 0
      BY DEF FullCoverage
    <3>2. G["unknown"].orders + G["unknown"].cancelled = 0
      BY <2>2, <3>1 DEF RawOrderCount
    <3>3. G["unknown"].cancelled = 0 /\ G["unknown"].salesOrders = 0
      BY <2>1, <2>3, <3>2 DEF OrdersOfGroups, GroupNames
    <3> QED
      BY <2>2, <3>3 DEF HasGroupData
  <2>5. /\ G["total"].salesOrders = G["full"].salesOrders + G["nonFull"].salesOrders
                                       + G["unknown"].salesOrders
        /\ G["total"].cancelled = G["full"].cancelled + G["nonFull"].cancelled
                                     + G["unknown"].cancelled
    BY <2>1 DEF OrdersOfGroups, OrderFigures
  <2>6. HasGroupData("total") <=> \E g \in {"full", "nonFull", "unknown"} : HasGroupData(g)
    <3>1. \A g : HasGroupData(g) <=> G[g].salesOrders > 0 \/ G[g].cancelled > 0
      BY <2>2 DEF HasGroupData
    <3>2. /\ G["full"].salesOrders \in Nat /\ G["full"].cancelled \in Nat
          /\ G["nonFull"].salesOrders \in Nat /\ G["nonFull"].cancelled \in Nat
          /\ G["unknown"].salesOrders \in Nat /\ G["unknown"].cancelled \in Nat
      BY <2>3 DEF GroupNames
    <3>3. G["total"].salesOrders > 0 <=>
             \/ G["full"].salesOrders > 0 \/ G["nonFull"].salesOrders > 0
             \/ G["unknown"].salesOrders > 0
      BY <2>5, <3>2, ThreePositive
    <3>4. G["total"].cancelled > 0 <=>
             G["full"].cancelled > 0 \/ G["nonFull"].cancelled > 0 \/ G["unknown"].cancelled > 0
      BY <2>5, <3>2, ThreePositive
    <3> QED
      BY <3>1, <3>3, <3>4
  <2>7. GroupNames \ {"total"} = {"full", "nonFull", "unknown"}
    BY DEF GroupNames
  <2> QED
    BY <2>1, <2>2, <2>4, <2>6, <2>7 DEF OrdersOfGroups
<1>2. ASSUME Answered("groupItems")
      PROVE  \A f \in {"units", "itemsRevenue", "cancelledUnits", "salesUnits"} :
                answer.groupItems["total"][f] = answer.groupItems["full"][f]
                    + answer.groupItems["nonFull"][f] + answer.groupItems["unknown"][f]
  BY <1>2 DEF ItemsOfGroups, ItemFigures
<1> QED
  BY <1>1, <1>2 DEF GroupsPartition

\* A sum of money is nothing only if every summand is.
LEMMA NothingSummed ==
  ASSUME NEW rows, rows \subseteq AllRows
  PROVE  AmountOf(rows) = 0 <=> \A o \in rows : o.amount = 0
<1> DEFINE f == [o \in rows |-> o.amount]
<1>1. IsFiniteSet(rows) /\ \A o \in rows : f[o] \in Nat /\ f[o] = o.amount
  BY RowsAre
<1>2. AmountOf(rows) = SumFunctionOnSet(f, rows)
  BY AmountIs
<1> HIDE DEF f
<1>3. ASSUME AmountOf(rows) = 0, NEW o \in rows
      PROVE  o.amount = 0
  <2>1. f[o] <= SumFunctionOnSet(f, rows)
    BY <1>1, SummandBelow
  <2> QED
    BY <1>1, <1>2, <1>3, <2>1
<1>4. ASSUME \A o \in rows : o.amount = 0
      PROVE  AmountOf(rows) = 0
  <2> DEFINE B == {T \in SUBSET rows : SumFunctionOnSet(f, T) # 0}
  <2> SUFFICES ASSUME B # {} PROVE FALSE
    BY <1>2
  <2>1. Family(B, rows)
    BY DEF Family
  <2>2. PICK T : Innermost(T, B)
    <3> HIDE DEF B
    <3> QED
      BY <1>1, <2>1, InnermostExists
  <2>3. /\ T \in SUBSET rows /\ SumFunctionOnSet(f, T) # 0
        /\ \A U \in B : ~(U \subseteq T /\ U # T)
    BY <2>2 DEF Innermost
  <2>4. IsFiniteSet(T) /\ T # {}
    BY <1>1, <2>3, FS_Subset, SumOfNothing
  <2>5. Some(T) \in T /\ T \ {Some(T)} # T
    BY <2>4, OneLess
  <2>6. SumFunctionOnSet(f, T) = f[Some(T)] + SumFunctionOnSet(f, T \ {Some(T)})
    BY <2>4, SumStep
  <2>7. SumFunctionOnSet(f, T \ {Some(T)}) = 0
    BY <2>3, <2>5
  <2>8. f[Some(T)] = 0
    BY <1>1, <1>4, <2>3, <2>5
  <2> QED
    BY <2>3, <2>6, <2>7, <2>8
<1> QED
  BY <1>3, <1>4

\* The index of an order of a window of whole days is that of its day.
LEMMA IndexOfDay ==
  ASSUME NEW f \in Int, NEW at \in Int, NEW w, w[1] = InstantOf(f)
  PROVE  DayIndex(at, w) = DayOf(at) - f
<1>1. PICK D \in Nat \ {0} : D = DayLength
  BY CalendarAssumption
<1>2. SpOffset \in Int /\ InstantOf(f) \in Int
  BY CalendarAssumption, InstantOfDay
<1>3. PICK x \in Int : x = at - SpOffset
  BY <1>2
<1>4. PICK q \in Int : q = x \div D /\ D * q <= x /\ x < D * (q + 1)
  BY <1>1, QuotientBounds
<1>5. PICK n \in Int : n = q - f
  OBVIOUS
<1>6. q = f + n
  BY <1>5
<1>7. PICK y \in Int : y = D * f
  BY <1>1, ProductsGrow
<1>8. /\ D * q = y + D * n /\ D * (q + 1) = y + D * (n + 1)
      /\ D * n \in Int /\ D * (n + 1) \in Int
  <2>1. D * (f + n) = D * f + D * n
    BY <1>1
  <2>2. f + n + 1 = f + (n + 1) /\ n + 1 \in Int
    OBVIOUS
  <2>3. D * (f + (n + 1)) = D * f + D * (n + 1)
    BY <1>1, <2>2
  <2>4. D * n \in Int /\ D * (n + 1) \in Int
    BY <1>1, <2>2, ProductsGrow
  <2> QED
    BY <1>6, <1>7, <2>1, <2>2, <2>3, <2>4
<1>9. x - y \in Int /\ D * n <= x - y /\ x - y < D * (n + 1)
  BY <1>4, <1>7, <1>8
<1>10. (x - y) \div D = n
  BY <1>1, <1>9, QuotientIs
<1>11. at - w[1] = x - y
  BY <1>1, <1>2, <1>3, <1>7 DEF InstantOf
<1>12. DayOf(at) = q
  BY <1>1, <1>3, <1>4 DEF DayOf
<1> QED
  BY <1>1, <1>5, <1>10, <1>11, <1>12 DEF DayIndex

LEMMA DaysAre ==
  ASSUME NEW f \in Int, NEW t \in Int
  PROVE  DaysInWindow(InstantOf(f), InstantOf(t + 1)) = [k \in 1..(t + 1 - f) |-> f + k - 1]
<1>1. t + 1 \in Int /\ t + 1 - f \in Int
  OBVIOUS
<1>2. RoundedDays(InstantOf(t + 1) - InstantOf(f)) = t + 1 - f
  BY <1>1, SpanOfDays, RoundedIsExact
<1>3. DayOf(InstantOf(f)) = f
  BY InstantOfDay
<1> QED
  BY <1>2, <1>3 DEF DaysInWindow

\* The points of the series of a window of whole days: each has its day, and
\* the sales of that day; every sale is in one of them.
PointsByDay(rows, days, points, Days) ==
    /\ DOMAIN days = Days /\ DOMAIN points = Days
    /\ \A k \in Days :
          /\ points[k].revenue = AmountOf({o \in rows : IsPaid(o) /\ DayOf(o.at) = days[k]})
          /\ points[k].revenue \in Nat
    /\ \A o \in Where(rows, IsPaid) : \E k \in Days : o.amount <= points[k].revenue
    /\ AmountOf(Where(rows, IsPaid)) = 0 => \A k \in Days : points[k].revenue = 0

LEMMA SeriesIsByDay ==
  ASSUME NEW f \in Int, NEW t \in Int, NEW rows, rows \subseteq AllRows,
         \A o \in rows : InstantOf(f) <= o.at /\ o.at < InstantOf(t + 1),
         NEW w, w = <<InstantOf(f), InstantOf(t + 1)>>
  PROVE  PointsByDay(rows, DaysInWindow(w[1], w[2]), OrderSeries(rows, w), 1..(t + 1 - f))
<1> DEFINE days == DaysInWindow(w[1], w[2])
           points == OrderSeries(rows, w)
           Days == 1..(t + 1 - f)
           ofDay(k) == {o \in rows : IsPaid(o) /\ DayOf(o.at) = f + k - 1}
<1>1. days = [k \in Days |-> f + k - 1]
  <2>1. w[1] = InstantOf(f) /\ w[2] = InstantOf(t + 1)
    OBVIOUS
  <2> QED
    BY <2>1, DaysAre
<1>2. \A o \in rows : o.at \in Int /\ DayIndex(o.at, w) = DayOf(o.at) - f
  BY RowsAre, IndexOfDay
<1>3. DOMAIN points = Days
  <2>1. DOMAIN days = Days
    BY <1>1
  <2> HIDE DEF Days
  <2> QED
    BY <2>1 DEF OrderSeries
<1>4. \A k \in Days : ofDay(k) \subseteq AllRows /\ ofDay(k) \subseteq rows
  OBVIOUS
<1>5. \A k \in Days : points[k].revenue = AmountOf(ofDay(k))
  <2> SUFFICES ASSUME NEW k \in Days
               PROVE  points[k].revenue = AmountOf(ofDay(k))
    OBVIOUS
  <2>1. points[k].revenue
           = AmountOf(Where({o \in rows : DayIndex(o.at, w) = k - 1}, IsPaid))
    BY <1>1 DEF OrderSeries
  <2>2. \A o \in rows : DayOf(o.at) \in Int
    BY <1>2, DayOfInstant
  <2>3. \A o \in rows : DayIndex(o.at, w) = k - 1 <=> DayOf(o.at) = f + k - 1
    BY <1>2, <2>2
  <2>4. Where({o \in rows : DayIndex(o.at, w) = k - 1}, IsPaid) = ofDay(k)
    BY <2>3 DEF Where
  <2> QED
    BY <2>1, <2>4
<1>6. \A k \in Days : points[k].revenue \in Nat
  BY <1>4, <1>5, AmountIs
<1>7. ASSUME NEW o \in Where(rows, IsPaid)
      PROVE  \E k \in Days : o.amount <= points[k].revenue
  <2>1. o \in rows /\ IsPaid(o) /\ o.at \in Int
    BY <1>2 DEF Where
  <2>2. /\ DayOf(o.at) \in Int
        /\ InstantOf(DayOf(o.at)) <= o.at /\ o.at < InstantOf(DayOf(o.at) + 1)
    BY <2>1, DayOfInstant
  <2> DEFINE d == DayOf(o.at)
  <2>3. d \in Int /\ d + 1 \in Int /\ t + 1 \in Int
    BY <2>2
  <2>4. /\ InstantOf(d) \in Int /\ InstantOf(d + 1) \in Int /\ InstantOf(f) \in Int
        /\ InstantOf(t + 1) \in Int
        /\ d + 1 <= f <=> InstantOf(d + 1) <= InstantOf(f)
        /\ t + 1 <= d <=> InstantOf(t + 1) <= InstantOf(d)
    BY <2>3, InstantOfDay
  <2>5. f <= d /\ d <= t
    BY <2>1, <2>2, <2>3, <2>4
  <2> HIDE DEF d
  <2>6. PICK k \in Days : d = f + k - 1
    <3>1. d - f + 1 \in Days /\ d = f + (d - f + 1) - 1
      BY <2>3, <2>5
    <3> QED
      BY <3>1
  <2>7. o \in ofDay(k)
    BY <2>1, <2>6 DEF d
  <2>8. AmountOf(ofDay(k)) = SumFunctionOnSet([p \in rows |-> p.amount], ofDay(k))
    BY <1>4, AmountIs
  <2>9. /\ IsFiniteSet(ofDay(k))
        /\ \A p \in ofDay(k) : [q \in rows |-> q.amount][p] \in Nat
    BY <1>4, RowsAre
  <2>10. [q \in rows |-> q.amount][o] = o.amount
    BY <2>1
  <2>11. o.amount <= AmountOf(ofDay(k))
    BY <2>7, <2>8, <2>9, <2>10, SummandBelow
  <2> QED
    BY <1>5, <2>11
<1>8. ASSUME AmountOf(Where(rows, IsPaid)) = 0, NEW k \in Days
      PROVE  points[k].revenue = 0
  <2>1. Where(rows, IsPaid) \subseteq AllRows /\ ofDay(k) \subseteq Where(rows, IsPaid)
    BY DEF Where
  <2>2. \A o \in Where(rows, IsPaid) : o.amount = 0
    BY <1>8, <2>1, NothingSummed
  <2>3. AmountOf(ofDay(k)) = 0
    BY <1>4, <2>1, <2>2, NothingSummed
  <2> QED
    BY <1>5, <2>3
<1> QED
  <2>1. \A k \in Days : ofDay(k) = {o \in rows : IsPaid(o) /\ DayOf(o.at) = days[k]}
    BY <1>1
  <2>2. DOMAIN days = Days
    BY <1>1
  <2>3. PointsByDay(rows, days, points, Days)
    <3> HIDE DEF ofDay, days, points, Days
    <3> QED
      BY <1>3, <1>5, <1>6, <1>7, <1>8, <2>1, <2>2 DEF PointsByDay
  <2> QED
    BY <2>3

\* Among finitely many figures, a positive one means that one is best.
LEMMA BestExists ==
  ASSUME NEW n \in Int, NEW r, \A k \in 1..n : r[k] \in Nat,
         NEW i \in 1..n, r[i] > 0
  PROVE  \E k \in 1..n : /\ r[k] > 0
                         /\ \A j \in 1..n : r[j] <= r[k] /\ (j < k => r[j] < r[k])
<1> DEFINE Days == 1..n
           f == [k \in Days |-> r[k]]
           R == {f[k] : k \in Days}
<1>1. Days \subseteq Int /\ IsFiniteSet(Days)
  BY FS_Interval
<1>2. \A k \in Days : f[k] = r[k] /\ f[k] \in Nat
  OBVIOUS
<1>3. f \in Surjection(Days, R)
  BY DEF Surjection
<1>4. IsFiniteSet(R)
  <2> HIDE DEF Days, f, R
  <2> QED
    BY <1>1, <1>3, FS_Surjection
<1>5. R \in SUBSET Int /\ R # {} /\ \A k \in Days : r[k] \in R
  <2> HIDE DEF Days, f
  <2>1. i \in Days
    BY DEF Days
  <2>2. \A x \in R : x \in Int
    BY <1>2
  <2>3. \A k \in Days : r[k] \in R
    BY <1>2
  <2> QED
    BY <2>1, <2>2, <2>3
<1>6. PICK m \in R : \A x \in R : x <= m
  <2> HIDE DEF R
  <2> QED
    BY <1>4, <1>5, Greatest
<1> DEFINE K == {k \in Days : r[k] = m}
<1>7. K \in SUBSET Int /\ IsFiniteSet(K) /\ K # {}
  <2>1. K \subseteq Days
    OBVIOUS
  <2>2. K # {}
    <3> HIDE DEF Days, f
    <3> QED
      BY <1>2, <1>6
  <2> HIDE DEF K, Days
  <2> QED
    BY <1>1, <2>1, <2>2, FS_Subset
<1>8. PICK k \in K : \A j \in K : k <= j
  <2> HIDE DEF K
  <2> QED
    BY <1>7, Least
<1>9. k \in Days /\ r[k] = m /\ m \in Int
  BY <1>5, <1>6, <1>8
<1>10. \A j \in Days : r[j] <= m /\ (r[j] = m => k <= j)
  <2> SUFFICES ASSUME NEW j \in Days PROVE r[j] <= m /\ (r[j] = m => k <= j)
    OBVIOUS
  <2>1. r[j] \in R
    BY <1>5
  <2> HIDE DEF R
  <2> QED
    BY <1>6, <1>8, <2>1
<1>11. r[i] <= m
  BY <1>10
<1>12. \A j \in Days : r[j] <= r[k] /\ (j < k => r[j] < r[k])
  <2> SUFFICES ASSUME NEW j \in Days PROVE r[j] <= r[k] /\ (j < k => r[j] < r[k])
    OBVIOUS
  <2>1. r[j] \in Int /\ j \in Int /\ k \in Int
    BY <1>2, <1>9
  <2> HIDE DEF Days, R, K
  <2> QED
    BY <1>9, <1>10, <2>1
<1>13. r[k] > 0
  BY <1>9, <1>11
<1> QED
  BY <1>9, <1>12, <1>13

\* The orders seen are rows, in the window of the request.
LEMMA SeenAre ==
  ASSUME AnalyticsTypeOK, NEW w, NEW kept
  PROVE  /\ SeenRows(w, kept) \subseteq AllRows
         /\ \A o \in SeenRows(w, kept) : w[1] <= o.at /\ o.at < w[2]
  BY DEF AnalyticsTypeOK, SeenRows, Select, AllRows

\* What makes the answer true: the accounts and the window are known before
\* the rest is asked, and until something is written each statement still
\* answers what it answered.
BegunFirst == DOMAIN answer \ {"history", "range"} # {} => AllAnswered(Beginning)
GroupsAddUp ==
    /\ Answered("groups") => OrdersOfGroups(answer["groups"])
    /\ Answered("groupItems") => ItemsOfGroups(answer["groupItems"])
CurrencyFirst == Answered("totals") => Answered("currency")
CurrencyIsOne == ~disturbed /\ Answered("currency") => ~Mixed(CurrenciesOf(SeenInScope))
SeriesOf(rows, w) == [days |-> DaysInWindow(w[1], w[2]), orders |-> OrderSeries(rows, w)]
SeriesIsSeen ==
    ~disturbed /\ Answered("series") =>
        answer["series"] = SeriesOf(SeenInScope, CurrentWindow)

AnalyticsIInv ==
    /\ AnalyticsTypeOK /\ BegunFirst /\ GroupsAddUp /\ CurrencyFirst /\ CurrencyIsOne
    /\ SeriesIsSeen

LEMMA AnalyticsStart == AnalyticsInit => AnalyticsIInv
<1> SUFFICES ASSUME AnalyticsInit PROVE AnalyticsIInv
  OBVIOUS
<1>1. DOMAIN answer = {}
  BY DEF AnalyticsInit
<1>2. \A q : ~Answered(q)
  BY <1>1 DEF Answered
<1>3. AnalyticsTypeOK
  <2>1. \A o, p \in FirstOrders : o.id = p.id => o = p
    BY OrdersAssumption
  <2>2. 0 \in 0..MaxCommits
    BY AnalyticsAssumption
  <2> QED
    BY <2>1, <2>2 DEF AnalyticsInit, AnalyticsTypeOK
<1> QED
  BY <1>1, <1>2, <1>3
  DEF AnalyticsIInv, BegunFirst, GroupsAddUp, CurrencyFirst, CurrencyIsOne, SeriesIsSeen

\* A reply that is true keeps the answer true.
LEMMA ReplyKeeps ==
  ASSUME AnalyticsIInv, NEW q, ~Answered(q), NEW v, Reply(q, v),
         q \in Beginning \/ AllAnswered(Beginning),
         q = "groups" => OrdersOfGroups(v),
         q = "groupItems" => ItemsOfGroups(v),
         q = "totals" => Answered("currency"),
         q = "currency" => ~Mixed(CurrenciesOf(SeenInScope)),
         q = "series" => v = SeriesOf(SeenInScope, CurrentWindow)
  PROVE  AnalyticsIInv'
<1>1. /\ DOMAIN answer' = DOMAIN answer \cup {q} /\ answer'[q] = v
      /\ \A k \in DOMAIN answer : k # q /\ answer'[k] = answer[k]
      /\ orderTable' = orderTable /\ filter' = filter /\ panels' = panels
      /\ commits' = commits /\ disturbed' = disturbed
  BY DEF Reply, Answered
<1>2. AnalyticsTypeOK'
  BY <1>1 DEF AnalyticsIInv, AnalyticsTypeOK
<1>3. \A k : Answered(k)' <=> Answered(k) \/ k = q
  BY <1>1 DEF Answered
<1>4. Beginning' = Beginning /\ Beginning \subseteq {"history", "range"}
  BY <1>1 DEF Beginning
<1>5. CASE ~AllAnswered(Beginning)
  <2>1. q \in {"history", "range"} /\ DOMAIN answer \subseteq {"history", "range"}
    BY <1>4, <1>5 DEF AnalyticsIInv, BegunFirst
  <2>2. DOMAIN answer' \subseteq {"history", "range"}
    BY <1>1, <2>1
  <2>3. \A k : Answered(k)' => k \in {"history", "range"}
    BY <2>2 DEF Answered
  <2> QED
    BY <1>2, <2>2, <2>3
    DEF AnalyticsIInv, BegunFirst, GroupsAddUp, CurrencyFirst, CurrencyIsOne, SeriesIsSeen
<1>6. CASE AllAnswered(Beginning)
  <2>1. AllAnswered(Beginning)'
    BY <1>1, <1>4, <1>6 DEF AllAnswered
  <2>2. "history" \in DOMAIN answer /\ (filter.allTime => "range" \in DOMAIN answer)
    BY <1>6 DEF AllAnswered, Beginning
  <2>3. answer'["history"] = answer["history"]
        /\ (filter.allTime => answer'["range"] = answer["range"])
    BY <1>1, <2>2
  <2>4. CurrentWindow' = CurrentWindow
    BY <1>1, <2>3 DEF CurrentWindow
  <2>5. SeenInScope' = SeenInScope
    BY <1>1, <2>3, <2>4
    DEF SeenInScope, SeenRows, Select, ScopedAccounts, ClassifiedAccounts, ClassesOf
  <2>6. GroupsAddUp'
    BY <1>1, <1>3 DEF AnalyticsIInv, GroupsAddUp, Answered
  <2>7. CurrencyFirst'
    BY <1>3 DEF AnalyticsIInv, CurrencyFirst
  <2>8. CurrencyIsOne'
    <3> SUFFICES ASSUME disturbed' = FALSE, Answered("currency")'
                 PROVE  ~Mixed(CurrenciesOf(SeenInScope))'
      BY <1>2 DEF CurrencyIsOne, AnalyticsTypeOK
    <3>1. ~Mixed(CurrenciesOf(SeenInScope))
      BY <1>1, <1>3 DEF AnalyticsIInv, CurrencyIsOne
    <3> QED
      BY <2>5, <3>1
  <2>9. SeriesIsSeen'
    <3> SUFFICES ASSUME ~disturbed', Answered("series")'
                 PROVE  answer'["series"] = SeriesOf(SeenInScope, CurrentWindow)'
      BY DEF SeriesIsSeen
    <3>1. answer'["series"] = SeriesOf(SeenInScope, CurrentWindow)
      BY <1>1, <1>3 DEF AnalyticsIInv, SeriesIsSeen, Answered
    <3>2. SeriesOf(SeenInScope, CurrentWindow)' = SeriesOf(SeenInScope, CurrentWindow)
      BY <2>4, <2>5
    <3> QED
      BY <3>1, <3>2
  <2> QED
    BY <1>2, <2>1, <2>6, <2>7, <2>8, <2>9 DEF AnalyticsIInv, BegunFirst
<1> QED
  BY <1>5, <1>6

LEMMA StatementsAre ==
  /\ Statements("totals") = <<"currency", "totals", "totalItems">>
  /\ Statements("previous") = <<"previousCurrency", "previousTotals", "previousItems">>
  /\ Statements("groups") = <<"groups", "groupItems">>
  /\ \A p : p \notin {"totals", "previous", "groups"} => Statements(p) = <<p>>
  BY DEF Statements

\* Nothing of a part is asked before the accounts and the window are known.
LEMMA OpenIsBegun ==
  ASSUME AnalyticsIInv, NEW p, Open(p)
  PROVE  AllAnswered(Beginning)
<1>1. "accountOrders" \in DOMAIN answer
  BY DEF Open, AllAnswered, AccountPart
<1> QED
  BY <1>1 DEF AnalyticsIInv, BegunFirst

\* An order that is written touches no answer, and from then on nothing is
\* promised of the answers given before.
LEMMA CommitKeeps ==
  ASSUME AnalyticsIInv, CommitOrder
  PROVE  AnalyticsIInv'
<1>1. PICK o \in NewOrders \ orderTable : orderTable' = {p \in orderTable : p.id # o.id} \cup {o}
  BY DEF CommitOrder
<1>2. /\ commits < MaxCommits /\ commits' = commits + 1
      /\ disturbed' = (disturbed \/ DOMAIN answer # {})
      /\ filter' = filter /\ panels' = panels /\ answer' = answer
  BY DEF CommitOrder
<1>3. AnalyticsTypeOK'
  <2>1. orderTable' \subseteq FirstOrders \cup NewOrders
    BY <1>1 DEF AnalyticsIInv, AnalyticsTypeOK
  <2>2. \A x, y \in orderTable' : x.id = y.id => x = y
    BY <1>1 DEF AnalyticsIInv, AnalyticsTypeOK
  <2>3. commits' \in 0..MaxCommits
    BY <1>2, AnalyticsAssumption DEF AnalyticsIInv, AnalyticsTypeOK
  <2>4. disturbed' \in BOOLEAN
    BY <1>2
  <2> QED
    BY <1>2, <2>1, <2>2, <2>3, <2>4 DEF AnalyticsIInv, AnalyticsTypeOK
<1>4. ~disturbed' => DOMAIN answer = {}
  BY <1>2
<1>5. ~disturbed' => \A q : ~Answered(q)'
  BY <1>2, <1>4 DEF Answered
<1> QED
  BY <1>2, <1>3, <1>5
  DEF AnalyticsIInv, BegunFirst, GroupsAddUp, CurrencyFirst, CurrencyIsOne, SeriesIsSeen,
      Answered, AllAnswered, Beginning

LEMMA AnalyticsKeeps == AnalyticsIInv /\ [AnalyticsNext]_analyticsVars => AnalyticsIInv'
<1> SUFFICES ASSUME AnalyticsIInv, [AnalyticsNext]_analyticsVars PROVE AnalyticsIInv'
  OBVIOUS
<1>1. CASE AskHistory
  <2>1. ~Answered("history") /\ "history" \in Beginning
    BY <1>1 DEF AskHistory, Beginning
  <2> QED
    BY <1>1, <2>1, ReplyKeeps DEF AskHistory
<1>2. CASE AskRange
  <2>1. ~Answered("range") /\ "range" \in Beginning
    BY <1>2 DEF AskRange, Beginning
  <2> QED
    BY <1>2, <2>1, ReplyKeeps DEF AskRange
<1>3. CASE AskAccountOrders
  BY <1>3, ReplyKeeps DEF AskAccountOrders
<1>4. CASE AskAccountItems
  BY <1>4, ReplyKeeps DEF AskAccountItems
<1>5. ASSUME NEW p \in Panels, AskCurrency(p)
      PROVE  AnalyticsIInv'
  <2> DEFINE found == CurrenciesOf(IF p = "totals" THEN SeenInScope ELSE SeenBefore)
             q == IF Mixed(found) THEN "mismatch" ELSE Statements(p)[1]
  <2>1. p \in {"totals", "previous"} /\ MayAsk(p, 1) /\ Reply(q, found)
    BY <1>5 DEF AskCurrency
  <2>2. Open(p) /\ ~Answered("mismatch") /\ ~Answered(Statements(p)[1])
    BY <2>1 DEF MayAsk, Open
  <2>3. AllAnswered(Beginning)
    BY <2>2, OpenIsBegun
  <2>4. q \in {"mismatch", "currency", "previousCurrency"}
        /\ (q = "currency" => p = "totals" /\ ~Mixed(found))
    BY <2>1, StatementsAre
  <2>5. ~Answered(q)
    BY <2>2
  <2>6. q = "currency" => ~Mixed(CurrenciesOf(SeenInScope))
    BY <2>4
  <2> HIDE DEF found, q
  <2> QED
    BY <2>1, <2>3, <2>4, <2>5, <2>6, ReplyKeeps
<1>6. ASSUME NEW p \in Panels, AskTotals(p)
      PROVE  AnalyticsIInv'
  <2>1. p \in {"totals", "previous"} /\ MayAsk(p, 2)
        /\ \E v : Reply(Statements(p)[2], v)
    BY <1>6 DEF AskTotals
  <2>2. Open(p) /\ ~Answered(Statements(p)[2]) /\ Answered(Statements(p)[1])
    BY <2>1 DEF MayAsk
  <2>3. AllAnswered(Beginning)
    BY <2>2, OpenIsBegun
  <2>4. Statements(p)[2] \in {"totals", "previousTotals"}
        /\ (Statements(p)[2] = "totals" => Statements(p)[1] = "currency")
    BY <2>1, StatementsAre
  <2> QED
    BY <2>1, <2>2, <2>3, <2>4, ReplyKeeps
<1>7. ASSUME NEW p \in Panels, AskTotalItems(p)
      PROVE  AnalyticsIInv'
  <2>1. p \in {"totals", "previous"} /\ MayAsk(p, 3)
        /\ \E v : Reply(Statements(p)[3], v)
    BY <1>7 DEF AskTotalItems
  <2>2. Open(p) /\ ~Answered(Statements(p)[3])
    BY <2>1 DEF MayAsk
  <2>3. AllAnswered(Beginning)
    BY <2>2, OpenIsBegun
  <2>4. Statements(p)[3] \in {"totalItems", "previousItems"}
    BY <2>1, StatementsAre
  <2> QED
    BY <2>1, <2>2, <2>3, <2>4, ReplyKeeps
<1>8. ASSUME NEW p \in Panels, AskSeries(p)
      PROVE  AnalyticsIInv'
  <2>1. p \in {"series", "fullSeries"} /\ MayAsk(p, 1)
        /\ Reply(p, SeriesOf(SeriesRows(p), CurrentWindow))
    BY <1>8 DEF AskSeries, SeriesPanels, SeriesOf
  <2>2. Open(p) /\ ~Answered(p)
    BY <2>1, StatementsAre DEF MayAsk
  <2>3. AllAnswered(Beginning)
    BY <2>2, OpenIsBegun
  <2>4. p = "series" => SeriesRows(p) = SeenInScope
    BY DEF SeriesRows
  <2> QED
    BY <2>1, <2>2, <2>3, <2>4, ReplyKeeps
<1>9. ASSUME NEW p \in Panels, AskSeriesUnits(p)
      PROVE  AnalyticsIInv'
  <2>1. Open(p) /\ ~Answered(UnitsKey(p)) /\ \E v : Reply(UnitsKey(p), v)
    BY <1>9 DEF AskSeriesUnits
  <2>2. UnitsKey(p) \in {"seriesUnits", "fullSeriesUnits"}
    BY DEF UnitsKey
  <2>3. AllAnswered(Beginning)
    BY <2>1, OpenIsBegun
  <2> QED
    BY <2>1, <2>2, <2>3, ReplyKeeps
<1>10. ASSUME NEW p \in Panels, AskRanking(p)
       PROVE  AnalyticsIInv'
  <2>1. p \in {"skus", "listings", "fullRanking"} /\ MayAsk(p, 1) /\ \E v : Reply(p, v)
    BY <1>10 DEF AskRanking
  <2>2. Open(p) /\ ~Answered(p)
    BY <2>1, StatementsAre DEF MayAsk
  <2>3. AllAnswered(Beginning)
    BY <2>2, OpenIsBegun
  <2> QED
    BY <2>1, <2>2, <2>3, ReplyKeeps
<1> DEFINE seen == SeenRows(CurrentWindow, Classes)
<1>11. OrdersOfGroups(ByGroup(seen, OrderTotals)) /\ ItemsOfGroups(ByGroup(seen, ItemTotals))
  <2>1. seen \subseteq AllRows
    BY SeenAre DEF AnalyticsIInv
  <2> HIDE DEF seen
  <2> QED
    BY <2>1, FiguresOfParts
<1>12. CASE AskGroups
  <2>1. MayAsk("groups", 1) /\ Reply("groups", ByGroup(seen, OrderTotals))
    BY <1>12 DEF AskGroups
  <2>2. Open("groups") /\ ~Answered("groups")
    BY <2>1, StatementsAre DEF MayAsk
  <2>3. AllAnswered(Beginning)
    BY <2>2, OpenIsBegun
  <2> HIDE DEF seen
  <2> QED
    BY <1>11, <2>1, <2>2, <2>3, ReplyKeeps
<1>13. CASE AskGroupItems
  <2>1. MayAsk("groups", 2) /\ Reply("groupItems", ByGroup(seen, ItemTotals))
    BY <1>13 DEF AskGroupItems
  <2>2. Open("groups") /\ ~Answered("groupItems")
    BY <2>1, StatementsAre DEF MayAsk
  <2>3. AllAnswered(Beginning)
    BY <2>2, OpenIsBegun
  <2> HIDE DEF seen
  <2> QED
    BY <1>11, <2>1, <2>2, <2>3, ReplyKeeps
<1>14. CASE CommitOrder
  BY <1>14, CommitKeeps
<1>15. CASE UNCHANGED analyticsVars
  <2>1. /\ orderTable' = orderTable /\ filter' = filter /\ panels' = panels /\ answer' = answer
        /\ commits' = commits /\ disturbed' = disturbed
    BY <1>15 DEF analyticsVars
  <2>2. CurrentWindow' = CurrentWindow /\ SeenInScope' = SeenInScope
    BY <2>1
    DEF CurrentWindow, SeenInScope, SeenRows, Select, ScopedAccounts, ClassifiedAccounts,
        ClassesOf
  <2> QED
    BY <2>1, <2>2
    DEF AnalyticsIInv, AnalyticsTypeOK, BegunFirst, GroupsAddUp, CurrencyFirst, CurrencyIsOne,
        SeriesIsSeen, Answered, AllAnswered, Beginning
<1> QED
  BY <1>1, <1>2, <1>3, <1>4, <1>5, <1>6, <1>7, <1>8, <1>9, <1>10, <1>12, <1>13, <1>14, <1>15
  DEF AnalyticsNext

\* The series of a request for given days is by their calendar days.
LEMMA SeriesSound ==
  ASSUME AnalyticsTypeOK, SeriesIsSeen
  PROVE  SeriesByCalendarDay
<1> SUFFICES ASSUME ~disturbed, ~filter.allTime, Answered("series")
             PROVE  /\ \A k \in DOMAIN answer.series.days :
                          answer.series.orders[k].revenue =
                              AmountOf({o \in SeenInScope :
                                  IsPaid(o) /\ DayOf(o.at) = answer.series.days[k]})
                    /\ (BestDays = {}) <=> (AmountOf(Where(SeenInScope, IsPaid)) = 0)
  BY DEF SeriesByCalendarDay
<1> PICK f \in Int : f = filter.from
  BY ScopesAssumption DEF AnalyticsTypeOK
<1> PICK t \in Int : t = filter.to
  BY ScopesAssumption DEF AnalyticsTypeOK
<1> PICK w : w = <<InstantOf(f), InstantOf(t + 1)>>
  OBVIOUS
<1> DEFINE rows == SeenInScope
           days == DaysInWindow(w[1], w[2])
           points == OrderSeries(rows, w)
           Days == 1..(t + 1 - f)
<1>1. CurrentWindow = w
  BY DEF CurrentWindow
<1>2. answer.series.days = days /\ answer.series.orders = points
  BY <1>1 DEF SeriesIsSeen, SeriesOf
<1>3. rows \subseteq AllRows /\ \A o \in rows : InstantOf(f) <= o.at /\ o.at < InstantOf(t + 1)
  <2>1. rows \subseteq AllRows /\ \A o \in rows : w[1] <= o.at /\ o.at < w[2]
    BY <1>1, SeenAre DEF SeenInScope
  <2> HIDE DEF rows
  <2> QED
    BY <2>1
<1> HIDE DEF rows
<1>4. /\ DOMAIN days = Days /\ DOMAIN points = Days
      /\ \A k \in Days : /\ points[k].revenue =
                               AmountOf({o \in rows : IsPaid(o) /\ DayOf(o.at) = days[k]})
                         /\ points[k].revenue \in Nat
      /\ \A o \in Where(rows, IsPaid) : \E k \in Days : o.amount <= points[k].revenue
      /\ AmountOf(Where(rows, IsPaid)) = 0 => \A k \in Days : points[k].revenue = 0
  <2>1. PointsByDay(rows, days, points, Days)
    BY <1>3, SeriesIsByDay
  <2> HIDE DEF days, points, Days
  <2> QED
    BY <2>1 DEF PointsByDay
<1>5. ASSUME AmountOf(Where(rows, IsPaid)) = 0
      PROVE  BestDays = {}
  <2>1. \A k \in Days : ~(points[k].revenue > 0)
    <3> SUFFICES ASSUME NEW k \in Days PROVE ~(points[k].revenue > 0)
      OBVIOUS
    <3>1. points[k].revenue = 0
      BY <1>4, <1>5
    <3> QED
      BY <3>1
  <2> HIDE DEF points, Days, days
  <2> QED
    BY <1>2, <1>4, <2>1 DEF BestDays
<1>6. ASSUME AmountOf(Where(rows, IsPaid)) # 0
      PROVE  BestDays # {}
  <2>1. Where(rows, IsPaid) \subseteq AllRows
    BY <1>3 DEF Where
  <2>2. PICK o \in Where(rows, IsPaid) : o.amount # 0
    BY <1>6, <2>1, NothingSummed
  <2>3. o.amount \in Nat
    BY <2>1, RowsAre
  <2>4. PICK i \in Days : o.amount <= points[i].revenue
    BY <1>4
  <2> DEFINE r == [k \in Days |-> points[k].revenue]
             n == t + 1 - f
  <2>5. \A k \in Days : r[k] = points[k].revenue /\ r[k] \in Nat
    BY <1>4
  <2> HIDE DEF points, days, r
  <2>6. r[i] > 0
    BY <2>2, <2>3, <2>4, <2>5
  <2>7. n \in Int /\ Days = 1..n
    OBVIOUS
  <2> HIDE DEF n, Days
  <2>8. PICK k \in Days : /\ r[k] > 0
                          /\ \A j \in Days : r[j] <= r[k] /\ (j < k => r[j] < r[k])
    BY <2>5, <2>6, <2>7, BestExists
  <2>9. k \in BestDays
    BY <1>2, <1>4, <2>5, <2>8 DEF BestDays
  <2> QED
    BY <2>9
<1> QED
  <2> HIDE DEF points, days, Days
  <2> QED
    BY <1>2, <1>4, <1>5, <1>6 DEF rows

LEMMA AnalyticsSound == AnalyticsIInv => AnalyticsInv
<1> SUFFICES ASSUME AnalyticsIInv PROVE AnalyticsInv
  OBVIOUS
<1>1. GroupsPartition
  BY GroupsToPartition DEF AnalyticsIInv, GroupsAddUp
<1>2. OneCurrencyPerAnswer
  <2> SUFFICES ASSUME ~disturbed, Answered("totals")
               PROVE  Cardinality(CurrenciesOf(SeenInScope)) <= 1
    BY DEF OneCurrencyPerAnswer
  <2> DEFINE C == CurrenciesOf(SeenInScope)
             paid == Where(SeenInScope, IsPaid)
             c == [o \in paid |-> o.currency]
  <2>1. ~Mixed(C)
    BY DEF AnalyticsIInv, CurrencyFirst, CurrencyIsOne
  <2>2. IsFiniteSet(paid)
    <3>1. paid \subseteq AllRows
      BY SeenAre DEF AnalyticsIInv, SeenInScope, Where
    <3> HIDE DEF paid
    <3> QED
      BY <3>1, RowsAre
  <2>3. c \in Surjection(paid, C)
    BY DEF CurrenciesOf, Surjection
  <2> HIDE DEF C, paid, c
  <2>4. Cardinality(C) \in Nat
    BY <2>2, <2>3, FS_Surjection, FS_CardinalityType
  <2>5. Cardinality(C) <= 1
    BY <2>1, <2>4 DEF Mixed
  <2> QED
    BY <2>5 DEF C
<1>3. SeriesByCalendarDay
  BY SeriesSound DEF AnalyticsIInv
<1> QED
  BY <1>1, <1>2, <1>3 DEF AnalyticsIInv, AnalyticsInv

\* Whatever is written while an answer is put together, its groups add up to
\* the total; and when nothing is written, its revenue is of one currency and
\* its days are the calendar days they are labelled with.
THEOREM AnalyticsTheorem == AnalyticsSpec => []AnalyticsInv
<1>1. AnalyticsInit => AnalyticsIInv
  BY AnalyticsStart
<1>2. AnalyticsIInv /\ [AnalyticsNext]_analyticsVars => AnalyticsIInv'
  BY AnalyticsKeeps
<1>3. AnalyticsIInv => AnalyticsInv
  BY AnalyticsSound
<1> QED
  BY <1>1, <1>2, <1>3, PTL DEF AnalyticsSpec

-----------------------------------------------------------------------------
(* A response that nothing disturbed adds up.                              *)

\* Rows cut into disjoint parts.
Cuts(K, cut, S) ==
    /\ IsFiniteSet(K)
    /\ \A k \in K : cut[k] \subseteq S
    /\ \A j, k \in K : j # k => cut[j] \cap cut[k] = {}
    /\ \A o \in S : \E k \in K : o \in cut[k]

\* The figures of the parts add up to those of the whole.
LEMMA MoneyOfCuts ==
  ASSUME NEW K, NEW cut, NEW S, Cuts(K, cut, S), S \subseteq AllRows,
         NEW sums, \A k \in K : sums[k] = AmountOf(cut[k])
  PROVE  SumFunctionOnSet(sums, K) = AmountOf(S)
<1> DEFINE f == [o \in S |-> o.amount]
<1>1. IsFiniteSet(S) /\ \A o \in S : f[o] \in Nat
  BY RowsAre
<1>2. /\ IsFiniteSet(K) /\ \A k \in K : cut[k] \subseteq S
      /\ \A j, k \in K : j # k => cut[j] \cap cut[k] = {}
      /\ UNION {cut[k] : k \in K} = S
  BY DEF Cuts
<1>3. \A k \in K : sums[k] = SumFunctionOnSet(f, cut[k])
  BY <1>2, AmountIs
<1>4. AmountOf(S) = SumFunctionOnSet(f, S)
  BY AmountIs
<1> HIDE DEF f
<1>5. SumFunctionOnSet(sums, K) = SumFunctionOnSet(f, UNION {cut[k] : k \in K})
  BY <1>1, <1>2, <1>3, SumOfParts
<1> QED
  BY <1>2, <1>4, <1>5

LEMMA CountOfCuts ==
  ASSUME NEW K, NEW cut, NEW S, Cuts(K, cut, S), IsFiniteSet(S),
         NEW sums, \A k \in K : sums[k] = Cardinality(cut[k])
  PROVE  SumFunctionOnSet(sums, K) = Cardinality(S)
<1> DEFINE one == [o \in S |-> 1]
<1>1. \A o \in S : one[o] = 1 /\ one[o] \in Nat
  OBVIOUS
<1>2. /\ IsFiniteSet(K) /\ \A k \in K : cut[k] \subseteq S
      /\ \A j, k \in K : j # k => cut[j] \cap cut[k] = {}
      /\ UNION {cut[k] : k \in K} = S
  BY DEF Cuts
<1> HIDE DEF one
<1>3. \A k \in K : sums[k] = SumFunctionOnSet(one, cut[k])
  <2> SUFFICES ASSUME NEW k \in K PROVE sums[k] = SumFunctionOnSet(one, cut[k])
    OBVIOUS
  <2>1. IsFiniteSet(cut[k]) /\ \A o \in cut[k] : one[o] = 1
    BY <1>1, <1>2, FS_Subset
  <2> QED
    BY <2>1, CountIsSum
<1>4. Cardinality(S) = SumFunctionOnSet(one, S)
  BY <1>1, CountIsSum
<1>5. \A o \in S : one[o] \in Nat
  BY <1>1
<1>6. SumFunctionOnSet(sums, K) = SumFunctionOnSet(one, UNION {cut[k] : k \in K})
  BY <1>2, <1>3, <1>5, SumOfParts
<1> QED
  BY <1>2, <1>4, <1>6

LEMMA UnitsOfCuts ==
  ASSUME NEW K, NEW cut, NEW S, Cuts(K, cut, S), S \subseteq AllRows,
         NEW sums, \A k \in K : sums[k] = UnitsOf(cut[k])
  PROVE  SumFunctionOnSet(sums, K) = UnitsOf(S)
<1> DEFINE f == [r \in ItemRows(S) |-> r.item.units]
           items == [k \in K |-> ItemRows(cut[k])]
<1>1. IsFiniteSet(ItemRows(S)) /\ \A r \in ItemRows(S) : f[r] \in Nat
  <2>1. IsFiniteSet(ItemRows(S)) /\ \A r \in ItemRows(S) : ItemRow(r)
    BY ItemRowsAre
  <2> QED
    BY <2>1 DEF ItemRow
<1>2. /\ IsFiniteSet(K) /\ \A k \in K : cut[k] \subseteq S
      /\ \A j, k \in K : j # k => cut[j] \cap cut[k] = {}
  BY DEF Cuts
<1>3. \A k \in K : sums[k] = SumFunctionOnSet(f, items[k]) /\ items[k] \subseteq ItemRows(S)
  BY <1>2, UnitsAre
<1>4. UnitsOf(S) = SumFunctionOnSet(f, ItemRows(S))
  BY UnitsAre
<1>5. \A k \in K : \A r \in items[k] : r.order \in cut[k]
  <2> SUFFICES ASSUME NEW k \in K, NEW r \in ItemRows(cut[k]) PROVE r.order \in cut[k]
    OBVIOUS
  <2>1. cut[k] \subseteq AllRows
    BY <1>2
  <2> QED
    BY <2>1, ItemRowsAre
<1>6. \A j, k \in K : j # k => items[j] \cap items[k] = {}
  <2> HIDE DEF items
  <2> QED
    BY <1>2, <1>5
<1>7. UNION {items[k] : k \in K} = ItemRows(S)
  <2>1. ASSUME NEW r \in ItemRows(S) PROVE \E k \in K : r \in items[k]
    <3>1. PICK o \in S : r \in {[order |-> o, item |-> i] : i \in o.items}
      BY DEF ItemRows
    <3>2. PICK k \in K : o \in cut[k]
      BY DEF Cuts
    <3>3. r \in items[k]
      BY <3>1, <3>2 DEF ItemRows
    <3> QED
      BY <3>3
  <2> HIDE DEF items
  <2> QED
    BY <1>3, <2>1
<1> HIDE DEF f, items
<1>8. SumFunctionOnSet(sums, K) = SumFunctionOnSet(f, UNION {items[k] : k \in K})
  <2>1. /\ \A k \in K : items[k] \subseteq ItemRows(S)
        /\ \A k \in K : sums[k] = SumFunctionOnSet(f, items[k])
    BY <1>3
  <2> QED
    BY <1>1, <1>2, <1>6, <2>1, SumOfParts
<1> QED
  BY <1>4, <1>7, <1>8

\* Each order of a series has a point: the index of its day.
Listed(rows, w, n) ==
    /\ n \in Int /\ DOMAIN DaysInWindow(w[1], w[2]) = 1..n
    /\ \A o \in rows : DayIndex(o.at, w) \in Int /\ DayIndex(o.at, w) + 1 \in 1..n

\* So the points of a series add up to the totals.
LEMMA SeriesSums ==
  ASSUME NEW rows, rows \subseteq AllRows, NEW w, NEW n, Listed(rows, w, n),
         NEW points, points = OrderSeries(rows, w), NEW units, units = UnitSeries(rows, w)
  PROVE  LET paid == Where(rows, IsPaid)
         IN  /\ SumFunctionOnSet([k \in DOMAIN points |-> points[k].revenue], DOMAIN points)
                   = AmountOf(paid)
             /\ SumFunctionOnSet([k \in DOMAIN points |-> points[k].orders], DOMAIN points)
                   = Cardinality(paid)
             /\ SumFunctionOnSet([k \in DOMAIN units |-> units[k]], DOMAIN units)
                   = UnitsOf(paid)
<1> DEFINE Days == 1..n
           paid == Where(rows, IsPaid)
           ofDay(k) == {o \in rows : IsPaid(o) /\ DayIndex(o.at, w) = k - 1}
           cut == [k \in Days |-> ofDay(k)]
           money == [k \in Days |-> points[k].revenue]
           count == [k \in Days |-> points[k].orders]
           unit == [k \in Days |-> units[k]]
<1>1. /\ DOMAIN DaysInWindow(w[1], w[2]) = Days /\ n \in Int
      /\ \A o \in rows : DayIndex(o.at, w) \in Int /\ DayIndex(o.at, w) + 1 \in Days
  BY DEF Listed
<1>2. DOMAIN points = Days /\ DOMAIN units = Days
  <2> HIDE DEF Days
  <2> QED
    BY <1>1 DEF OrderSeries, UnitSeries
<1>3. \A k \in Days : Where({o \in rows : DayIndex(o.at, w) = k - 1}, IsPaid) = cut[k]
  BY DEF Where
<1>4. \A k \in Days : money[k] = AmountOf(cut[k]) /\ count[k] = Cardinality(cut[k])
  <2>1. \A k \in Days :
           LET dayRows == {o \in rows : DayIndex(o.at, w) = k - 1}
           IN  /\ points[k].revenue = AmountOf(Where(dayRows, IsPaid))
               /\ points[k].orders = Cardinality(Where(dayRows, IsPaid))
    BY <1>1 DEF OrderSeries
  <2> HIDE DEF cut
  <2> QED
    BY <1>3, <2>1
<1>5. \A k \in Days : unit[k] = UnitsOf(cut[k])
  BY <1>1 DEF UnitSeries
<1>6. Cuts(Days, cut, paid)
  <2>1. IsFiniteSet(Days)
    BY <1>1, FS_Interval
  <2>2. \A k \in Days : cut[k] \subseteq paid
    BY DEF Where
  <2>3. \A j, k \in Days : j # k => cut[j] \cap cut[k] = {}
    <3> SUFFICES ASSUME NEW j \in Days, NEW k \in Days, j # k, NEW o \in cut[j], o \in cut[k]
                 PROVE  FALSE
      OBVIOUS
    <3>1. DayIndex(o.at, w) = j - 1 /\ DayIndex(o.at, w) = k - 1
      OBVIOUS
    <3> QED
      BY <1>1, <3>1
  <2>4. \A o \in paid : \E k \in Days : o \in cut[k]
    <3> SUFFICES ASSUME NEW o \in paid PROVE \E k \in Days : o \in cut[k]
      OBVIOUS
    <3>1. o \in rows /\ IsPaid(o) /\ DayIndex(o.at, w) + 1 \in Days /\ DayIndex(o.at, w) \in Int
      BY <1>1 DEF Where
    <3>2. DayIndex(o.at, w) = (DayIndex(o.at, w) + 1) - 1
      BY <3>1
    <3>3. o \in cut[DayIndex(o.at, w) + 1]
      BY <3>1, <3>2
    <3> QED
      BY <3>1, <3>3
  <2> HIDE DEF Days, cut, paid
  <2> QED
    BY <2>1, <2>2, <2>3, <2>4 DEF Cuts
<1>7. paid \subseteq AllRows /\ IsFiniteSet(paid)
  <2>1. paid \subseteq AllRows
    BY DEF Where
  <2> HIDE DEF paid
  <2> QED
    BY <2>1, RowsAre
<1> HIDE DEF Days, paid, cut, money, count, unit
<1>8. SumFunctionOnSet(money, Days) = AmountOf(paid)
  BY <1>4, <1>6, <1>7, MoneyOfCuts
<1>9. SumFunctionOnSet(count, Days) = Cardinality(paid)
  BY <1>4, <1>6, <1>7, CountOfCuts
<1>10. SumFunctionOnSet(unit, Days) = UnitsOf(paid)
  BY <1>5, <1>6, <1>7, UnitsOfCuts
<1> QED
  BY <1>2, <1>8, <1>9, <1>10 DEF paid, money, count, unit

\* Every order of a window of whole days has a point in its series.
LEMMA GivenDaysListed ==
  ASSUME NEW f \in Int, NEW t \in Int, NEW w, w = <<InstantOf(f), InstantOf(t + 1)>>
  PROVE  /\ DOMAIN DaysInWindow(w[1], w[2]) = 1..(t + 1 - f)
         /\ \A at \in Int : w[1] <= at /\ at < w[2] =>
               DayIndex(at, w) \in Int /\ DayIndex(at, w) + 1 \in 1..(t + 1 - f)
<1>1. w[1] = InstantOf(f) /\ w[2] = InstantOf(t + 1)
  OBVIOUS
<1>2. DOMAIN DaysInWindow(w[1], w[2]) = 1..(t + 1 - f)
  <2>1. DaysInWindow(w[1], w[2]) = [k \in 1..(t + 1 - f) |-> f + k - 1]
    BY <1>1, DaysAre
  <2> QED
    BY <2>1
<1>3. ASSUME NEW at \in Int, w[1] <= at, at < w[2]
      PROVE  DayIndex(at, w) \in Int /\ DayIndex(at, w) + 1 \in 1..(t + 1 - f)
  <2>1. DayIndex(at, w) = DayOf(at) - f
    BY <1>1, IndexOfDay
  <2>2. /\ DayOf(at) \in Int
        /\ InstantOf(DayOf(at)) <= at /\ at < InstantOf(DayOf(at) + 1)
    BY DayOfInstant
  <2> DEFINE d == DayOf(at)
  <2>3. d \in Int /\ d + 1 \in Int /\ t + 1 \in Int
    BY <2>2
  <2>4. /\ InstantOf(d) \in Int /\ InstantOf(d + 1) \in Int /\ InstantOf(f) \in Int
        /\ InstantOf(t + 1) \in Int
        /\ d + 1 <= f <=> InstantOf(d + 1) <= InstantOf(f)
        /\ t + 1 <= d <=> InstantOf(t + 1) <= InstantOf(d)
    BY <2>3, InstantOfDay
  <2>5. f <= d /\ d <= t
    BY <1>1, <1>3, <2>2, <2>3, <2>4
  <2>6. DayIndex(at, w) = d - f
    BY <2>1
  <2> HIDE DEF d
  <2> QED
    BY <2>3, <2>5, <2>6
<1> QED
  BY <1>2, <1>3

\* The same of the window of all the time, from the first order to a day after
\* the last one.
LEMMA AllTimeListed ==
  ASSUME NEW lo \in Int, NEW hi \in Int, NEW w, w = <<lo, hi + DayLength>>
  PROVE  /\ RoundedDays(w[2] - w[1]) \in Int
         /\ DOMAIN DaysInWindow(w[1], w[2]) = 1..RoundedDays(w[2] - w[1])
         /\ \A at \in Int : lo <= at /\ at <= hi =>
               DayIndex(at, w) \in Int /\ DayIndex(at, w) + 1 \in 1..RoundedDays(w[2] - w[1])
<1>1. PICK D \in Nat \ {0} : D = DayLength
  BY CalendarAssumption
<1>2. w[1] = lo /\ w[2] = hi + D
  BY <1>1
<1>3. PICK z \in Int : z = 2 * (w[2] - w[1]) + D
  BY <1>1, <1>2
<1>4. PICK r \in Int : r = z \div (2 * D) /\ (2 * D) * r <= z /\ z < (2 * D) * (r + 1)
  <2>1. 2 * D \in Nat \ {0}
    BY <1>1
  <2> QED
    BY <2>1, QuotientBounds
<1>5. RoundedDays(w[2] - w[1]) = r
  BY <1>1, <1>3, <1>4 DEF RoundedDays
<1>6. ASSUME NEW at \in Int, lo <= at, at <= hi
      PROVE  DayIndex(at, w) \in Int /\ DayIndex(at, w) + 1 \in 1..r
  <2>1. PICK x \in Nat : x = at - lo
    BY <1>6
  <2>2. PICK q \in Int : q = x \div D /\ D * q <= x /\ x < D * (q + 1)
    BY QuotientBounds
  <2>3. DayIndex(at, w) = q
    BY <1>1, <1>2, <2>1, <2>2 DEF DayIndex
  <2>4. q >= 0
    <3>1. CASE q < 0
      <4>1. q + 1 <= 0 /\ q + 1 \in Int /\ 0 \in Int
        BY <3>1
      <4>2. D * (q + 1) <= D * 0
        BY <1>1, <4>1, ProductsGrow
      <4> QED
        BY <1>1, <2>2, <4>1, <4>2, ProductsGrow
    <3> QED
      BY <3>1
  <2>5. /\ D * q \in Int /\ (2 * D) * (q + 1) = 2 * (D * q) + 2 * D
        /\ (2 * D) * (q + 1) \in Int
    <3>1. q + 1 \in Int /\ 2 * D \in Nat \ {0}
      OBVIOUS
    <3>2. D * q \in Int /\ (2 * D) * (q + 1) \in Int /\ (2 * D) * q \in Int
      BY <1>1, <3>1, ProductsGrow
    <3>3. (2 * D) * q = 2 * (D * q)
      OBVIOUS
    <3>4. (2 * D) * (q + 1) = (2 * D) * q + 2 * D
      BY <3>1, ProductsGrow
    <3> QED
      BY <3>2, <3>3, <3>4
  <2>6. (2 * D) * (q + 1) <= z
    <3>1. 2 * (D * q) <= 2 * x /\ z = 2 * (hi + D - lo) + D /\ x <= hi - lo
      BY <1>2, <1>3, <1>6, <2>1, <2>2, <2>5
    <3> QED
      BY <2>5, <3>1
  <2>7. q + 1 <= r
    <3>1. CASE r + 1 <= q + 1
      <4>1. r + 1 \in Int /\ q + 1 \in Int /\ 2 * D \in Nat \ {0}
        OBVIOUS
      <4>2. (2 * D) * (r + 1) <= (2 * D) * (q + 1) /\ (2 * D) * (r + 1) \in Int
        BY <3>1, <4>1, ProductsGrow
      <4> QED
        BY <1>4, <2>5, <2>6, <4>2
    <3> QED
      BY <3>1
  <2> QED
    BY <2>3, <2>4, <2>7
<1> QED
  BY <1>5, <1>6 DEF DaysInWindow

\* The orders seen of the whole of the accounts of the filter.
OrdersInScope == {o \in orderTable : o.account \in Ids(ScopedAccounts(answer.history))}

\* What a statement answers now.
AnswersNow(q, v) ==
    /\ q = "history" => v = {a \in AnalyticsAccounts : HasHistory(a)}
    /\ q = "range" => v = AllTimeWindow(OrdersInScope)
    /\ q = "accountOrders" =>
          v = [a \in ClassifiedAccounts(answer.history) |-> OrderTotals(SeenOfAccount(a))]
    /\ q = "accountItems" =>
          v = [a \in ClassifiedAccounts(answer.history) |->
                  UnitsOf(Where(SeenOfAccount(a), IsPaid))]
    /\ q = "totals" => v = OrderTotals(SeenInScope)
    /\ q = "totalItems" => v = ItemTotals(SeenInScope)
    /\ q = "series" => v = SeriesOf(SeenInScope, CurrentWindow)
    /\ q = "fullSeries" => v = SeriesOf(SeenRows(CurrentWindow, {"FULL"}), CurrentWindow)
    /\ q = "seriesUnits" => v = UnitSeries(SeenInScope, CurrentWindow)
    /\ q = "fullSeriesUnits" => v = UnitSeries(SeenRows(CurrentWindow, {"FULL"}), CurrentWindow)
    /\ q = "skus" => v \subseteq SkuRanking(SeenInScope)
    /\ q = "fullRanking" => v \subseteq FullRanking(SeenRows(CurrentWindow, {"FULL"}))
    /\ q = "groups" => v = ByGroup(SeenRows(CurrentWindow, Classes), OrderTotals)
    /\ q = "groupItems" => v = ByGroup(SeenRows(CurrentWindow, Classes), ItemTotals)

\* The order of the statements, and what they answered they still answer.
QuietIInv ==
    /\ Answered("range") => Answered("history")
    /\ Answered("totalItems") => Answered("totals")
    /\ Answered("totals") => AllAnswered(AccountPart)
    /\ ~disturbed => \A q \in DOMAIN answer : \A v : v = answer[q] => AnswersNow(q, v)

LEMMA QuietStart == AnalyticsInit => QuietIInv
<1> SUFFICES ASSUME AnalyticsInit PROVE QuietIInv
  OBVIOUS
<1>1. DOMAIN answer = {}
  BY DEF AnalyticsInit
<1> QED
  BY <1>1 DEF QuietIInv, Answered

\* What a statement answers depends on the orders, the filter, the accounts and
\* the window alone.
LEMMA AnswerStays ==
  ASSUME orderTable' = orderTable, filter' = filter, NEW q, NEW v, AnswersNow(q, v),
         q # "history" => answer'.history = answer.history,
         q \notin {"history", "range"} => CurrentWindow' = CurrentWindow
  PROVE  AnswersNow(q, v)'
<1>1. CASE q = "history"
  BY <1>1 DEF AnswersNow, HasHistory
<1>2. CASE q = "range"
  <2>1. OrdersInScope' = OrdersInScope
    BY <1>2 DEF OrdersInScope, ScopedAccounts, ClassifiedAccounts
  <2>2. AllTimeWindow(OrdersInScope)' = AllTimeWindow(OrdersInScope)
    BY <2>1 DEF AllTimeWindow
  <2> QED
    BY <1>2, <2>2 DEF AnswersNow
<1>3. CASE q \notin {"history", "range"}
  <2>1. CurrentWindow' = CurrentWindow /\ answer'.history = answer.history
    BY <1>3
  <2>2. /\ SeenInScope' = SeenInScope
        /\ SeenRows(CurrentWindow, {"FULL"})' = SeenRows(CurrentWindow, {"FULL"})
        /\ SeenRows(CurrentWindow, Classes)' = SeenRows(CurrentWindow, Classes)
        /\ ClassifiedAccounts(answer.history)' = ClassifiedAccounts(answer.history)
    BY <2>1
    DEF SeenInScope, SeenRows, Select, ScopedAccounts, ClassifiedAccounts, ClassesOf, Classes
  <2>3. /\ [a \in ClassifiedAccounts(answer.history) |-> OrderTotals(SeenOfAccount(a))]'
              = [a \in ClassifiedAccounts(answer.history) |-> OrderTotals(SeenOfAccount(a))]
        /\ [a \in ClassifiedAccounts(answer.history) |-> UnitsOf(Where(SeenOfAccount(a), IsPaid))]'
              = [a \in ClassifiedAccounts(answer.history) |->
                    UnitsOf(Where(SeenOfAccount(a), IsPaid))]
    BY <2>1, <2>2 DEF SeenOfAccount
  <2>4. /\ OrderTotals(SeenInScope)' = OrderTotals(SeenInScope)
        /\ ItemTotals(SeenInScope)' = ItemTotals(SeenInScope)
        /\ SeriesOf(SeenInScope, CurrentWindow)' = SeriesOf(SeenInScope, CurrentWindow)
        /\ SeriesOf(SeenRows(CurrentWindow, {"FULL"}), CurrentWindow)'
              = SeriesOf(SeenRows(CurrentWindow, {"FULL"}), CurrentWindow)
        /\ UnitSeries(SeenInScope, CurrentWindow)' = UnitSeries(SeenInScope, CurrentWindow)
        /\ UnitSeries(SeenRows(CurrentWindow, {"FULL"}), CurrentWindow)'
              = UnitSeries(SeenRows(CurrentWindow, {"FULL"}), CurrentWindow)
    BY <2>1, <2>2
  <2>5. /\ SkuRanking(SeenInScope)' = SkuRanking(SeenInScope)
        /\ FullRanking(SeenRows(CurrentWindow, {"FULL"}))'
              = FullRanking(SeenRows(CurrentWindow, {"FULL"}))
        /\ ByGroup(SeenRows(CurrentWindow, Classes), OrderTotals)'
              = ByGroup(SeenRows(CurrentWindow, Classes), OrderTotals)
        /\ ByGroup(SeenRows(CurrentWindow, Classes), ItemTotals)'
              = ByGroup(SeenRows(CurrentWindow, Classes), ItemTotals)
    BY <2>2
  <2> QED
    BY <1>3, <2>3, <2>4, <2>5 DEF AnswersNow
<1> QED
  BY <1>1, <1>2, <1>3

LEMMA QuietReply ==
  ASSUME AnalyticsIInv, QuietIInv, NEW q, ~Answered(q), NEW v, Reply(q, v), AnswersNow(q, v),
         q = "history" \/ Answered("history"),
         q \in Beginning \/ AllAnswered(Beginning),
         q = "totalItems" => Answered("totals"),
         q = "totals" => AllAnswered(AccountPart)
  PROVE  QuietIInv'
<1>1. /\ DOMAIN answer' = DOMAIN answer \cup {q} /\ answer'[q] = v
      /\ \A k \in DOMAIN answer : k # q /\ answer'[k] = answer[k]
      /\ orderTable' = orderTable /\ filter' = filter /\ disturbed' = disturbed
  BY DEF Reply, Answered
<1>2. \A k : Answered(k)' <=> Answered(k) \/ k = q
  BY <1>1 DEF Answered
<1>3. AllAnswered(AccountPart) => AllAnswered(AccountPart)'
  BY <1>1 DEF AllAnswered, AccountPart
<1>4. ASSUME ~disturbed', NEW k \in DOMAIN answer', NEW u, u = answer'[k]
      PROVE  AnswersNow(k, u)'
  <2>1. AnswersNow(k, u)
    <3>1. CASE k = q
      BY <1>1, <1>4, <3>1
    <3>2. CASE k # q
      BY <1>1, <1>4, <3>2 DEF QuietIInv
    <3> QED
      BY <3>1, <3>2
  <2>2. k # "history" => answer'.history = answer.history
    <3>1. CASE Answered("history")
      BY <1>1, <3>1 DEF Answered
    <3>2. CASE q = "history" /\ ~Answered("history")
      <4>1. DOMAIN answer \subseteq {"range"}
        BY <3>2 DEF AnalyticsIInv, BegunFirst, AllAnswered, Beginning, Answered
      <4>2. "range" \notin DOMAIN answer
        BY <3>2 DEF QuietIInv, Answered
      <4> QED
        BY <1>1, <1>4, <3>2, <4>1, <4>2
    <3> QED
      BY <3>1, <3>2
  <2>3. k \notin {"history", "range"} => CurrentWindow' = CurrentWindow
    <3> SUFFICES ASSUME k \notin {"history", "range"}
                 PROVE  CurrentWindow' = CurrentWindow
      OBVIOUS
    <3>1. AllAnswered(Beginning)
      <4>1. CASE k = q
        BY <4>1 DEF Beginning
      <4>2. CASE k # q
        BY <1>1, <1>4, <4>2 DEF AnalyticsIInv, BegunFirst
      <4> QED
        BY <4>1, <4>2
    <3>2. filter.allTime => "range" \in DOMAIN answer
      BY <3>1 DEF AllAnswered, Beginning
    <3> QED
      BY <1>1, <3>2 DEF CurrentWindow
  <2> QED
    BY <1>1, <2>1, <2>2, <2>3, AnswerStays
<1> QED
  BY <1>2, <1>3, <1>4 DEF QuietIInv

LEMMA BegunIsHistory ==
  ASSUME AllAnswered(Beginning)
  PROVE  Answered("history")
  BY DEF AllAnswered, Beginning, Answered

LEMMA QuietCommit ==
  ASSUME QuietIInv, CommitOrder
  PROVE  QuietIInv'
<1>1. /\ disturbed' = (disturbed \/ DOMAIN answer # {}) /\ answer' = answer
  BY DEF CommitOrder
<1>2. ~disturbed' => DOMAIN answer' = {}
  BY <1>1
<1> QED
  BY <1>1, <1>2 DEF QuietIInv, Answered, AllAnswered

LEMMA QuietKeeps == AnalyticsIInv /\ QuietIInv /\ [AnalyticsNext]_analyticsVars => QuietIInv'
<1> SUFFICES ASSUME AnalyticsIInv, QuietIInv, [AnalyticsNext]_analyticsVars PROVE QuietIInv'
  OBVIOUS
<1>1. CASE AskHistory
  <2> DEFINE v == {a \in AnalyticsAccounts : HasHistory(a)}
  <2>1. ~Answered("history") /\ "history" \in Beginning /\ Reply("history", v)
    BY <1>1 DEF AskHistory, Beginning
  <2>2. AnswersNow("history", v)
    BY DEF AnswersNow
  <2> HIDE DEF v
  <2> QED
    BY <2>1, <2>2, QuietReply
<1>2. CASE AskRange
  <2> DEFINE v == AllTimeWindow(OrdersInScope)
  <2>1. /\ ~Answered("range") /\ "range" \in Beginning /\ Answered("history")
        /\ Reply("range", v)
    BY <1>2 DEF AskRange, Beginning, OrdersInScope
  <2>2. AnswersNow("range", v)
    BY DEF AnswersNow
  <2> HIDE DEF v
  <2> QED
    BY <2>1, <2>2, QuietReply
<1>3. CASE AskAccountOrders
  <2> DEFINE v == [a \in ClassifiedAccounts(answer.history) |-> OrderTotals(SeenOfAccount(a))]
  <2>1. /\ ~Answered("accountOrders") /\ AllAnswered(Beginning) /\ Answered("history")
        /\ Reply("accountOrders", v)
    BY <1>3, BegunIsHistory DEF AskAccountOrders
  <2>2. AnswersNow("accountOrders", v)
    BY DEF AnswersNow
  <2> HIDE DEF v
  <2> QED
    BY <2>1, <2>2, QuietReply
<1>4. CASE AskAccountItems
  <2> DEFINE v == [a \in ClassifiedAccounts(answer.history) |->
                      UnitsOf(Where(SeenOfAccount(a), IsPaid))]
  <2>1. /\ ~Answered("accountItems") /\ AllAnswered(Beginning) /\ Answered("history")
        /\ Reply("accountItems", v)
    BY <1>4, BegunIsHistory DEF AskAccountItems
  <2>2. AnswersNow("accountItems", v)
    BY DEF AnswersNow
  <2> HIDE DEF v
  <2> QED
    BY <2>1, <2>2, QuietReply
<1>0. ASSUME NEW p, Open(p)
      PROVE  AllAnswered(Beginning) /\ Answered("history") /\ AllAnswered(AccountPart)
  <2>1. AllAnswered(Beginning)
    BY <1>0, OpenIsBegun
  <2> QED
    BY <1>0, <2>1, BegunIsHistory DEF Open
<1>5. ASSUME NEW p \in Panels, AskCurrency(p)
      PROVE  QuietIInv'
  <2>1. PICK q, v : /\ Reply(q, v) /\ q \in {"mismatch", "currency", "previousCurrency"}
                    /\ ~Answered(q) /\ Open(p)
    BY <1>5, StatementsAre DEF AskCurrency, MayAsk, Open
  <2>2. AnswersNow(q, v)
    BY <2>1 DEF AnswersNow
  <2>3. q # "totals" /\ q # "totalItems"
    BY <2>1
  <2> QED
    BY <1>0, <2>1, <2>2, <2>3, QuietReply
<1>6. ASSUME NEW p \in Panels, AskTotals(p)
      PROVE  QuietIInv'
  <2>1. p \in {"totals", "previous"} /\ MayAsk(p, 2)
    BY <1>6 DEF AskTotals
  <2>2. PICK q, v : /\ q = Statements(p)[2] /\ Reply(q, v)
                    /\ v = OrderTotals(IF p = "totals" THEN SeenInScope ELSE SeenBefore)
    BY <1>6 DEF AskTotals
  <2>3. q \in {"totals", "previousTotals"} /\ (q = "totals" => p = "totals")
    BY <2>1, <2>2, StatementsAre
  <2>4. Open(p) /\ ~Answered(q)
    BY <2>1, <2>2 DEF MayAsk
  <2>5. AnswersNow(q, v)
    BY <2>2, <2>3 DEF AnswersNow
  <2>6. q # "totalItems"
    BY <2>3
  <2> QED
    BY <1>0, <2>2, <2>4, <2>5, <2>6, QuietReply
<1>7. ASSUME NEW p \in Panels, AskTotalItems(p)
      PROVE  QuietIInv'
  <2>1. p \in {"totals", "previous"} /\ MayAsk(p, 3)
    BY <1>7 DEF AskTotalItems
  <2>2. PICK q, v : /\ q = Statements(p)[3] /\ Reply(q, v)
                    /\ v = ItemTotals(IF p = "totals" THEN SeenInScope ELSE SeenBefore)
    BY <1>7 DEF AskTotalItems
  <2>3. q \in {"totalItems", "previousItems"}
        /\ (q = "totalItems" => p = "totals" /\ Statements(p)[2] = "totals")
    BY <2>1, <2>2, StatementsAre
  <2>4. Open(p) /\ ~Answered(q) /\ Answered(Statements(p)[2])
    BY <2>1, <2>2 DEF MayAsk
  <2>5. AnswersNow(q, v)
    BY <2>2, <2>3 DEF AnswersNow
  <2>6. q # "totals" /\ (q = "totalItems" => Answered("totals"))
    BY <2>3, <2>4
  <2> QED
    BY <1>0, <2>2, <2>4, <2>5, <2>6, QuietReply
<1>8. ASSUME NEW p \in Panels, AskSeries(p)
      PROVE  QuietIInv'
  <2>1. PICK v : /\ p \in {"series", "fullSeries"} /\ MayAsk(p, 1) /\ Reply(p, v)
                 /\ v = SeriesOf(SeriesRows(p), CurrentWindow)
    BY <1>8 DEF AskSeries, SeriesPanels, SeriesOf
  <2>2. Open(p) /\ ~Answered(p)
    BY <2>1, StatementsAre DEF MayAsk
  <2>3. AnswersNow(p, v)
    BY <2>1 DEF AnswersNow, SeriesRows
  <2>4. p # "totals" /\ p # "totalItems"
    BY <2>1
  <2> QED
    BY <1>0, <2>1, <2>2, <2>3, <2>4, QuietReply
<1>9. ASSUME NEW p \in Panels, AskSeriesUnits(p)
      PROVE  QuietIInv'
  <2>1. PICK q, v : /\ p \in {"series", "fullSeries"} /\ Open(p) /\ q = UnitsKey(p)
                    /\ ~Answered(q) /\ Reply(q, v)
                    /\ v = UnitSeries(SeriesRows(p), CurrentWindow)
    BY <1>9 DEF AskSeriesUnits, SeriesPanels
  <2>2. q \in {"seriesUnits", "fullSeriesUnits"} /\ (q = "seriesUnits" <=> p = "series")
    BY <2>1 DEF UnitsKey
  <2>3. AnswersNow(q, v)
    BY <2>1, <2>2 DEF AnswersNow, SeriesRows
  <2>4. q # "totals" /\ q # "totalItems"
    BY <2>2
  <2> QED
    BY <1>0, <2>1, <2>3, <2>4, QuietReply
<1>10. ASSUME NEW p \in Panels, AskRanking(p)
       PROVE  QuietIInv'
  <2>1. p \in {"skus", "listings", "fullRanking"} /\ MayAsk(p, 1)
    BY <1>10 DEF AskRanking
  <2>2. PICK v : /\ Reply(p, v)
                 /\ v \in TopOf(CASE p = "skus" -> SkuRanking(SeenInScope)
                                  [] p = "listings" -> ListingRanking(SeenInScope)
                                  [] OTHER -> FullRanking(SeenRows(CurrentWindow, {"FULL"})))
    BY <1>10 DEF AskRanking
  <2>3. \A S : \A top \in TopOf(S) : top \subseteq S
    BY DEF TopOf
  <2>4. p = "skus" => v \subseteq SkuRanking(SeenInScope)
    BY <2>2, <2>3
  <2>5. p = "fullRanking" => v \subseteq FullRanking(SeenRows(CurrentWindow, {"FULL"}))
    BY <2>2, <2>3
  <2>6. AnswersNow(p, v)
    BY <2>1, <2>4, <2>5 DEF AnswersNow
  <2>7. Open(p) /\ ~Answered(p)
    BY <2>1, StatementsAre DEF MayAsk
  <2>8. p # "totals" /\ p # "totalItems"
    BY <2>1
  <2> QED
    BY <1>0, <2>2, <2>6, <2>7, <2>8, QuietReply
<1>11. CASE AskGroups
  <2>1. PICK v : /\ MayAsk("groups", 1) /\ Reply("groups", v)
                 /\ v = ByGroup(SeenRows(CurrentWindow, Classes), OrderTotals)
    BY <1>11 DEF AskGroups
  <2>2. Open("groups") /\ ~Answered("groups")
    BY <2>1, StatementsAre DEF MayAsk
  <2>3. AnswersNow("groups", v)
    BY <2>1 DEF AnswersNow
  <2> QED
    BY <1>0, <2>1, <2>2, <2>3, QuietReply
<1>12. CASE AskGroupItems
  <2>1. PICK v : /\ MayAsk("groups", 2) /\ Reply("groupItems", v)
                 /\ v = ByGroup(SeenRows(CurrentWindow, Classes), ItemTotals)
    BY <1>12 DEF AskGroupItems
  <2>2. Open("groups") /\ ~Answered("groupItems")
    BY <2>1, StatementsAre DEF MayAsk
  <2>3. AnswersNow("groupItems", v)
    BY <2>1 DEF AnswersNow
  <2> QED
    BY <1>0, <2>1, <2>2, <2>3, QuietReply
<1>13. CASE CommitOrder
  BY <1>13, QuietCommit
<1>14. CASE UNCHANGED analyticsVars
  <2>1. /\ orderTable' = orderTable /\ filter' = filter /\ answer' = answer
        /\ disturbed' = disturbed /\ CurrentWindow' = CurrentWindow
    BY <1>14 DEF analyticsVars, CurrentWindow
  <2>2. ASSUME ~disturbed', NEW q \in DOMAIN answer', NEW v, v = answer'[q]
        PROVE  AnswersNow(q, v)'
    <3>1. AnswersNow(q, v)
      BY <2>1, <2>2 DEF QuietIInv
    <3> QED
      BY <2>1, <3>1, AnswerStays
  <2> QED
    BY <2>1, <2>2 DEF QuietIInv, Answered, AllAnswered
<1> QED
  BY <1>1, <1>2, <1>3, <1>4, <1>5, <1>6, <1>7, <1>8, <1>9, <1>10, <1>11, <1>12, <1>13, <1>14
  DEF AnalyticsNext

\* The units of some items are at most all the units.
LEMMA UnitsOfPart ==
  ASSUME NEW rows, rows \subseteq AllRows, NEW some, some \subseteq ItemRows(rows)
  PROVE  /\ SumFunctionOnSet([r \in some |-> r.item.units], some) \in Nat
         /\ SumFunctionOnSet([r \in some |-> r.item.units], some) <= UnitsOf(rows)
         /\ UnitsOf(rows) \in Nat
<1> DEFINE f == [r \in ItemRows(rows) |-> r.item.units]
           g == [r \in some |-> r.item.units]
<1>1. IsFiniteSet(ItemRows(rows)) /\ \A r \in ItemRows(rows) : f[r] \in Nat
  <2>1. IsFiniteSet(ItemRows(rows)) /\ \A r \in ItemRows(rows) : ItemRow(r)
    BY ItemRowsAre
  <2> QED
    BY <2>1 DEF ItemRow
<1>2. \A r \in some : g[r] = f[r]
  OBVIOUS
<1>3. UnitsOf(rows) = SumFunctionOnSet(f, ItemRows(rows)) /\ UnitsOf(rows) \in Nat
  BY UnitsAre
<1> HIDE DEF f, g
<1>4. IsFiniteSet(some)
  BY <1>1, FS_Subset
<1>5. SumFunctionOnSet(g, some) = SumFunctionOnSet(f, some)
  BY <1>2, <1>4, SumSame
<1>6. SumFunctionOnSet(f, some) \in Nat
      /\ SumFunctionOnSet(f, some) <= SumFunctionOnSet(f, ItemRows(rows))
  BY <1>1, SumOfPart
<1> QED
  BY <1>3, <1>5, <1>6 DEF g

\* A share is between nothing and the whole, in tenths of a percent.
IsShare(s) == s \in 0..1000

LEMMA ShareIsShare ==
  ASSUME NEW some \in Nat, NEW total \in Nat, some <= total
  PROVE  IsShare(ShareOf(some, total))
<1>1. CASE total = 0
  BY <1>1 DEF ShareOf, IsShare
<1>2. CASE total # 0
  <2>1. PICK d \in Nat \ {0} : d = 2 * total
    BY <1>2
  <2>2. PICK z \in Nat : z = 2000 * some + total
    OBVIOUS
  <2>3. PICK q \in Int : q = z \div d /\ d * q <= z /\ z < d * (q + 1)
    BY QuotientBounds
  <2>4. 0 <= q
    <3>1. CASE q + 1 <= 0
      <4>1. q + 1 \in Int /\ 0 \in Int /\ d * 0 = 0
        OBVIOUS
      <4>2. d * (q + 1) <= d * 0 /\ d * (q + 1) \in Int
        BY <3>1, <4>1, ProductsGrow
      <4> QED
        BY <2>2, <2>3, <4>1, <4>2
    <3> QED
      BY <3>1
  <2>5. q <= 1000
    <3>1. CASE 1001 <= q
      <4>1. d * 1001 <= d * q /\ d * q \in Int
        BY <3>1, ProductsGrow
      <4>2. d * 1001 = 2002 * total
        BY <2>1
      <4>3. z <= 2001 * total
        BY <2>2
      <4> QED
        BY <1>2, <2>2, <2>3, <4>1, <4>2, <4>3
    <3> QED
      BY <3>1
  <2>6. ShareOf(some, total) = q
    BY <1>2, <2>1, <2>2, <2>3 DEF ShareOf
  <2> QED
    BY <2>4, <2>5, <2>6 DEF IsShare
<1> QED
  BY <1>1, <1>2

\* The units of a ranked product are some of those counted.
LEMMA SkuUnits ==
  ASSUME NEW rows, rows \subseteq AllRows, NEW e \in SkuRanking(rows)
  PROVE  /\ e.units \in Nat /\ e.units <= UnitsOf(Where(rows, IsPaid))
         /\ UnitsOf(Where(rows, IsPaid)) \in Nat
<1> DEFINE paid == Where(rows, IsPaid)
<1>1. PICK some : some \subseteq ItemRows(paid)
                  /\ e.units = SumFunctionOnSet([r \in some |-> r.item.units], some)
  <2> DEFINE of(k) == {r \in ItemRows(paid) : Product(r) = k}
  <2>1. SkuRanking(rows) =
           {[key |-> k, rank |-> ValueOf(of(k)), revenue |-> ValueOf(of(k)),
             units |-> SumFunctionOnSet([r \in of(k) |-> r.item.units], of(k))] :
               k \in {Product(r) : r \in ItemRows(paid)}}
    BY DEF SkuRanking, RankedBy, SumOver
  <2>2. \A k : of(k) \subseteq ItemRows(paid)
    OBVIOUS
  <2> HIDE DEF of, paid
  <2>3. PICK k : e = [key |-> k, rank |-> ValueOf(of(k)), revenue |-> ValueOf(of(k)),
                      units |-> SumFunctionOnSet([r \in of(k) |-> r.item.units], of(k))]
    BY <2>1
  <2>4. e.units = SumFunctionOnSet([r \in of(k) |-> r.item.units], of(k))
    BY <2>3
  <2> QED
    BY <2>2, <2>4
<1>2. paid \subseteq AllRows
  BY DEF Where
<1> HIDE DEF paid
<1>3. /\ SumFunctionOnSet([r \in some |-> r.item.units], some) \in Nat
      /\ SumFunctionOnSet([r \in some |-> r.item.units], some) <= UnitsOf(paid)
      /\ UnitsOf(paid) \in Nat
  BY <1>1, <1>2, UnitsOfPart
<1> QED
  BY <1>1, <1>3 DEF paid

LEMMA FullUnits ==
  ASSUME NEW rows, rows \subseteq AllRows, NEW e \in FullRanking(rows)
  PROVE  /\ e.units \in Nat /\ e.units <= UnitsOf(Where(rows, IsGrossSale))
         /\ UnitsOf(Where(rows, IsGrossSale)) \in Nat
<1> DEFINE gross == Where(rows, IsGrossSale)
           sold(k) == {r \in {s \in ItemRows(rows) : Product(s) = k} : IsGrossSale(r.order)}
<1>1. PICK k : e.units = SumFunctionOnSet([r \in sold(k) |-> r.item.units], sold(k))
  <2> DEFINE rank(k) == IF sold(k) = {} THEN NullRank ELSE ValueOf(sold(k))
             keys == Products(ItemRows({o \in rows : IsPaid(o) \/ IsCancelled(o)}))
  <2>1. FullRanking(rows) =
           {[key |-> k, rank |-> rank(k), revenue |-> ValueOf(sold(k)),
             units |-> SumFunctionOnSet([r \in sold(k) |-> r.item.units], sold(k))] :
               k \in keys}
    BY DEF FullRanking, SumOver
  <2> HIDE DEF sold, rank, keys
  <2>2. PICK k : e = [key |-> k, rank |-> rank(k), revenue |-> ValueOf(sold(k)),
                      units |-> SumFunctionOnSet([r \in sold(k) |-> r.item.units], sold(k))]
    BY <2>1
  <2>3. e.units = SumFunctionOnSet([r \in sold(k) |-> r.item.units], sold(k))
    BY <2>2
  <2> QED
    BY <2>3
<1>2. gross \subseteq AllRows
  BY DEF Where
<1>3. sold(k) \subseteq ItemRows(gross)
  <2> SUFFICES ASSUME NEW r \in ItemRows(rows), IsGrossSale(r.order)
               PROVE  r \in ItemRows(gross)
    OBVIOUS
  <2>1. PICK o \in rows : \E i \in o.items : r = [order |-> o, item |-> i]
    BY DEF ItemRows
  <2>2. r.order = o
    BY <2>1
  <2>3. o \in gross
    BY <2>1, <2>2 DEF Where
  <2> HIDE DEF gross
  <2> QED
    BY <2>1, <2>3 DEF ItemRows
<1> HIDE DEF gross, sold
<1>4. /\ SumFunctionOnSet([r \in sold(k) |-> r.item.units], sold(k)) \in Nat
      /\ SumFunctionOnSet([r \in sold(k) |-> r.item.units], sold(k)) <= UnitsOf(gross)
      /\ UnitsOf(gross) \in Nat
  BY <1>2, <1>3, UnitsOfPart
<1> QED
  BY <1>1, <1>4 DEF gross

\* A request that nothing disturbed and whose totals are known.
Quiet == AnalyticsIInv /\ QuietIInv /\ ~disturbed /\ Answered("totalItems")

LEMMA QuietFacts ==
  ASSUME Quiet
  PROVE  /\ AllAnswered(Beginning) /\ AllAnswered(AccountPart) /\ Answered("totals")
         /\ Answered("history")
         /\ \A q : Answered(q) => AnswersNow(q, answer[q])
         /\ orderTable \subseteq AllRows /\ filter \in Scopes
<1>1. Answered("totals") /\ AllAnswered(AccountPart)
  BY DEF Quiet, QuietIInv
<1>2. AllAnswered(Beginning)
  BY <1>1 DEF Quiet, AnalyticsIInv, BegunFirst, Answered
<1>3. Answered("history")
  BY <1>2, BegunIsHistory
<1>4. \A q : Answered(q) => AnswersNow(q, answer[q])
  BY DEF Quiet, QuietIInv, Answered
<1> QED
  BY <1>1, <1>2, <1>3, <1>4 DEF Quiet, AnalyticsIInv, AnalyticsTypeOK, AllRows

LEMMA WindowIsListed ==
  ASSUME Quiet, NEW kept
  PROVE  \E n : Listed(SeenRows(CurrentWindow, kept), CurrentWindow, n)
<1>1. AllAnswered(Beginning) /\ (\A q : Answered(q) => AnswersNow(q, answer[q]))
      /\ orderTable \subseteq AllRows /\ filter \in Scopes
  BY QuietFacts
<1>2. filter.from \in Int /\ filter.to \in Int /\ filter.allTime \in BOOLEAN
  BY <1>1, ScopesAssumption
<1> PICK w : w = CurrentWindow
  OBVIOUS
<1> DEFINE rows == SeenRows(w, kept)
<1>3. rows \subseteq AllRows /\ \A o \in rows : w[1] <= o.at /\ o.at < w[2]
  BY SeenAre DEF Quiet, AnalyticsIInv
<1>4. \A o \in rows : o.at \in Int
  <2> HIDE DEF rows
  <2> QED
    BY <1>3, RowsAre
<1>5. CASE ~filter.allTime
  <2> PICK f \in Int, t \in Int : f = filter.from /\ t = filter.to
    BY <1>2
  <2>1. w = <<InstantOf(f), InstantOf(t + 1)>>
    BY <1>5 DEF CurrentWindow
  <2>2. /\ DOMAIN DaysInWindow(w[1], w[2]) = 1..(t + 1 - f)
        /\ \A at \in Int : w[1] <= at /\ at < w[2] =>
              DayIndex(at, w) \in Int /\ DayIndex(at, w) + 1 \in 1..(t + 1 - f)
    BY <2>1, GivenDaysListed
  <2>3. t + 1 - f \in Int
    OBVIOUS
  <2> HIDE DEF rows
  <2>4. Listed(rows, w, t + 1 - f)
    BY <1>3, <1>4, <2>2, <2>3 DEF Listed
  <2> QED
    BY <2>4 DEF rows
<1>6. CASE filter.allTime
  <2> DEFINE instants == {o.at : o \in OrdersInScope}
  <2>1. w = AllTimeWindow(OrdersInScope)
    BY <1>1, <1>6 DEF CurrentWindow, AllAnswered, Beginning, Answered, AnswersNow
  <2>2. OrdersInScope \subseteq AllRows /\ rows \subseteq OrdersInScope
    BY <1>1 DEF OrdersInScope, SeenRows, Select
  <2>3. IsFiniteSet(OrdersInScope) /\ \A o \in OrdersInScope : o.at \in Int
    BY <2>2, RowsAre
  <2>4. CASE instants = {}
    <3>1. rows = {}
      BY <2>2, <2>4
    <3>2. w = <<InstantOf(filter.to), InstantOf(filter.to)>>
      BY <2>1, <2>4 DEF AllTimeWindow
    <3>3. InstantOf(filter.to) \in Int /\ DayLength \in Nat
      BY <1>2, InstantOfDay, CalendarAssumption
    <3>4. w[2] - w[1] = 0 * DayLength
      BY <3>2, <3>3
    <3>5. RoundedDays(w[2] - w[1]) = 0
      BY <3>4, RoundedIsExact
    <3>6. Listed({}, w, 0)
      BY <3>5 DEF Listed, DaysInWindow
    <3> QED
      BY <3>1, <3>6
  <2>5. CASE instants # {}
    <3> DEFINE f == [o \in OrdersInScope |-> o.at]
    <3>1. f \in Surjection(OrdersInScope, instants)
      BY DEF Surjection
    <3>2. instants \in SUBSET Int
      BY <2>3
    <3>3. \A o \in rows : o.at \in instants
      BY <2>2
    <3>4. w = <<Min(instants), Max(instants) + DayLength>>
      BY <2>1, <2>5 DEF AllTimeWindow
    <3> HIDE DEF instants, f
    <3>5. IsFiniteSet(instants)
      BY <2>3, <3>1, FS_Surjection
    <3>6. (\E m \in instants : \A i \in instants : m <= i)
          /\ \E m \in instants : \A i \in instants : i <= m
      BY <2>5, <3>2, <3>5, Least, Greatest
    <3> PICK lo, hi : lo = Min(instants) /\ hi = Max(instants)
      OBVIOUS
    <3>7. lo \in instants /\ \A i \in instants : lo <= i
      BY <3>6 DEF Min
    <3>8. hi \in instants /\ \A i \in instants : i <= hi
      <4>1. \E m \in instants : \A i \in instants : m >= i
        BY <3>2, <3>6
      <4> QED
        BY <3>2, <4>1 DEF Max
    <3>9. lo \in Int /\ hi \in Int /\ w = <<lo, hi + DayLength>>
      BY <3>2, <3>4, <3>7, <3>8
    <3>10. /\ RoundedDays(w[2] - w[1]) \in Int
           /\ DOMAIN DaysInWindow(w[1], w[2]) = 1..RoundedDays(w[2] - w[1])
           /\ \A at \in Int : lo <= at /\ at <= hi =>
                 DayIndex(at, w) \in Int
                 /\ DayIndex(at, w) + 1 \in 1..RoundedDays(w[2] - w[1])
      BY <3>9, AllTimeListed
    <3> HIDE DEF rows
    <3>11. Listed(rows, w, RoundedDays(w[2] - w[1]))
      BY <1>4, <3>3, <3>7, <3>8, <3>10 DEF Listed
    <3> QED
      BY <3>11 DEF rows
  <2> QED
    BY <2>4, <2>5
<1> QED
  BY <1>2, <1>5, <1>6

\* A group of the breakdown is what its filter would show.
LEMMA GroupIsScope ==
  ASSUME NEW w, filter \in Scopes, orderTable \subseteq AllRows
  PROVE  LET g == CASE filter.logistics = "ALL" -> "total"
                    [] filter.logistics = "FULL" -> "full"
                    [] OTHER -> "nonFull"
         IN  /\ g \in GroupNames
             /\ Part(SeenRows(w, Classes), g) = SeenRows(w, ClassesOf(filter))
             /\ Part(SeenRows(w, Classes), "full") = SeenRows(w, {"FULL"})
<1>1. filter.logistics \in {"ALL", "FULL", "NON_FULL"}
  BY ScopesAssumption
<1>2. Part(SeenRows(w, Classes), "full") = SeenRows(w, {"FULL"})
  BY GroupsAre DEF Part, SeenRows, Select, Classes
<1>3. CASE filter.logistics = "ALL"
  <2>1. Part(SeenRows(w, Classes), "total") = SeenRows(w, Classes)
    BY GroupsAre DEF Part, SeenRows, Select
  <2>2. ClassesOf(filter) = Classes
    BY <1>3 DEF ClassesOf
  <2> QED
    BY <1>2, <1>3, <2>1, <2>2 DEF GroupNames
<1>4. CASE filter.logistics = "FULL"
  <2>1. ClassesOf(filter) = {"FULL"}
    BY <1>4 DEF ClassesOf
  <2> QED
    BY <1>2, <1>4, <2>1 DEF GroupNames
<1>5. CASE filter.logistics = "NON_FULL"
  <2>1. ClassesOf(filter) = {"SELLER"}
    BY <1>5 DEF ClassesOf
  <2>2. Part(SeenRows(w, Classes), "nonFull") = SeenRows(w, {"SELLER"})
    BY GroupsAre DEF Part, SeenRows, Select, Classes
  <2> QED
    BY <1>2, <1>5, <2>1, <2>2 DEF GroupNames
<1> QED
  BY <1>1, <1>3, <1>4, <1>5

\* Without a logistics filter the accounts with proven data share out the rows
\* of the totals: an account that holds a row has a history.
LEMMA AccountsCut ==
  ASSUME Quiet, filter.logistics = "ALL",
         NEW cut, cut = [a \in ProvenAccounts |-> Where(SeenOfAccount(a), IsPaid)]
  PROVE  Cuts(ProvenAccounts, cut, Where(SeenInScope, IsPaid))
<1>1. ProvenAccounts \subseteq ScopedAccounts(answer.history)
      /\ ScopedAccounts(answer.history) \subseteq AnalyticsAccounts
  BY DEF ProvenAccounts, ScopedAccounts, ClassifiedAccounts
<1>2. IsFiniteSet(ProvenAccounts)
  BY <1>1, AccountsAssumption, FS_Subset
<1>3. ClassesOf(filter) = Classes
  BY DEF ClassesOf
<1>4. \A a \in ProvenAccounts : cut[a] \subseteq Where(SeenInScope, IsPaid)
  BY <1>1, <1>3 DEF Where, SeenOfAccount, SeenInScope, SeenRows, Select, Ids
<1>5. \A a \in ProvenAccounts : \A o \in cut[a] : o.account = a.id
  BY DEF Where, SeenOfAccount, Select
<1>6. \A a, b \in ProvenAccounts : a # b => cut[a] \cap cut[b] = {}
  <2> SUFFICES ASSUME NEW a \in ProvenAccounts, NEW b \in ProvenAccounts, a # b,
                      NEW o \in cut[a], o \in cut[b]
               PROVE  FALSE
    OBVIOUS
  <2>1. a.id = b.id
    BY <1>5
  <2> QED
    BY <1>1, <2>1, AccountsAssumption
<1>7. ASSUME NEW o \in Where(SeenInScope, IsPaid)
      PROVE  \E a \in ProvenAccounts : o \in cut[a]
  <2>1. o \in SeenInScope /\ IsPaid(o)
    BY DEF Where
  <2>2. o \in orderTable /\ o.account \in Ids(ScopedAccounts(answer.history))
    BY <2>1 DEF SeenInScope, SeenRows, Select
  <2> PICK a \in ScopedAccounts(answer.history) : o.account = a.id
    BY <2>2 DEF Ids
  <2>3. a \in AnalyticsAccounts /\ HasHistory(a)
    BY <1>1, <2>2 DEF HasHistory
  <2>4. a \in answer.history
    BY <2>3, QuietFacts DEF AnswersNow, Answered
  <2>5. \E v \in Availability(a, a \in answer.history) : HasProvenData(v)
    <3>1. a.connected \in BOOLEAN
      BY <2>3, AccountsAssumption
    <3>2. CASE a.connected
      BY <2>4, <3>2 DEF Availability, HasProvenData
    <3>3. CASE ~a.connected
      BY <2>4, <3>3 DEF Availability, HasProvenData
    <3> QED
      BY <3>1, <3>2, <3>3
  <2>6. a \in ProvenAccounts
    BY <2>5 DEF ProvenAccounts
  <2>7. o \in SeenOfAccount(a)
    BY <1>3, <2>1 DEF SeenInScope, SeenRows, Select, SeenOfAccount
  <2> QED
    BY <2>1, <2>6, <2>7 DEF Where
<1> QED
  BY <1>2, <1>4, <1>6, <1>7 DEF Cuts

\* What the totals of a quiet request are.
LEMMA QuietTotals ==
  ASSUME Quiet
  PROVE  /\ answer.totals = OrderTotals(SeenInScope)
         /\ answer.totalItems = ItemTotals(SeenInScope)
         /\ SeenInScope \subseteq AllRows
         /\ SeenRows(CurrentWindow, {"FULL"}) \subseteq AllRows
<1>1. Answered("totals") /\ Answered("totalItems") /\ orderTable \subseteq AllRows
      /\ \A q : Answered(q) => AnswersNow(q, answer[q])
  BY QuietFacts DEF Quiet
<1>2. AnswersNow("totals", answer["totals"]) /\ AnswersNow("totalItems", answer["totalItems"])
  BY <1>1
<1>3. answer.totals = OrderTotals(SeenInScope) /\ answer.totalItems = ItemTotals(SeenInScope)
  BY <1>2 DEF AnswersNow
<1>4. \A w, kept : SeenRows(w, kept) \subseteq orderTable
  BY DEF SeenRows, Select
<1> QED
  BY <1>1, <1>3, <1>4 DEF SeenInScope

LEMMA AccountsAddUp ==
  ASSUME Quiet, filter.logistics = "ALL"
  PROVE  /\ answer.totals.revenue =
               SumOver(ProvenAccounts, LAMBDA a : answer.accountOrders[a].revenue)
         /\ answer.totalItems.units = SumOver(ProvenAccounts, LAMBDA a : answer.accountItems[a])
<1> DEFINE cut == [a \in ProvenAccounts |-> Where(SeenOfAccount(a), IsPaid)]
           money == [a \in ProvenAccounts |-> answer.accountOrders[a].revenue]
           unit == [a \in ProvenAccounts |-> answer.accountItems[a]]
           paid == Where(SeenInScope, IsPaid)
<1>1. Cuts(ProvenAccounts, cut, paid)
  BY AccountsCut
<1>2. paid \subseteq AllRows
  BY QuietTotals DEF Where
<1>3. ProvenAccounts \subseteq ClassifiedAccounts(answer.history)
  BY DEF ProvenAccounts, ScopedAccounts
<1>4. AnswersNow("accountOrders", answer["accountOrders"])
      /\ AnswersNow("accountItems", answer["accountItems"])
  BY QuietFacts DEF AllAnswered, AccountPart, Answered
<1>5. answer.accountOrders =
         [a \in ClassifiedAccounts(answer.history) |-> OrderTotals(SeenOfAccount(a))]
  BY <1>4 DEF AnswersNow
<1>6. answer.accountItems =
         [a \in ClassifiedAccounts(answer.history) |->
             UnitsOf(Where(SeenOfAccount(a), IsPaid))]
  BY <1>4 DEF AnswersNow
<1>7. \A a \in ProvenAccounts : OrderTotals(SeenOfAccount(a)).revenue = AmountOf(cut[a])
  BY DEF OrderTotals
<1>8. \A a \in ProvenAccounts : money[a] = AmountOf(cut[a])
  <2> HIDE DEF cut
  <2> QED
    BY <1>3, <1>5, <1>7
<1>9. \A a \in ProvenAccounts : unit[a] = UnitsOf(cut[a])
  BY <1>3, <1>6
<1>10. answer.totals.revenue = AmountOf(paid) /\ answer.totalItems.units = UnitsOf(paid)
  BY QuietTotals DEF OrderTotals, ItemTotals
<1> HIDE DEF cut, money, unit, paid
<1>11. SumFunctionOnSet(money, ProvenAccounts) = AmountOf(paid)
  BY <1>1, <1>2, <1>8, MoneyOfCuts
<1>12. SumFunctionOnSet(unit, ProvenAccounts) = UnitsOf(paid)
  BY <1>1, <1>2, <1>9, UnitsOfCuts
<1>13. SumFunctionOnSet([a \in ProvenAccounts |-> answer.accountOrders[a].revenue],
                        ProvenAccounts) = AmountOf(paid)
  BY <1>11 DEF money
<1>14. SumFunctionOnSet([a \in ProvenAccounts |-> answer.accountItems[a]], ProvenAccounts)
          = UnitsOf(paid)
  BY <1>12 DEF unit
<1> QED
  BY <1>10, <1>13, <1>14 DEF SumOver

\* Of one account the legacy endpoint tells at least as many products apart: its
\* keys decide the others.
LEMMA LegacyKeys ==
  ASSUME NEW items, IsFiniteSet(items), \A r, s \in items : r.order.account = s.order.account
  PROVE  Cardinality(Products(items)) <= Cardinality({LegacyProduct(r) : r \in items})
<1> DEFINE L == {LegacyProduct(r) : r \in items}
           P == Products(items)
           holder(l) == CHOOSE r \in items : LegacyProduct(r) = l
           f == [l \in L |-> Product(holder(l))]
           g == [r \in items |-> LegacyProduct(r)]
<1>1. \A r, s \in items : LegacyProduct(r) = LegacyProduct(s) => Product(r) = Product(s)
  <2> SUFFICES ASSUME NEW r \in items, NEW s \in items, LegacyProduct(r) = LegacyProduct(s)
               PROVE  Product(r) = Product(s)
    OBVIOUS
  <2>1. CASE r.item.sku # NoSku
    BY <2>1 DEF LegacyProduct, Product
  <2>2. CASE r.item.sku = NoSku
    BY <2>2 DEF LegacyProduct, Product
  <2> QED
    BY <2>1, <2>2
<1>2. \A l \in L : holder(l) \in items /\ LegacyProduct(holder(l)) = l
  OBVIOUS
<1>3. \A r \in items : LegacyProduct(r) \in L /\ holder(LegacyProduct(r)) \in items
         /\ LegacyProduct(holder(LegacyProduct(r))) = LegacyProduct(r)
  OBVIOUS
<1>4. \A r \in items : f[LegacyProduct(r)] = Product(r)
  <2> SUFFICES ASSUME NEW r \in items PROVE f[LegacyProduct(r)] = Product(r)
    OBVIOUS
  <2>1. f[LegacyProduct(r)] = Product(holder(LegacyProduct(r)))
    BY <1>3
  <2> HIDE DEF f, holder
  <2> QED
    BY <1>1, <1>3, <2>1
<1>5. \A l \in L : f[l] \in P
  BY <1>2 DEF Products
<1>6. \A p \in P : \E l \in L : f[l] = p
  <2> SUFFICES ASSUME NEW p \in P PROVE \E l \in L : f[l] = p
    OBVIOUS
  <2>1. PICK r \in items : p = Product(r)
    BY DEF Products
  <2> HIDE DEF f, holder
  <2> QED
    BY <1>4, <2>1
<1>7. DOMAIN f = L /\ f = [l \in L |-> f[l]]
  OBVIOUS
<1>8. g \in Surjection(items, L)
  BY DEF Surjection
<1> HIDE DEF f, g, L, P
<1>9. IsFiniteSet(L)
  BY <1>8, FS_Surjection
<1>10. f \in Surjection(L, P)
  BY <1>5, <1>6, <1>7 DEF Surjection
<1>11. Cardinality(P) <= Cardinality(L)
  BY <1>9, <1>10, FS_Surjection
<1> QED
  BY <1>11 DEF P, L

\* The legacy endpoint of the only account of a filter shows the same figures.
LEMMA LegacyAgrees ==
  ASSUME Quiet, NEW a, ScopedAccounts(answer.history) = {a}, filter.logistics = "ALL",
         NEW legacy, legacy = LegacySummary(orderTable, a.id, CurrentWindow)
  PROVE  /\ \A f \in {"revenue", "orders", "cancelled"} : legacy[f] = answer.totals[f]
         /\ \A f \in {"units", "itemsRevenue"} : legacy[f] = answer.totalItems[f]
         /\ legacy.products >= answer.totalItems.products
<1> PICK w : w = CurrentWindow
  OBVIOUS
<1> DEFINE seen == {o \in orderTable : o.account = a.id /\ w[1] <= o.at /\ o.at < w[2]}
           paid == Where(seen, IsPaid)
           keys == {LegacyProduct(r) : r \in ItemRows(paid)}
<1>1. orderTable \subseteq AllRows
  BY QuietFacts
<1>2. seen = SeenInScope
  <2>1. ClassesOf(filter) = Classes
    BY DEF ClassesOf
  <2>2. Ids({a}) = {a.id}
    BY DEF Ids
  <2>3. SeenInScope = Select(orderTable, {a.id}, w, Classes)
    BY <2>1, <2>2 DEF SeenInScope, SeenRows
  <2>4. \A o \in orderTable : o.class \in Classes
    BY <1>1, RowsAre
  <2> QED
    BY <2>3, <2>4 DEF Select
<1>3. legacy = [revenue |-> AmountOf(paid), orders |-> Cardinality(paid),
                cancelled |-> Cardinality(Where(seen, IsCancelled)), units |-> UnitsOf(paid),
                itemsRevenue |-> ValueOf(ItemRows(paid)), products |-> Cardinality(keys)]
  BY DEF LegacySummary
<1>4. paid \subseteq AllRows /\ \A o \in paid : o.account = a.id
  BY <1>1 DEF Where
<1> HIDE DEF seen
<1>5. answer.totals = OrderTotals(seen) /\ answer.totalItems = ItemTotals(seen)
  BY <1>2, QuietTotals
<1>6. IsFiniteSet(ItemRows(paid)) /\ \A r \in ItemRows(paid) : r.order \in paid
  <2> HIDE DEF paid
  <2> QED
    BY <1>4, ItemRowsAre
<1>7. \A r, s \in ItemRows(paid) : r.order.account = s.order.account
  <2> HIDE DEF paid
  <2> QED
    BY <1>4, <1>6
<1>8. Cardinality(Products(ItemRows(paid))) <= Cardinality(keys)
  BY <1>6, <1>7, LegacyKeys
<1>9. IsFiniteSet(keys) /\ IsFiniteSet(Products(ItemRows(paid)))
  <2> DEFINE items == ItemRows(paid)
             f == [r \in items |-> LegacyProduct(r)]
             g == [r \in items |-> Product(r)]
  <2>1. f \in Surjection(items, keys) /\ g \in Surjection(items, Products(items))
    BY DEF Surjection, Products
  <2> HIDE DEF f, g, keys, paid
  <2> QED
    BY <1>6, <2>1, FS_Surjection
<1>10. Cardinality(keys) \in Nat /\ Cardinality(Products(ItemRows(paid))) \in Nat
  BY <1>9, FS_CardinalityType
<1>11. /\ answer.totals.revenue = AmountOf(paid) /\ answer.totals.orders = Cardinality(paid)
       /\ answer.totals.cancelled = Cardinality(Where(seen, IsCancelled))
       /\ answer.totalItems.units = UnitsOf(paid)
       /\ answer.totalItems.itemsRevenue = ValueOf(ItemRows(paid))
       /\ answer.totalItems.products = Cardinality(Products(ItemRows(paid)))
  BY <1>5 DEF OrderTotals, ItemTotals
<1> HIDE DEF paid, keys
<1>12. legacy.products >= answer.totalItems.products
  BY <1>3, <1>8, <1>10, <1>11
<1> QED
  BY <1>3, <1>11, <1>12

\* The points of a series add up to the totals of its rows.
LEMMA QuietSeries ==
  ASSUME Quiet, NEW kept, NEW rows, rows = SeenRows(CurrentWindow, kept)
  PROVE  /\ \A panel : Answered(panel) /\ answer[panel] = SeriesOf(rows, CurrentWindow) =>
               SeriesAddsUp(panel, AmountOf(Where(rows, IsPaid)),
                            Cardinality(Where(rows, IsPaid)))
         /\ \A key : Answered(key) /\ answer[key] = UnitSeries(rows, CurrentWindow) =>
               UnitsAddUp(key, UnitsOf(Where(rows, IsPaid)))
<1> PICK w : w = CurrentWindow
  OBVIOUS
<1> PICK n : Listed(rows, w, n)
  BY WindowIsListed
<1>1. rows \subseteq AllRows
  BY QuietFacts DEF SeenRows, Select
<1>2. ASSUME NEW points, points = OrderSeries(rows, w), NEW units, units = UnitSeries(rows, w)
      PROVE  /\ SumFunctionOnSet([k \in DOMAIN points |-> points[k].revenue], DOMAIN points)
                   = AmountOf(Where(rows, IsPaid))
             /\ SumFunctionOnSet([k \in DOMAIN points |-> points[k].orders], DOMAIN points)
                   = Cardinality(Where(rows, IsPaid))
             /\ SumFunctionOnSet([k \in DOMAIN units |-> units[k]], DOMAIN units)
                   = UnitsOf(Where(rows, IsPaid))
  BY <1>1, <1>2, SeriesSums
<1>3. ASSUME NEW panel, answer[panel] = SeriesOf(rows, w)
      PROVE  SeriesAddsUp(panel, AmountOf(Where(rows, IsPaid)), Cardinality(Where(rows, IsPaid)))
  <2>1. answer[panel].orders = OrderSeries(rows, w)
    BY <1>3 DEF SeriesOf
  <2> PICK points : points = answer[panel].orders
    OBVIOUS
  <2>2. /\ SumFunctionOnSet([k \in DOMAIN points |-> points[k].revenue], DOMAIN points)
              = AmountOf(Where(rows, IsPaid))
        /\ SumFunctionOnSet([k \in DOMAIN points |-> points[k].orders], DOMAIN points)
              = Cardinality(Where(rows, IsPaid))
    BY <1>2, <2>1
  <2> QED
    BY <2>2 DEF SeriesAddsUp, SumOver
<1>4. ASSUME NEW key, answer[key] = UnitSeries(rows, w)
      PROVE  UnitsAddUp(key, UnitsOf(Where(rows, IsPaid)))
  <2> PICK units : units = answer[key]
    OBVIOUS
  <2>1. SumFunctionOnSet([k \in DOMAIN units |-> units[k]], DOMAIN units)
              = UnitsOf(Where(rows, IsPaid))
    BY <1>2, <1>4
  <2> QED
    BY <2>1 DEF UnitsAddUp, SumOver
<1> QED
  BY <1>3, <1>4

\* The breakdown of a quiet request, group by group.
LEMMA QuietGroups ==
  ASSUME Quiet
  PROVE  /\ Answered("groups") => \A g \in GroupNames :
               answer.groups[g] = OrderTotals(Part(SeenRows(CurrentWindow, Classes), g))
         /\ Answered("groupItems") => \A g \in GroupNames :
               answer.groupItems[g] = ItemTotals(Part(SeenRows(CurrentWindow, Classes), g))
<1> PICK rows : rows = SeenRows(CurrentWindow, Classes)
  OBVIOUS
<1>1. \A q : Answered(q) => AnswersNow(q, answer[q])
  BY QuietFacts
<1>2. Answered("groups") => answer.groups = ByGroup(rows, OrderTotals)
  BY <1>1 DEF AnswersNow
<1>3. Answered("groupItems") => answer.groupItems = ByGroup(rows, ItemTotals)
  BY <1>1 DEF AnswersNow
<1>4. \A g \in GroupNames : ByGroup(rows, OrderTotals)[g] = OrderTotals(Part(rows, g))
                            /\ ByGroup(rows, ItemTotals)[g] = ItemTotals(Part(rows, g))
  BY DEF ByGroup, Part
<1> QED
  BY <1>2, <1>3, <1>4

\* The figures of the group of Full.
LEMMA QuietFull ==
  ASSUME Quiet
  PROVE  /\ Answered("groups") =>
               answer.groups["full"] = OrderTotals(SeenRows(CurrentWindow, {"FULL"}))
         /\ Answered("groupItems") =>
               answer.groupItems["full"] = ItemTotals(SeenRows(CurrentWindow, {"FULL"}))
<1> PICK w : w = CurrentWindow
  OBVIOUS
<1>1. Part(SeenRows(w, Classes), "full") = SeenRows(w, {"FULL"})
  BY QuietFacts, GroupIsScope
<1>2. "full" \in GroupNames
  BY DEF GroupNames
<1> QED
  BY <1>1, <1>2, QuietGroups

\* A quiet request adds up.
LEMMA QuietSound == AnalyticsIInv /\ QuietIInv => QuietAnswerAddsUp
<1> SUFFICES ASSUME AnalyticsIInv, QuietIInv, ~disturbed, Answered("totalItems")
             PROVE  QuietAnswerAddsUp
  BY DEF QuietAnswerAddsUp
<1>1. Quiet
  BY DEF Quiet
<1> DEFINE rows == SeenInScope
           full == SeenRows(CurrentWindow, {"FULL"})
<1>2. /\ answer.totals = OrderTotals(rows) /\ answer.totalItems = ItemTotals(rows)
      /\ rows \subseteq AllRows /\ full \subseteq AllRows
      /\ rows = SeenRows(CurrentWindow, ClassesOf(filter))
  BY <1>1, QuietTotals DEF SeenInScope
<1>3. \A q : Answered(q) => AnswersNow(q, answer[q])
  BY <1>1, QuietFacts
<1>4. /\ answer.totals.revenue = AmountOf(Where(rows, IsPaid))
      /\ answer.totals.orders = Cardinality(Where(rows, IsPaid))
      /\ answer.totalItems.units = UnitsOf(Where(rows, IsPaid))
  BY <1>2 DEF OrderTotals, ItemTotals
<1>5. Answered("series") => SeriesAddsUp("series", answer.totals.revenue, answer.totals.orders)
  <2>1. Answered("series") => answer["series"] = SeriesOf(rows, CurrentWindow)
    BY <1>3 DEF AnswersNow
  <2> HIDE DEF rows
  <2> QED
    BY <1>1, <1>2, <1>4, <2>1, QuietSeries
<1>6. Answered("groups") =>
         LET g == CASE filter.logistics = "ALL" -> "total"
                    [] filter.logistics = "FULL" -> "full"
                    [] OTHER -> "nonFull"
         IN  answer.groups[g] = answer.totals
  <2> DEFINE g == CASE filter.logistics = "ALL" -> "total"
                    [] filter.logistics = "FULL" -> "full"
                    [] OTHER -> "nonFull"
  <2>1. g \in GroupNames /\ Part(SeenRows(CurrentWindow, Classes), g) = rows
    BY <1>1, <1>2, QuietFacts, GroupIsScope
  <2> HIDE DEF g
  <2>2. Answered("groups") => answer.groups[g] = answer.totals
    BY <1>1, <1>2, <2>1, QuietGroups
  <2> QED
    BY <2>2 DEF g
<1>7. Answered("groups") /\ Answered("fullSeries") =>
         LET group == answer.groups["full"]
         IN  SeriesAddsUp("fullSeries", group.revenue, group.orders)
  <2> SUFFICES ASSUME Answered("groups"), Answered("fullSeries")
               PROVE  SeriesAddsUp("fullSeries", answer.groups["full"].revenue,
                                   answer.groups["full"].orders)
    OBVIOUS
  <2>1. answer["fullSeries"] = SeriesOf(full, CurrentWindow)
    BY <1>3 DEF AnswersNow
  <2>2. /\ answer.groups["full"].revenue = AmountOf(Where(full, IsPaid))
        /\ answer.groups["full"].orders = Cardinality(Where(full, IsPaid))
    BY <1>1, QuietFull DEF OrderTotals
  <2>3. SeriesAddsUp("fullSeries", AmountOf(Where(full, IsPaid)),
                     Cardinality(Where(full, IsPaid)))
    BY <1>1, <2>1, QuietSeries
  <2> QED
    BY <2>2, <2>3
<1>8. Answered("seriesUnits") => UnitsAddUp("seriesUnits", answer.totalItems.units)
  <2>1. Answered("seriesUnits") => answer["seriesUnits"] = UnitSeries(rows, CurrentWindow)
    BY <1>3 DEF AnswersNow
  <2> HIDE DEF rows
  <2> QED
    BY <1>1, <1>2, <1>4, <2>1, QuietSeries
<1>9. Answered("groupItems") /\ Answered("fullSeriesUnits") =>
         UnitsAddUp("fullSeriesUnits", answer.groupItems["full"].units)
  <2> SUFFICES ASSUME Answered("groupItems"), Answered("fullSeriesUnits")
               PROVE  UnitsAddUp("fullSeriesUnits", answer.groupItems["full"].units)
    OBVIOUS
  <2>1. answer["fullSeriesUnits"] = UnitSeries(full, CurrentWindow)
    BY <1>3 DEF AnswersNow
  <2>2. answer.groupItems["full"].units = UnitsOf(Where(full, IsPaid))
    BY <1>1, QuietFull DEF ItemTotals
  <2>3. UnitsAddUp("fullSeriesUnits", UnitsOf(Where(full, IsPaid)))
    BY <1>1, <2>1, QuietSeries
  <2> QED
    BY <2>2, <2>3
<1>10. Answered("skus") => \A s \in SkuShares : s \in 0..1000
  <2> SUFFICES ASSUME Answered("skus"), NEW s \in SkuShares PROVE s \in 0..1000
    OBVIOUS
  <2>1. PICK e \in answer.skus : s = ShareOf(e.units, answer.totalItems.units)
    BY DEF SkuShares
  <2>2. e \in SkuRanking(rows)
    BY <1>3 DEF AnswersNow
  <2> HIDE DEF rows
  <2> PICK some, total : some = e.units /\ total = answer.totalItems.units
    OBVIOUS
  <2>3. some \in Nat /\ some <= total /\ total \in Nat
    BY <1>2, <1>4, <2>2, SkuUnits
  <2>4. IsShare(ShareOf(some, total))
    BY <2>3, ShareIsShare
  <2>5. s = ShareOf(some, total)
    BY <2>1
  <2> QED
    BY <2>4, <2>5 DEF IsShare
<1>11. Answered("groupItems") /\ Answered("fullRanking") => \A s \in FullShares : s \in 0..1000
  <2> SUFFICES ASSUME Answered("groupItems"), Answered("fullRanking"), NEW s \in FullShares
               PROVE  s \in 0..1000
    OBVIOUS
  <2>1. PICK e \in answer.fullRanking :
           s = ShareOf(e.units, answer.groupItems["full"].salesUnits)
    BY DEF FullShares
  <2>2. e \in FullRanking(full)
    BY <1>3 DEF AnswersNow
  <2>3. answer.groupItems["full"].salesUnits = UnitsOf(Where(full, IsGrossSale))
    BY <1>1, QuietFull DEF ItemTotals
  <2> HIDE DEF full
  <2> PICK some, total : some = e.units /\ total = answer.groupItems["full"].salesUnits
    OBVIOUS
  <2>4. some \in Nat /\ some <= total /\ total \in Nat
    BY <1>2, <2>2, <2>3, FullUnits
  <2>5. IsShare(ShareOf(some, total))
    BY <2>4, ShareIsShare
  <2>6. s = ShareOf(some, total)
    BY <2>1
  <2> QED
    BY <2>5, <2>6 DEF IsShare
<1>12. filter.logistics = "ALL" =>
          /\ answer.totals.revenue =
                 SumOver(ProvenAccounts, LAMBDA a : answer.accountOrders[a].revenue)
          /\ answer.totalItems.units =
                 SumOver(ProvenAccounts, LAMBDA a : answer.accountItems[a])
  BY <1>1, AccountsAddUp
<1>13. \A a \in ScopedAccounts(answer.history) :
          ScopedAccounts(answer.history) = {a} /\ filter.logistics = "ALL" =>
              LET legacy == LegacySummary(orderTable, a.id, CurrentWindow)
              IN  /\ \A f \in {"revenue", "orders", "cancelled"} : legacy[f] = answer.totals[f]
                  /\ \A f \in {"units", "itemsRevenue"} : legacy[f] = answer.totalItems[f]
                  /\ legacy.products >= answer.totalItems.products
  <2> SUFFICES ASSUME NEW a \in ScopedAccounts(answer.history),
                      ScopedAccounts(answer.history) = {a}, filter.logistics = "ALL"
               PROVE  LET legacy == LegacySummary(orderTable, a.id, CurrentWindow)
                      IN  /\ \A f \in {"revenue", "orders", "cancelled"} :
                                 legacy[f] = answer.totals[f]
                          /\ \A f \in {"units", "itemsRevenue"} :
                                 legacy[f] = answer.totalItems[f]
                          /\ legacy.products >= answer.totalItems.products
    OBVIOUS
  <2> PICK endpoint : endpoint = LegacySummary(orderTable, a.id, CurrentWindow)
    OBVIOUS
  <2>1. /\ \A f \in {"revenue", "orders", "cancelled"} : endpoint[f] = answer.totals[f]
        /\ \A f \in {"units", "itemsRevenue"} : endpoint[f] = answer.totalItems[f]
        /\ endpoint.products >= answer.totalItems.products
    BY <1>1, LegacyAgrees
  <2> QED
    BY <2>1
<1> HIDE DEF rows, full
<1> QED
  BY <1>5, <1>6, <1>7, <1>8, <1>9, <1>10, <1>11, <1>12, <1>13 DEF QuietAnswerAddsUp

\* A response that no synchronisation disturbed adds up: its daily series, its
\* accounts, its groups and the legacy endpoint give the totals, and no share is
\* above the whole (getAggregate and the endpoint of one account).
THEOREM QuietTheorem == AnalyticsSpec => []QuietAnswerAddsUp
<1>1. AnalyticsInit => AnalyticsIInv /\ QuietIInv
  BY AnalyticsStart, QuietStart
<1>2. AnalyticsIInv /\ QuietIInv /\ [AnalyticsNext]_analyticsVars
         => AnalyticsIInv' /\ QuietIInv'
  BY AnalyticsKeeps, QuietKeeps
<1>3. AnalyticsIInv /\ QuietIInv => QuietAnswerAddsUp
  BY QuietSound
<1> QED
  BY <1>1, <1>2, <1>3, PTL DEF AnalyticsSpec

=============================================================================
