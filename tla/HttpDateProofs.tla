--------------------------- MODULE HttpDateProofs ---------------------------
(***************************************************************************)
(* A proof that daysFromCivil counts the days of the Gregorian calendar,   *)
(* for every year from 1970 on.                                            *)
(***************************************************************************)
EXTENDS HttpDate, TLAPS

\* The years of an era, and how many leap days they hold, in the form the
\* formula computes them.
YearDays(y) ==
    LET yearOfEra == y - (y \div 400) * 400
    IN  (y \div 400) * 146097 + yearOfEra * 365 + yearOfEra \div 4 - yearOfEra \div 100

MonthDays(m) == (153 * MonthFromMarch(m) + 2) \div 5

\* From one March to the next there are 366 days when the February between
\* them is in a leap year.
LEMMA YearLength ==
    ASSUME NEW y \in Nat, y > 0
    PROVE  YearDays(y) = YearDays(y - 1) + (IF IsLeapYear(y) THEN 366 ELSE 365)
  <1> DEFINE e == (y - 1) \div 400
             r == (y - 1) - e * 400
  <1>1. e \in Nat /\ r \in 0..399 /\ y - 1 = e * 400 + r
    OBVIOUS
  <1> QED
    BY <1>1 DEF YearDays, IsLeapYear

\* The months from March have the lengths of daysInMonth.
LEMMA MonthLength ==
    ASSUME NEW y \in Nat, NEW m \in 1..11, m # 2
    PROVE  MonthDays(m + 1) = MonthDays(m) + DaysInMonth(y, m)
  BY DEF MonthDays, MonthFromMarch, DaysInMonth

\* The formula is the days of the years before, of the months before and of
\* the month.
LEMMA CivilSplit ==
    ASSUME NEW y \in Nat, y > 0, NEW m \in 1..12, NEW d \in Nat
    PROVE  DaysFromCivil(y, m, d) =
             YearDays(IF m <= 2 THEN y - 1 ELSE y) + MonthDays(m) + d - 1 - 719468
  <1> DEFINE z == IF m <= 2 THEN y - 1 ELSE y
             e == z \div 400
             r == z - e * 400
  <1>1. z \in Nat /\ e \in Nat /\ r \in Nat
    OBVIOUS
  <1>2. MonthDays(m) \in Nat
    BY DEF MonthDays, MonthFromMarch
  <1>3. YearDays(z) = e * 146097 + r * 365 + r \div 4 - r \div 100
    BY DEF YearDays
  <1>4. DaysFromCivil(y, m, d) =
          e * 146097 + (r * 365 + r \div 4 - r \div 100 + (MonthDays(m) + d - 1)) - 719468
    BY DEF DaysFromCivil, MonthDays
  <1> HIDE DEF z, e, r
  <1>5. r \div 4 \in Int /\ r \div 100 \in Int
    BY <1>1
  <1>6. DaysFromCivil(y, m, d) = YearDays(z) + MonthDays(m) + d - 1 - 719468
    BY <1>1, <1>2, <1>3, <1>4, <1>5
  <1> QED
    BY <1>6 DEF z

-----------------------------------------------------------------------------
(* The calendar *)

\* The inductive invariant: the calendar shows a date, and the formula counts
\* its days.
CalendarInv == DateOK /\ DaysFromCivilCounts

LEMMA CalendarInit == Init => CalendarInv
  <1> SUFFICES ASSUME Init
               PROVE  CalendarInv
    OBVIOUS
  <1>1. DateOK
    BY DEF Init, DateOK, IsHttpDate, DaysInMonth
  <1>2. DaysFromCivil(1970, 1, 1) = 0
    BY DEF DaysFromCivil, MonthFromMarch
  <1> QED
    BY <1>1, <1>2 DEF Init, CalendarInv, DaysFromCivilCounts

\* The day after the last day of a month that is not February or December.
LEMMA MonthEnd ==
    ASSUME NEW y \in Nat, y > 0, NEW m \in 1..11, m # 2
    PROVE  DaysFromCivil(y, m + 1, 1) = DaysFromCivil(y, m, DaysInMonth(y, m)) + 1
  <1> DEFINE d == DaysInMonth(y, m)
  <1>1. d \in Nat /\ m + 1 \in 1..12
    BY DEF DaysInMonth
  <1>2. (m <= 2) <=> (m + 1 <= 2)
    OBVIOUS
  <1>3. MonthDays(m + 1) = MonthDays(m) + d
    BY MonthLength
  <1> DEFINE z == IF m <= 2 THEN y - 1 ELSE y
  <1>4. DaysFromCivil(y, m, d) = YearDays(z) + MonthDays(m) + d - 1 - 719468
    BY <1>1, CivilSplit
  <1>5. DaysFromCivil(y, m + 1, 1) = YearDays(z) + MonthDays(m + 1) + 1 - 1 - 719468
    BY <1>1, <1>2, CivilSplit
  <1>6. YearDays(z) \in Int /\ MonthDays(m) \in Int
    BY DEF YearDays, MonthDays, MonthFromMarch
  <1> HIDE DEF z, d
  <1>7. DaysFromCivil(y, m + 1, 1) = DaysFromCivil(y, m, d) + 1
    BY <1>1, <1>3, <1>4, <1>5, <1>6
  <1> QED
    BY <1>7 DEF d

\* The day after the last of February, where the formula's year begins.
LEMMA FebruaryEnd ==
    ASSUME NEW y \in Nat, y > 0
    PROVE  DaysFromCivil(y, 3, 1) = DaysFromCivil(y, 2, DaysInMonth(y, 2)) + 1
  <1> DEFINE d == DaysInMonth(y, 2)
  <1>1. d = (IF IsLeapYear(y) THEN 29 ELSE 28) /\ d \in Nat
    BY DEF DaysInMonth
  <1>2. MonthDays(2) = 337 /\ MonthDays(3) = 0
    BY DEF MonthDays, MonthFromMarch
  <1>3. DaysFromCivil(y, 2, d) = YearDays(y - 1) + MonthDays(2) + d - 1 - 719468
    BY <1>1, CivilSplit
  <1>4. DaysFromCivil(y, 3, 1) = YearDays(y) + MonthDays(3) + 1 - 1 - 719468
    BY CivilSplit
  <1>5. YearDays(y) = YearDays(y - 1) + (IF IsLeapYear(y) THEN 366 ELSE 365)
    BY YearLength
  <1>6. YearDays(y) \in Int /\ YearDays(y - 1) \in Int
    BY DEF YearDays
  <1> HIDE DEF d
  <1>7. DaysFromCivil(y, 3, 1) = DaysFromCivil(y, 2, d) + 1
    BY <1>1, <1>2, <1>3, <1>4, <1>5, <1>6
  <1> QED
    BY <1>7 DEF d

\* The day after 31 December.
LEMMA YearEnd ==
    ASSUME NEW y \in Nat, y > 0
    PROVE  DaysFromCivil(y + 1, 1, 1) = DaysFromCivil(y, 12, 31) + 1
  <1>1. MonthDays(12) = 275 /\ MonthDays(1) = 306
    BY DEF MonthDays, MonthFromMarch
  <1>2. DaysFromCivil(y, 12, 31) = YearDays(y) + MonthDays(12) + 31 - 1 - 719468
    BY CivilSplit
  <1>3. DaysFromCivil(y + 1, 1, 1) = YearDays((y + 1) - 1) + MonthDays(1) + 1 - 1 - 719468
    BY CivilSplit
  <1>4. (y + 1) - 1 = y /\ YearDays(y) \in Int
    BY DEF YearDays
  <1> QED
    BY <1>1, <1>2, <1>3, <1>4

\* The day after any other day.
LEMMA DayWithin ==
    ASSUME NEW y \in Nat, y > 0, NEW m \in 1..12, NEW d \in Nat
    PROVE  DaysFromCivil(y, m, d + 1) = DaysFromCivil(y, m, d) + 1
  <1> DEFINE z == IF m <= 2 THEN y - 1 ELSE y
  <1>1. DaysFromCivil(y, m, d) = YearDays(z) + MonthDays(m) + d - 1 - 719468
    BY CivilSplit
  <1>2. DaysFromCivil(y, m, d + 1) = YearDays(z) + MonthDays(m) + (d + 1) - 1 - 719468
    BY CivilSplit
  <1>3. YearDays(z) \in Int /\ MonthDays(m) \in Int
    BY DEF YearDays, MonthDays, MonthFromMarch
  <1> HIDE DEF z
  <1> QED
    BY <1>1, <1>2, <1>3

LEMMA CalendarStep == CalendarInv /\ [Next]_vars => CalendarInv'
  <1> SUFFICES ASSUME CalendarInv, [Next]_vars
               PROVE  CalendarInv'
    OBVIOUS
  <1>1. /\ year \in Nat /\ year >= 1970 /\ month \in 1..12 /\ day \in Nat /\ days \in Nat
        /\ day \in 1..DaysInMonth(year, month)
        /\ DaysFromCivil(year, month, day) = days
    BY DEF CalendarInv, DateOK, DaysFromCivilCounts, IsHttpDate, DaysInMonth
  <1>2. CASE NextDay
    <2>1. DaysFromCivil(year, month, day + 1) = days + 1
      BY <1>1, DayWithin
    <2>2. day + 1 \in 1..DaysInMonth(year, month)
      BY <1>1, <1>2 DEF NextDay, DaysInMonth
    <2> QED
      BY <1>1, <1>2, <2>1, <2>2 DEF NextDay, CalendarInv, DateOK, DaysFromCivilCounts, IsHttpDate
  <1>3. CASE NextMonth
    <2>1. DaysFromCivil(year, month + 1, 1) = days + 1
      BY <1>1, <1>3, MonthEnd, FebruaryEnd DEF NextMonth
    <2>2. 1 \in 1..DaysInMonth(year, month + 1) /\ month + 1 \in 1..12
      BY <1>1, <1>3 DEF NextMonth, DaysInMonth
    <2> QED
      BY <1>1, <1>3, <2>1, <2>2 DEF NextMonth, CalendarInv, DateOK, DaysFromCivilCounts, IsHttpDate
  <1>4. CASE NextYear
    <2>1. day = 31
      BY <1>4 DEF NextYear, DaysInMonth
    <2>2. DaysFromCivil(year + 1, 1, 1) = days + 1
      BY <1>1, <1>4, <2>1, YearEnd DEF NextYear
    <2>3. 1 \in 1..DaysInMonth(year + 1, 1)
      BY DEF DaysInMonth
    <2> QED
      BY <1>1, <1>4, <2>2, <2>3 DEF NextYear, CalendarInv, DateOK, DaysFromCivilCounts, IsHttpDate
  <1>5. CASE UNCHANGED vars
    BY <1>5 DEF vars, CalendarInv, DateOK, DaysFromCivilCounts
  <1> QED
    BY <1>2, <1>3, <1>4, <1>5 DEF Next

\* daysFromCivil agrees with the calendar on every date from 1970 on, whatever
\* the last year.
THEOREM DaysFromCivilCountsAlways == Spec => []DaysFromCivilCounts
  <1>1. CalendarInv => DaysFromCivilCounts
    BY DEF CalendarInv
  <1> QED
    BY <1>1, CalendarInit, CalendarStep, PTL DEF Spec
=============================================================================
