----------------------------- MODULE CivilDate -----------------------------
(***************************************************************************)
(* The calendar arithmetic of parseHttpDate in                             *)
(* src/internal/CurierRetry.cpp.  sscanf and the month names are left out: *)
(* a date is its numbers.  Division truncates in the code and rounds down  *)
(* here; the dividends are not negative for the years the parser accepts.  *)
(*                                                                         *)
(* An operator commented "Slip:" is the operator after it with a plausible *)
(* mistake in it; nothing uses it.                                         *)
(***************************************************************************)
EXTENDS Integers

\* Slip: the Julian rule.
IsLeapYearJulian(y) == y % 4 = 0

IsLeapYear(y) == (y % 4 = 0 /\ y % 100 # 0) \/ y % 400 = 0

DaysInMonth(y, m) ==
    IF m = 2 THEN IF IsLeapYear(y) THEN 29 ELSE 28
             ELSE IF m \in {4, 6, 9, 11} THEN 30 ELSE 31

\* Slip: the months are not counted from March.
MonthFromMarchOff(m) == IF m > 2 THEN m - 3 ELSE m + 8

\* The months counted from March, so that the leap day ends the year.
MonthFromMarch(m) == IF m > 2 THEN m - 3 ELSE m + 9

DaysFromCivil(y0, m, d) ==
    LET y == IF m <= 2 THEN y0 - 1 ELSE y0
        era == y \div 400
        yearOfEra == y - era * 400
        dayOfYear == (153 * MonthFromMarch(m) + 2) \div 5 + d - 1
        dayOfEra == yearOfEra * 365 + yearOfEra \div 4 - yearOfEra \div 100 + dayOfYear
    IN  era * 146097 + dayOfEra - 719468

\* The fields parseHttpDate accepts, after sscanf has matched them; second 60
\* is a leap second.
IsHttpDate(y, m, d, hour, minute, second) ==
    /\ y >= 1970
    /\ m \in 1..12
    /\ d \in 1..DaysInMonth(y, m)
    /\ hour \in 0..23 /\ minute \in 0..59 /\ second \in 0..60

EpochSeconds(y, m, d, hour, minute, second) ==
    DaysFromCivil(y, m, d) * 86400 + hour * 3600 + minute * 60 + second
=============================================================================
