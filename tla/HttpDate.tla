------------------------------ MODULE HttpDate ------------------------------
(***************************************************************************)
(* daysFromCivil against a calendar that is turned one day at a time from  *)
(* 1 January 1970, the first date parseHttpDate accepts.                   *)
(***************************************************************************)
EXTENDS CivilDate

CONSTANT LastYear   \* bound: the calendar is turned to the end of this year

ASSUME LastYearAssumption == LastYear \in Nat

VARIABLES year, month, day, days

vars == <<year, month, day, days>>

-----------------------------------------------------------------------------
(* The reference calendar *)

Init == year = 1970 /\ month = 1 /\ day = 1 /\ days = 0

NextDay ==
    /\ day < DaysInMonth(year, month)
    /\ day' = day + 1
    /\ days' = days + 1
    /\ UNCHANGED <<year, month>>

NextMonth ==
    /\ day = DaysInMonth(year, month)
    /\ month < 12
    /\ month' = month + 1
    /\ day' = 1
    /\ days' = days + 1
    /\ UNCHANGED year

NextYear ==
    /\ day = DaysInMonth(year, month)
    /\ month = 12
    /\ year < LastYear
    /\ year' = year + 1
    /\ month' = 1
    /\ day' = 1
    /\ days' = days + 1

Next == NextDay \/ NextMonth \/ NextYear

Spec == Init /\ [][Next]_vars

-----------------------------------------------------------------------------
(* Properties *)

\* The calendar shows dates the parser accepts.
DateOK ==
    /\ year \in Nat /\ month \in 1..12 /\ days \in Nat
    /\ day \in 1..DaysInMonth(year, month)
    /\ IsHttpDate(year, month, day, 0, 0, 0)

\* daysFromCivil counts the days since 1 January 1970: it follows the calendar
\* through every end of month, leap day, century and era.
DaysFromCivilCounts == DaysFromCivil(year, month, day) = days
=============================================================================
