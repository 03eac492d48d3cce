---------------------------- MODULE MCRetryAfter ----------------------------
(* An instance of RetryAfter for TLC: dates of the first days of 1970, the  *)
(* only ones whose seconds fit the small width, and dates that are refused. *)
EXTENDS RetryAfter

At(y, m, d, hour, minute, second) ==
    [year |-> y, month |-> m, day |-> d, hour |-> hour, minute |-> minute, second |-> second]

MCDates ==
    {At(1970, 1, 1, 0, 0, 0), At(1970, 1, 1, 0, 0, 7), At(1970, 1, 1, 23, 59, 60),
     At(1970, 1, 2, 23, 59, 59), At(1970, 1, 32, 0, 0, 0), At(1970, 2, 29, 0, 0, 0),
     At(1969, 12, 31, 23, 59, 59), At(1970, 1, 1, 24, 0, 0)}
=============================================================================
