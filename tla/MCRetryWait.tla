----------------------------- MODULE MCRetryWait -----------------------------
(* An instance of RetryWait for TLC: three ticks in four milliseconds, and a   *)
(* tick counter of three bits.  The delays have one that is less than a tick,  *)
(* the greatest number of ticks and one beyond the width of the conversion.    *)
EXTENDS RetryWait

MCDelays == {0, 1, 5, 10, 11}
==============================================================================
