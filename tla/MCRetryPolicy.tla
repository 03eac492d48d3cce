---------------------------- MODULE MCRetryPolicy ----------------------------
(* An instance of RetryPolicy for TLC: configurations around the bounds.     *)
EXTENDS RetryPolicy

MCConfigs ==
    [mode : {"Disabled", "Fixed", "Exponential"},
     maxRetries : {0, 6},
     baseDelayMs : {0, 1, 20}, maxDelayMs : {0, 12, 31},
     jitterPercent : {0, 50, 101},
     respectRetryAfter : BOOLEAN,
     enabled : {Categories, {"Http5xx"}},
     custom : BOOLEAN]
==============================================================================
