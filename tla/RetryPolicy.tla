----------------------------- MODULE RetryPolicy -----------------------------
(***************************************************************************)
(* What becomes of a delivery attempt: the answer of sendWebPushRequest    *)
(* (src/internal/CurierHttp.cpp), the decision of defaultRetryDecision     *)
(* (src/internal/CurierRetry.cpp) or of the application's policy, and the  *)
(* delay that process() (src/Curier.cpp) then waits.  CurierRuntime leaves *)
(* the decision and the delay open; this module is about nothing else, and *)
(* leaves the shutdown that may end process() to CurierRuntime.            *)
(*                                                                         *)
(* Delays are numbers modulo 2^Width, 32 bits in the code, and are cut to  *)
(* it where the code cuts them.                                            *)
(*                                                                         *)
(* An operator commented "Slip:" is the operator after it with a plausible *)
(* mistake in it; nothing uses it.                                         *)
(***************************************************************************)
EXTENDS Integers

CONSTANTS
    Width,          \* bits of a delay
    Configs,        \* retry configurations that init() is called with
    StatusCodes,    \* HTTP status codes a push service may answer
    RetryAfters     \* what parseRetryAfter may make of the header

Modulus == 2 ^ Width

\* What the proofs need to know of powers: they are positive numbers.
ASSUME WidthAssumption ==
    /\ Width \in Nat
    /\ \A n \in 0..Width : 2 ^ n \in Nat \ {0}

Randoms == 0..(Modulus - 1)   \* esp_random()

\* The categories of failure that a configuration enables.
Categories == {"ClockUnavailable", "TransportError", "Http408", "Http429", "Http5xx"}

ASSUME ConfigsAssumption ==
    Configs \subseteq
        [mode : {"Disabled", "Fixed", "Exponential"},
         maxRetries : Nat,
         baseDelayMs : Randoms, maxDelayMs : Randoms,
         jitterPercent : 0..255,
         respectRetryAfter : BOOLEAN,
         enabled : SUBSET Categories,
         custom : BOOLEAN]        \* config.retryPolicy is set

\* And of the retries: no power is smaller than one with a smaller exponent.
ASSUME PowersAssumption ==
    \A c \in Configs : \A n \in Width..c.maxRetries : 2 ^ n \in Nat /\ Modulus <= 2 ^ n

ASSUME RetryAftersAssumption == RetryAfters \subseteq Randoms

VARIABLES
    config,
    phase,          \* attempt, failed, waiting or done
    attempts,
    status, statusCode,
    retryAfterMs,   \* of the context; 0 when there is none
    delayMs,        \* of the decision
    asked           \* history, which only the properties read: what the header of
                    \* this pass's answer asks for, 0 without one

vars == <<config, phase, attempts, status, statusCode, retryAfterMs, delayMs, asked>>

-----------------------------------------------------------------------------
(* Helpers *)

\* Slip: the bounds are not compared with each other.
ValidRetryConfigUnordered(c) ==
    /\ c.jitterPercent <= 100
    /\ c.mode # "Disabled" => c.baseDelayMs # 0 /\ c.maxDelayMs # 0

\* validateRetryConfig()
ValidRetryConfig(c) ==
    /\ c.jitterPercent <= 100
    /\ c.mode # "Disabled" =>
        c.baseDelayMs # 0 /\ c.maxDelayMs # 0 /\ c.baseDelayMs <= c.maxDelayMs

ClampDelay(value, maximum) == IF value > maximum THEN maximum ELSE value

Retryable ==
    \/ status \in {"ClockUnavailable", "TransportError"} /\ status \in config.enabled
    \/ /\ status = "HttpError"
       /\ \/ statusCode = 408 /\ "Http408" \in config.enabled
          \/ statusCode = 429 /\ "Http429" \in config.enabled
          \/ statusCode \in 500..599 /\ "Http5xx" \in config.enabled

\* Slip: the shifted delay is cut to its width before it is compared.
BackoffShifted ==
    IF config.mode = "Exponential"
    THEN ClampDelay((config.baseDelayMs * 2 ^ (attempts - 1)) % Modulus, config.maxDelayMs)
    ELSE config.baseDelayMs

Backoff ==
    LET shift == attempts - 1 IN
    IF config.mode # "Exponential"
    THEN config.baseDelayMs
    ELSE IF shift >= Width \/ config.baseDelayMs > (Modulus - 1) \div 2 ^ shift
    THEN config.maxDelayMs
    ELSE ClampDelay(config.baseDelayMs * 2 ^ shift, config.maxDelayMs)

\* Slip: the sum is not cut to its width.
ApplyJitterWide(delay, percent, random) ==
    LET spread == (delay * percent) \div 100 IN
    IF spread = 0 THEN delay ELSE delay + (random % (2 * spread + 1)) - spread

\* percent is at most 100, so that the sum is never negative.
ApplyJitter(delay, percent, random) ==
    LET spread == (delay * percent) \div 100
        jittered == delay + (random % (2 * spread + 1)) - spread
    IN  IF spread = 0 THEN delay ELSE jittered % Modulus

UsesRetryAfter == config.respectRetryAfter /\ retryAfterMs > 0

\* Slip: the server's delay is jittered too.
DefaultDelayAlwaysJittered(random) ==
    ApplyJitter(IF UsesRetryAfter THEN ClampDelay(retryAfterMs, config.maxDelayMs) ELSE Backoff,
                config.jitterPercent, random)

DefaultDelay(random) ==
    IF UsesRetryAfter
    THEN ClampDelay(retryAfterMs, config.maxDelayMs)
    ELSE ApplyJitter(Backoff, config.jitterPercent, random)

MayRetry ==
    config.mode # "Disabled" /\ attempts <= config.maxRetries /\ Retryable

-----------------------------------------------------------------------------

Init ==
    /\ config \in {c \in Configs : ValidRetryConfig(c)}
    /\ phase = "attempt"
    /\ attempts = 0
    /\ status = "None" /\ statusCode = 0
    /\ retryAfterMs = 0 /\ delayMs = 0 /\ asked = 0

\* The failures without an answer: no clock, no token, or a client that cannot
\* be set up.
EarlyFailures ==
    {"ClockUnavailable", "JwtError", "InvalidVapidKey", "CryptoError",
     "AllocationFailed", "TransportError", "InternalError"}

FailBeforeRequest(s) ==
    /\ phase = "attempt"
    /\ s \in EarlyFailures
    /\ attempts' = attempts + 1
    /\ status' = s /\ statusCode' = 0
    /\ asked' = 0
    /\ phase' = "failed"
    /\ UNCHANGED <<config, retryAfterMs, delayMs>>

\* A failed encryption ends process() without a look at the retries.  It is
\* tried in the first pass that gets a token; that a later pass may not fail
\* here is left out.
EncryptFails ==
    /\ phase = "attempt"
    /\ attempts' = attempts + 1
    /\ status' = "CryptoError" /\ statusCode' = 0
    /\ asked' = 0
    /\ phase' = "done"
    /\ UNCHANGED <<config, retryAfterMs, delayMs>>

\* The request is performed: a transport error, which keeps what has come of
\* the answer, or a status code.
Respond(transportOk, code, after) ==
    /\ phase = "attempt"
    /\ attempts' = attempts + 1
    /\ status' = IF ~ transportOk THEN "TransportError"
                 ELSE IF code < 200 \/ code >= 300 THEN "HttpError" ELSE "Ok"
    /\ statusCode' = code
    /\ retryAfterMs' = IF config.respectRetryAfter
                       THEN ClampDelay(after, config.maxDelayMs) ELSE 0
    /\ asked' = after
    /\ phase' = IF status' = "Ok" THEN "done" ELSE "failed"
    /\ UNCHANGED <<config, delayMs>>

\* No retry is left, or the policy does not want one.
GiveUp ==
    /\ phase = "failed"
    /\ \/ attempts > config.maxRetries
       \/ config.custom
       \/ ~ MayRetry
    /\ phase' = "done"
    /\ UNCHANGED <<config, attempts, status, statusCode, retryAfterMs, delayMs, asked>>

RetryByDefault(random) ==
    /\ phase = "failed"
    /\ attempts <= config.maxRetries
    /\ ~ config.custom
    /\ MayRetry
    /\ delayMs' = DefaultDelay(random)
    /\ phase' = "waiting"
    /\ UNCHANGED <<config, attempts, status, statusCode, retryAfterMs, asked>>

\* config.retryPolicy decides; process() clamps its delay.
RetryByPolicy(delay) ==
    /\ phase = "failed"
    /\ attempts <= config.maxRetries
    /\ config.custom
    /\ delayMs' = ClampDelay(delay, config.maxDelayMs)
    /\ phase' = "waiting"
    /\ UNCHANGED <<config, attempts, status, statusCode, retryAfterMs, asked>>

\* Slip: the delay an earlier answer asked for outlives its pass.
WaitElapsesKeepsRetryAfter ==
    /\ phase = "waiting"
    /\ phase' = "attempt"
    /\ status' = "None" /\ statusCode' = 0
    /\ delayMs' = 0 /\ asked' = 0
    /\ UNCHANGED <<config, attempts, retryAfterMs>>

\* The next pass begins; all but the count is local to a pass.
WaitElapses ==
    /\ phase = "waiting"
    /\ phase' = "attempt"
    /\ status' = "None" /\ statusCode' = 0
    /\ retryAfterMs' = 0 /\ delayMs' = 0 /\ asked' = 0
    /\ UNCHANGED <<config, attempts>>

Next ==
    \/ \E s \in EarlyFailures : FailBeforeRequest(s)
    \/ EncryptFails
    \/ \E transportOk \in BOOLEAN, code \in StatusCodes, after \in RetryAfters :
            Respond(transportOk, code, after)
    \/ GiveUp
    \/ \E random \in Randoms : RetryByDefault(random)
    \/ \E delay \in Randoms : RetryByPolicy(delay)
    \/ WaitElapses

Spec == Init /\ [][Next]_vars

-----------------------------------------------------------------------------
(* Properties *)

\* Every variable keeps its range; in particular a delay fits its width.
TypeOK ==
    /\ config \in Configs /\ ValidRetryConfig(config)
    /\ phase \in {"attempt", "failed", "waiting", "done"}
    /\ attempts \in 0..(config.maxRetries + 1)
    /\ delayMs \in Randoms
    /\ retryAfterMs \in Randoms /\ asked \in Randoms

\* The answer of this pass carries a Retry-After that counts.  Unlike
\* UsesRetryAfter this is about the answer, not about what the code kept of it.
ServerAsks == config.respectRetryAfter /\ asked > 0

\* The delay the documents describe, in numbers without a width.
NominalDelay ==
    CASE ServerAsks -> ClampDelay(asked, config.maxDelayMs)
      [] ~ ServerAsks /\ config.mode = "Fixed" -> config.baseDelayMs
      [] OTHER -> ClampDelay(config.baseDelayMs * 2 ^ (attempts - 1), config.maxDelayMs)

Spread(delay) == (delay * config.jitterPercent) \div 100

WaitsByDefault == phase = "waiting" /\ ~ config.custom

\* When the answer of this pass asks for nothing, whatever earlier answers of
\* the job asked for, the default policy waits min(base * 2^retries, maximum),
\* give or take the jitter, however many retries there were: the shift and its
\* two overflow tests never make the delay a short one.  As long as the jittered
\* delay fits its width.
BackoffIsExponential ==
    WaitsByDefault /\ ~ ServerAsks /\ NominalDelay + Spread(NominalDelay) < Modulus =>
        /\ delayMs >= NominalDelay - Spread(NominalDelay)
        /\ delayMs <= NominalDelay + Spread(NominalDelay)

\* docs/retries.md: the Retry-After of the answer that is retried reaches the
\* wait bounded by maxDelayMs, and is not shortened by jitter, nor lengthened.
RetryAfterIsKept ==
    WaitsByDefault /\ ServerAsks => delayMs = NominalDelay

\* No wait is longer than maxDelayMs and its jitter, and one that the
\* application's policy asks for is not longer than maxDelayMs.
WaitIsBounded ==
    phase = "waiting" =>
        delayMs <= config.maxDelayMs + (IF config.custom THEN 0 ELSE Spread(config.maxDelayMs))

\* docs/retries.md, "symmetric jitter": the delay stays around the nominal one
\* for every configuration that validateRetryConfig accepts.
JitterIsSymmetric ==
    WaitsByDefault =>
        /\ delayMs >= NominalDelay - Spread(NominalDelay)
        /\ delayMs <= NominalDelay + Spread(NominalDelay)
=============================================================================
