-------------------------- MODULE RetryPolicyProofs --------------------------
(***************************************************************************)
(* Proofs about RetryPolicy, for every width of a delay and every set of   *)
(* configurations: types, what becomes of Retry-After and of the pass it   *)
(* came in, the back-off, and the bound of a wait.                         *)
(***************************************************************************)
EXTENDS RetryPolicy, TLAPS

LEMMA ConfigType ==
    ASSUME NEW c \in Configs
    PROVE  /\ c.maxRetries \in Nat
           /\ c.baseDelayMs \in Randoms /\ c.maxDelayMs \in Randoms
           /\ c.jitterPercent \in 0..255
           /\ c.enabled \in SUBSET Categories
           /\ c.mode \in {"Disabled", "Fixed", "Exponential"}
  BY ConfigsAssumption

LEMMA ModulusType == Modulus \in Nat /\ Modulus > 0
  BY WidthAssumption DEF Modulus

LEMMA ModRange ==
    ASSUME NEW x \in Nat, NEW m \in Nat, m > 0
    PROVE  x % m \in 0..(m - 1) /\ x % m <= x
  OBVIOUS

\* A smaller delay has a smaller spread.
LEMMA SpreadMonotone ==
    ASSUME NEW a \in Nat, NEW b \in Nat, NEW p \in Nat, a <= b
    PROVE  /\ (a * p) \div 100 \in Nat /\ (b * p) \div 100 \in Nat
           /\ (a * p) \div 100 <= (b * p) \div 100
  <1>1. a * p \in Nat /\ b * p \in Nat
    OBVIOUS
  <1>2. a * p <= b * p
    OBVIOUS
  <1> QED
    BY <1>1, <1>2

LEMMA SpreadAtMost ==
    ASSUME NEW a \in Nat, NEW p \in 0..100
    PROVE  (a * p) \div 100 <= a
  <1>1. a * p <= a * 100
    OBVIOUS
  <1>2. a * p \in Nat
    OBVIOUS
  <1> QED
    BY <1>1, <1>2

\* Jitter lengthens a delay by at most its spread, whatever it is cut to.
LEMMA JitterRange ==
    ASSUME NEW d \in Randoms, NEW p \in 0..100, NEW random \in Randoms
    PROVE  /\ ApplyJitter(d, p, random) \in Randoms
           /\ ApplyJitter(d, p, random) <= d + (d * p) \div 100
  <1> DEFINE spread == (d * p) \div 100
             jittered == d + (random % (2 * spread + 1)) - spread
  <1>1. d \in Nat /\ random \in Nat /\ Modulus \in Nat /\ Modulus > 0
    BY ModulusType DEF Randoms
  <1>2. spread \in Nat /\ spread <= d
    <2>1. (d * p) \div 100 <= d
      BY <1>1, SpreadAtMost
    <2>2. d <= d
      BY <1>1
    <2>3. (d * p) \div 100 \in Nat
      BY <1>1, <2>2, SpreadMonotone
    <2> QED
      BY <2>1, <2>3
  <1>3. ApplyJitter(d, p, random) = IF spread = 0 THEN d ELSE jittered % Modulus
    BY DEF ApplyJitter
  <1> HIDE DEF spread
  <1>4. random % (2 * spread + 1) \in 0..(2 * spread)
    BY <1>1, <1>2, ModRange
  <1>5. jittered \in Nat /\ jittered <= d + spread
    BY <1>1, <1>2, <1>4
  <1> HIDE DEF jittered
  <1>6. jittered % Modulus \in Randoms /\ jittered % Modulus <= d + spread
    BY <1>1, <1>2, <1>5, ModRange DEF Randoms
  <1>7. ApplyJitter(d, p, random) \in Randoms /\ ApplyJitter(d, p, random) <= d + spread
    BY <1>1, <1>2, <1>3, <1>6
  <1> QED
    BY <1>7 DEF spread

\* The backoff is at most maxDelayMs: the shift is done only where it fits.
LEMMA BackoffRange ==
    ASSUME config \in Configs, ValidRetryConfig(config), attempts \in Nat, attempts > 0,
           config.mode # "Disabled"
    PROVE  Backoff \in Randoms /\ Backoff <= config.maxDelayMs
  <1> DEFINE base == config.baseDelayMs
             maximum == config.maxDelayMs
             shift == attempts - 1
  <1>1. base \in Nat /\ maximum \in Nat /\ maximum < Modulus /\ base <= maximum
    BY ConfigType, ModulusType DEF ValidRetryConfig, Randoms
  <1>2. CASE config.mode # "Exponential"
    BY <1>1, <1>2, ModulusType DEF Backoff, Randoms
  <1>3. CASE config.mode = "Exponential" /\ (shift >= Width \/ base > (Modulus - 1) \div 2 ^ shift)
    BY <1>1, <1>3, ModulusType DEF Backoff, Randoms
  <1>4. CASE config.mode = "Exponential" /\ ~ (shift >= Width \/ base > (Modulus - 1) \div 2 ^ shift)
    <2>1. shift \in 0..Width
      BY <1>4, WidthAssumption
    <2>2. 2 ^ shift \in Nat
      BY <2>1, WidthAssumption
    <2>3. base * 2 ^ shift \in Nat
      BY <1>1, <2>2
    <2>4. Backoff = ClampDelay(base * 2 ^ shift, maximum)
      BY <1>4 DEF Backoff
    <2> QED
      BY <1>1, <2>3, <2>4, ModulusType DEF ClampDelay, Randoms
  <1> QED
    BY <1>2, <1>3, <1>4

\* Jitter that fits the width keeps the delay around the one it is given.
LEMMA JitterAround ==
    ASSUME NEW d \in Randoms, NEW p \in 0..100, NEW random \in Randoms,
           d + (d * p) \div 100 < Modulus
    PROVE  /\ ApplyJitter(d, p, random) >= d - (d * p) \div 100
           /\ ApplyJitter(d, p, random) <= d + (d * p) \div 100
  <1> DEFINE spread == (d * p) \div 100
             jittered == d + (random % (2 * spread + 1)) - spread
  <1>1. d \in Nat /\ random \in Nat /\ Modulus \in Nat /\ Modulus > 0
    BY ModulusType DEF Randoms
  <1>2. spread \in Nat /\ spread <= d
    <2>1. (d * p) \div 100 <= d
      BY <1>1, SpreadAtMost
    <2>2. d <= d
      BY <1>1
    <2>3. (d * p) \div 100 \in Nat
      BY <1>1, <2>2, SpreadMonotone
    <2> QED
      BY <2>1, <2>3
  <1>3. ApplyJitter(d, p, random) = IF spread = 0 THEN d ELSE jittered % Modulus
    BY DEF ApplyJitter
  <1>4. d + spread < Modulus
    OBVIOUS
  <1> HIDE DEF spread
  <1>5. random % (2 * spread + 1) \in 0..(2 * spread)
    BY <1>1, <1>2, ModRange
  <1>6. jittered \in Nat /\ jittered \in (d - spread)..(d + spread)
    BY <1>1, <1>2, <1>5
  <1> HIDE DEF jittered
  <1>7. jittered % Modulus = jittered
    BY <1>1, <1>2, <1>4, <1>6
  <1>8. /\ ApplyJitter(d, p, random) >= d - spread
        /\ ApplyJitter(d, p, random) <= d + spread
    BY <1>1, <1>2, <1>3, <1>6, <1>7
  <1> QED
    BY <1>8 DEF spread

\* The test that spares the code the product: it is true only of products that
\* do not fit.
LEMMA ProductOverflows ==
    ASSUME NEW b \in Nat, NEW p \in Nat, p > 0, NEW m \in Nat, m > 0,
           b > (m - 1) \div p
    PROVE  b * p >= m
  <1> DEFINE q == (m - 1) \div p
             r == (m - 1) % p
  <1>1. q \in Nat /\ r \in 0..(p - 1) /\ m - 1 = p * q + r
    OBVIOUS
  <1>2. b >= q + 1
    BY <1>1
  <1> HIDE DEF q, r
  <1>3. b * p >= (q + 1) * p
    BY <1>1, <1>2
  <1>4. (q + 1) * p = p * q + p
    BY <1>1
  <1> QED
    BY <1>1, <1>3, <1>4

\* Neither the shift nor its two overflow tests make the backoff anything but
\* min(base * 2^retries, maximum).
LEMMA BackoffIsNominal ==
    ASSUME config \in Configs, ValidRetryConfig(config),
           attempts \in Nat, attempts > 0, attempts <= config.maxRetries,
           config.mode # "Disabled", ~ ServerAsks
    PROVE  Backoff = NominalDelay
  <1> DEFINE base == config.baseDelayMs
             maximum == config.maxDelayMs
             shift == attempts - 1
             nominal == ClampDelay(base * 2 ^ shift, maximum)
  <1>1. /\ base \in Nat /\ maximum \in Nat /\ maximum < Modulus /\ base > 0
        /\ config.maxRetries \in Nat
        /\ config.mode \in {"Disabled", "Fixed", "Exponential"}
    BY ConfigType, ModulusType DEF ValidRetryConfig, Randoms
  <1>2. CASE config.mode = "Fixed"
    BY <1>2 DEF Backoff, NominalDelay
  <1>3. CASE config.mode = "Exponential"
    <2>1. NominalDelay = nominal
      BY <1>3 DEF NominalDelay
    <2>2. Backoff = IF shift >= Width \/ base > (Modulus - 1) \div 2 ^ shift
                    THEN maximum ELSE nominal
      BY <1>3 DEF Backoff
    <2>3. ASSUME shift >= Width \/ base > (Modulus - 1) \div 2 ^ shift
          PROVE  base * 2 ^ shift > maximum
      <3>1. CASE shift >= Width
        <4>1. shift \in Width..config.maxRetries
          BY <1>1, <3>1, WidthAssumption
        <4>2. 2 ^ shift \in Nat /\ Modulus <= 2 ^ shift
          BY <4>1, PowersAssumption
        <4>3. \A power \in Nat : Modulus <= power => base * power > maximum
          <5> TAKE power \in Nat
          <5> HAVE Modulus <= power
          <5>1. base * power >= power
            BY <1>1
          <5>2. base * power \in Nat
            BY <1>1
          <5> QED
            BY <1>1, <5>1, <5>2, ModulusType
        <4> QED
          BY ONLY <4>2, <4>3
      <3>2. CASE shift < Width
        <4>1. shift \in 0..Width
          BY <3>2, WidthAssumption
        <4>2. 2 ^ shift \in Nat /\ 2 ^ shift > 0
          BY <4>1, WidthAssumption
        <4>3. base > (Modulus - 1) \div 2 ^ shift
          BY <2>3, <3>2, WidthAssumption
        <4>4. base * 2 ^ shift >= Modulus
          BY <1>1, <4>2, <4>3, ProductOverflows, ModulusType
        <4>5. base * 2 ^ shift \in Nat
          BY <1>1, <4>2
        <4> QED
          BY <1>1, <4>4, <4>5, ModulusType
      <3> QED
        BY <3>1, <3>2, WidthAssumption
    <2> QED
      BY <2>1, <2>2, <2>3 DEF ClampDelay
  <1> QED
    BY <1>1, <1>2, <1>3

-----------------------------------------------------------------------------
(* The inductive invariant *)

\* What the pass has kept of its answer's Retry-After.
KeptRetryAfter ==
    IF config.respectRetryAfter THEN ClampDelay(asked, config.maxDelayMs) ELSE 0

\* What a wait remembers of its decision, and what a failure of the attempt: in
\* particular the pass begins with nothing kept, so that what is kept at its
\* decision comes from its own answer.
DecisionInv ==
    /\ TypeOK
    /\ phase = "failed" => attempts > 0
    /\ phase \in {"attempt", "waiting"} => attempts <= config.maxRetries
    /\ WaitIsBounded
    /\ RetryAfterIsKept
    /\ BackoffIsExponential
    /\ phase = "attempt" => retryAfterMs = 0
    /\ phase \in {"failed", "waiting"} => retryAfterMs = KeptRetryAfter

LEMMA ClampRange ==
    ASSUME NEW x \in Nat, NEW m \in Randoms
    PROVE  ClampDelay(x, m) \in Randoms /\ ClampDelay(x, m) <= m
  BY ModulusType DEF ClampDelay, Randoms

LEMMA SpreadType ==
    ASSUME config \in Configs
    PROVE  Spread(config.maxDelayMs) \in Nat
  <1>1. /\ config.maxDelayMs \in Nat /\ config.jitterPercent \in Nat
        /\ config.maxDelayMs <= config.maxDelayMs
    BY ConfigType, ModulusType DEF Randoms
  <1> QED
    BY <1>1, SpreadMonotone DEF Spread

\* A pass that may be retried uses a Retry-After exactly when its answer asks for
\* one: clamping does not lose it, since maxDelayMs is positive.
LEMMA KeepsWhatServerAsks ==
    ASSUME TypeOK, config.mode # "Disabled", retryAfterMs = KeptRetryAfter
    PROVE  /\ UsesRetryAfter <=> ServerAsks
           /\ ServerAsks =>
                  ClampDelay(retryAfterMs, config.maxDelayMs) = ClampDelay(asked, config.maxDelayMs)
  <1>1. config \in Configs /\ ValidRetryConfig(config)
    BY DEF TypeOK
  <1>2. config.maxDelayMs \in Nat /\ config.maxDelayMs > 0 /\ asked \in Nat
    BY <1>1, ConfigType, ModulusType DEF TypeOK, ValidRetryConfig, Randoms
  <1> QED
    BY <1>2 DEF KeptRetryAfter, UsesRetryAfter, ServerAsks, ClampDelay

\* The default delay is bounded, and is the server's when there is one.
LEMMA DefaultDelayRange ==
    ASSUME TypeOK, attempts > 0, MayRetry, NEW random \in Randoms
    PROVE  /\ DefaultDelay(random) \in Randoms
           /\ DefaultDelay(random) <= config.maxDelayMs + Spread(config.maxDelayMs)
           /\ UsesRetryAfter =>
                  DefaultDelay(random) = ClampDelay(retryAfterMs, config.maxDelayMs)
  <1>1. config \in Configs /\ ValidRetryConfig(config) /\ attempts \in Nat
    BY ConfigType DEF TypeOK
  <1>2. /\ config.maxDelayMs \in Randoms /\ config.maxDelayMs \in Nat
        /\ config.jitterPercent \in 0..100 /\ config.jitterPercent \in Nat
    BY <1>1, ConfigType, ModulusType DEF ValidRetryConfig, Randoms
  <1>3. Spread(config.maxDelayMs) \in Nat
    BY <1>1, SpreadType
  <1>4. CASE UsesRetryAfter
    <2>1. retryAfterMs \in Nat
      BY ModulusType DEF TypeOK, Randoms
    <2>2. DefaultDelay(random) = ClampDelay(retryAfterMs, config.maxDelayMs)
      BY <1>4 DEF DefaultDelay
    <2>3. DefaultDelay(random) \in Randoms /\ DefaultDelay(random) <= config.maxDelayMs
      BY <1>2, <2>1, <2>2, ClampRange
    <2>4. DefaultDelay(random) \in Nat
      BY <2>3, ModulusType DEF Randoms
    <2> QED
      BY <1>2, <1>3, <2>2, <2>3, <2>4
  <1>5. CASE ~ UsesRetryAfter
    <2>1. Backoff \in Randoms /\ Backoff <= config.maxDelayMs
      BY <1>1, BackoffRange DEF MayRetry
    <2>2. DefaultDelay(random) = ApplyJitter(Backoff, config.jitterPercent, random)
      BY <1>5 DEF DefaultDelay
    <2>3. /\ DefaultDelay(random) \in Randoms
          /\ DefaultDelay(random) <= Backoff + (Backoff * config.jitterPercent) \div 100
      BY <1>2, <2>1, <2>2, JitterRange
    <2>4. Backoff \in Nat /\ DefaultDelay(random) \in Nat
      BY <2>1, <2>3, ModulusType DEF Randoms
    <2>5. /\ (Backoff * config.jitterPercent) \div 100 \in Nat
          /\ (Backoff * config.jitterPercent) \div 100 <= Spread(config.maxDelayMs)
      BY <1>2, <2>1, <2>4, SpreadMonotone DEF Spread
    <2>6. DefaultDelay(random) <= config.maxDelayMs + Spread(config.maxDelayMs)
      BY <1>2, <1>3, <2>1, <2>3, <2>4, <2>5
    <2> QED
      BY <1>5, <2>3, <2>6
  <1> QED
    BY <1>4, <1>5

\* The default delay is the nominal one, give or take its spread.
LEMMA DefaultDelayAround ==
    ASSUME TypeOK, attempts > 0, MayRetry, NEW random \in Randoms,
           ~ UsesRetryAfter, ~ ServerAsks, NominalDelay + Spread(NominalDelay) < Modulus
    PROVE  /\ DefaultDelay(random) >= NominalDelay - Spread(NominalDelay)
           /\ DefaultDelay(random) <= NominalDelay + Spread(NominalDelay)
  <1>1. /\ config \in Configs /\ ValidRetryConfig(config) /\ attempts \in Nat
        /\ attempts <= config.maxRetries /\ config.mode # "Disabled"
    BY ConfigType DEF TypeOK, MayRetry
  <1>2. config.jitterPercent \in 0..100
    BY <1>1, ConfigType DEF ValidRetryConfig
  <1>3. Backoff = NominalDelay /\ Backoff \in Randoms
    BY <1>1, BackoffIsNominal, BackoffRange
  <1>4. DefaultDelay(random) = ApplyJitter(NominalDelay, config.jitterPercent, random)
    BY <1>3 DEF DefaultDelay
  <1> QED
    BY <1>2, <1>3, <1>4, JitterAround DEF Spread

LEMMA DecisionInit == Init => DecisionInv
  <1> SUFFICES ASSUME Init
               PROVE  DecisionInv
    OBVIOUS
  <1>1. config \in Configs /\ ValidRetryConfig(config)
    BY DEF Init
  <1>2. 0 \in Randoms /\ 0 \in 0..(config.maxRetries + 1) /\ 0 <= config.maxRetries
    BY <1>1, ConfigType, ModulusType DEF Randoms
  <1> QED
    BY <1>1, <1>2 DEF Init, DecisionInv, TypeOK, WaitIsBounded, RetryAfterIsKept,
       BackoffIsExponential, WaitsByDefault

LEMMA DecisionStep == DecisionInv /\ [Next]_vars => DecisionInv'
  <1> SUFFICES ASSUME DecisionInv, [Next]_vars
               PROVE  DecisionInv'
    OBVIOUS
  <1>1. /\ TypeOK
        /\ config \in Configs /\ ValidRetryConfig(config)
        /\ config.maxRetries \in Nat /\ attempts \in Nat
        /\ config.maxDelayMs \in Randoms
        /\ config.maxDelayMs \in Nat
        /\ 0 \in Randoms /\ delayMs \in Randoms /\ retryAfterMs \in Randoms
        /\ asked \in Randoms
    BY ConfigType, ModulusType DEF DecisionInv, TypeOK, Randoms
  <1>2. ASSUME attempts' = attempts, config' = config, delayMs' \in Randoms,
               retryAfterMs' \in Randoms, asked' \in Randoms,
               phase' \in {"attempt", "done"},
               phase' = "attempt" => attempts <= config.maxRetries /\ retryAfterMs' = 0
        PROVE  DecisionInv'
    BY <1>1, <1>2
    DEF DecisionInv, TypeOK, WaitIsBounded, RetryAfterIsKept,
       BackoffIsExponential, WaitsByDefault
  <1>3. ASSUME attempts' = attempts + 1, attempts <= config.maxRetries, config' = config,
               delayMs' = delayMs, retryAfterMs' \in Randoms, asked' \in Randoms,
               phase' \in {"failed", "done"},
               phase' = "failed" => retryAfterMs' = KeptRetryAfter'
        PROVE  DecisionInv'
    <2>1. attempts + 1 \in 0..(config.maxRetries + 1) /\ attempts + 1 > 0
      BY <1>1, <1>3
    <2> QED
      BY <1>1, <1>3, <2>1
      DEF DecisionInv, TypeOK, WaitIsBounded, RetryAfterIsKept,
       BackoffIsExponential, WaitsByDefault
  <1>4. ASSUME NEW s, FailBeforeRequest(s)
        PROVE  DecisionInv'
    <2>1. /\ phase = "attempt" /\ attempts' = attempts + 1 /\ attempts <= config.maxRetries
          /\ config' = config /\ delayMs' = delayMs /\ phase' = "failed"
          /\ retryAfterMs' = 0 /\ asked' = 0
      BY <1>4 DEF FailBeforeRequest, DecisionInv
    <2>2. KeptRetryAfter' = 0
      BY <1>1, <2>1 DEF KeptRetryAfter, ClampDelay
    <2> QED
      BY <1>1, <1>3, <2>1, <2>2
  <1>5. ASSUME NEW transportOk \in BOOLEAN, NEW code \in StatusCodes, NEW after \in RetryAfters,
               Respond(transportOk, code, after)
        PROVE  DecisionInv'
    <2>1. after \in Nat
      BY RetryAftersAssumption, ModulusType DEF Randoms
    <2>2. ClampDelay(after, config.maxDelayMs) \in Randoms
      BY <1>1, <2>1, ClampRange
    <2>3. retryAfterMs' \in Randoms
      BY <1>1, <1>5, <2>2 DEF Respond
    <2>4. phase' \in {"failed", "done"}
      BY <1>5 DEF Respond
    <2>5. /\ attempts' = attempts + 1 /\ attempts <= config.maxRetries
          /\ config' = config /\ delayMs' = delayMs
      BY <1>5 DEF Respond, DecisionInv
    <2>6. asked' \in Randoms /\ retryAfterMs' = KeptRetryAfter'
      BY <1>5, RetryAftersAssumption DEF Respond, KeptRetryAfter
    <2> QED
      BY <1>3, <2>3, <2>4, <2>5, <2>6
  <1>6. CASE GiveUp
    BY <1>1, <1>2, <1>6 DEF GiveUp
  <1>7. ASSUME NEW random \in Randoms, RetryByDefault(random)
        PROVE  DecisionInv'
    <2>1. /\ phase = "failed" /\ attempts > 0 /\ attempts <= config.maxRetries
          /\ ~ config.custom /\ MayRetry /\ phase' = "waiting"
          /\ UNCHANGED <<config, attempts, status, statusCode, retryAfterMs, asked>>
          /\ delayMs' = DefaultDelay(random)
          /\ retryAfterMs = KeptRetryAfter
      BY <1>7 DEF RetryByDefault, DecisionInv
    <2>2. /\ delayMs' \in Randoms
          /\ delayMs' <= config.maxDelayMs + Spread(config.maxDelayMs)
          /\ UsesRetryAfter => delayMs' = ClampDelay(retryAfterMs, config.maxDelayMs)
      BY <1>1, <2>1, DefaultDelayRange
    <2>3. /\ UsesRetryAfter <=> ServerAsks
          /\ ServerAsks =>
                 ClampDelay(retryAfterMs, config.maxDelayMs) = ClampDelay(asked, config.maxDelayMs)
      BY <1>1, <2>1, KeepsWhatServerAsks DEF MayRetry
    <2>4. /\ ServerAsks' = ServerAsks /\ NominalDelay' = NominalDelay
          /\ KeptRetryAfter' = KeptRetryAfter
      BY <2>1 DEF ServerAsks, NominalDelay, KeptRetryAfter
    <2>5. TypeOK'
      BY <1>1, <2>1, <2>2 DEF TypeOK
    <2>6. WaitIsBounded'
      BY <2>1, <2>2 DEF WaitIsBounded, Spread
    <2>7. RetryAfterIsKept'
      <3>1. ServerAsks => NominalDelay = ClampDelay(asked, config.maxDelayMs)
        BY DEF NominalDelay
      <3> QED
        BY <2>2, <2>3, <2>4, <3>1 DEF RetryAfterIsKept
    <2>8. BackoffIsExponential'
      <3>1. Spread(NominalDelay)' = Spread(NominalDelay)
        BY <2>1, <2>4 DEF Spread
      <3>2. ~ ServerAsks /\ NominalDelay + Spread(NominalDelay) < Modulus =>
              /\ delayMs' >= NominalDelay - Spread(NominalDelay)
              /\ delayMs' <= NominalDelay + Spread(NominalDelay)
        BY <1>1, <2>1, <2>3, DefaultDelayAround
      <3> QED
        BY <2>4, <3>1, <3>2 DEF BackoffIsExponential
    <2> QED
      BY <2>1, <2>4, <2>5, <2>6, <2>7, <2>8 DEF DecisionInv
  <1>8. ASSUME NEW delay \in Randoms, RetryByPolicy(delay)
        PROVE  DecisionInv'
    <2>1. /\ attempts <= config.maxRetries /\ config.custom /\ phase' = "waiting"
          /\ UNCHANGED <<config, attempts, status, statusCode, retryAfterMs, asked>>
          /\ delayMs' = ClampDelay(delay, config.maxDelayMs)
          /\ retryAfterMs = KeptRetryAfter
      BY <1>8 DEF RetryByPolicy, DecisionInv
    <2>2. delay \in Nat
      BY ModulusType DEF Randoms
    <2>3. delayMs' \in Randoms /\ delayMs' <= config.maxDelayMs + 0
      BY <1>1, <2>1, <2>2, ClampRange
    <2>4. KeptRetryAfter' = KeptRetryAfter
      BY <2>1 DEF KeptRetryAfter
    <2>5. WaitIsBounded'
      BY <2>1, <2>3 DEF WaitIsBounded
    <2> QED
      BY <1>1, <2>1, <2>3, <2>4, <2>5
      DEF DecisionInv, TypeOK, RetryAfterIsKept, BackoffIsExponential, WaitsByDefault
  <1>9. CASE WaitElapses
    BY <1>1, <1>2, <1>9 DEF WaitElapses, DecisionInv
  <1>10. CASE UNCHANGED vars
    BY <1>10 DEF vars, DecisionInv, TypeOK, WaitIsBounded, RetryAfterIsKept,
       BackoffIsExponential, WaitsByDefault, ServerAsks, NominalDelay, Spread, KeptRetryAfter
  <1>11. CASE EncryptFails
    BY <1>1, <1>3, <1>11 DEF EncryptFails, DecisionInv
  <1> QED
    BY <1>4, <1>5, <1>6, <1>7, <1>8, <1>9, <1>10, <1>11 DEF Next

LEMMA DecisionAlways == Spec => []DecisionInv
  BY DecisionInit, DecisionStep, PTL DEF Spec

-----------------------------------------------------------------------------
(* The theorems *)

\* Every variable keeps its range, and attempts never exceed maxRetries + 1.
THEOREM PolicyTypeCorrect == Spec => []TypeOK
  <1>1. DecisionInv => TypeOK
    BY DEF DecisionInv
  <1> QED
    BY <1>1, DecisionAlways, PTL

\* No wait is longer than maxDelayMs and its jitter, nor one that the
\* application's policy asks for longer than maxDelayMs, whatever the width.
THEOREM WaitIsBoundedAlways == Spec => []WaitIsBounded
  <1>1. DecisionInv => WaitIsBounded
    BY DEF DecisionInv
  <1> QED
    BY <1>1, DecisionAlways, PTL

\* The Retry-After of the answer that is retried is what the default policy
\* waits, up to maxDelayMs: it passes the two clamps on the way unharmed.
THEOREM RetryAfterIsKeptAlways == Spec => []RetryAfterIsKept
  <1>1. DecisionInv => RetryAfterIsKept
    BY DEF DecisionInv
  <1> QED
    BY <1>1, DecisionAlways, PTL

\* The wait that the default policy chooses for an answer without a Retry-After,
\* whatever earlier answers of the job asked for, is min(base * 2^retries,
\* maximum), give or take the jitter, after any number of retries and for any
\* width.
THEOREM BackoffIsExponentialAlways == Spec => []BackoffIsExponential
  <1>1. DecisionInv => BackoffIsExponential
    BY DEF DecisionInv
  <1> QED
    BY <1>1, DecisionAlways, PTL
=============================================================================
