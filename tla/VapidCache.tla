----------------------------- MODULE VapidCache -----------------------------
(***************************************************************************)
(* The cache of VAPID tokens in src/Curier.cpp: the worker reads the clock *)
(* (readClock), looks a token up or has one signed and stores it           *)
(* (jwtForOrigin), while other tasks replace the time provider             *)
(* (setTimeProvider, clearTimeProvider) between any two of its critical    *)
(* sections.  end() and init() release the cache and make a new one; they  *)
(* do so only while the worker processes no job (OffHoldsNothing and       *)
(* WorkerOwnsRuntime of CurierRuntime).                                    *)
(*                                                                         *)
(* Nothing makes a clock monotonic, so each reading is any of Times.  Time *)
(* values are modulo TimeModulus (2^64 in the code), generations modulo    *)
(* GenModulus and ticks modulo TickModulus (2^32 in the code).             *)
(*                                                                         *)
(* An operator commented "Slip:" is the operator after it with a plausible *)
(* mistake in it; nothing uses it.                                         *)
(***************************************************************************)
EXTENDS Integers, FiniteSetsExt

CONSTANTS
    Origins,       \* origins of the subscriptions' endpoints
    NoOrigin,      \* the origin of an empty entry
    NoToken,       \* an empty token string
    CacheSize,     \* kJwtCacheSize
    Lifetime,      \* kVapidLifetimeSeconds
    Margin,        \* kVapidRefreshMarginSeconds
    Times,         \* what a time provider may answer
    TimeModulus, GenModulus, TickModulus,
    MaxChanges,    \* bound: replacements of the time provider
    MaxTicks       \* bound: the tick count, before it is cut to its width

ASSUME OriginsAssumption == NoOrigin \notin Origins

ASSUME SizesAssumption ==
    /\ CacheSize \in Nat \ {0}
    /\ Lifetime \in Nat /\ Margin \in Nat /\ Margin < Lifetime
    /\ TimeModulus \in Nat \ {0} /\ TickModulus \in Nat \ {0}
    /\ GenModulus \in Nat /\ GenModulus > 1
    /\ Times \subseteq 1..(TimeModulus - 1)
    /\ MaxChanges \in Nat /\ MaxTicks \in Nat

Slots == 1..CacheSize

\* A signed token.  installed numbers the time provider whose clock it was
\* signed by; the program does not have it, the properties compare it.
Tokens == [aud : Origins, exp : 0..(TimeModulus - 1), installed : 0..MaxChanges]

ASSUME NoTokenAssumption == NoToken \notin Tokens

VARIABLES
    (* CurierImpl, under the runtime mutex *)
    cache,            \* an entry per slot, or NoCache
    clockGeneration,
    (* the worker in process() *)
    wpc,              \* idle, clock, read, lookup, sign, store, use or failed
    origin,           \* job.origin
    generation, now,  \* what readClock() answered
    jwt,
    (* the platform, and history the program does not keep *)
    tick,             \* the tick count before it is cut to its width
    installs,         \* replacements of the time provider so far
    captured          \* the provider this attempt reads the clock from

worker == <<wpc, origin, generation, now, jwt, captured>>
vars == <<cache, clockGeneration, worker, tick, installs>>

NoCache == << >>

EmptyEntry ==
    [origin |-> NoOrigin, token |-> NoToken, expiresAt |-> 0,
     clockGeneration |-> 0, lastUsed |-> 0, usedAt |-> 0]

EmptyCache == [s \in Slots |-> EmptyEntry]

\* usedAt is lastUsed before it is cut to its width.
Entries ==
    [origin : Origins \cup {NoOrigin}, token : Tokens \cup {NoToken},
     expiresAt : 0..(TimeModulus - 1), clockGeneration : 0..(GenModulus - 1),
     lastUsed : 0..(TickModulus - 1), usedAt : 0..MaxTicks]

Init ==
    /\ cache = NoCache
    /\ clockGeneration = 1
    /\ wpc = "idle"
    /\ origin = NoOrigin
    /\ generation = 0 /\ now = 0
    /\ jwt = NoToken
    /\ tick = 0
    /\ installs = 0 /\ captured = 0

-----------------------------------------------------------------------------
(* Helpers *)

\* Slip: the counter wraps to the generation of an empty entry.
NextGenerationWrapped == (clockGeneration + 1) % GenModulus

NextGeneration ==
    IF clockGeneration + 1 = GenModulus THEN 1 ELSE clockGeneration + 1

TickCount == tick % TickModulus

\* Slip: clearing the cache is taken to be enough.
IsFreshAnyGeneration(e) ==
    /\ e.origin = origin
    /\ e.token # NoToken
    /\ e.expiresAt > (now + Margin) % TimeModulus

\* The test of the lookup loop.  The addition wraps.
IsFresh(e) ==
    /\ e.clockGeneration = generation
    /\ e.origin = origin
    /\ e.token # NoToken
    /\ e.expiresAt > (now + Margin) % TimeModulus

Hits == {s \in Slots : IsFresh(cache[s])}

\* Slip: a hit does not move lastUsed.
TouchedNot(e) == [e EXCEPT !.usedAt = tick]

Touched(e) == [e EXCEPT !.lastUsed = TickCount, !.usedAt = tick]

Filled ==
    [origin |-> origin, token |-> jwt, expiresAt |-> jwt.exp,
     clockGeneration |-> generation, lastUsed |-> TickCount, usedAt |-> tick]

Vacant == {s \in Slots : cache[s].token = NoToken}

\* Slip: an expired entry of the same origin is overlooked.
SupersededNone == {}

Superseded ==
    {s \in Slots : cache[s].clockGeneration = generation /\ cache[s].origin = origin}

Oldest ==
    {s \in Slots : \A r \in Slots : cache[s].lastUsed <= cache[r].lastUsed}

\* The slot a new token goes to.
Target ==
    CASE Superseded # {} -> Min(Superseded)
      [] Superseded = {} /\ Vacant # {} -> Min(Vacant)
      [] OTHER -> Min(Oldest)

-----------------------------------------------------------------------------
(* The worker *)

BeginJob(o) ==
    /\ wpc = "idle"
    /\ cache # NoCache
    /\ origin' = o
    /\ wpc' = "clock"
    /\ UNCHANGED <<cache, clockGeneration, generation, now, jwt, captured, tick, installs>>

\* The critical section of readClock(): the provider is copied and called
\* after the unlock.
CopyProvider ==
    /\ wpc = "clock"
    /\ generation' = clockGeneration
    /\ captured' = installs
    /\ wpc' = "read"
    /\ UNCHANGED <<cache, clockGeneration, origin, now, jwt, tick, installs>>

ClockFails ==
    /\ wpc = "read"
    /\ now' = 0
    /\ wpc' = "failed"
    /\ UNCHANGED <<cache, clockGeneration, origin, generation, jwt, captured, tick, installs>>

ClockAnswers(t) ==
    /\ wpc = "read"
    /\ now' = t
    /\ wpc' = "lookup"
    /\ UNCHANGED <<cache, clockGeneration, origin, generation, jwt, captured, tick, installs>>

CacheHit ==
    /\ wpc = "lookup"
    /\ Hits # {}
    /\ LET s == Min(Hits) IN
        /\ cache' = [cache EXCEPT ![s] = Touched(cache[s])]
        /\ jwt' = cache[s].token
    /\ wpc' = "use"
    /\ UNCHANGED <<clockGeneration, origin, generation, now, captured, tick, installs>>

CacheMiss ==
    /\ wpc = "lookup"
    /\ Hits = {}
    /\ wpc' = "sign"
    /\ UNCHANGED <<cache, clockGeneration, origin, generation, now, jwt, captured, tick, installs>>

\* createVapidJwt() clears the output string before anything can fail; the
\* expiry must not overflow.
SignFails ==
    /\ wpc = "sign"
    /\ jwt' = NoToken
    /\ wpc' = "failed"
    /\ UNCHANGED <<cache, clockGeneration, origin, generation, now, captured, tick, installs>>

Sign ==
    /\ wpc = "sign"
    /\ now + Lifetime < TimeModulus
    /\ jwt' = [aud |-> origin, exp |-> now + Lifetime, installed |-> captured]
    /\ wpc' = "store"
    /\ UNCHANGED <<cache, clockGeneration, origin, generation, now, captured, tick, installs>>

Store ==
    /\ wpc = "store"
    /\ cache' = [cache EXCEPT ![Target] = Filled]
    /\ wpc' = "use"
    /\ UNCHANGED <<clockGeneration, origin, generation, now, jwt, captured, tick, installs>>

\* After the request, or the failure: another attempt of the same job, or its
\* end, where SecureStringGuard clears the token.
Retry ==
    /\ wpc \in {"use", "failed"}
    /\ wpc' = "clock"
    /\ UNCHANGED <<cache, clockGeneration, origin, generation, now, jwt, captured, tick, installs>>

EndJob ==
    /\ wpc \in {"use", "failed"}
    /\ wpc' = "idle"
    /\ origin' = NoOrigin
    /\ generation' = 0 /\ now' = 0 /\ captured' = 0
    /\ jwt' = NoToken
    /\ UNCHANGED <<cache, clockGeneration, tick, installs>>

-----------------------------------------------------------------------------
(* Other tasks, and the platform *)

\* setTimeProvider() and clearTimeProvider(): with or without a cache.
ChangeProvider ==
    /\ installs < MaxChanges
    /\ installs' = installs + 1
    /\ clockGeneration' = NextGeneration
    /\ cache' = IF cache = NoCache THEN NoCache ELSE EmptyCache
    /\ UNCHANGED <<worker, tick>>

InitCache ==
    /\ cache = NoCache
    /\ cache' = EmptyCache
    /\ UNCHANGED <<clockGeneration, worker, tick, installs>>

ReleaseCache ==
    /\ wpc = "idle"
    /\ cache # NoCache
    /\ cache' = NoCache
    /\ UNCHANGED <<clockGeneration, worker, tick, installs>>

Tick ==
    /\ tick < MaxTicks
    /\ tick' = tick + 1
    /\ UNCHANGED <<cache, clockGeneration, worker, installs>>

Next ==
    \/ \E o \in Origins : BeginJob(o)
    \/ CopyProvider
    \/ ClockFails
    \/ \E t \in Times : ClockAnswers(t)
    \/ CacheHit
    \/ CacheMiss
    \/ SignFails
    \/ Sign
    \/ Store
    \/ Retry
    \/ EndJob
    \/ ChangeProvider
    \/ InitCache
    \/ ReleaseCache
    \/ Tick

Spec == Init /\ [][Next]_vars

-----------------------------------------------------------------------------
(* Properties *)

\* Every variable keeps its range.  In particular the generation never becomes
\* 0, the generation of an empty entry, and no expiry overflows.
TypeOK ==
    /\ cache \in [Slots -> Entries] \cup {NoCache}
    /\ clockGeneration \in 1..(GenModulus - 1)
    /\ wpc \in {"idle", "clock", "read", "lookup", "sign", "store", "use", "failed"}
    /\ origin \in Origins \cup {NoOrigin}
    /\ generation \in 0..(GenModulus - 1)
    /\ now \in 0..(TimeModulus - 1)
    /\ jwt \in Tokens \cup {NoToken}
    /\ tick \in 0..MaxTicks
    /\ installs \in 0..MaxChanges
    /\ captured \in 0..MaxChanges
    /\ cache = NoCache => wpc = "idle"

\* The generations of different providers differ until the counter has come
\* round, after 2^32 - 1 replacements in the code.
GenerationsDistinct == installs < GenModulus - 1

\* The request that is about to go out carries a token for the job's own
\* origin.  When it comes from the cache it was signed by the clock of the
\* provider this attempt read, although another provider may have been
\* installed while a token was signed and the cache was cleared before it was
\* stored; and it outlives the clock's reading by more than the margin, unless
\* the sum of the two overflows.
UsedTokenIsRight ==
    wpc = "use" =>
        /\ jwt # NoToken
        /\ jwt.aud = origin
        /\ GenerationsDistinct => jwt.installed = captured
        /\ now + Margin < TimeModulus => jwt.exp > now + Margin

\* The cache never holds two tokens of one origin and one generation, so the
\* first hit of the lookup loop is the only one and an expired token never
\* hides a fresh one or keeps a slot from another origin.
OneTokenPerOrigin ==
    cache # NoCache =>
        \A r, s \in Slots \ Vacant :
            /\ cache[r].origin = cache[s].origin
            /\ cache[r].clockGeneration = cache[s].clockGeneration
            => r = s

\* A store that replaces a token of another origin or generation finds no
\* vacant slot, and the token it replaces was used, by a hit or a store, no
\* later than any other; as long as the tick count has not wrapped.
EvictsLeastRecentlyUsed ==
    [][ wpc = "store" /\ wpc' = "use" /\ tick < TickModulus =>
            \A s \in Slots : cache'[s] # cache[s] =>
                \/ cache[s].token = NoToken
                \/ cache[s].origin = origin /\ cache[s].clockGeneration = generation
                \/ /\ Vacant = {}
                   /\ \A r \in Slots : cache[s].usedAt <= cache[r].usedAt ]_vars
=============================================================================
