-------------------------- MODULE VapidCacheProofs --------------------------
(***************************************************************************)
(* Proofs about VapidCache, for every size of the cache and every modulus: *)
(* its types, that the token a request carries is the right one, that the  *)
(* cache never holds two tokens of one origin and generation, and that it  *)
(* evicts the least recently used one.                                     *)
(***************************************************************************)
EXTENDS VapidCache, WellFoundedInduction, TLAPS

-----------------------------------------------------------------------------
(* Facts about numbers *)

\* The remainders that TickCount and the refresh test compute.
LEMMA ModRange ==
    ASSUME NEW x \in Nat, NEW m \in Nat \ {0}
    PROVE  x % m \in 0..(m - 1)
  OBVIOUS

LEMMA ModSmall ==
    ASSUME NEW x \in Nat, NEW m \in Nat \ {0}, x < m
    PROVE  x % m = x
  OBVIOUS

\* Every non-empty set of naturals has the minimum that Target takes.
LEMMA MinIsLeast ==
    ASSUME NEW S, S \subseteq Nat, S # {}
    PROVE  Min(S) \in S /\ \A s \in S : Min(S) <= s
  <1>1. PICK x \in S : \A y \in S : ~ (<<y, x>> \in OpToRel(<, Nat))
    BY WFMin, NatLessThanWellFounded, Zenon
  <1>2. \A y \in S : ~ (y < x)
    BY <1>1 DEF OpToRel
  <1>3. \A y \in S : x <= y
    BY <1>2
  <1> QED
    BY <1>3 DEF Min

-----------------------------------------------------------------------------
(* The inductive invariant *)

\* A stored entry describes its token; a vacant one has no origin, so it is
\* never taken for an entry of the job's origin.
EntriesCoherent ==
    cache # NoCache =>
        \A s \in Slots :
            IF cache[s].token = NoToken
            THEN cache[s].origin = NoOrigin
            ELSE /\ cache[s].origin = cache[s].token.aud
                 /\ cache[s].expiresAt = cache[s].token.exp
                 /\ GenerationsDistinct =>
                        cache[s].clockGeneration = cache[s].token.installed + 1

\* The stamps of the entries are tick counts of the past.
UseTimes ==
    cache # NoCache =>
        \A s \in Slots :
            /\ cache[s].usedAt <= tick
            /\ cache[s].lastUsed = cache[s].usedAt % TickModulus

\* The generations count the providers until they come round, and the token
\* about to be stored is the one just signed.
AttemptCoherent ==
    /\ captured <= installs
    /\ wpc # "idle" => origin \in Origins
    /\ GenerationsDistinct => clockGeneration = installs + 1
    /\ GenerationsDistinct /\ wpc \in {"read", "lookup", "sign", "store", "use"} =>
           generation = captured + 1
    /\ wpc = "store" =>
           /\ now + Lifetime < TimeModulus
           /\ jwt = [aud |-> origin, exp |-> now + Lifetime, installed |-> captured]

CacheInv ==
    /\ TypeOK
    /\ EntriesCoherent
    /\ UseTimes
    /\ AttemptCoherent
    /\ UsedTokenIsRight
    /\ OneTokenPerOrigin

-----------------------------------------------------------------------------
(* What the helpers return *)

LEMMA TickCountType ==
    ASSUME TypeOK
    PROVE  TickCount \in 0..(TickModulus - 1)
  BY ModRange, SizesAssumption DEF TypeOK, TickCount

LEMMA NextGenerationType ==
    ASSUME TypeOK
    PROVE  NextGeneration \in 1..(GenModulus - 1)
  BY SizesAssumption DEF TypeOK, NextGeneration

LEMMA EmptyEntryType == EmptyEntry \in Entries
  BY SizesAssumption DEF EmptyEntry, Entries

LEMMA EmptyCacheType == EmptyCache \in [Slots -> Entries]
  BY EmptyEntryType DEF EmptyCache

LEMMA EmptyCacheIsACache == EmptyCache # NoCache
  <1>1. 1 \in Slots
    BY SizesAssumption DEF Slots
  <1>2. 1 \in DOMAIN EmptyCache
    BY <1>1 DEF EmptyCache
  <1>3. DOMAIN NoCache = {}
    BY DEF NoCache
  <1> QED
    BY <1>2, <1>3

\* The entry a hit leaves: the same token with a new stamp.
LEMMA TouchedEntry ==
    ASSUME TypeOK, NEW e \in Entries
    PROVE  /\ Touched(e) \in Entries
           /\ Touched(e).origin = e.origin
           /\ Touched(e).token = e.token
           /\ Touched(e).expiresAt = e.expiresAt
           /\ Touched(e).clockGeneration = e.clockGeneration
           /\ Touched(e).lastUsed = TickCount
           /\ Touched(e).usedAt = tick
  <1>1. TickCount \in 0..(TickModulus - 1) /\ tick \in 0..MaxTicks
    BY TickCountType DEF TypeOK
  <1> QED
    BY <1>1 DEF Touched, Entries

\* The entry a store leaves.
LEMMA FilledEntry ==
    ASSUME TypeOK, jwt \in Tokens, origin \in Origins
    PROVE  Filled \in Entries
  <1>1. TickCount \in 0..(TickModulus - 1) /\ tick \in 0..MaxTicks
    BY TickCountType DEF TypeOK
  <1>2. jwt.exp \in 0..(TimeModulus - 1) /\ generation \in 0..(GenModulus - 1)
    BY DEF TypeOK, Tokens
  <1> QED
    BY <1>1, <1>2 DEF Filled, Entries

\* The lookup takes one of the hits.
LEMMA HitIsFresh ==
    ASSUME Hits # {}
    PROVE  Min(Hits) \in Slots /\ IsFresh(cache[Min(Hits)])
  <1>1. Hits \subseteq Nat
    BY SizesAssumption DEF Hits, Slots
  <1>2. Min(Hits) \in Hits
    BY <1>1, MinIsLeast
  <1> QED
    BY <1>2 DEF Hits

\* Some entry has the oldest stamp.
LEMMA OldestExists ==
    ASSUME TypeOK, cache # NoCache
    PROVE  Oldest # {}
  <1> DEFINE Stamps == {cache[s].lastUsed : s \in Slots}
  <1>1. \A s \in Slots : cache[s].lastUsed \in Nat
    BY SizesAssumption DEF TypeOK, Entries
  <1>2. Stamps \subseteq Nat /\ Stamps # {}
    BY <1>1, SizesAssumption DEF Slots
  <1>3. Min(Stamps) \in Stamps /\ \A x \in Stamps : Min(Stamps) <= x
    BY <1>2, MinIsLeast
  <1>4. PICK s \in Slots : cache[s].lastUsed = Min(Stamps)
    BY <1>3
  <1>5. \A r \in Slots : cache[s].lastUsed <= cache[r].lastUsed
    BY <1>3, <1>4
  <1> QED
    BY <1>5 DEF Oldest

\* Where a store goes: to an entry of the same origin and generation, or to a
\* vacant one, or to the one with the oldest stamp, in this order.
LEMMA TargetSlot ==
    ASSUME TypeOK, cache # NoCache
    PROVE  /\ Target \in Slots
           /\ Superseded # {} => Target \in Superseded
           /\ Superseded = {} /\ Vacant # {} => Target \in Vacant
           /\ Superseded = {} /\ Vacant = {} => Target \in Oldest
  <1>1. ASSUME NEW S, S \subseteq Slots, S # {}
        PROVE  Min(S) \in S
    <2>1. S \subseteq Nat
      BY <1>1, SizesAssumption DEF Slots
    <2> QED
      BY <1>1, <2>1, MinIsLeast
  <1>2. Superseded \subseteq Slots /\ Vacant \subseteq Slots /\ Oldest \subseteq Slots
    BY DEF Superseded, Vacant, Oldest
  <1>3. CASE Superseded # {}
    BY <1>1, <1>2, <1>3 DEF Target
  <1>4. CASE Superseded = {} /\ Vacant # {}
    BY <1>1, <1>2, <1>4 DEF Target
  <1>5. CASE Superseded = {} /\ Vacant = {}
    BY <1>1, <1>2, <1>5, OldestExists DEF Target
  <1> QED
    BY <1>3, <1>4, <1>5

-----------------------------------------------------------------------------
(* The types *)

\* Every step keeps every variable in its range.
LEMMA TypeStep == TypeOK /\ AttemptCoherent /\ [Next]_vars => TypeOK'
  <1> SUFFICES ASSUME TypeOK, AttemptCoherent, [Next]_vars
               PROVE  TypeOK'
    OBVIOUS
  <1> USE DEF TypeOK
  <1>1. ASSUME NEW o \in Origins, BeginJob(o)
        PROVE  TypeOK'
    BY <1>1 DEF BeginJob
  <1>2. CASE CopyProvider
    BY <1>2, SizesAssumption DEF CopyProvider
  <1>3. CASE ClockFails
    BY <1>3, SizesAssumption DEF ClockFails
  <1>4. ASSUME NEW t \in Times, ClockAnswers(t)
        PROVE  TypeOK'
    BY <1>4, SizesAssumption DEF ClockAnswers
  <1>5. CASE CacheHit
    <2> DEFINE s == Min(Hits)
    <2>1. cache # NoCache /\ cache \in [Slots -> Entries]
      BY <1>5 DEF CacheHit
    <2>2. s \in Slots /\ IsFresh(cache[s])
      BY <1>5, HitIsFresh DEF CacheHit
    <2>3. cache[s] \in Entries /\ Touched(cache[s]) \in Entries
      BY <2>1, <2>2, TouchedEntry
    <2>4. cache[s].token \in Tokens
      BY <2>2, <2>3 DEF IsFresh, Entries
    <2>5. cache' = [cache EXCEPT ![s] = Touched(cache[s])] /\ jwt' = cache[s].token
      BY <1>5 DEF CacheHit
    <2>6. cache' \in [Slots -> Entries]
      BY <2>1, <2>3, <2>5
    <2>7. cache' # NoCache
      BY <2>2, <2>6 DEF NoCache
    <2> QED
      BY <1>5, <2>4, <2>5, <2>6, <2>7 DEF CacheHit
  <1>6. CASE CacheMiss
    BY <1>6 DEF CacheMiss
  <1>7. CASE SignFails
    BY <1>7 DEF SignFails
  <1>8. CASE Sign
    <2>1. origin \in Origins
      BY <1>8 DEF Sign, AttemptCoherent
    <2>2. now + Lifetime \in 0..(TimeModulus - 1)
      BY <1>8, SizesAssumption DEF Sign
    <2>3. jwt' \in Tokens
      BY <1>8, <2>1, <2>2 DEF Sign, Tokens
    <2> QED
      BY <1>8, <2>3 DEF Sign
  <1>9. CASE Store
    <2>1. cache # NoCache /\ cache \in [Slots -> Entries]
      BY <1>9 DEF Store
    <2>2. origin \in Origins
      BY <1>9 DEF Store, AttemptCoherent
    <2>3. jwt \in Tokens
      <3>1. /\ now + Lifetime < TimeModulus
            /\ jwt = [aud |-> origin, exp |-> now + Lifetime, installed |-> captured]
        BY <1>9 DEF Store, AttemptCoherent
      <3>2. now + Lifetime \in 0..(TimeModulus - 1)
        BY <3>1, SizesAssumption
      <3> QED
        BY <2>2, <3>1, <3>2 DEF Tokens
    <2>4. Filled \in Entries
      BY <2>2, <2>3, FilledEntry
    <2>5. Target \in Slots
      BY <2>1, TargetSlot
    <2>6. cache' \in [Slots -> Entries]
      BY <1>9, <2>1, <2>4 DEF Store
    <2>7. cache' # NoCache
      BY <2>5, <2>6 DEF NoCache
    <2> QED
      BY <1>9, <2>6, <2>7 DEF Store
  <1>10. CASE Retry
    BY <1>10 DEF Retry
  <1>11. CASE EndJob
    BY <1>11, SizesAssumption DEF EndJob
  <1>12. CASE ChangeProvider
    <2>1. clockGeneration' \in 1..(GenModulus - 1)
      BY <1>12, NextGenerationType DEF ChangeProvider
    <2>2. cache' \in [Slots -> Entries] \cup {NoCache}
      BY <1>12, EmptyCacheType DEF ChangeProvider
    <2>3. installs' \in 0..MaxChanges
      BY <1>12, SizesAssumption DEF ChangeProvider
    <2>4. cache' = NoCache => cache = NoCache
      BY <1>12, EmptyCacheIsACache DEF ChangeProvider
    <2> QED
      BY <1>12, <2>1, <2>2, <2>3, <2>4 DEF ChangeProvider, worker
  <1>13. CASE InitCache
    BY <1>13, EmptyCacheType, EmptyCacheIsACache DEF InitCache, worker
  <1>14. CASE ReleaseCache
    BY <1>14 DEF ReleaseCache, worker
  <1>15. CASE Tick
    <2>1. tick' \in 0..MaxTicks
      BY <1>15, SizesAssumption DEF Tick
    <2> QED
      BY <1>15, <2>1 DEF Tick, worker
  <1>16. CASE UNCHANGED vars
    BY <1>16 DEF vars, worker
  <1> QED
    BY <1>1, <1>2, <1>3, <1>4, <1>5, <1>6, <1>7, <1>8, <1>9, <1>10, <1>11, <1>12,
       <1>13, <1>14, <1>15, <1>16 DEF Next

-----------------------------------------------------------------------------
(* The attempt *)

\* While they are distinct, every generation the worker holds names the
\* provider its clock reading came from.
LEMMA AttemptStep == TypeOK /\ AttemptCoherent /\ [Next]_vars => AttemptCoherent'
  <1> SUFFICES ASSUME TypeOK, AttemptCoherent, [Next]_vars
               PROVE  AttemptCoherent'
    OBVIOUS
  <1> USE DEF AttemptCoherent, GenerationsDistinct
  <1>1. ASSUME NEW o \in Origins, BeginJob(o)
        PROVE  AttemptCoherent'
    BY <1>1 DEF BeginJob
  <1>2. CASE CopyProvider
    BY <1>2 DEF CopyProvider, TypeOK
  <1>3. CASE ClockFails
    BY <1>3 DEF ClockFails
  <1>4. ASSUME NEW t \in Times, ClockAnswers(t)
        PROVE  AttemptCoherent'
    BY <1>4 DEF ClockAnswers
  <1>5. CASE CacheHit
    BY <1>5 DEF CacheHit
  <1>6. CASE CacheMiss
    BY <1>6 DEF CacheMiss
  <1>7. CASE SignFails
    BY <1>7 DEF SignFails
  <1>8. CASE Sign
    BY <1>8 DEF Sign
  <1>9. CASE Store
    BY <1>9 DEF Store
  <1>10. CASE Retry
    BY <1>10 DEF Retry
  <1>11. CASE EndJob
    BY <1>11 DEF EndJob, TypeOK
  <1>12. CASE ChangeProvider
    <2>1. /\ installs \in Nat /\ captured \in Nat /\ clockGeneration \in Nat
          /\ installs' = installs + 1 /\ captured' = captured
          /\ clockGeneration' = NextGeneration
      BY <1>12 DEF ChangeProvider, TypeOK, worker
    <2>2. captured' <= installs'
      BY <2>1
    <2>3. GenerationsDistinct' => GenerationsDistinct
      BY <2>1, SizesAssumption
    <2>4. GenerationsDistinct' => clockGeneration' = installs' + 1
      BY <2>1, SizesAssumption DEF NextGeneration
    <2> QED
      BY <1>12, <2>2, <2>3, <2>4 DEF ChangeProvider, worker
  <1>13. CASE InitCache
    BY <1>13 DEF InitCache, worker
  <1>14. CASE ReleaseCache
    BY <1>14 DEF ReleaseCache, worker
  <1>15. CASE Tick
    BY <1>15 DEF Tick, worker
  <1>16. CASE UNCHANGED vars
    BY <1>16 DEF vars, worker
  <1> QED
    BY <1>1, <1>2, <1>3, <1>4, <1>5, <1>6, <1>7, <1>8, <1>9, <1>10, <1>11, <1>12,
       <1>13, <1>14, <1>15, <1>16 DEF Next

-----------------------------------------------------------------------------
(* The cache *)

\* Only five kinds of steps touch the cache; the others keep all that the
\* invariants say about it.
LEMMA CacheChanges ==
    ASSUME [Next]_vars
    PROVE  \/ CacheHit
           \/ Store
           \/ ChangeProvider
           \/ InitCache
           \/ ReleaseCache
           \/ /\ cache' = cache
              /\ installs' = installs
              /\ tick' = tick \/ Tick
  BY DEF Next, BeginJob, CopyProvider, ClockFails, ClockAnswers, CacheMiss,
         SignFails, Sign, Retry, EndJob, Tick, vars

\* An entry that is vacant has no origin.
LEMMA EmptyEntryFields ==
    /\ EmptyEntry.token = NoToken
    /\ EmptyEntry.origin = NoOrigin
    /\ EmptyEntry.usedAt = 0
    /\ EmptyEntry.lastUsed = 0
  BY DEF EmptyEntry

LEMMA EntriesStep ==
    TypeOK /\ EntriesCoherent /\ AttemptCoherent /\ [Next]_vars => EntriesCoherent'
  <1> SUFFICES ASSUME TypeOK, EntriesCoherent, AttemptCoherent, [Next]_vars
               PROVE  EntriesCoherent'
    OBVIOUS
  <1>1. CASE CacheHit
    <2> DEFINE s == Min(Hits)
    <2>1. cache # NoCache /\ cache \in [Slots -> Entries]
      BY <1>1 DEF CacheHit, TypeOK
    <2>2. s \in Slots
      BY <1>1, HitIsFresh DEF CacheHit
    <2>3. /\ Touched(cache[s]).origin = cache[s].origin
          /\ Touched(cache[s]).token = cache[s].token
          /\ Touched(cache[s]).expiresAt = cache[s].expiresAt
          /\ Touched(cache[s]).clockGeneration = cache[s].clockGeneration
      BY <2>1, <2>2, TouchedEntry
    <2>4. cache' = [cache EXCEPT ![s] = Touched(cache[s])] /\ installs' = installs
      BY <1>1 DEF CacheHit
    <2>5. \A r \in Slots : /\ cache'[r].origin = cache[r].origin
                           /\ cache'[r].token = cache[r].token
                           /\ cache'[r].expiresAt = cache[r].expiresAt
                           /\ cache'[r].clockGeneration = cache[r].clockGeneration
      BY <2>1, <2>2, <2>3, <2>4
    <2> QED
      BY <2>1, <2>4, <2>5 DEF EntriesCoherent, GenerationsDistinct
  <1>2. CASE Store
    <2>1. cache # NoCache /\ cache \in [Slots -> Entries] /\ Target \in Slots
      BY <1>2, TargetSlot DEF Store, TypeOK
    <2>2. cache' = [cache EXCEPT ![Target] = Filled] /\ installs' = installs
      BY <1>2 DEF Store
    <2>3. /\ jwt = [aud |-> origin, exp |-> now + Lifetime, installed |-> captured]
          /\ GenerationsDistinct => generation = captured + 1
          /\ origin \in Origins
      BY <1>2 DEF Store, AttemptCoherent
    <2>4. /\ Filled.origin = jwt.aud /\ Filled.token = jwt /\ Filled.expiresAt = jwt.exp
          /\ Filled.clockGeneration = generation
      BY <2>3 DEF Filled
    <2>5. jwt # NoToken
      <3>1. now + Lifetime \in 0..(TimeModulus - 1) /\ captured \in 0..MaxChanges
        BY <1>2, SizesAssumption DEF Store, AttemptCoherent, TypeOK
      <3> QED
        BY <2>3, <3>1, NoTokenAssumption DEF Tokens
    <2>6. ASSUME NEW r \in Slots
          PROVE  IF cache'[r].token = NoToken
                 THEN cache'[r].origin = NoOrigin
                 ELSE /\ cache'[r].origin = cache'[r].token.aud
                      /\ cache'[r].expiresAt = cache'[r].token.exp
                      /\ GenerationsDistinct =>
                             cache'[r].clockGeneration = cache'[r].token.installed + 1
      <3>1. CASE r = Target
        <4>1. cache'[r] = Filled
          BY <2>1, <2>2, <3>1
        <4>2. jwt.installed = captured
          BY <2>3
        <4> QED
          BY <2>3, <2>4, <2>5, <4>1, <4>2
      <3>2. CASE r # Target
        <4>1. cache'[r] = cache[r]
          BY <2>1, <2>2, <3>2
        <4> QED
          BY <2>1, <4>1 DEF EntriesCoherent
      <3> QED
        BY <3>1, <3>2
    <2> QED
      BY <2>2, <2>6 DEF EntriesCoherent, GenerationsDistinct
  <1>3. CASE ChangeProvider \/ InitCache
    <2>1. cache' = NoCache \/ cache' = EmptyCache
      BY <1>3 DEF ChangeProvider, InitCache
    <2> QED
      BY <2>1, EmptyEntryFields DEF EntriesCoherent, EmptyCache
  <1>4. CASE ReleaseCache
    BY <1>4 DEF ReleaseCache, EntriesCoherent
  <1>5. CASE cache' = cache /\ installs' = installs
    BY <1>5 DEF EntriesCoherent, GenerationsDistinct
  <1> QED
    BY <1>1, <1>2, <1>3, <1>4, <1>5, CacheChanges

\* Stamps are taken from the tick count, which only grows.
LEMMA UseTimesStep == TypeOK /\ UseTimes /\ [Next]_vars => UseTimes'
  <1> SUFFICES ASSUME TypeOK, UseTimes, [Next]_vars
               PROVE  UseTimes'
    OBVIOUS
  <1>1. CASE CacheHit
    <2> DEFINE s == Min(Hits)
    <2>1. cache # NoCache /\ cache \in [Slots -> Entries] /\ s \in Slots
      BY <1>1, HitIsFresh DEF CacheHit, TypeOK
    <2>2. Touched(cache[s]).lastUsed = tick % TickModulus /\ Touched(cache[s]).usedAt = tick
      BY <2>1, TouchedEntry DEF TickCount
    <2>3. cache' = [cache EXCEPT ![s] = Touched(cache[s])] /\ tick' = tick
      BY <1>1 DEF CacheHit
    <2>4. ASSUME NEW r \in Slots
          PROVE  cache'[r].usedAt <= tick' /\ cache'[r].lastUsed = cache'[r].usedAt % TickModulus
      <3>1. CASE r = s
        BY <2>1, <2>2, <2>3, <3>1 DEF TypeOK
      <3>2. CASE r # s
        BY <2>1, <2>3, <3>2 DEF UseTimes
      <3> QED
        BY <3>1, <3>2
    <2> QED
      BY <2>4 DEF UseTimes
  <1>2. CASE Store
    <2>1. cache # NoCache /\ cache \in [Slots -> Entries] /\ Target \in Slots
      BY <1>2, TargetSlot DEF Store, TypeOK
    <2>2. Filled.lastUsed = tick % TickModulus /\ Filled.usedAt = tick
      BY DEF Filled, TickCount
    <2>3. cache' = [cache EXCEPT ![Target] = Filled] /\ tick' = tick
      BY <1>2 DEF Store
    <2>4. ASSUME NEW r \in Slots
          PROVE  cache'[r].usedAt <= tick' /\ cache'[r].lastUsed = cache'[r].usedAt % TickModulus
      <3>1. CASE r = Target
        BY <2>1, <2>2, <2>3, <3>1 DEF TypeOK
      <3>2. CASE r # Target
        BY <2>1, <2>3, <3>2 DEF UseTimes
      <3> QED
        BY <3>1, <3>2
    <2> QED
      BY <2>4 DEF UseTimes
  <1>3. CASE ChangeProvider \/ InitCache
    <2>1. (cache' = NoCache \/ cache' = EmptyCache) /\ tick' = tick /\ tick \in Nat
      BY <1>3, SizesAssumption DEF ChangeProvider, InitCache, TypeOK
    <2>2. 0 % TickModulus = 0
      BY ModSmall, SizesAssumption
    <2> QED
      BY <2>1, <2>2, EmptyEntryFields DEF UseTimes, EmptyCache
  <1>4. CASE ReleaseCache
    BY <1>4 DEF ReleaseCache, UseTimes
  <1>5. CASE cache' = cache /\ tick' = tick
    BY <1>5 DEF UseTimes
  <1>6. CASE Tick
    <2>1. tick' = tick + 1 /\ cache' = cache /\ tick \in Nat
      BY <1>6, SizesAssumption DEF Tick, TypeOK
    <2>2. cache # NoCache => \A s \in Slots : cache[s].usedAt \in Nat
      BY SizesAssumption DEF TypeOK, Entries
    <2> QED
      BY <2>1, <2>2 DEF UseTimes
  <1> QED
    BY <1>1, <1>2, <1>3, <1>4, <1>5, <1>6, CacheChanges

-----------------------------------------------------------------------------
(* The token of a request *)

\* A token comes to be used by a hit or by a store; later replacements of the
\* provider do not change what it was signed for.
LEMMA UsedTokenStep ==
    TypeOK /\ EntriesCoherent /\ AttemptCoherent /\ UsedTokenIsRight /\ [Next]_vars
        => UsedTokenIsRight'
  <1> SUFFICES ASSUME TypeOK, EntriesCoherent, AttemptCoherent, UsedTokenIsRight,
                      [Next]_vars, wpc' = "use"
               PROVE  UsedTokenIsRight'
    BY DEF UsedTokenIsRight
  <1>1. CASE CacheHit
    <2> DEFINE s == Min(Hits)
    <2>1. cache # NoCache /\ cache \in [Slots -> Entries]
      BY <1>1 DEF CacheHit, TypeOK
    <2>2. /\ s \in Slots
          /\ cache[s].clockGeneration = generation
          /\ cache[s].origin = origin
          /\ cache[s].token # NoToken
          /\ cache[s].expiresAt > (now + Margin) % TimeModulus
      BY <1>1, HitIsFresh DEF CacheHit, IsFresh
    <2>3. /\ jwt' = cache[s].token /\ origin' = origin /\ now' = now
          /\ captured' = captured /\ installs' = installs
      BY <1>1 DEF CacheHit
    <2>4. cache[s].token \in Tokens
      BY <2>1, <2>2 DEF Entries
    <2>5. /\ cache[s].token.aud = origin
          /\ cache[s].token.exp > (now + Margin) % TimeModulus
          /\ GenerationsDistinct => generation = cache[s].token.installed + 1
      BY <2>1, <2>2 DEF EntriesCoherent
    <2>6. GenerationsDistinct => generation = captured + 1
      BY <1>1 DEF CacheHit, AttemptCoherent
    <2>7. GenerationsDistinct => cache[s].token.installed = captured
      <3>1. cache[s].token.installed \in Nat /\ captured \in Nat
        BY <2>4 DEF TypeOK, Tokens
      <3> QED
        BY <2>5, <2>6, <3>1
    <2>8. now + Margin < TimeModulus => cache[s].token.exp > now + Margin
      <3>1. now + Margin \in Nat
        BY SizesAssumption DEF TypeOK
      <3> QED
        BY <2>5, <3>1, ModSmall, SizesAssumption
    <2> QED
      BY <2>2, <2>3, <2>5, <2>7, <2>8 DEF UsedTokenIsRight, GenerationsDistinct
  <1>2. CASE Store
    <2>1. /\ now + Lifetime < TimeModulus
          /\ jwt = [aud |-> origin, exp |-> now + Lifetime, installed |-> captured]
          /\ origin \in Origins
      BY <1>2 DEF Store, AttemptCoherent
    <2>2. jwt' = jwt /\ origin' = origin /\ now' = now /\ captured' = captured
      BY <1>2 DEF Store
    <2>3. jwt # NoToken
      <3>1. now + Lifetime \in 0..(TimeModulus - 1) /\ captured \in 0..MaxChanges
        BY <2>1, SizesAssumption DEF TypeOK
      <3> QED
        BY <2>1, <3>1, NoTokenAssumption DEF Tokens
    <2>4. now + Lifetime > now + Margin
      BY SizesAssumption DEF TypeOK
    <2> QED
      BY <2>1, <2>2, <2>3, <2>4 DEF UsedTokenIsRight
  <1>3. CASE ChangeProvider
    <2>1. /\ wpc = "use" /\ origin' = origin /\ now' = now /\ jwt' = jwt
          /\ captured' = captured /\ installs' = installs + 1
      BY <1>3 DEF ChangeProvider, worker
    <2>2. GenerationsDistinct' => GenerationsDistinct
      BY <2>1, SizesAssumption DEF GenerationsDistinct, TypeOK
    <2> QED
      BY <2>1, <2>2 DEF UsedTokenIsRight
  <1>4. CASE InitCache \/ Tick \/ UNCHANGED vars
    <2>1. UNCHANGED <<wpc, origin, now, jwt, captured, installs>>
      BY <1>4 DEF InitCache, Tick, vars, worker
    <2> QED
      BY <2>1 DEF UsedTokenIsRight, GenerationsDistinct
  <1> QED
    BY <1>1, <1>2, <1>3, <1>4 DEF Next, BeginJob, CopyProvider, ClockFails, ClockAnswers,
       CacheMiss, SignFails, Sign, Retry, EndJob, ReleaseCache, worker

-----------------------------------------------------------------------------
(* One token per origin *)

\* A store takes the place of the entry of the same origin and generation, if
\* there is one.
LEMMA OneTokenStep ==
    TypeOK /\ EntriesCoherent /\ AttemptCoherent /\ OneTokenPerOrigin /\ [Next]_vars
        => OneTokenPerOrigin'
  <1> SUFFICES ASSUME TypeOK, EntriesCoherent, AttemptCoherent, OneTokenPerOrigin,
                      [Next]_vars
               PROVE  OneTokenPerOrigin'
    OBVIOUS
  <1>1. CASE CacheHit
    <2> DEFINE s == Min(Hits)
    <2>1. cache # NoCache /\ cache \in [Slots -> Entries] /\ s \in Slots
      BY <1>1, HitIsFresh DEF CacheHit, TypeOK
    <2>2. /\ Touched(cache[s]).origin = cache[s].origin
          /\ Touched(cache[s]).token = cache[s].token
          /\ Touched(cache[s]).clockGeneration = cache[s].clockGeneration
      BY <2>1, TouchedEntry
    <2>3. \A r \in Slots : /\ cache'[r].origin = cache[r].origin
                           /\ cache'[r].token = cache[r].token
                           /\ cache'[r].clockGeneration = cache[r].clockGeneration
      BY <1>1, <2>1, <2>2 DEF CacheHit
    <2> QED
      BY <2>1, <2>3 DEF OneTokenPerOrigin, Vacant
  <1>2. CASE Store
    <2>1. cache # NoCache /\ cache \in [Slots -> Entries] /\ origin \in Origins
      BY <1>2 DEF Store, TypeOK, AttemptCoherent
    <2>2. Target \in Slots /\ (Superseded # {} => Target \in Superseded)
      BY <2>1, TargetSlot
    <2>3. cache' = [cache EXCEPT ![Target] = Filled]
      BY <1>2 DEF Store
    <2>4. Filled.origin = origin /\ Filled.clockGeneration = generation
      BY DEF Filled
    <2>5. ASSUME NEW r \in Slots, r # Target, cache[r].token # NoToken
          PROVE  ~ (cache[r].origin = origin /\ cache[r].clockGeneration = generation)
      <3> SUFFICES ASSUME cache[r].origin = origin, cache[r].clockGeneration = generation
                   PROVE  FALSE
        OBVIOUS
      <3>1. Target \in Superseded
        BY <2>2 DEF Superseded
      <3>2. cache[Target].origin = origin /\ cache[Target].clockGeneration = generation
        BY <3>1 DEF Superseded
      <3>3. cache[Target].token # NoToken
        BY <2>1, <2>2, <3>2, OriginsAssumption DEF EntriesCoherent
      <3> QED
        BY <2>1, <2>2, <2>5, <3>2, <3>3 DEF OneTokenPerOrigin, Vacant
    <2>6. ASSUME NEW r \in Slots, NEW q \in Slots,
                 cache'[r].token # NoToken, cache'[q].token # NoToken,
                 cache'[r].origin = cache'[q].origin,
                 cache'[r].clockGeneration = cache'[q].clockGeneration
          PROVE  r = q
      <3>1. CASE r = Target
        BY <2>1, <2>2, <2>3, <2>4, <2>5, <2>6, <3>1
      <3>2. CASE q = Target
        BY <2>1, <2>2, <2>3, <2>4, <2>5, <2>6, <3>2
      <3>3. CASE r # Target /\ q # Target
        BY <2>1, <2>2, <2>3, <2>6, <3>3 DEF OneTokenPerOrigin, Vacant
      <3> QED
        BY <3>1, <3>2, <3>3
    <2> QED
      BY <2>6 DEF OneTokenPerOrigin, Vacant
  <1>3. CASE ChangeProvider \/ InitCache
    <2>1. cache' = NoCache \/ cache' = EmptyCache
      BY <1>3 DEF ChangeProvider, InitCache
    <2> QED
      BY <2>1, EmptyEntryFields DEF OneTokenPerOrigin, Vacant, EmptyCache
  <1>4. CASE ReleaseCache
    BY <1>4 DEF ReleaseCache, OneTokenPerOrigin
  <1>5. CASE cache' = cache
    BY <1>5 DEF OneTokenPerOrigin, Vacant
  <1> QED
    BY <1>1, <1>2, <1>3, <1>4, <1>5, CacheChanges

-----------------------------------------------------------------------------
(* The theorems *)

LEMMA CacheInvInit == Init => CacheInv
  BY SizesAssumption, NoTokenAssumption
  DEF Init, CacheInv, TypeOK, EntriesCoherent, UseTimes, AttemptCoherent,
      UsedTokenIsRight, OneTokenPerOrigin, GenerationsDistinct

LEMMA CacheInvStep == CacheInv /\ [Next]_vars => CacheInv'
  BY TypeStep, AttemptStep, EntriesStep, UseTimesStep, UsedTokenStep, OneTokenStep
  DEF CacheInv

LEMMA CacheInvAlways == Spec => []CacheInv
  BY CacheInvInit, CacheInvStep, PTL DEF Spec

\* Every variable keeps its range in every behaviour of the cache.
THEOREM CacheTypeCorrect == Spec => []TypeOK
  <1>1. CacheInv => TypeOK
    BY DEF CacheInv
  <1> QED
    BY <1>1, CacheInvAlways, PTL

\* Whatever the provider is replaced by and whenever, a request carries a token
\* for its job's origin, signed by the clock its attempt read, and fresh.
THEOREM UsedTokenIsRightAlways == Spec => []UsedTokenIsRight
  <1>1. CacheInv => UsedTokenIsRight
    BY DEF CacheInv
  <1> QED
    BY <1>1, CacheInvAlways, PTL

\* The cache never holds two tokens of one origin and generation.
THEOREM OneTokenPerOriginAlways == Spec => []OneTokenPerOrigin
  <1>1. CacheInv => OneTokenPerOrigin
    BY DEF CacheInv
  <1> QED
    BY <1>1, CacheInvAlways, PTL

\* What EvictsLeastRecentlyUsed says of one step.
EvictionStep ==
    wpc = "store" /\ wpc' = "use" /\ tick < TickModulus =>
        \A s \in Slots : cache'[s] # cache[s] =>
            \/ cache[s].token = NoToken
            \/ cache[s].origin = origin /\ cache[s].clockGeneration = generation
            \/ /\ Vacant = {}
               /\ \A r \in Slots : cache[s].usedAt <= cache[r].usedAt

\* Before the tick count wraps a stamp is the tick count itself, so the oldest
\* stamp is the least recent use.
LEMMA EvictionHolds == CacheInv /\ [Next]_vars => EvictionStep
  <1> SUFFICES ASSUME CacheInv, [Next]_vars,
                      wpc = "store", wpc' = "use", tick < TickModulus,
                      NEW s \in Slots, cache'[s] # cache[s]
               PROVE  \/ cache[s].token = NoToken
                      \/ cache[s].origin = origin /\ cache[s].clockGeneration = generation
                      \/ /\ Vacant = {}
                         /\ \A r \in Slots : cache[s].usedAt <= cache[r].usedAt
    BY DEF EvictionStep
  <1>1. Store
    BY DEF Next, BeginJob, CopyProvider, ClockFails, ClockAnswers, CacheHit,
           CacheMiss, SignFails, Sign, Retry, EndJob, ChangeProvider, InitCache,
           ReleaseCache, Tick, vars, worker
  <1>2. TypeOK /\ UseTimes
    BY DEF CacheInv
  <1>3. cache # NoCache /\ cache \in [Slots -> Entries]
    BY <1>1, <1>2 DEF Store, TypeOK
  <1>4. s = Target
    BY <1>1, <1>3 DEF Store
  <1>5. CASE Superseded # {}
    BY <1>2, <1>3, <1>4, <1>5, TargetSlot DEF Superseded
  <1>6. CASE Superseded = {} /\ Vacant # {}
    BY <1>2, <1>3, <1>4, <1>6, TargetSlot DEF Vacant
  <1>7. CASE Superseded = {} /\ Vacant = {}
    <2>1. s \in Oldest
      BY <1>2, <1>3, <1>4, <1>7, TargetSlot
    <2>2. ASSUME NEW r \in Slots
          PROVE  cache[r].lastUsed = cache[r].usedAt
      <3>1. /\ cache[r].usedAt \in Nat
            /\ cache[r].usedAt <= tick
            /\ cache[r].lastUsed = cache[r].usedAt % TickModulus
        BY <1>2, <1>3, SizesAssumption DEF UseTimes, Entries
      <3>2. cache[r].usedAt < TickModulus
        BY <1>2, <3>1, SizesAssumption DEF TypeOK
      <3> QED
        BY <3>1, <3>2, ModSmall, SizesAssumption
    <2>3. \A r \in Slots : cache[s].usedAt <= cache[r].usedAt
      BY <2>1, <2>2 DEF Oldest
    <2> QED
      BY <1>7, <2>3
  <1> QED
    BY <1>5, <1>6, <1>7

\* A store evicts the least recently used token, until the tick count wraps.
THEOREM EvictsLeastRecentlyUsedAlways == Spec => EvictsLeastRecentlyUsed
  <1>1. CacheInv /\ [Next]_vars => [EvictionStep]_vars
    BY EvictionHolds
  <1>2. Spec => [][EvictionStep]_vars
    BY <1>1, CacheInvAlways, PTL DEF Spec
  <1> QED
    BY <1>2 DEF EvictsLeastRecentlyUsed, EvictionStep
=============================================================================
