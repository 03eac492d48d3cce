# Curier in TLA+

Curier is an Arduino/ESP32 library that delivers Web Push messages: an
application accepts a payload with `send()`, one FreeRTOS worker task encrypts
it, signs it (VAPID), posts it over HTTPS, retries when that fails, and reports
the outcome through a callback. This directory specifies the library, checks
the specifications with TLC and proves the main results with TLAPS.

Source paths below are relative to the repository root; `Curier.cpp` is
`src/Curier.cpp`.

## The system

| Component | Code | State | Operations | Interacts through |
| --- | --- | --- | --- | --- |
| Lifecycle, queue, worker | `Curier.cpp` | lifecycle, config and other owned resources, ring queue, inFlight, diagnostics, worker task, shutdown semaphore | `init`, `send`, `end`, `~Curier`, `run`, `process`, `waitForRetry`, callbacks | runtime mutex, lifecycle mutex, task notification bits, binary semaphore |
| Time provider and JWT cache | `Curier.cpp` 184-205, 239-319, 1025-1066 | provider, clock generation, four cache entries with LRU ticks | `readClock`, `jwtForOrigin`, `setTimeProvider`, `clearTimeProvider` | runtime mutex; the provider is called without it |
| Retry decision | `internal/CurierRetry.cpp` | none | back-off, jitter, `Retry-After`, HTTP dates | called by `process` |
| Endpoint parsing | `internal/CurierProtocol.cpp` | none | origin of an https URL | called by `send` |
| Payload | `internal/CurierPayload.cpp` | none | validation, serialisation to bounded JSON | called by `send` |
| HTTP mapping | `internal/CurierHttp.cpp` | none between calls | one request, status mapping | called by `process`; ESP-IDF client is external |
| Crypto | `internal/CurierCrypto.cpp` | key material, RNG | encryption record, VAPID token, base64url | called by `init`, `send`, `process`; mbedTLS is external |
| Configuration | `Curier.cpp` 569-633 | none | range checks | called by `init` |
| Memory placement | `internal/CurierMemory.h` | none | allocators over Strata | everywhere |

### What is hard

* `end()` waits for the worker while it holds the lifecycle mutex; callbacks run
  on the worker and may call the API; a timed-out `end()` leaves everything as
  it is and may be repeated; the destructor repeats it for ever.
* The worker's handle leaves the mutex in `send()`; the task it names is deleted
  by `end()`.
* Work and Stop share one notification word, which the worker also consumes
  while it waits for a retry.
* A popped job is no longer in the queue but still counts against `queueSize`
  until its callback has returned.
* Stop can be published at any point of `process()`.
* `init()` can fail at four points after it has begun to allocate.
* The JWT cache is filled from work done without the mutex, and the time
  provider may be replaced meanwhile.
* The retry computations have fixed-width arithmetic, percentages and clamps.
* A retry delay is measured with a tick counter that wraps, and is interrupted by
  every `send()`.
* The limits of sizes and the shapes of keys are checked by `init()`, `send()`, the
  encryption and the request, each with code of its own.
* Endpoints and key texts are parsed by index arithmetic; the origin that comes
  out is a cache key and the audience of a token.

### What makes each component correct

* Lifecycle, queue, worker: exactly one callback per accepted send, in order,
  before `end()` succeeds; never more than `queueSize` accepted jobs; no wake-up
  missed; the worker never runs on released state; nothing leaks; every accepted
  job is eventually reported; the destructor returns.
* JWT cache: a token is used only with the clock generation and the origin it
  was made for and before its margin; four entries at most; the least recently
  used one is replaced.
* Retry: exponential delays, whatever the widths; waits bounded; Retry-After
  obeyed and never shortened; only enabled failures retried; dates counted
  right.
* Retry delay: a retry is not early, however often the delay is interrupted, and
  not later than the worker was kept from running; a Stop ends the delay.
* Endpoint, payload, keys, configuration: what the documents describe is
  accepted, nothing else is, and a refusal names the argument at fault; what is
  accepted can be encrypted and requested; an origin names its server.

## Modules

| Module | What it is |
| --- | --- |
| `CurierService` | the promise to the application: accept up to a capacity, report each accepted push once, owe nothing when closed |
| `CurierRuntime` | the lifecycle, the queue, the worker and the API calls with every interleaving; implements `CurierService` |
| `MCCurierRuntime` | instance for TLC |
| `CurierRuntimeProofs`, `CurierDeliveryProofs` | theorems about `CurierRuntime`: ownership, the counters, the refinement; the ring, the reports, the wake-ups, the destructor |
| `VapidCache`, `MCVapidCache`, `VapidCacheProofs` | the token cache and the time provider; its instance; its theorems |
| `RetryPolicy`, `MCRetryPolicy`, `RetryPolicyProofs` | what an attempt's outcome leads to: the answer, the decision, the delay |
| `RetryAfter`, `MCRetryAfter`, `RetryAfterProofs` | the parsing of a Retry-After header |
| `CivilDate` | the calendar arithmetic of the parser, as operators |
| `RetryWait`, `MCRetryWait`, `RetryWaitProofs` | the delay before a retry, in ticks; its instance; its theorems |
| `EndpointOrigin` | the parsing of an endpoint, as operators |
| `PushAdmission`, `MCPushAdmission`, `PushAdmissionProofs` | what `init()` and `send()` admit, and what the encryption and the request make of it; its instance; its theorems, those about the parser included |
| `HttpDate`, `HttpDateProofs` | a reference calendar that `CivilDate` is compared with |

How they fit: `CurierRuntime` leaves open what happens in an attempt and whether
a failed one is retried. `VapidCache` is the part of the attempt before the
request, `RetryPolicy` the part after it; both take a job as given and rely on
what `CurierRuntime` shows, that the worker has a job only while the runtime's
resources exist. `RetryPolicy` takes any result of `RetryAfter`, which in turn
uses `CivilDate` for dates. `RetryWait` is the delay that `RetryPolicy` decided on
and that `CurierRuntime` has without time. `PushAdmission` EXTENDS
`EndpointOrigin`; it comes before the runtime, where a push is accepted, and
inside it, where the accepted push is encrypted and requested. The modules share
no variables.

### CurierRuntime: correspondence with the code

The variables are the fields of `CurierImpl`, the FreeRTOS objects, and the
places where the tasks stand:

* `lifecycle`, `queue`, `queueHead`, `queueTail`, `queueCount`, `inFlight`,
  `diag`: the fields of the same name. A job is the number of its acceptance.
  `diag` keeps the counters; `queueDepth`, `inFlight` and
  `queueHighWaterMark` in it are functions of the rest, and the stack and region
  fields are informational.
* `allocated`: which of config, crypto, queue, JWT cache and semaphore exist.
* `lifecycleOwner`: the task that holds `lifecycleMutex` from one step to the
  next. Only `end()` does; `init()` holds it within one action.
* `task` and `created`: the worker task in `CurierImpl::task`, as a number that
  a later session does not reuse, so that a stale handle can be told apart.
* `notification`, `signal`: the notification word and the binary semaphore.
* `wpc`, `job`, `attempts`, `status`, `delivered`: the worker in `run()` and
  `process()`.
* `pc`, `handle`, `destroyer`: each task's API call and the handle it captured.
* `accepted`, `called`: history.

| Action | Code |
| --- | --- |
| `SendAccepted`, `SendNotify` | the critical section of `send()` with `enqueueLocked()`; `xTaskNotify` after the unlock |
| `InitCall`, `InitRefused`, `InitFails`, `InitSucceeds` | `init()` waiting for the lifecycle mutex; its early returns; its four failure points; success |
| `EndCall` ... `EndRelease` | `end()`: the mutex, `NotInitialized`, `Busy`, publishing Stopping, notify, take or timeout, `task.reset()`, release |
| `DestroyCall` | `~Curier`, whose loop is `AfterTimeout`/`AfterEnd` |
| `WorkerCheck`, `WorkerPop`, `WorkerIdle`, `WorkerWake` | the loop of `run()` |
| `DrainJob`, `DrainDone`, `WorkerPublish` | `cancelQueued()`, the final semaphore give |
| `BeginAttempt`, `Deliver`, `GiveUp`, `Retry` | `process()` |
| `RetryWake`, `RetryElapsed` | `waitForRetry()` |
| `Finish`, `Release` | the override by Cancelled, the callback, `recordCompletion()` |

A push answered with 2xx during a shutdown is reported as Cancelled (`Finish`): the
documents list "cancellation during shutdown" among the terminal paths, and
`testShutdownTimeoutRecovery` expects it. `ReportIsHonest` therefore allows Cancelled
for any job in a shutdown, and only then.

Granularity. Everything under the runtime mutex is one action, because no other
task can see its intermediate states. Steps outside the mutex that read or write
shared objects are actions of their own. The retry count and the check before it
are one action (`Retry`): between them lies the retry policy, and nothing but
`diagnostics()` reads the counter. A refused `send()`, `initialized()` and
`diagnostics()` change nothing and are stuttering steps.

Assumptions about what is outside the code: a mutex lock succeeds once the
mutex exists (Strata waits without limit); FreeRTOS keeps its contracts; the
application does not destroy the object while another of its tasks is inside a
call; an application callback returns. `SendNotify` on a deleted task is
undefined behaviour: the model lets the bit vanish or land in the task that
reuses the storage, and the `released_handle` run shows that the case is
reachable; other corruption is not followed further.

### VapidCache: correspondence with the code

`cache` and `clockGeneration` are the fields of `CurierImpl`; `origin`,
`generation`, `now` and `jwt` the locals of `process()`. A token is its audience,
its expiry and, as history, the number of the provider whose clock it was signed
by (`installed`); `captured` is the provider of the running attempt and `usedAt`
is `lastUsed` before it is cut to 32 bits.

| Action | Code |
| --- | --- |
| `CopyProvider`, `ClockFails`, `ClockAnswers` | `readClock()`: the copy under the mutex, the call outside it |
| `CacheHit`, `CacheMiss` | the first critical section of `jwtForOrigin()` |
| `Sign`, `SignFails` | `createVapidJwt()`, outside the mutex |
| `Store` | the second critical section, with the choice of the slot (`Target`) |
| `BeginJob`, `Retry`, `EndJob` | the job, its retries, and its end, where `SecureStringGuard` clears the token |
| `ChangeProvider` | `setTimeProvider()` and `clearTimeProvider()` at any moment |
| `InitCache`, `ReleaseCache` | `init()` and the release in `end()`, when no job is processed |

A provider may answer anything, so each reading is any of `Times`: nothing in
the code requires a clock to be monotonic. Time, generations and ticks wrap at
moduli that stand for 2^64 and 2^32. A reading of the clock so late that the
margin wraps is part of the model, and `UsedTokenIsRight` says nothing about the
age of a token then: the code compares with the wrapped sum.

### RetryPolicy, RetryAfter, CivilDate: correspondence with the code

`RetryPolicy` is one job from its first attempt to its result, under any
configuration that `validateRetryConfig()` accepts. `FailBeforeRequest`,
`EncryptFails` and `Respond` are the outcomes of a pass (`process()`,
`sendWebPushRequest()`), `RetryByDefault` is `defaultRetryDecision()` with
`applyJitter()`, `RetryByPolicy` is the application's policy with the clamp of
`process()`, `WaitElapses` begins the next pass. Delays have `Width` bits where
the code has 32; intermediate results are unbounded where the code uses 64 bits
and cut where it casts. `asked` is history: what the header of this pass's answer asks
for. The properties compare the wait with `asked` and not with `retryAfterMs`, so that
they follow the delay from the header through both clamps, and catch one that an
earlier pass left behind. Which failures are retried (`Retryable`) is translated and
is not the subject of a property. What a pass does with a shutdown is in `CurierRuntime`.

`RetryAfter` is `parseRetryAfter()`, one action per turn of its loop and one per
later step; each character is chosen when it is read, so that every text of the
bounded length is covered. Numbers have 64 bits in the code and the maximum
`Max64` here. `wanted` is the number the text denotes, in full.

`CivilDate` has `isLeapYear`, `daysInMonth`, `daysFromCivil` and the range checks
of `parseHttpDate()`. `HttpDate` turns a calendar by the day and compares. The
code's `sscanf` and month names are abstracted: a date is its numbers.

### RetryWait: correspondence with the code

| Action | Code |
| --- | --- |
| `Begin` | the conversion by `ticksForTimeout()`, and the delay of zero |
| `ReadStart`, `StartWait`, `EndWait` | the head of the loop with the first reading, the call of `xTaskNotifyWait()`, its return |
| `CheckStop`, `TakeElapsed`, `Return` | the test of the Stop bit, the second reading and the remainder, `return !stopping()` |
| `Tick`, `NotifyWork`, `PublishStop`, `NotifyStop` | the tick interrupt, `send()` and `end()`, between any two of these |

The kernel is modelled by its contract: `xTaskNotifyWait()` returns at once when a
bit is pending, a bit that arrives after the timeout but before the task runs
again still counts, all bits are taken, and a timeout of `portMAX_DELAY` is none.
`passed` counts the ticks since the call and `busy` those that went by while the
worker could have run. `pdMS_TO_TICKS` multiplies in `ConversionModulus`: in some
versions of FreeRTOS this is 2^32, in others wider, and the model holds for each.
Two limits of the code show in the premises of the properties. Where the product
does not fit its width (at 1000 Hz and 32 bits, delays beyond 71 minutes) the
delay becomes a short one. Where the ticks come to `portMAX_DELAY` (at 1000 Hz
and a wider product, a delay of 2^32 - 1 ms) it never ends by itself.
`validateRetryConfig()` accepts both.

### EndpointOrigin, PushAdmission: correspondence with the code

A text is a sequence of characters, one of each kind that the parser tells apart.
`EndpointIsValid` is the accepting path of `endpointOrigin()`; its separate errors
are all InvalidSubscription. `Origin` is what it writes on success.

`PushAdmission` follows one push: `InitSucceeds` or `InitRefused`, `SendAccepted`
or `SendRefused` (either overload), `Encrypt` or `EncryptFails`, `Post`, `Complete`,
`End`. A status operator (`InitStatus`, `SendStatus`, `EncryptStatus`,
`RequestStatus`) has the checks of a function in their order. A base64url text is
the number of its characters and of its padding, and whether it is well made; a
JSON value is its kind. `DecodedSize` is what the code gets out of a text it has
found well made. Queue limits, allocation failures and threads are left to
`CurierRuntime`, the attempts to `RetryPolicy`.

The references that the properties compare with are definitions of their own:
`Splits` says in which ways a text can be cut into host, port and path, where the
code searches for separators; `EncodesBytes` computes the length of a base64url
text from the bytes, where the code decodes; `IsNotification` is the schema of
docs/api.md; `RecordSize` is the record the encryption announces.

### Slips

An operator commented `Slip:` is its successor with a plausible mistake.
Nothing in the specification uses it. For each checked property PROJECT.json
names a slip that makes it fail.

## Runs

| Run | Shows |
| --- | --- |
| `runtime_safety` | all invariants of the runtime, in every interleaving of two application tasks and a callback that use the whole API; end() is a barrier; the runtime implements the service |
| `runtime_liveness` | every accepted job is reported, a published stop gets to the worker, the destructor returns |
| `released_handle` | violation: a send can notify a deleted task |
| `callback_end` | violation: `end()` from a callback can block on a shutdown that waits for that callback |
| `cache_safety` | the token a request carries is of its origin, of the provider whose clock was read, and fresh; one token per origin; the least recently used one is evicted |
| `calendar` | `daysFromCivil` agrees with the calendar on every day from 1970 to 2401 |
| `retry_after` | the delay made of a header is the one it asks for, cut to `maxDelayMs`; nothing overflows |
| `retry_policy` | back-off, Retry-After and the bound of a wait, for configurations around the limits; a wait follows from the answer of its own pass |
| `retry_wait` | a delay that sends, stops, a wrapping tick counter and lost ticks interrupt is neither short nor stretched, and ends |
| `push_admission` | what is accepted is what the documents describe, a refusal blames the right argument, the origin is the server's, an accepted push can be encrypted and requested, a request trusts one source |
| `jitter_wraps` | violation: a jittered delay can wrap to a short one |

Bounds: `MaxSends` accepted sends and `MaxSessions` successful `init()` calls in
a behaviour; nothing else is bounded. Two callers are enough for every pairwise
race (send against send, send against end, end against end or init), with the
worker's callback as a third. Two slots and three sends make the ring wrap
and reach the queue's limit with a job in the worker's hands. Two sessions
make stale handles, signals and notifications possible. One retry has a first
attempt, a retry and the refusal of another. The liveness run has one slot, two sends and
one session, and callbacks that only send: with callbacks that call `end()` the
mutual wait shown by `callback_end` ends only through timeouts, and which task
then gets the mutex is up to priorities that the code does not fix.

The cache has two slots for three origins, so that it fills up and evicts;
three clock readings of which one lies within the margin of the end of the range
and one makes tokens of the other expire; two provider changes, so that the
generations come round (`GenModulus` 3), and three ticks with a counter that
wraps at three. With three origins and two provider changes every pair of
critical sections of the worker is met by a change.

The calendar runs past 2400 and 2100, 2200 and 2300: the leap year that closes
an era and the centuries that are not leap years. Retry-After texts have up to
seven characters against numbers of up to 200008: one digit beyond the width,
with both sides of each overflow test, and a width that is not a multiple of
ten, so that the last digit decides. A Retry-After text of the code has at
most 64 characters. Delays of the policy have five bits, so that six retries
shift a delay out of its width; the configurations have both sides of each
bound of `validateRetryConfig()`, status codes both sides of each category. The
cfgs of these three and of the retry delay say CHECK_DEADLOCK FALSE: a calendar
has a last bounded day; a parser, a job and a delay end.

The tick counter has three bits, so that each delay meets its wrap, at three ticks
in four milliseconds; the delays are zero, less than a tick, three ticks,
`portMAX_DELAY` and one beyond the width of the conversion. `MaxWork` (2)
bounds the sends during a delay and `MaxBusy` (2) the ticks for which the worker is
kept waiting: together they interrupt a delay of three ticks at each of them and
let the readings differ by more than the remainder.

Endpoints are all texts of up to three of twelve characters, all hosts of up to
five letters, dots and hyphens against a label limit of two and a host limit of four,
and name and address hosts with every combination of ports and paths of a list;
port numbers of up to three digits are compared with a limit of 41 and a default of 4.
Key texts have sizes around the exact one with no to three padding characters,
every field of a payload has every kind of value, sizes and settings stand on
both sides of their limits. One part is varied at a time, in the push and in
the configuration; every push meets every valid configuration. `IntMax` is
32767, the smallest INT_MAX that C++ allows.

Fairness: the worker takes a step whenever it can, and so does each task inside
a call. FreeRTOS schedules ready tasks; HTTP requests and delays have timeouts; a
callback that never returns would be the application's fault. No task is obliged
to begin a call. Weak fairness is enough: no step these properties need is
enabled only intermittently. In `RetryWait` the tick interrupt is fair too. That
its delay ends relies on the number of notifications being finite, which the code
gives: while the worker waits nothing leaves the queue, so that `send()` accepts
and notifies at most as often as there is room. A repeated `end()` only repeats
the Stop that ends the delay.

Deadlock is checked in the runs of the runtime, of the cache and of the admission. After the destructor has returned, `Destroyed`
is the only step.

## Proofs

`CurierRuntimeProofs` proves, for every set of callers, queue size, retry limit
and bound, under `TasksAssumption` (the tasks are distinct and there is one
caller) and `ConfigAssumption` (`queueSize` positive):

1. `TypeCorrect`: `Spec => []TypeOK`.
2. `OwnershipAlways`: `Spec => []Ownership`. `Ownership` is what makes
   "nobody touches released state" inductive: it ties the holder of the lifecycle
   mutex to where that task stands in `end()`, the resources to the lifecycle,
   the worker's existence to `task`, and the semaphore to the worker's last step.
   `WorkerOwnsRuntimeAlways` and `OffHoldsNothingAlways` are its consequences.
3. `WorkAccountingAlways`: `Spec => []WorkAccounting`. It needs `Ownership`:
   when `end()` sets `inFlight` to 0, or `init()` resets the counters, there is
   no worker and no queued job, so the reset changes nothing.
4. `EndIsBarrierAlways`: `Spec => EndIsBarrier`, from the conjunction of the
   three (`RuntimeInv`).
5. `RuntimeImplementsService`: `Spec => ServicePromise`, from `RuntimeInv`;
   each action is a step of the service or leaves its state alone.

`VapidCacheProofs` proves, for every set of origins and of clock readings, every
cache size, lifetime, margin below the lifetime, and widths (`OriginsAssumption`,
`SizesAssumption`, `NoTokenAssumption`), the four properties of `cache_safety`.
The inductive invariant `CacheInv` adds to them what they need: every token in
the cache is of the entry's origin, has the entry's expiry and, as long as the
generations differ, the provider of the entry's generation (`EntriesCoherent`);
`lastUsed` is `usedAt` modulo the width of a tick count (`UseTimes`); and the worker's locals
agree with where it stands (`AttemptCoherent`). The crux is `Store`: it
runs after the mutex was released, the cache may have been cleared, and the token
is stored under the generation that was copied with the clock, which is why
`EntriesCoherent` speaks of the entry's generation and not of the current one.

`HttpDateProofs` proves `DaysFromCivilCountsAlways` for every last year: a step
of the calendar adds one to `DaysFromCivil`. The formula is split into the days
of the years and of the months before (`CivilSplit`); the months have the lengths
of `daysInMonth` (`MonthLength`), and a year from March to March has 366 days when
the February in it is of a leap year, in every era (`YearLength`). The ends of a
month, of February and of a year follow.

`RetryAfterProofs` proves for every width, text and date that no number leaves
its range and that the delay is the header's (`DelayIsTheHeadersAlways`). The
invariant relates `seconds` to `wanted`: they are equal, or the number is
saturated and the header asks for more than fits. `DatesAssumption` says that the
seconds of an accepted date fit the width, which in the code follows from an
`int` year and 64 bits.

`RetryPolicyProofs` proves for every width, configuration and random number
`PolicyTypeCorrect`, `WaitIsBoundedAlways`, `RetryAfterIsKeptAlways`
and `BackoffIsExponentialAlways`. Their invariant says where `retryAfterMs` comes from:
it is 0 when a pass begins, and at the decision and during the wait it is what the
answer of that pass asks for, clamped. Since a retried job has a positive
`maxDelayMs`, the clamp loses no request (`KeepsWhatServerAsks`). The back-off rests on
two lemmas: a base that the overflow test refuses would give a product beyond the
width (`ProductOverflows`), so the code takes the maximum exactly when the
clamp would (`BackoffIsNominal`); and jitter that fits the width stays around the
delay (`JitterAround`). The provers cannot reason about powers, so two
assumptions say what is true of the powers of two: they are positive
(`WidthAssumption`) and grow with the exponent (`PowersAssumption`).

`CurierDeliveryProofs` proves the remaining invariants of `runtime_safety`, each
from `RuntimeInv` and an invariant of its own:

* `QueueIsPendingSuffixAlways` and `ExactlyOnceInOrderAlways`. The property speaks of
  remainders modulo `QueueSize`; `RingInv` says it slot by slot, with the distance
  of a slot from the head (`Offset`) instead. It is inductive for the four things a
  step can do to the ring (`RingMove`): an accepted send, a pop, a reset of
  an empty ring, nothing. That `init()` and `end()` reset only an empty ring comes
  from `WorkAccounting`. The order of the reports follows: a pop takes the oldest
  of the pending jobs.
* `ReportIsHonestAlways` and `NoExtraAttemptAlways`. `AttemptInv` ties `attempts`,
  `status` and `delivered` to where the worker stands: an attempt begins only within
  the limit, so that the retry loop is never left by its condition, and a job on
  its way to another attempt is not delivered. `RetriedInv` accounts for the
  retries of the job in hand, so that the bound of `diag.retried` survives its
  completion.
* `NoLostWakeupAlways`. `WakeInv` extends the second half of the property to the moment
  between the empty `popJob()` and `xTaskNotifyWait()`, where a Stop must
  already be on its way.
* `DestroyedIsQuietAlways`. `DestroyInv`: from the destructor's first step on no
  other task is in a call, and the worker is in one only from a callback; `Ownership`
  gives the rest.

`RetryWaitProofs` proves for every width of the counter and of the conversion, tick
rate and set of delays `WaitTypeCorrect`, `WaitIsFullAlways`,
`WaitIsNotStretchedAlways` and `StopIsNotSleptAlways`. `FullInv` bounds `passed` from
below by what is done of the delay, plus what has elapsed since the first reading
while a measurement is under way; a worker that loses a whole round of the counter
only waits longer. `StretchInv` bounds it from above by the same and `busy`, as long
as no round is lost. `StopInv` follows the Stop bit from the notification word into
the worker's hands.

`PushAdmissionProofs` proves, for every configuration, push, endpoint of any length
and every limit:

* `AcceptedIsDeliverableAlways` and `OneTrustSourceAlways`, from `AdmissionInv`: the
  configuration in use is a valid one, and the push in hand was admitted under it. The
  lemmas `AcceptedEncrypts` and `RecordIsRequested` show that the checks of the
  encryption and of the request follow from those of `init()` and `send()`.
* `AcceptedIsSoundAlways` and `RefusalIsJustAlways`, from the same invariant and an
  equivalence for each argument: the schema (`SchemaIsDocumented`), the keys
  (`KeysAreEncoded`) and the endpoint (`ParsedIsUrl`, `UrlIsParsed`). A host that
  the parser cuts into labels is one without a misplaced dot or hyphen and without a
  long stretch between dots (`HostNames`): around every character there is a label
  (`LabelAround`). Where the parser searches for the first separator, the documents
  only say that there is a way to cut the text; a cut that they allow is the one
  that the search finds.
* `AdmissionTypeCorrect` and `OriginIsOfServerAlways`, from `JobInv`, which says that the
  origin is that of the accepted push. `SplitIsParsed` shows that the parser finds
  the host and the port of any cut that the documents allow, and `OriginOfSplit`
  what it makes of them. That the digits of `std::to_chars()` denote the port
  (`PortTextDenotes`) is a statement about two recursive functions, `Number` and
  `PortText`; instead of an induction it supposes that a number is written
  wrong, takes the least one (`LeastOf`), and looks at the number without its last
  digit.

The assumptions on the constants are facts about what they stand for: an `int` has at
least 16 bits (`BuildAssumption`), a JSON object has its two braces
(`SizesAssumption`), the text of an IPv6 address has 2 to 45 characters
(`Ipv6Assumption`). TLC evaluates all of them.

Only model-checked: the liveness properties, which the prover does not treat. Every
invariant that a passing run checks has its theorem.

## Findings

* `released_handle`: `send()` notifies the worker after unlocking
  (`Curier.cpp:961-963`); an `end()` in between has deleted the task.
* `callback_end`: `end()` takes the lifecycle mutex before it recognises the
  worker (`Curier.cpp:826`, `845`).
* `jitter_wraps`: the jittered delay is cut to 32 bits (`CurierRetry.cpp:120`),
  and `validateRetryConfig()` sets no upper limit that would rule it out.

## Plan

Done: the runtime, the token cache, the retry decision, the Retry-After header and
the calendar, the retry delay, endpoints and origins, and the admission of
pushes; and the proofs of all invariants and action properties that the runs check.
What is left: `RetryWait` and `RetryPolicy` as refinements of the choice that
`CurierRuntime` leaves open.

## Not modelled

Cryptography and HTTP themselves (external libraries), the text of a token and
the headers of a request, the writing of JSON, the allocators and placement
regions of `internal/CurierMemory.h`, which have no state of their own, the wording
of messages, and the stack and region fields of the diagnostics.
