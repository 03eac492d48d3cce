--------------------------- MODULE RetryWaitProofs ---------------------------
(***************************************************************************)
(* Theorems about RetryWait, for every tick rate, every width of the tick  *)
(* counter and of the conversion, every delay and every bound: the delay   *)
(* before a retry is neither cut short nor stretched by the notifications  *)
(* that interrupt it, and no Stop is slept on.                             *)
(***************************************************************************)
EXTENDS RetryWait, TLAPS

\* The ticks of the delay.
T == TicksForTimeout(delay)

-----------------------------------------------------------------------------
(* The arithmetic of the counter *)

\* A number that is at most once round the counter, without the remainder.
LEMMA ModOnce ==
    ASSUME NEW m \in Nat, NEW i \in Int, -m <= i, i < 2 * m, m > 0
    PROVE  i % m = IF i < 0 THEN i + m ELSE IF i < m THEN i ELSE i - m
  <1>1. CASE i < 0
    BY <1>1
  <1>2. CASE i >= 0 /\ i < m
    BY <1>2
  <1>3. CASE i >= m
    BY <1>3
  <1> QED
    BY <1>1, <1>2, <1>3

\* The conversion yields a number of ticks.
LEMMA MsToTicksType ==
    ASSUME NEW ms \in Nat
    PROVE  MsToTicks(ms) \in Ticks
  <1> DEFINE product == ms * TickRate
             low == product % ConversionModulus
             ticks == low \div MsPerSecond
  <1>1. product \in Nat
    BY TicksAssumption
  <1> HIDE DEF product
  <1>2. low \in Nat
    BY <1>1, TicksAssumption
  <1> HIDE DEF low
  <1>3. ticks \in Nat
    BY <1>2, TicksAssumption
  <1> HIDE DEF ticks
  <1>4. ticks % TickModulus \in Ticks
    BY <1>3, TicksAssumption DEF Ticks
  <1> QED
    BY <1>4 DEF MsToTicks, ticks, low, product

\* ticksForTimeout() of no delay is no tick, of any other at least one.
LEMMA TicksForTimeoutType ==
    ASSUME NEW ms \in Nat
    PROVE  /\ TicksForTimeout(ms) \in Ticks
           /\ ms > 0 => TicksForTimeout(ms) > 0
           /\ ms = 0 => TicksForTimeout(ms) = 0
  <1>1. MsToTicks(ms) \in Ticks /\ 1 \in Ticks
    BY MsToTicksType, TicksAssumption DEF Ticks
  <1>2. ASSUME ms = 0 PROVE MsToTicks(ms) = 0
    <2>1. ms * TickRate = 0
      BY <1>2, TicksAssumption
    <2>2. 0 % ConversionModulus = 0 /\ 0 % TickModulus = 0
      BY ModOnce, TicksAssumption
    <2>3. 0 \div MsPerSecond = 0
      BY TicksAssumption
    <2> QED
      BY <2>1, <2>2, <2>3 DEF MsToTicks
  <1> QED
    BY <1>1, <1>2 DEF TicksForTimeout, Ticks

\* The counter after a tick.
LEMMA NextTick ==
    ASSUME NEW t \in Ticks
    PROVE  (t + 1) % TickModulus = IF t + 1 < TickModulus THEN t + 1 ELSE 0
  BY ModOnce, TicksAssumption DEF Ticks

\* The ticks between two readings, whether or not the counter went round.
LEMMA ElapsedOnce ==
    ASSUME tick \in Ticks, started \in Ticks
    PROVE  /\ Elapsed = IF tick >= started THEN tick - started
                        ELSE tick - started + TickModulus
           /\ Elapsed \in Nat /\ Elapsed < TickModulus
  <1>1. Elapsed = IF tick >= started THEN tick - started
                  ELSE tick - started + TickModulus
    BY ModOnce, TicksAssumption DEF Elapsed, Ticks
  <1> QED
    BY <1>1, TicksAssumption DEF Ticks

-----------------------------------------------------------------------------
(* Types *)

\* What TypeOK says of the ticks of the delay.
LEMMA DelayTypes ==
    ASSUME TypeOK
    PROVE  /\ delay \in Nat /\ T \in Nat /\ T < TickModulus
           /\ delay > 0 => T > 0
           /\ delay = 0 => T = 0
           /\ TickModulus \in Nat /\ MaxBusy \in Nat /\ MaxWork \in Nat
           /\ MaxPassed \in Nat /\ TickModulus <= MaxPassed
  BY TicksForTimeoutType, DelaysAssumption, TicksAssumption
  DEF TypeOK, T, Ticks, MaxPassed

\* Every variable has its type initially.
LEMMA WaitTypeInit == Init => TypeOK
  <1> SUFFICES ASSUME Init PROVE TypeOK
    OBVIOUS
  <1>1. delay \in Nat /\ T \in Nat
    BY TicksForTimeoutType, DelaysAssumption DEF Init, T, Ticks
  <1>2. 0 \in 0 .. T
    BY <1>1
  <1>3. MaxWork \in 0 .. MaxWork /\ 0 \in 0 .. MaxPassed /\ 0 \in 0 .. MaxBusy
    BY TicksAssumption DEF MaxPassed
  <1> QED
    BY <1>2, <1>3 DEF Init, TypeOK, Phases, T

\* Every step keeps the types.
LEMMA WaitTypeStep == TypeOK /\ [Next]_vars => TypeOK'
  <1> SUFFICES ASSUME TypeOK, [Next]_vars PROVE TypeOK'
    OBVIOUS
  <1> USE DEF vars, workerVars
  <1>a. /\ delay \in Nat /\ T \in Nat /\ T < TickModulus
        /\ delay > 0 => T > 0
        /\ TickModulus \in Nat /\ TickModulus > 1
        /\ MaxBusy \in Nat /\ MaxWork \in Nat /\ MaxPassed \in Nat
    BY DelayTypes, TicksAssumption
  <1>1. CASE Begin
    <2>1. remaining' = T /\ T \in 0 .. T
      BY <1>1, <1>a DEF Begin, T
    <2>2. phase' = IF delay = 0 THEN "returning" ELSE "loop"
      BY <1>1 DEF Begin
    <2> QED
      BY <1>1, <1>a, <2>1, <2>2 DEF Begin, TypeOK, T, Phases
  <1>2. CASE ReadStart
    BY <1>2 DEF ReadStart, Start, TypeOK, Phases
  <1>3. CASE StartWait
    BY <1>3 DEF StartWait, TypeOK, Phases
  <1>4. CASE EndWait
    BY <1>4 DEF EndWait, Wakes, TypeOK, Phases
  <1>5. CASE CheckStop
    BY <1>5 DEF CheckStop, TypeOK, Phases
  <1>6. CASE TakeElapsed
    <2>1. /\ tick \in Ticks /\ started \in Ticks \cup {NotRead}
          /\ remaining \in 0 .. T /\ remaining > 0
      BY <1>6 DEF TakeElapsed, TypeOK, T
    <2>2. Elapsed \in Nat
      BY <1>a, <2>1 DEF Elapsed, Ticks, NotRead
    <2>3. CASE DelayIsOver
      BY <1>6, <2>3 DEF TakeElapsed, TypeOK, Phases
    <2>4. CASE ~DelayIsOver
      <3>1. Elapsed < remaining
        BY <2>1, <2>2, <2>4 DEF DelayIsOver
      <3>2. (remaining - Elapsed) % TickModulus = remaining - Elapsed
        BY <1>a, <2>1, <2>2, <3>1, ModOnce
      <3>3. remaining' = remaining - Elapsed /\ phase' = "loop"
        BY <1>6, <2>4, <3>2 DEF TakeElapsed
      <3>4. remaining' \in 0 .. T /\ remaining' > 0
        BY <1>a, <2>1, <2>2, <3>1, <3>3
      <3> QED
        BY <1>6, <3>3, <3>4 DEF TakeElapsed, TypeOK, Phases, T
    <2> QED
      BY <2>3, <2>4
  <1>7. CASE Return
    BY <1>7 DEF Return, TypeOK, Phases
  <1>8. CASE Tick
    <2>1. tick' \in Ticks
      <3>1. tick \in Int
        BY DEF TypeOK, Ticks
      <3> QED
        BY <1>8, <1>a, <3>1 DEF Tick, Ticks
    <2>2. passed' \in 0 .. MaxPassed
      BY <1>8, <1>a DEF Tick, TypeOK
    <2>3. busy' \in 0 .. MaxBusy
      BY <1>8, <1>a DEF Tick, TypeOK
    <2>4. left' \in 0 .. T
      <3>1. left \in 0 .. T
        BY DEF TypeOK, T
      <3>2. CASE phase = "blocked" /\ ~Wakes
        BY <1>8, <1>a, <3>1, <3>2 DEF Tick, Wakes
      <3>3. CASE ~(phase = "blocked" /\ ~Wakes)
        BY <1>8, <3>1, <3>3 DEF Tick
      <3> QED
        BY <3>2, <3>3
    <2> QED
      BY <1>8, <2>1, <2>2, <2>3, <2>4 DEF Tick, TypeOK, T
  <1>9. CASE NotifyWork \/ PublishStop \/ NotifyStop
    <2>1. workLeft' \in 0 .. MaxWork
      BY <1>9, <1>a DEF NotifyWork, PublishStop, NotifyStop, TypeOK
    <2>2. /\ notification' \in SUBSET {Work, Stop}
          /\ stopping' \in BOOLEAN /\ told' \in BOOLEAN
      BY <1>9 DEF NotifyWork, PublishStop, NotifyStop, TypeOK
    <2>3. UNCHANGED <<phase, workerVars, tick, passed, busy>>
      BY <1>9 DEF NotifyWork, PublishStop, NotifyStop
    <2> QED
      BY <2>1, <2>2, <2>3 DEF TypeOK
  <1>10. CASE UNCHANGED vars
    BY <1>10 DEF TypeOK
  <1> QED
    BY <1>1, <1>2, <1>3, <1>4, <1>5, <1>6, <1>7, <1>8, <1>9, <1>10 DEF Next

\* In every reachable state every variable has its range: a remainder never
\* wraps to a long delay.
THEOREM WaitTypeCorrect == Spec => []TypeOK
  BY WaitTypeInit, WaitTypeStep, PTL DEF Spec
-----------------------------------------------------------------------------
(* The delay is not cut short *)

\* The worker holds a first reading of the counter.
Measuring == {"read", "blocked", "notified", "checked"}

\* What has passed is at least what is done of the delay; while a measurement
\* is under way, at least that and what has elapsed since its first reading.
\* A worker whose readings lag a whole round of the counter waits longer.
FullInv ==
    /\ phase \in Measuring => started \in Ticks
    /\ phase = "loop" => passed >= T - remaining
    /\ phase \in Measuring =>
         passed = MaxPassed \/ passed >= T - remaining + Elapsed
    /\ phase = "blocked" => passed >= T - left
    /\ phase = "returning" => passed >= T
    /\ phase = "done" /\ result => passed >= T

\* Elapsed in the state before a step and in the state after it.
LEMMA ElapsedStep ==
    ASSUME TypeOK, started \in Ticks, UNCHANGED started
    PROVE  /\ Elapsed \in Nat /\ Elapsed < TickModulus
           /\ UNCHANGED tick => Elapsed' = Elapsed
           /\ Tick => /\ Elapsed' \in Nat /\ Elapsed' <= Elapsed + 1
                      /\ Elapsed + 1 < TickModulus => Elapsed' = Elapsed + 1
  <1>1. /\ Elapsed = IF tick >= started THEN tick - started
                      ELSE tick - started + TickModulus
        /\ Elapsed \in Nat /\ Elapsed < TickModulus
    BY ElapsedOnce DEF TypeOK
  <1>2. UNCHANGED tick => Elapsed' = Elapsed
    BY DEF Elapsed
  <1>3. ASSUME Tick
        PROVE  /\ Elapsed' \in Nat /\ Elapsed' <= Elapsed + 1
               /\ Elapsed + 1 < TickModulus => Elapsed' = Elapsed + 1
    <2> DEFINE next == IF tick + 1 < TickModulus THEN tick + 1 ELSE 0
    <2>1. tick' = next
      BY <1>3, NextTick DEF Tick, TypeOK
    <2>2. /\ tick \in Nat /\ tick < TickModulus /\ TickModulus \in Nat
          /\ started \in Nat /\ started < TickModulus
      BY TicksAssumption DEF TypeOK, Ticks
    <2>3. Elapsed' = (next - started) % TickModulus
      BY <2>1 DEF Elapsed
    <2>4. next \in Nat /\ next < TickModulus
      BY <2>2
    <2>5. Elapsed' = IF next >= started THEN next - started
                     ELSE next - started + TickModulus
      BY <2>2, <2>3, <2>4, ModOnce
    <2> QED
      BY <1>1, <2>2, <2>5
  <1> QED
    BY <1>1, <1>2, <1>3

\* Nothing has to have passed initially.
LEMMA FullInit == Init => FullInv
  BY DEF Init, FullInv, Measuring

\* Every step keeps FullInv.
LEMMA FullStep == TypeOK /\ FullInv /\ [Next]_vars => FullInv'
  <1> SUFFICES ASSUME TypeOK, FullInv, [Next]_vars PROVE FullInv'
    OBVIOUS
  <1> USE DEF vars, workerVars
  <1>a. /\ T \in Nat /\ T < TickModulus /\ TickModulus <= MaxPassed
        /\ delay = 0 => T = 0
        /\ TickModulus \in Nat /\ MaxPassed \in Nat
        /\ remaining \in Nat /\ remaining <= T
        /\ left \in Nat /\ passed \in Nat /\ passed <= MaxPassed
    BY DelayTypes DEF TypeOK, T
  <1>b. UNCHANGED delay => T' = T
    BY DEF T
  <1>1. CASE Begin
    <2>1. T' = T /\ remaining' = T /\ passed' = passed
      BY <1>1, <1>b DEF Begin, T
    <2>2. CASE delay = 0
      BY <1>1, <1>a, <2>1, <2>2 DEF Begin, FullInv, Measuring
    <2>3. CASE delay # 0
      BY <1>1, <1>a, <2>1, <2>3 DEF Begin, FullInv, Measuring
    <2> QED
      BY <2>2, <2>3
  <1>2. CASE ReadStart
    <2>1. /\ T' = T /\ UNCHANGED <<remaining, passed, tick>>
          /\ passed >= T - remaining
      BY <1>2, <1>b DEF ReadStart, FullInv
    <2>2. CASE remaining > 0
      <3>1. phase' = "read" /\ started' = tick /\ tick \in Ticks
        BY <1>2, <2>2 DEF ReadStart, Start, TypeOK
      <3>2. Elapsed' = 0
        <4>1. Elapsed' = (tick - tick) % TickModulus
          BY <2>1, <3>1 DEF Elapsed
        <4>2. tick - tick = 0 /\ 0 % TickModulus = 0
          BY <3>1, ModOnce, TicksAssumption DEF Ticks
        <4> QED
          BY <4>1, <4>2
      <3> QED
        BY <1>a, <2>1, <3>1, <3>2 DEF FullInv, Measuring
    <2>3. CASE ~(remaining > 0)
      BY <1>2, <1>a, <2>1, <2>3 DEF ReadStart, FullInv, Measuring
    <2> QED
      BY <2>2, <2>3
  <1>3. CASE StartWait
    <2>1. /\ T' = T /\ UNCHANGED <<remaining, passed, tick, started>>
          /\ phase = "read" /\ phase' = "blocked" /\ left' = remaining
          /\ started \in Ticks
      BY <1>3, <1>b DEF StartWait, FullInv, Measuring
    <2>2. Elapsed' = Elapsed /\ Elapsed \in Nat
      BY <2>1, ElapsedStep
    <2>3. passed = MaxPassed \/ passed >= T - remaining + Elapsed
      BY <2>1 DEF FullInv, Measuring
    <2> QED
      BY <1>a, <2>1, <2>2, <2>3 DEF FullInv, Measuring
  <1>4. CASE EndWait
    <2>1. /\ T' = T /\ UNCHANGED <<remaining, passed, tick, started>>
          /\ phase = "blocked" /\ started \in Ticks
          /\ \/ notification = {} /\ left = 0 /\ phase' = "returning"
             \/ phase' = "notified"
      BY <1>4, <1>b DEF EndWait, Wakes, FullInv, Measuring
    <2>2. Elapsed' = Elapsed
      BY <2>1, ElapsedStep
    <2> QED
      BY <1>a, <2>1, <2>2 DEF FullInv, Measuring
  <1>5. CASE CheckStop
    <2>1. /\ T' = T /\ UNCHANGED <<remaining, passed, tick, started>>
          /\ phase = "notified" /\ started \in Ticks
          /\ (phase' = "done" /\ ~result') \/ phase' = "checked"
      BY <1>5, <1>b DEF CheckStop, FullInv, Measuring
    <2>2. Elapsed' = Elapsed
      BY <2>1, ElapsedStep
    <2> QED
      BY <2>1, <2>2 DEF FullInv, Measuring
  <1>6. CASE TakeElapsed
    <2>1. /\ T' = T /\ UNCHANGED <<passed, tick, started>>
          /\ phase = "checked" /\ started \in Ticks
      BY <1>6, <1>b DEF TakeElapsed, FullInv, Measuring
    <2>2. Elapsed \in Nat
      BY <2>1, ElapsedStep
    <2>3. passed = MaxPassed \/ passed >= T - remaining + Elapsed
      BY <2>1 DEF FullInv, Measuring
    <2>4. CASE DelayIsOver
      <3>1. phase' = "returning" /\ passed >= T
        BY <1>6, <1>a, <2>2, <2>3, <2>4 DEF TakeElapsed, DelayIsOver
      <3> QED
        BY <2>1, <3>1 DEF FullInv, Measuring
    <2>5. CASE ~DelayIsOver
      <3>1. (remaining - Elapsed) % TickModulus = remaining - Elapsed
        BY <1>a, <2>2, <2>5, ModOnce DEF DelayIsOver
      <3>2. phase' = "loop" /\ remaining' = remaining - Elapsed
        BY <1>6, <2>5, <3>1 DEF TakeElapsed
      <3>3. passed >= T - (remaining - Elapsed)
        BY <1>a, <2>2, <2>3, <2>5 DEF DelayIsOver
      <3> QED
        BY <2>1, <3>2, <3>3 DEF FullInv, Measuring
    <2> QED
      BY <2>4, <2>5
  <1>7. CASE Return
    BY <1>7, <1>b DEF Return, FullInv, Measuring
  <1>8. CASE Tick
    <2>1. /\ T' = T /\ UNCHANGED <<phase, remaining, started, result>>
          /\ phase # "done"
      BY <1>8, <1>b DEF Tick
    <2>2. passed' >= passed /\ (passed' = passed + 1 \/ passed' = MaxPassed)
      BY <1>8, <1>a DEF Tick
    <2>3. passed' \in Nat
      BY <1>8, <1>a DEF Tick
    <2>4. phase = "loop" => passed' >= T - remaining
      BY <1>a, <2>2, <2>3 DEF FullInv
    <2>5. ASSUME phase \in Measuring
          PROVE  passed' = MaxPassed \/ passed' >= T - remaining + Elapsed'
      <3>1. Elapsed \in Nat /\ Elapsed' \in Nat /\ Elapsed' <= Elapsed + 1
        BY <1>8, <2>1, <2>5, ElapsedStep DEF FullInv
      <3>2. passed = MaxPassed \/ passed >= T - remaining + Elapsed
        BY <2>5 DEF FullInv
      <3>3. passed = MaxPassed => passed' = MaxPassed
        BY <1>8, <1>a DEF Tick
      <3>4. CASE passed' # MaxPassed
        <4>1. passed' = passed + 1 /\ passed >= T - remaining + Elapsed
          BY <2>2, <3>2, <3>3, <3>4
        <4>2. \A e \in Nat : e <= Elapsed + 1 => passed + 1 >= T - remaining + e
          BY <1>a, <3>1, <4>1
        <4>3. passed + 1 >= T - remaining + Elapsed'
          BY ONLY <3>1, <4>2
        <4> QED
          BY <4>1, <4>3
      <3> QED
        BY <3>4
    <2>6. ASSUME phase = "blocked" PROVE passed' >= T - left'
      <3>1. passed >= T - left
        BY <2>6 DEF FullInv
      <3>2. left' = left \/ left' = left - 1
        BY <1>8 DEF Tick
      <3> QED
        BY <1>a, <2>2, <2>3, <3>1, <3>2
    <2>7. phase = "returning" => passed' >= T
      BY <1>a, <2>2, <2>3 DEF FullInv
    <2> QED
      BY <2>1, <2>4, <2>5, <2>6, <2>7 DEF FullInv
  <1>9. CASE NotifyWork \/ PublishStop \/ NotifyStop \/ UNCHANGED vars
    <2>1. UNCHANGED <<phase, workerVars, tick, passed>>
      BY <1>9 DEF NotifyWork, PublishStop, NotifyStop
    <2>2. T' = T /\ Elapsed' = Elapsed
      BY <2>1 DEF T, Elapsed
    <2> QED
      BY <2>1, <2>2 DEF FullInv
  <1> QED
    BY <1>1, <1>2, <1>3, <1>4, <1>5, <1>6, <1>7, <1>8, <1>9 DEF Next

\* A delay that the conversion can express is converted to its ticks.
LEMMA WantedTicks ==
    ASSUME TypeOK, Converts, Wanted \in Ticks
    PROVE  T = Wanted
  <1> DEFINE product == delay * TickRate
             ticks == product \div MsPerSecond
  <1>1. delay \in Nat
    BY DelayTypes
  <1>2. product \in Nat /\ product < ConversionModulus
    BY <1>1, TicksAssumption DEF Converts
  <1>3. Wanted = IF delay > 0 /\ ticks = 0 THEN 1 ELSE ticks
    BY DEF Wanted
  <1>4. MsToTicks(delay) =
          ((product % ConversionModulus) \div MsPerSecond) % TickModulus
    BY DEF MsToTicks
  <1> HIDE DEF product
  <1>5. product % ConversionModulus = product
    BY <1>2, ModOnce, TicksAssumption
  <1>6. ticks \in Nat
    BY <1>2, TicksAssumption
  <1>7. MsToTicks(delay) = ticks % TickModulus
    BY <1>4, <1>5
  <1> HIDE DEF ticks
  <1>8. ticks < TickModulus
    BY <1>1, <1>3, <1>6, TicksAssumption DEF Ticks
  <1>9. MsToTicks(delay) = ticks
    BY <1>6, <1>7, <1>8, ModOnce, TicksAssumption
  <1> QED
    BY <1>3, <1>9 DEF T, TicksForTimeout

\* FullInv is inductive over TypeOK.
LEMMA FullInvAlways == Spec => [](TypeOK /\ FullInv)
  BY WaitTypeInit, WaitTypeStep, FullInit, FullStep, PTL DEF Spec

\* In every reachable state a wait that has let the retry go on has lasted as
\* long as the retry policy asked, whatever interrupted it and wherever the
\* counter went round.
THEOREM WaitIsFullAlways == Spec => []WaitIsFull
  <1>1. TypeOK /\ FullInv => WaitIsFull
    BY WantedTicks DEF FullInv, WaitIsFull
  <1> QED
    BY <1>1, FullInvAlways, PTL
-----------------------------------------------------------------------------
(* The delay is not stretched *)

\* What has passed is at most what is done of the delay and the ticks for which
\* the ready worker was kept waiting; while a measurement is under way it has
\* not lost a round of the counter.
StretchInv ==
    T # Forever /\ T + busy < TickModulus =>
      /\ phase = "begin" => passed <= busy
      /\ phase \in {"loop", "read"} => passed + remaining <= T + busy
      /\ phase = "blocked" => passed + left <= T + busy
      /\ phase \in Measuring =>
           /\ Elapsed <= passed
           /\ passed + remaining <= T + busy + Elapsed
      /\ phase # "begin" => passed <= T + busy

\* No tick has passed initially.
LEMMA StretchInit == Init => StretchInv
  BY DEF Init, StretchInv, Measuring

\* Every step keeps StretchInv.
LEMMA StretchStep ==
    TypeOK /\ FullInv /\ StretchInv /\ [Next]_vars => StretchInv'
  <1> SUFFICES ASSUME TypeOK, FullInv, StretchInv, [Next]_vars,
                      T' # Forever, T' + busy' < TickModulus
               PROVE  /\ phase' = "begin" => passed' <= busy'
                      /\ phase' \in {"loop", "read"} =>
                           passed' + remaining' <= T' + busy'
                      /\ phase' = "blocked" => passed' + left' <= T' + busy'
                      /\ phase' \in Measuring =>
                           /\ Elapsed' <= passed'
                           /\ passed' + remaining' <= T' + busy' + Elapsed'
                      /\ phase' # "begin" => passed' <= T' + busy'
    BY DEF StretchInv
  <1> USE DEF vars, workerVars
  <1>a. /\ T \in Nat /\ T < TickModulus /\ TickModulus <= MaxPassed
        /\ delay = 0 => T = 0
        /\ TickModulus \in Nat /\ MaxPassed \in Nat /\ Forever = TickModulus - 1
        /\ remaining \in Nat /\ remaining <= T
        /\ left \in Nat /\ left <= T /\ passed \in Nat /\ busy \in Nat
    BY DelayTypes DEF TypeOK, T, Forever
  <1>b. T' = T
    BY DEF Next, Begin, ReadStart, StartWait, EndWait, CheckStop, TakeElapsed,
           Return, Tick, NotifyWork, PublishStop, NotifyStop, T
  <1>c. busy' \in {busy, busy + 1}
    BY DEF Next, Begin, ReadStart, StartWait, EndWait, CheckStop, TakeElapsed,
           Return, Tick, NotifyWork, PublishStop, NotifyStop
  <1>d. T # Forever /\ T + busy < TickModulus
    <2>1. CASE busy' = busy
      BY <1>b, <2>1
    <2>2. CASE busy' = busy + 1
      <3>1. T + (busy + 1) < TickModulus
        BY <1>b, <2>2
      <3> QED
        BY <1>a, <1>b, <3>1
    <2> QED
      BY <1>c, <2>1, <2>2
  <1>e. /\ phase = "begin" => passed <= busy
        /\ phase \in {"loop", "read"} => passed + remaining <= T + busy
        /\ phase = "blocked" => passed + left <= T + busy
        /\ phase \in Measuring =>
             /\ Elapsed <= passed
             /\ passed + remaining <= T + busy + Elapsed
        /\ phase # "begin" => passed <= T + busy
    BY <1>d DEF StretchInv
  <1>f. phase \in Measuring => started \in Ticks /\ Elapsed \in Nat
    BY ElapsedOnce DEF FullInv, TypeOK
  <1>1. CASE Begin
    <2>1. /\ remaining' = T /\ UNCHANGED <<passed, busy>> /\ passed <= busy
          /\ phase' \in {"loop", "returning"}
      BY <1>1, <1>e DEF Begin, T
    <2>2. passed + T <= T + busy /\ passed <= T + busy
      BY <1>a, <2>1
    <2> QED
      BY <1>b, <2>1, <2>2 DEF Measuring
  <1>2. CASE ReadStart
    <2>1. /\ UNCHANGED <<remaining, passed, busy, tick>>
          /\ passed + remaining <= T + busy /\ passed <= T + busy
      BY <1>2, <1>e DEF ReadStart
    <2>2. CASE remaining > 0
      <3>1. phase' = "read" /\ started' = tick /\ tick \in Ticks
        BY <1>2, <2>2 DEF ReadStart, Start, TypeOK
      <3>2. Elapsed' = 0
        <4>1. Elapsed' = (tick - tick) % TickModulus
          BY <2>1, <3>1 DEF Elapsed
        <4>2. tick - tick = 0 /\ 0 % TickModulus = 0
          BY <3>1, ModOnce, TicksAssumption DEF Ticks
        <4> QED
          BY <4>1, <4>2
      <3>3. 0 <= passed /\ passed + remaining <= T + busy + 0
        BY <1>a, <2>1
      <3> QED
        BY <1>b, <2>1, <3>1, <3>2, <3>3 DEF Measuring
    <2>3. CASE ~(remaining > 0)
      BY <1>2, <1>b, <2>1, <2>3 DEF ReadStart, Measuring
    <2> QED
      BY <2>2, <2>3
  <1>3. CASE StartWait
    <2>1. /\ UNCHANGED <<remaining, passed, busy, tick, started>>
          /\ phase = "read" /\ phase' = "blocked" /\ left' = remaining
      BY <1>3 DEF StartWait
    <2>2. Elapsed' = Elapsed
      BY <2>1 DEF Elapsed
    <2> QED
      BY <1>b, <1>e, <2>1, <2>2 DEF Measuring
  <1>4. CASE EndWait
    <2>1. /\ UNCHANGED <<remaining, passed, busy, tick, started>>
          /\ phase = "blocked" /\ phase' \in {"returning", "notified"}
      BY <1>4 DEF EndWait, Wakes
    <2>2. Elapsed' = Elapsed
      BY <2>1 DEF Elapsed
    <2> QED
      BY <1>b, <1>e, <2>1, <2>2 DEF Measuring
  <1>5. CASE CheckStop
    <2>1. /\ UNCHANGED <<remaining, passed, busy, tick, started>>
          /\ phase = "notified" /\ phase' \in {"done", "checked"}
      BY <1>5 DEF CheckStop
    <2>2. Elapsed' = Elapsed
      BY <2>1 DEF Elapsed
    <2> QED
      BY <1>b, <1>e, <2>1, <2>2 DEF Measuring
  <1>6. CASE TakeElapsed
    <2>1. /\ UNCHANGED <<passed, busy>> /\ phase = "checked"
          /\ passed <= T + busy
          /\ passed + remaining <= T + busy + Elapsed /\ Elapsed \in Nat
      BY <1>6, <1>e, <1>f DEF TakeElapsed, Measuring
    <2>2. CASE DelayIsOver
      BY <1>6, <1>b, <2>1, <2>2 DEF TakeElapsed, Measuring
    <2>3. CASE ~DelayIsOver
      <3>1. (remaining - Elapsed) % TickModulus = remaining - Elapsed
        BY <1>a, <2>1, <2>3, ModOnce DEF DelayIsOver
      <3>2. phase' = "loop" /\ remaining' = remaining - Elapsed
        BY <1>6, <2>3, <3>1 DEF TakeElapsed
      <3>3. passed + (remaining - Elapsed) <= T + busy
        BY <1>a, <2>1
      <3> QED
        BY <1>b, <2>1, <3>2, <3>3 DEF Measuring
    <2> QED
      BY <2>2, <2>3
  <1>7. CASE Return
    BY <1>7, <1>b, <1>e DEF Return, Measuring
  <1>8. CASE Tick
    <2>1. UNCHANGED <<phase, remaining, started>>
      BY <1>8 DEF Tick
    <2>2. passed <= T + busy /\ passed < MaxPassed
      BY <1>a, <1>d, <1>e
    <2>3. passed' = passed + 1
      BY <1>8, <2>2 DEF Tick
    <2>4. CASE phase = "blocked" /\ ~Wakes
      <3>1. left > 0 /\ left # Forever
        BY <1>a, <1>d, <2>4 DEF Wakes
      <3>2. left' = left - 1 /\ busy' = busy
        BY <1>8, <2>4, <3>1 DEF Tick
      <3>3. /\ started \in Ticks /\ Elapsed \in Nat /\ Elapsed <= passed
            /\ passed + left <= T + busy
            /\ passed + remaining <= T + busy + Elapsed
        BY <1>e, <1>f, <2>4 DEF Measuring
      <3>4. Elapsed + 1 < TickModulus
        BY <1>a, <1>d, <3>1, <3>3
      <3>5. Elapsed' = Elapsed + 1
        BY <1>8, <2>1, <3>3, <3>4, ElapsedStep
      <3>6. /\ Elapsed + 1 <= passed + 1
            /\ (passed + 1) + (left - 1) <= T + busy
            /\ (passed + 1) + remaining <= T + busy + (Elapsed + 1)
            /\ passed + 1 <= T + busy
        BY <1>a, <3>1, <3>3
      <3> QED
        BY <1>b, <2>1, <2>3, <2>4, <3>2, <3>5, <3>6
    <2>5. CASE ~(phase = "blocked" /\ ~Wakes)
      <3>1. left' = left /\ busy' = busy + 1
        BY <1>8, <2>5 DEF Tick
      <3>2. ASSUME phase \in Measuring
            PROVE  /\ Elapsed' <= passed + 1
                   /\ (passed + 1) + remaining <= T + (busy + 1) + Elapsed'
        <4>1. /\ started \in Ticks /\ Elapsed \in Nat /\ Elapsed <= passed
              /\ passed + remaining <= T + busy + Elapsed
          BY <1>e, <1>f, <3>2
        <4>2. Elapsed + 1 < TickModulus
          BY <1>a, <1>b, <2>2, <3>1, <4>1
        <4>3. Elapsed' = Elapsed + 1
          BY <1>8, <2>1, <4>1, <4>2, ElapsedStep
        <4> QED
          BY <1>a, <4>1, <4>3
      <3>3. /\ phase = "begin" => passed + 1 <= busy + 1
            /\ phase \in {"loop", "read"} =>
                 (passed + 1) + remaining <= T + (busy + 1)
            /\ phase = "blocked" => (passed + 1) + left <= T + (busy + 1)
            /\ phase # "begin" => passed + 1 <= T + (busy + 1)
        BY <1>a, <1>e
      <3> QED
        BY <1>b, <2>1, <2>3, <3>1, <3>2, <3>3
    <2> QED
      BY <2>4, <2>5
  <1>9. CASE NotifyWork \/ PublishStop \/ NotifyStop \/ UNCHANGED vars
    <2>1. UNCHANGED <<phase, workerVars, tick, passed, busy>>
      BY <1>9 DEF NotifyWork, PublishStop, NotifyStop
    <2>2. Elapsed' = Elapsed
      BY <2>1 DEF Elapsed
    <2> QED
      BY <1>b, <1>e, <2>1, <2>2
  <1> QED
    BY <1>1, <1>2, <1>3, <1>4, <1>5, <1>6, <1>7, <1>8, <1>9 DEF Next

\* The worker is at most as late as it was kept from running.
LEMMA StretchIsBounded == TypeOK /\ StretchInv => WaitIsNotStretched
  <1> SUFFICES ASSUME TypeOK, StretchInv,
                      T # Forever, T + busy < TickModulus
               PROVE  passed <= T + busy
    BY DEF WaitIsNotStretched, T
  <1>1. T \in Nat /\ busy \in Nat /\ passed \in Nat
    BY DelayTypes DEF TypeOK
  <1> QED
    BY <1>1 DEF StretchInv

\* In every reachable state the wait has lasted no longer than the delay and the
\* ticks for which the worker was kept from running: no notification starts
\* the delay again.
THEOREM WaitIsNotStretchedAlways == Spec => []WaitIsNotStretched
  BY FullInvAlways, StretchInit, StretchStep, StretchIsBounded, PTL DEF Spec

-----------------------------------------------------------------------------
(* No Stop is slept on *)

\* A Stop that was notified is in the word, or in the hands of a worker that is
\* about to look at it, or the wait is over.
StopInv ==
    told => /\ stopping
            /\ \/ Stop \in notification
               \/ phase = "notified" /\ Stop \in got
               \/ phase = "done"

\* Every step keeps the Stop.
LEMMA StopStep == StopInv /\ [Next]_vars => StopInv'
  <1> SUFFICES ASSUME StopInv, [Next]_vars PROVE StopInv'
    OBVIOUS
  <1> USE DEF vars, workerVars, StopInv
  <1>1. CASE Begin \/ ReadStart \/ StartWait \/ TakeElapsed \/ Return
    BY <1>1 DEF Begin, ReadStart, StartWait, TakeElapsed, Return
  <1>2. CASE EndWait
    BY <1>2 DEF EndWait, Wakes
  <1>3. CASE CheckStop
    BY <1>3 DEF CheckStop, StopSeen
  <1>4. CASE Tick \/ NotifyWork \/ PublishStop \/ NotifyStop
    BY <1>4 DEF Tick, NotifyWork, PublishStop, NotifyStop
  <1>5. CASE UNCHANGED vars
    BY <1>5
  <1> QED
    BY <1>1, <1>2, <1>3, <1>4, <1>5 DEF Next

\* In every reachable state a worker that sleeps though a Stop was notified is
\* being woken.
THEOREM StopIsNotSleptAlways == Spec => []StopIsNotSlept
  <1>1. Init => StopInv
    BY DEF Init, StopInv
  <1>2. StopInv => StopIsNotSlept
    BY DEF StopInv, StopIsNotSlept, Wakes
  <1> QED
    BY <1>1, <1>2, StopStep, PTL DEF Spec
=============================================================================
