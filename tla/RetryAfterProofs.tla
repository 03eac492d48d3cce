-------------------------- MODULE RetryAfterProofs --------------------------
(***************************************************************************)
(* A proof, for every width and every length of the header, that           *)
(* parseRetryAfter never shortens a delay by an overflow.                  *)
(***************************************************************************)
EXTENDS RetryAfter, TLAPS

\* The number read so far is the header's, until it no longer fits.
ScanInv ==
    /\ TypeOK
    /\ phase = "scan" => seconds = wanted
    /\ phase = "number" => \/ seconds = wanted
                           \/ seconds = Max64 /\ wanted > Max64
    /\ accepted => phase = "done"
    /\ DelayIsTheHeaders

\* The test for overflow, in whole numbers: it fires exactly when the next
\* number does not fit.
LEMMA OverflowTest ==
    ASSUME NEW s \in 0..Max64, NEW d \in 0..9
    PROVE  (s > (Max64 - d) \div 10) <=> (s * 10 + d > Max64)
  BY WidthAssumption

\* The milliseconds are the seconds' or the largest number.
LEMMA MillisecondsRange ==
    ASSUME seconds \in 0..Max64
    PROVE  /\ Milliseconds \in 0..Max64
           /\ Milliseconds = seconds * 1000 \/ (Milliseconds = Max64 /\ seconds * 1000 > Max64)
  BY WidthAssumption DEF Milliseconds

LEMMA ScanInvInit == Init => ScanInv
  <1> SUFFICES ASSUME Init
               PROVE  ScanInv
    OBVIOUS
  <1>1. 0 \in 0..MaxLength /\ 0 \in 0..Max64 /\ 0 \in Nat
    BY WidthAssumption, TextAssumption
  <1>2. accepted = FALSE
    BY DEF Init
  <1>3. TypeOK
    BY <1>1 DEF Init, TypeOK
  <1> QED
    BY <1>2, <1>3 DEF Init, ScanInv, DelayIsTheHeaders

LEMMA ScanInvStep == ScanInv /\ [Next]_vars => ScanInv'
  <1> SUFFICES ASSUME ScanInv, [Next]_vars
               PROVE  ScanInv'
    OBVIOUS
  <1>1. /\ length \in 0..MaxLength /\ seconds \in 0..Max64 /\ delayMs \in 0..Max64
        /\ maxDelayMs \in 0..Max64 /\ now \in 0..Max64 /\ wanted \in Nat
    BY WidthAssumption DEF ScanInv, TypeOK
  <1>2. ASSUME NEW d \in Digits, ReadDigit(d)
        PROVE  ScanInv'
    <2>1. d \in 0..9
      BY TextAssumption
    <2>2. /\ length' \in 0..MaxLength
          /\ wanted' = wanted * 10 + d /\ wanted' \in Nat
          /\ seconds = wanted /\ ~ accepted
      BY <1>1, <1>2, <2>1, TextAssumption DEF ReadDigit, ScanInv
    <2>3. CASE Overflows(d)
      <3>1. seconds' = Max64 /\ phase' = "number"
        BY <1>2, <2>3 DEF ReadDigit
      <3>2. wanted' > Max64
        BY <1>1, <2>1, <2>2, <2>3, OverflowTest DEF Overflows
      <3> QED
        BY <1>2, <2>2, <3>1, <3>2, WidthAssumption DEF ReadDigit, ScanInv, TypeOK, DelayIsTheHeaders
    <2>4. CASE ~ Overflows(d)
      <3>1. seconds' = seconds * 10 + d /\ phase' = "scan"
        BY <1>2, <2>4 DEF ReadDigit
      <3>2. seconds' \in 0..Max64 /\ seconds' = wanted'
        BY <1>1, <2>1, <2>2, <2>4, <3>1, OverflowTest, WidthAssumption DEF Overflows
      <3> QED
        BY <1>2, <2>2, <3>1, <3>2 DEF ReadDigit, ScanInv, TypeOK, DelayIsTheHeaders
    <2> QED
      BY <2>3, <2>4
  <1>3. CASE ReadOther
    BY <1>3 DEF ReadOther, ScanInv, TypeOK, DelayIsTheHeaders
  <1>4. CASE ReadEnd
    BY <1>4 DEF ReadEnd, ScanInv, TypeOK, DelayIsTheHeaders
  <1>5. ASSUME NEW t \in Dates, ParseDate(t)
        PROVE  ScanInv'
    <2> DEFINE target == EpochSeconds(t.year, t.month, t.day, t.hour, t.minute, t.second)
    <2>1. target \in 0..Max64
      BY <1>5, DatesAssumption DEF ParseDate
    <2>2. /\ seconds' = (IF target > now THEN target - now ELSE 0)
          /\ wanted' = seconds'
          /\ phase = "date" /\ phase' = "number"
          /\ UNCHANGED <<length, delayMs, accepted, maxDelayMs, now>>
      BY <1>5 DEF ParseDate
    <2> HIDE DEF target
    <2>3. seconds' \in 0..Max64
      BY <1>1, <2>1, <2>2, WidthAssumption
    <2>4. wanted' \in Nat /\ ~ accepted
      BY <2>2, <2>3, WidthAssumption DEF ScanInv
    <2> QED
      BY <2>2, <2>3, <2>4 DEF ScanInv, TypeOK, DelayIsTheHeaders
  <1>6. CASE RefuseDate
    BY <1>6 DEF RefuseDate, ScanInv, TypeOK, DelayIsTheHeaders
  <1>7. CASE Convert
    <2>1. seconds = wanted \/ (seconds = Max64 /\ wanted > Max64)
      BY <1>7 DEF Convert, ScanInv
    <2>2. delayMs' = ClampDelay(Milliseconds, maxDelayMs)
      BY <1>7 DEF Convert
    <2>3. /\ Milliseconds \in 0..Max64
          /\ Milliseconds = seconds * 1000 \/ (Milliseconds = Max64 /\ seconds * 1000 > Max64)
      BY <1>1, MillisecondsRange
    <2>4. delayMs' \in 0..Max64
      BY <1>1, <2>2, <2>3 DEF ClampDelay
    <2>5. delayMs' = ClampDelay(wanted * 1000, maxDelayMs)
      BY <1>1, <2>1, <2>2, <2>3, WidthAssumption DEF ClampDelay
    <2> QED
      BY <1>7, <2>4, <2>5 DEF Convert, ScanInv, TypeOK, DelayIsTheHeaders
  <1>8. CASE UNCHANGED vars
    BY <1>8 DEF vars, ScanInv, TypeOK, DelayIsTheHeaders
  <1> QED
    BY <1>2, <1>3, <1>4, <1>5, <1>6, <1>7, <1>8 DEF Next

\* No 64-bit number of parseRetryAfter overflows.
THEOREM RetryAfterTypeCorrect == Spec => []TypeOK
  <1>1. ScanInv => TypeOK
    BY DEF ScanInv
  <1> QED
    BY <1>1, ScanInvInit, ScanInvStep, PTL DEF Spec

\* The delay is the header's, or maxDelayMs when that is less.
THEOREM DelayIsTheHeadersAlways == Spec => []DelayIsTheHeaders
  <1>1. ScanInv => DelayIsTheHeaders
    BY DEF ScanInv
  <1> QED
    BY <1>1, ScanInvInit, ScanInvStep, PTL DEF Spec
=============================================================================
