------------------------- MODULE PushAdmissionProofs -------------------------
(***************************************************************************)
(* Theorems about PushAdmission, for every configuration, every push, every*)
(* endpoint of any length and every limit: what init() and send() admit can*)
(* be sent and is what the documents allow, and what they refuse is not.   *)
(***************************************************************************)
EXTENDS PushAdmission, FiniteSetTheorems, SequenceTheorems, WellFoundedInduction, TLAPS

-----------------------------------------------------------------------------
(* Payloads and keys *)

\* The schema of the code and the documents allow the same payloads.
LEMMA SchemaIsDocumented ==
    ASSUME NEW d \in Payloads
    PROVE  PayloadIsValid(d) <=> IsNotification(d)
  <1>1. ASSUME NEW a \in Actions
        PROVE  ActionIsValid(a) <=>
                  /\ a.isObject /\ ~ a.unknown
                  /\ {"action", "title"} \subseteq {f \in ActionFields : a.field[f] = "text"}
                  /\ \A f \in ActionFields :
                        a.field[f] \in {"absent", "null", "empty", "text"}
    BY DEF ActionIsValid, Actions, ActionFields, OptionalText
  <1>2. d.actions \in Seq(Actions) /\ d.field \in [Fields -> Kinds]
    BY DEF Payloads
  <1>3. \A i \in DOMAIN d.actions : d.actions[i] \in Actions
    BY <1>2
  <1>4. ASSUME PayloadIsValid(d) PROVE IsNotification(d)
    BY <1>1, <1>2, <1>3, <1>4
    DEF PayloadIsValid, IsNotification, Fields, Kinds, OptionalText, OptionalFlag
  <1>5. ASSUME IsNotification(d) PROVE PayloadIsValid(d)
    BY <1>1, <1>2, <1>3, <1>5
    DEF PayloadIsValid, IsNotification, Fields, Kinds, OptionalText, OptionalFlag
  <1> QED
    BY <1>4, <1>5

\* What serializePayload() makes of a payload is one too.
LEMMA DocumentType ==
    ASSUME NEW p \in SendArguments
    PROVE  Document(p) \in Payloads
  <1>1. p.payload \in Payloads
    BY DEF SendArguments
  <1> QED
    BY <1>1 DEF Document, Payloads, Fields, Kinds

\* The keys that the code takes are the texts of 65 and of 16 bytes.
LEMMA KeysAreEncoded ==
    ASSUME NEW k \in KeyTexts, NEW u \in BOOLEAN
    PROVE  /\ IsPublicKey(k, u) <=> EncodesBytes(k, 65) /\ u
           /\ IsAuthSecret(k) <=> EncodesBytes(k, 16)
  <1> DEFINE n == k.data
             q == k.padding
  <1>1. n \in Nat /\ q \in Nat /\ k.clean \in BOOLEAN
    BY DEF KeyTexts
  <1>2. IsPublicKey(k, u) <=>
          /\ n + q \in {87, 88} /\ n + q > 0 /\ k.clean /\ q <= 2
          /\ (q > 0 => (n + q) % 4 = 0) /\ (n + q) % 4 # 1
          /\ (n * 6) \div 8 = 65 /\ u
    BY DEF IsPublicKey, ValidShape, TextSize, DecodedSize
  <1>3. IsAuthSecret(k) <=>
          /\ n + q \in {22, 24} /\ n + q > 0 /\ k.clean /\ q <= 2
          /\ (q > 0 => (n + q) % 4 = 0) /\ (n + q) % 4 # 1
          /\ (n * 6) \div 8 = 16
    BY DEF IsAuthSecret, ValidShape, TextSize, DecodedSize
  <1>4. EncodesBytes(k, 65) <=> k.clean /\ n = 87 /\ q \in {0, 1}
    BY DEF EncodesBytes
  <1>5. EncodesBytes(k, 16) <=> k.clean /\ n = 22 /\ q \in {0, 2}
    BY DEF EncodesBytes
  <1> HIDE DEF n, q
  <1> QED
    BY <1>1, <1>2, <1>3, <1>4, <1>5

-----------------------------------------------------------------------------
(* Texts *)

\* Indices have a least one,
LEMMA LeastOf ==
    ASSUME NEW T \in SUBSET Nat, T # {}
    PROVE  \E x \in T : \A y \in T : x <= y
  <1>1. PICK x \in T : \A y \in T : ~ (<<y, x>> \in OpToRel(<, Nat))
    BY NatLessThanWellFounded, WFMin
  <1>2. \A y \in T : ~ (y < x)
    BY <1>1 DEF OpToRel
  <1> QED
    BY <1>2

\* and, when they are bounded, a greatest.
LEMMA GreatestOf ==
    ASSUME NEW n \in Nat, NEW T \in SUBSET (0 .. n), T # {}
    PROVE  \E x \in T : \A y \in T : y <= x
  <1> DEFINE D == {n - y : y \in T}
  <1>1. D \in SUBSET Nat /\ D # {}
    <2>1. \A y \in T : n - y \in Nat
      OBVIOUS
    <2> QED
      BY ONLY <2>1, T # {}
  <1>2. PICK d \in D : \A e \in D : d <= e
    BY <1>1, LeastOf
  <1>3. PICK x \in T : d = n - x
    BY <1>2
  <1>4. \A y \in T : n - x <= n - y
    BY <1>2, <1>3
  <1>5. \A y \in T : y <= x
    BY <1>3, <1>4
  <1> QED
    BY <1>5

\* The characters of a text.
Chars == Alphanumeric \cup Punctuation

\* The beginning, and any part, of a text.
LEMMA Part ==
    ASSUME NEW text \in Seq(Chars), NEW m \in Nat, NEW n \in Nat,
           m >= 1, n <= Len(text)
    PROVE  /\ SubSeq(text, m, n) \in Seq(Chars)
           /\ Len(SubSeq(text, m, n)) = IF m <= n THEN n - m + 1 ELSE 0
           /\ \A i \in 1 .. (n - m + 1) : SubSeq(text, m, n)[i] = text[m + i - 1]
  <1>1. \A i \in m .. n : text[i] \in Chars
    BY ElementOfSeq
  <1> QED
    BY <1>1, SubSeqProperties

\* What Before() makes of a text, and nothing else has these properties.
LEMMA BeforeIs ==
    ASSUME NEW text \in Seq(Chars), NEW C, NEW n \in 0 .. Len(text),
           \A i \in 1 .. n : text[i] \notin C,
           n < Len(text) => text[n + 1] \in C
    PROVE  Before(text, C) = SubSeq(text, 1, n)
  <1> DEFINE I == {i \in 1 .. Len(text) : text[i] \in C}
             first == IF I # {} THEN Min(I) ELSE 0
  <1>1. Before(text, C) = IF first = 0 THEN text ELSE SubSeq(text, 1, first - 1)
    BY DEF Before, SelectInSeq
  <1>2. CASE n = Len(text)
    <2>1. I = {}
      BY <1>2
    <2>2. SubSeq(text, 1, n) = text
      BY <1>2, SubSeqFull
    <2> QED
      BY <1>1, <2>1, <2>2
  <1>3. CASE n < Len(text)
    <2>1. n + 1 \in I /\ \A i \in I : n + 1 <= i
      BY <1>3
    <2>2. I \subseteq Nat
      BY LenProperties
    <2> HIDE DEF I
    <2>3. Min(I) \in I /\ \A i \in I : Min(I) <= i
      BY <2>1 DEF Min
    <2>4. Min(I) = n + 1
      <3>1. Min(I) \in Nat /\ n + 1 <= Min(I) /\ Min(I) <= n + 1
        BY <2>1, <2>2, <2>3
      <3>2. n \in Nat
        BY LenProperties
      <3> QED
        BY ONLY <3>1, <3>2
    <2>5. first = n + 1
      BY <2>1, <2>4
    <2> QED
      BY <1>1, <2>5
  <1> QED
    BY <1>2, <1>3

\* There is such a beginning.
LEMMA BeforeExists ==
    ASSUME NEW text \in Seq(Chars), NEW C
    PROVE  \E n \in 0 .. Len(text) :
              /\ Before(text, C) = SubSeq(text, 1, n)
              /\ \A i \in 1 .. n : text[i] \notin C
              /\ n < Len(text) => text[n + 1] \in C
  <1> DEFINE I == {i \in 1 .. Len(text) : text[i] \in C}
  <1>1. Len(text) \in Nat
    BY LenProperties
  <1>2. CASE I = {}
    <2>1. \A i \in 1 .. Len(text) : text[i] \notin C
      BY <1>2
    <2> QED
      BY <1>1, <2>1, BeforeIs
  <1>3. CASE I # {}
    <2> I \in SUBSET Nat
      BY <1>1
    <2>1. PICK first \in I : \A i \in I : first <= i
      BY <1>3, LeastOf
    <2>2. first - 1 \in 0 .. Len(text) /\ first - 1 < Len(text)
      BY <1>1
    <2>3. \A i \in 1 .. (first - 1) : text[i] \notin C
      BY <1>1, <2>1
    <2>4. text[(first - 1) + 1] \in C
      BY <1>1
    <2> QED
      BY <2>2, <2>3, <2>4, BeforeIs
  <1> QED
    BY <1>2, <1>3

-----------------------------------------------------------------------------
(* Ports as text *)

\* The digits and what they denote.
LEMMA DigitValues ==
    /\ \A i \in 0 .. 9 : Digits[i + 1] \in ToSet(Digits)
                         /\ DigitValue[Digits[i + 1]] = i
    /\ ToSet(Digits) \subseteq Chars /\ Digits[1] = "0"
    /\ \A i \in 1 .. 9 : Digits[i + 1] # "0"
  <1>1. \A i \in 1 .. 10 : \A j \in 1 .. 10 : Digits[i] = Digits[j] => i = j
    BY DEF Digits
  <1>2. Len(Digits) = 10 /\ DOMAIN Digits = 1 .. 10
    BY DEF Digits
  <1>3. ASSUME NEW i \in 0 .. 9
        PROVE  Digits[i + 1] \in ToSet(Digits) /\ DigitValue[Digits[i + 1]] = i
    <2> DEFINE d == Digits[i + 1]
               I == {j \in 1 .. Len(Digits) : Digits[j] = d}
    <2>1. d \in ToSet(Digits)
      BY <1>2 DEF ToSet
    <2>2. I = {i + 1}
      BY <1>1, <1>2
    <2>3. Min({i + 1}) = i + 1
      BY DEF Min
    <2>4. SelectInSeq(Digits, LAMBDA x : x = d) = i + 1
      BY <2>2, <2>3 DEF SelectInSeq
    <2>5. DigitValue[d] = SelectInSeq(Digits, LAMBDA x : x = d) - 1
      BY <2>1 DEF DigitValue
    <2> QED
      BY <2>1, <2>4, <2>5
  <1>4. ToSet(Digits) \subseteq Chars
    BY DEF Chars, Alphanumeric
  <1>5. Digits[1] = "0" /\ \A i \in 1 .. 9 : Digits[i + 1] # "0"
    BY DEF Digits
  <1> QED
    BY <1>3, <1>4, <1>5

\* What the loop of parsePort() has after each digit.
LEMMA NumberLoop ==
    ASSUME NEW text, Len(text) \in Nat
    PROVE  \E value :
             /\ Number(text) = value[Len(text)]
             /\ value[0] = 0
             /\ \A n \in 1 .. Len(text) :
                  value[n] = 10 * value[n - 1] + DigitValue[text[n]]
  <1> DEFINE Loop(f, k) ==
               f = [n \in 0 .. k |->
                      IF n = 0 THEN 0 ELSE 10 * f[n - 1] + DigitValue[text[n]]]
  <1>1. ASSUME NEW k \in Nat PROVE \E f : Loop(f, k)
    <2> DEFINE Without == {j \in Nat : ~ \E f : Loop(f, j)}
    <2>1. ASSUME Without # {} PROVE FALSE
      <3>1. Without \in SUBSET Nat
        OBVIOUS
      <3>2. PICK j \in Without : \A i \in Without : j <= i
        BY <2>1, <3>1, LeastOf
      <3>3. CASE j = 0
        <4>1. Loop([n \in 0 .. 0 |-> 0], 0)
          OBVIOUS
        <4> QED
          BY <3>3, <4>1
      <3>4. CASE j > 0
        <4>1. j - 1 \in Nat /\ j - 1 \notin Without
          <5>1. j \in Nat /\ \A i \in Without : j <= i
            BY <3>2
          <5> HIDE DEF Without
          <5> QED
            BY <3>4, <5>1
        <4>2. PICK f : Loop(f, j - 1)
          BY <4>1
        <4> DEFINE g == [n \in 0 .. j |->
                           IF n < j THEN f[n] ELSE 10 * f[j - 1] + DigitValue[text[j]]]
        <4>3. \A n \in 0 .. (j - 1) : f[n] =
                IF n = 0 THEN 0 ELSE 10 * f[n - 1] + DigitValue[text[n]]
          BY <4>2
        <4>4. \A n \in 0 .. j : g[n] =
                IF n = 0 THEN 0 ELSE 10 * g[n - 1] + DigitValue[text[n]]
          <5> TAKE n \in 0 .. j
          <5>1. CASE n = 0
            BY <3>4, <4>3, <5>1
          <5>2. CASE n > 0 /\ n < j
            <6>1. n \in 0 .. (j - 1) /\ n - 1 \in 0 .. j /\ n - 1 < j
              BY <3>2, <5>2
            <6> QED
              BY <4>3, <5>2, <6>1
          <5>3. CASE n > 0 /\ n = j
            <6>1. n - 1 \in 0 .. j /\ n - 1 < j /\ ~ (n < j)
              BY <3>2, <5>3
            <6> QED
              BY <5>3, <6>1
          <5> QED
            BY <5>1, <5>2, <5>3
        <4>5. Loop(g, j)
          <5> DEFINE h == [n \in 0 .. j |->
                             IF n = 0 THEN 0 ELSE 10 * g[n - 1] + DigitValue[text[n]]]
          <5>1. \A n \in 0 .. j : g[n] = h[n]
            BY <4>4
          <5>2. g = h
            BY <5>1
          <5> QED
            BY <5>2
        <4> QED
          BY <4>5
      <3> QED
        BY <3>2, <3>3, <3>4
    <2> QED
      BY <2>1
  <1> DEFINE value[n \in 0 .. Len(text)] ==
               IF n = 0 THEN 0 ELSE 10 * value[n - 1] + DigitValue[text[n]]
  <1>2. Number(text) = value[Len(text)]
    BY DEF Number
  <1>3. Loop(value, Len(text))
    BY <1>1
  <1> HIDE DEF value
  <1>4. \A n \in 0 .. Len(text) :
          value[n] = IF n = 0 THEN 0 ELSE 10 * value[n - 1] + DigitValue[text[n]]
    BY <1>3
  <1>5. value[0] = 0
    BY <1>4
  <1>6. \A n \in 1 .. Len(text) : value[n] = 10 * value[n - 1] + DigitValue[text[n]]
    BY <1>4
  <1> QED
    BY <1>2, <1>5, <1>6

\* One more digit.
LEMMA NumberAppend ==
    ASSUME NEW S, NEW text \in Seq(S), NEW d \in S
    PROVE  Number(Append(text, d)) = 10 * Number(text) + DigitValue[d]
  <1> DEFINE longer == Append(text, d)
             k == Len(text)
  <1>1. /\ k \in Nat /\ Len(longer) = k + 1 /\ k + 1 \in Nat
        /\ \A n \in 1 .. k : longer[n] = text[n]
        /\ longer[k + 1] = d
    BY LenProperties, AppendProperties
  <1>2. PICK v : /\ Number(text) = v[k]
                 /\ v[0] = 0
                 /\ \A n \in 1 .. k : v[n] = 10 * v[n - 1] + DigitValue[text[n]]
    BY <1>1, NumberLoop
  <1>3. PICK w : /\ Number(longer) = w[Len(longer)]
                 /\ w[0] = 0
                 /\ \A n \in 1 .. Len(longer) :
                      w[n] = 10 * w[n - 1] + DigitValue[longer[n]]
    BY <1>1, NumberLoop
  <1> HIDE DEF longer, k
  <1>4. ASSUME NEW m \in 0 .. k PROVE w[m] = v[m]
    <2> DEFINE Differ == {j \in 0 .. k : w[j] # v[j]}
    <2>1. ASSUME Differ # {} PROVE FALSE
      <3>1. Differ \in SUBSET Nat
        BY <1>1
      <3>2. PICK j \in Differ : \A i \in Differ : j <= i
        BY <2>1, <3>1, LeastOf
      <3>3. j \in 1 .. k /\ j - 1 \in 0 .. k /\ j \in 1 .. (k + 1) /\ j \in Nat
        BY <1>1, <1>2, <1>3
      <3>4. w[j - 1] = v[j - 1]
        <4>1. ~ (j <= j - 1)
          BY <3>3
        <4>2. j - 1 \notin Differ
          BY <3>2, <4>1
        <4> QED
          BY <3>3, <4>2
      <3>5. /\ w[j] = 10 * w[j - 1] + DigitValue[longer[j]]
            /\ v[j] = 10 * v[j - 1] + DigitValue[text[j]]
            /\ longer[j] = text[j]
        BY <1>1, <1>2, <1>3, <3>3
      <3>6. w[j] = v[j]
        BY ONLY <3>4, <3>5
      <3> QED
        BY <3>6
    <2> QED
      BY <2>1
  <1>5. w[k] = v[k]
    BY <1>1, <1>4
  <1>6. w[k + 1] = 10 * w[k] + DigitValue[d]
    <2>1. k + 1 \in 1 .. (k + 1) /\ (k + 1) - 1 = k
      BY <1>1
    <2>2. w[k + 1] = 10 * w[(k + 1) - 1] + DigitValue[longer[k + 1]]
      BY <1>1, <1>3, <2>1
    <2> QED
      BY <1>1, <2>1, <2>2
  <1> QED
    BY <1>1, <1>2, <1>3, <1>5, <1>6 DEF longer

\* The first digit.
LEMMA NumberOfDigit ==
    ASSUME NEW d
    PROVE  Number(<<d>>) = 10 * 0 + DigitValue[d]
  <1>1. Len(<<d>>) = 1 /\ <<d>>[1] = d /\ 1 \in Nat /\ 1 \in 1 .. 1 /\ 1 - 1 = 0
    OBVIOUS
  <1>2. PICK v : /\ Number(<<d>>) = v[Len(<<d>>)]
                 /\ v[0] = 0
                 /\ \A n \in 1 .. Len(<<d>>) :
                      v[n] = 10 * v[n - 1] + DigitValue[<<d>>[n]]
    BY <1>1, NumberLoop
  <1>3. v[1] = 10 * v[1 - 1] + DigitValue[<<d>>[1]]
    BY <1>1, <1>2
  <1> QED
    BY <1>1, <1>2, <1>3

\* The text is the number in decimal digits, without a zero in front.
Denotes(text, n) ==
    /\ text \in Seq(ToSet(Digits)) /\ text # <<>>
    /\ Number(text) = n
    /\ n > 0 => text[1] # "0"

\* Division by ten, as std::to_chars() does it.
LEMMA Decimal ==
    ASSUME NEW n \in Nat
    PROVE  /\ n % 10 \in 0 .. 9
           /\ n \div 10 \in Nat /\ 10 * (n \div 10) + (n % 10) = n
           /\ n >= 10 => n \div 10 < n /\ n \div 10 > 0
  OBVIOUS

\* One digit denotes itself, and
LEMMA DigitDenotes ==
    ASSUME NEW n \in 0 .. 9
    PROVE  Denotes(<<Digits[n + 1]>>, n)
  <1>1. Digits[n + 1] \in ToSet(Digits) /\ DigitValue[Digits[n + 1]] = n
    BY DigitValues
  <1>2. Number(<<Digits[n + 1]>>) = n
    BY <1>1, NumberOfDigit
  <1>3. n > 0 => Digits[n + 1] # "0"
    BY DigitValues
  <1> HIDE DEF Digits
  <1>4. <<Digits[n + 1]>> \in Seq(ToSet(Digits)) /\ <<Digits[n + 1]>> # <<>>
        /\ <<Digits[n + 1]>>[1] = Digits[n + 1]
    BY <1>1
  <1> QED
    BY <1>2, <1>3, <1>4 DEF Denotes

\* one more digit ten times as much and its own value.
LEMMA AppendDenotes ==
    ASSUME NEW n \in Nat, n >= 10, NEW text, Denotes(text, n \div 10)
    PROVE  Denotes(Append(text, Digits[(n % 10) + 1]), n)
  <1> DEFINE d == Digits[(n % 10) + 1]
  <1>1. /\ n % 10 \in 0 .. 9 /\ n \div 10 \in Nat
        /\ 10 * (n \div 10) + (n % 10) = n /\ n \div 10 > 0
    BY Decimal
  <1>2. d \in ToSet(Digits) /\ DigitValue[d] = n % 10
    BY <1>1, DigitValues
  <1>3. /\ text \in Seq(ToSet(Digits)) /\ text # <<>>
        /\ Number(text) = n \div 10 /\ text[1] # "0"
    BY <1>1 DEF Denotes
  <1> HIDE DEF d
  <1>4. Number(Append(text, d)) = 10 * Number(text) + DigitValue[d]
    BY <1>2, <1>3, NumberAppend
  <1>5. Number(Append(text, d)) = n
    BY <1>1, <1>2, <1>3, <1>4
  <1>6. /\ Append(text, d) \in Seq(ToSet(Digits)) /\ Append(text, d) # <<>>
        /\ Append(text, d)[1] = text[1]
    <2>1. Len(text) \in Nat \ {0}
      BY <1>3, EmptySeq
    <2>2. 1 \in 1 .. Len(text)
      BY <2>1
    <2> QED
      BY <1>2, <1>3, <2>1, <2>2, AppendProperties
  <1>7. Denotes(Append(text, d), n)
    BY <1>3, <1>5, <1>6 DEF Denotes
  <1> QED
    BY <1>7 DEF d

\* What std::to_chars() writes denotes the port.
LEMMA PortTextDenotes ==
    ASSUME NEW port \in Nat
    PROVE  Denotes(PortText(port), port)
  <1> DEFINE Loop(f, k) ==
               f = [n \in 0 .. k |->
                      IF n < 10 THEN <<Digits[n + 1]>>
                      ELSE Append(f[n \div 10], Digits[(n % 10) + 1])]
  <1>1. ASSUME NEW k \in Nat PROVE \E f : Loop(f, k)
    <2> DEFINE Without == {j \in Nat : ~ \E f : Loop(f, j)}
    <2>1. ASSUME Without # {} PROVE FALSE
      <3>1. Without \in SUBSET Nat
        OBVIOUS
      <3>2. PICK j \in Without : \A i \in Without : j <= i
        BY <2>1, <3>1, LeastOf
      <3>3. CASE j = 0
        <4> DEFINE g == [n \in 0 .. 0 |-> <<Digits[n + 1]>>]
        <4>1. \A n \in 0 .. 0 : n < 10
          OBVIOUS
        <4>2. Loop(g, 0)
          BY <4>1
        <4> QED
          BY <3>3, <4>2
      <3>4. CASE j > 0
        <4>1. j - 1 \in Nat /\ j - 1 \notin Without /\ j \in Nat
          <5>1. j \in Nat /\ \A i \in Without : j <= i
            BY <3>2
          <5> HIDE DEF Without
          <5> QED
            BY <3>4, <5>1
        <4>2. PICK f : Loop(f, j - 1)
          BY <4>1
        <4> DEFINE g == [n \in 0 .. j |->
                           IF n < j THEN f[n]
                           ELSE IF n < 10 THEN <<Digits[n + 1]>>
                           ELSE Append(f[n \div 10], Digits[(n % 10) + 1])]
        <4>3. \A n \in 0 .. (j - 1) : f[n] =
                IF n < 10 THEN <<Digits[n + 1]>>
                ELSE Append(f[n \div 10], Digits[(n % 10) + 1])
          BY <4>2
        <4>4. \A n \in 0 .. j : n >= 10 => n \div 10 \in 0 .. j /\ n \div 10 < j
          <5> TAKE n \in 0 .. j
          <5> HAVE n >= 10
          <5>1. n \in Nat /\ n <= j
            BY <4>1
          <5>2. n \div 10 \in Nat /\ n \div 10 < n
            BY <5>1, Decimal
          <5> QED
            BY <4>1, <5>1, <5>2
        <4>5. \A n \in 0 .. j : g[n] =
                IF n < 10 THEN <<Digits[n + 1]>>
                ELSE Append(g[n \div 10], Digits[(n % 10) + 1])
          <5> TAKE n \in 0 .. j
          <5>1. n >= 10 => g[n \div 10] = f[n \div 10]
            BY <4>4
          <5>2. CASE n < j
            <6>1. n \in 0 .. (j - 1) /\ g[n] = f[n] /\ (~ (n < 10) => n >= 10)
              BY <4>1, <5>2
            <6> QED
              BY <4>3, <5>1, <6>1
          <5>3. CASE ~ (n < j)
            <6>1. g[n] = IF n < 10 THEN <<Digits[n + 1]>>
                         ELSE Append(f[n \div 10], Digits[(n % 10) + 1])
              BY <5>3
            <6>2. ~ (n < 10) => n >= 10
              BY <4>1
            <6> QED
              BY <5>1, <6>1, <6>2
          <5> QED
            BY <5>2, <5>3
        <4>6. Loop(g, j)
          <5> DEFINE h == [n \in 0 .. j |->
                             IF n < 10 THEN <<Digits[n + 1]>>
                             ELSE Append(g[n \div 10], Digits[(n % 10) + 1])]
          <5>1. \A n \in 0 .. j : g[n] = h[n]
            BY <4>5
          <5>2. g = h
            BY <5>1
          <5> QED
            BY <5>2
        <4> QED
          BY <4>6
      <3> QED
        BY <3>2, <3>3, <3>4
    <2> QED
      BY <2>1
  <1> DEFINE text[n \in 0 .. port] ==
               IF n < 10 THEN <<Digits[n + 1]>>
               ELSE Append(text[n \div 10], Digits[(n % 10) + 1])
  <1>2. PortText(port) = text[port]
    BY DEF PortText
  <1>3. Loop(text, port)
    BY <1>1
  <1> HIDE DEF text
  <1>4. \A n \in 0 .. port : text[n] =
          IF n < 10 THEN <<Digits[n + 1]>>
          ELSE Append(text[n \div 10], Digits[(n % 10) + 1])
    BY <1>3
  <1>5. ASSUME NEW m \in 0 .. port PROVE Denotes(text[m], m)
    <2> DEFINE Wrong == {j \in 0 .. port : ~ Denotes(text[j], j)}
    <2>1. ASSUME Wrong # {} PROVE FALSE
      <3>1. Wrong \in SUBSET Nat
        OBVIOUS
      <3>2. PICK j \in Wrong : \A i \in Wrong : j <= i
        BY <2>1, <3>1, LeastOf
      <3>3. j \in 0 .. port /\ j \in Nat /\ ~ Denotes(text[j], j)
        BY <3>2
      <3>6. text[j] = IF j < 10 THEN <<Digits[j + 1]>>
                      ELSE Append(text[j \div 10], Digits[(j % 10) + 1])
        <4> HIDE DEF Wrong, Loop
        <4> QED
          BY ONLY <1>4, <3>3
      <3>4. CASE j < 10
        <4>1. text[j] = <<Digits[j + 1]>>
          BY <3>4, <3>6
        <4>2. j \in 0 .. 9
          BY ONLY <3>3, <3>4
        <4> QED
          BY <3>3, <4>1, <4>2, DigitDenotes
      <3>5. CASE j >= 10
        <4>1. j \div 10 \in 0 .. port /\ j \div 10 < j /\ j \div 10 \in Nat
          BY <3>3, <3>5, Decimal
        <4>2. j \div 10 \notin Wrong
          BY <3>2, <3>3, <4>1
        <4>3. Denotes(text[j \div 10], j \div 10)
          BY <4>1, <4>2
        <4>4. text[j] = Append(text[j \div 10], Digits[(j % 10) + 1])
          <5>1. ~ (j < 10)
            BY ONLY <3>3, <3>5
          <5> QED
            BY <3>6, <5>1
        <4> QED
          BY <3>3, <3>5, <4>3, <4>4, AppendDenotes
      <3> QED
        BY <3>3, <3>4, <3>5
    <2> QED
      BY <2>1
  <1>6. port \in 0 .. port
    OBVIOUS
  <1> QED
    BY <1>2, <1>5, <1>6

-----------------------------------------------------------------------------
(* Host names *)

\* No character is of both kinds.
LEMMA PunctuationIsNoLetter == Alphanumeric \cap Punctuation = {}
  <1>1. ToSet(Digits) = {"0", "1", "2", "3", "4", "5", "6", "7", "8", "9"}
    BY DEF ToSet, Digits
  <1> QED
    BY <1>1 DEF Alphanumeric, Punctuation, Lowercase

\* Where the labels end.
Ends(text) == {i \in 1 .. Len(text) : text[i] = "."} \cup {Len(text) + 1}

\* The ends are the dots and the end of the text.
LEMMA EndsProperties ==
    ASSUME NEW text \in Seq(Chars)
    PROVE  /\ Len(text) \in Nat
           /\ Ends(text) \in SUBSET (1 .. (Len(text) + 1))
           /\ Len(text) + 1 \in Ends(text)
           /\ \A i \in 1 .. Len(text) : i \in Ends(text) <=> text[i] = "."
  BY LenProperties DEF Ends

\* Every character is in a label or is the dot that ends one.
LEMMA LabelAround ==
    ASSUME NEW text \in Seq(Chars), NEW i \in 1 .. Len(text)
    PROVE  \E s \in {0} \cup Ends(text), e \in Ends(text) :
              s < i /\ i <= e /\ \A j \in (s + 1) .. (e - 1) : j \notin Ends(text)
  <1> DEFINE n == Len(text)
             E == Ends(text)
  <1>0. n \in Nat /\ E \in SUBSET (1 .. (n + 1)) /\ n + 1 \in E /\ i \in 1 .. n
    BY EndsProperties
  <1> HIDE DEF n, E
  <1> DEFINE S == {s \in {0} \cup E : s < i}
             T == {e \in E : i <= e}
  <1>1. S \in SUBSET (0 .. n) /\ 0 \in S
    <2>1. \A s \in {0} \cup E : s < i => s \in 0 .. n
      BY <1>0
    <2>2. 0 < i
      BY <1>0
    <2> QED
      BY ONLY <2>1, <2>2
  <1>2. PICK s \in S : \A j \in S : j <= s
    BY <1>0, <1>1, GreatestOf
  <1>3. T \in SUBSET Nat /\ n + 1 \in T
    <2>1. \A e \in E : e \in Nat
      BY <1>0
    <2>2. i <= n + 1 /\ n + 1 \in E
      BY <1>0
    <2> QED
      BY ONLY <2>1, <2>2
  <1>4. PICK e \in T : \A j \in T : e <= j
    BY <1>3, LeastOf
  <1>5. ASSUME NEW j \in (s + 1) .. (e - 1), j \in E PROVE FALSE
    <2>1. j \in Nat /\ s < j /\ j < e /\ s \in Nat /\ e \in Nat
      BY <1>0, <1>1, <1>3
    <2>2. CASE j < i
      <3>1. j \in S
        BY <1>5, <2>2
      <3> QED
        BY <1>2, <2>1, <3>1
    <2>3. CASE i <= j
      <3>1. j \in T
        BY <1>5, <2>3
      <3> QED
        BY <1>4, <2>1, <3>1
    <2> QED
      BY <2>1, <2>2, <2>3
  <1>6. \E t \in {0} \cup E, u \in E :
            t < i /\ i <= u /\ \A j \in (t + 1) .. (u - 1) : j \notin E
    BY <1>5
  <1> QED
    BY <1>6 DEF E

\* IsHostName() with its ends by name.
LEMMA HostNameIsLabels ==
    ASSUME NEW text \in Seq(Chars)
    PROVE  IsHostName(text) <=>
             /\ text # <<>> /\ text[1] # "." /\ text[Len(text)] # "."
             /\ ToSet(text) \subseteq Alphanumeric \cup {"-", "."}
             /\ \A s \in {0} \cup Ends(text), e \in Ends(text) :
                  s < e /\ (\A i \in (s + 1) .. (e - 1) : i \notin Ends(text))
                     => IsLabel(SubSeq(text, s + 1, e - 1))
             /\ Len(text) <= MaxHost
  BY DEF IsHostName, Ends, Last

\* A label, in terms of the text that it is a part of.
LEMMA LabelOfText ==
    ASSUME NEW text \in Seq(Chars), NEW s \in 0 .. Len(text),
           NEW e \in (s + 1) .. (Len(text) + 1)
    PROVE  IsLabel(SubSeq(text, s + 1, e - 1)) <=>
             /\ s + 1 < e /\ e - 1 - s <= MaxLabel
             /\ text[s + 1] # "-" /\ text[e - 1] # "-"
  <1> DEFINE label == SubSeq(text, s + 1, e - 1)
             l == e - 1 - s
  <1>1. Len(text) \in Nat /\ s \in Nat /\ e \in Nat /\ MaxLabel \in Nat
    BY LenProperties, LimitsAssumption
  <1>2. /\ label \in Seq(Chars)
        /\ Len(label) = l
        /\ \A i \in 1 .. l : label[i] = text[s + i]
    <2>1. s + 1 \in Nat /\ e - 1 \in Nat /\ s + 1 >= 1 /\ e - 1 <= Len(text)
      BY <1>1
    <2>2. /\ label \in Seq(Chars)
          /\ Len(label) = IF s + 1 <= e - 1 THEN (e - 1) - (s + 1) + 1 ELSE 0
          /\ \A i \in 1 .. ((e - 1) - (s + 1) + 1) : label[i] = text[(s + 1) + i - 1]
      BY <2>1, Part
    <2>3. (e - 1) - (s + 1) + 1 = l
      BY <1>1
    <2>4. Len(label) = l
      BY <1>1, <2>2
    <2>5. \A i \in 1 .. l : (s + 1) + i - 1 = s + i
      BY <1>1
    <2> QED
      BY <2>2, <2>3, <2>4, <2>5
  <1> HIDE DEF label
  <1>3. IsLabel(label) <=> l \in 1 .. MaxLabel /\ label[1] # "-" /\ label[l] # "-"
    BY <1>2 DEF IsLabel, Last
  <1>4. l \in 1 .. MaxLabel => label[1] = text[s + 1] /\ label[l] = text[e - 1]
    <2> HAVE l \in 1 .. MaxLabel
    <2>1. 1 \in 1 .. l /\ l \in 1 .. l /\ s + l = e - 1
      BY <1>1
    <2> QED
      BY <1>2, <2>1
  <1>5. l \in 1 .. MaxLabel <=> s + 1 < e /\ e - 1 - s <= MaxLabel
    BY <1>1
  <1>6. IsLabel(label) <=>
             /\ s + 1 < e /\ e - 1 - s <= MaxLabel
             /\ text[s + 1] # "-" /\ text[e - 1] # "-"
    BY <1>3, <1>4, <1>5
  <1> QED
    BY <1>6 DEF label

\* The labels say all that the documents say of a host name.
LEMMA LabelsNameHost ==
    ASSUME NEW text \in Seq(Chars), IsHostName(text)
    PROVE  NamesHost(text)
  <1> DEFINE n == Len(text)
             E == Ends(text)
  <1>1. n \in Nat /\ E \in SUBSET (1 .. (n + 1)) /\ n + 1 \in E
    BY EndsProperties
  <1>2. \A i \in 1 .. n : i \in E <=> text[i] = "."
    BY EndsProperties
  <1>3. /\ text # <<>> /\ text[1] # "." /\ text[n] # "." /\ n <= MaxHost
        /\ ToSet(text) \subseteq Alphanumeric \cup {"-", "."}
        /\ MaxLabel \in Nat /\ MaxLabel > 0
    BY HostNameIsLabels, LimitsAssumption
  <1>4. n \in 1 .. MaxHost
    BY <1>1, <1>3, EmptySeq
  <1>5. \A i \in 1 .. n : text[i] \in Alphanumeric \cup {"-", "."}
    BY <1>3, LenProperties DEF ToSet
  \* Around any character there is a label.
  <1>6. \A i \in 1 .. n : \E s \in {0} \cup E, e \in E :
          /\ s < i /\ i <= e /\ (\A j \in (s + 1) .. (e - 1) : j \notin E)
          /\ s + 1 < e /\ e - 1 - s <= MaxLabel
          /\ text[s + 1] # "-" /\ text[e - 1] # "-"
          /\ s \in Nat /\ e \in Nat /\ e <= n + 1
    <2> TAKE i \in 1 .. n
    <2>1. PICK s \in {0} \cup E, e \in E :
            s < i /\ i <= e /\ \A j \in (s + 1) .. (e - 1) : j \notin E
      BY LabelAround
    <2>2. s \in 0 .. n /\ e \in (s + 1) .. (n + 1)
      BY <1>1, <2>1
    <2>3. s < e
      BY <2>2
    <2>4. IsLabel(SubSeq(text, s + 1, e - 1))
      BY <2>1, <2>3, HostNameIsLabels
    <2>5. /\ s + 1 < e /\ e - 1 - s <= MaxLabel
          /\ text[s + 1] # "-" /\ text[e - 1] # "-"
      BY <2>2, <2>4, LabelOfText
    <2>6. s \in Nat /\ e \in Nat /\ e <= n + 1
      BY <2>2
    <2> QED
      BY <2>1, <2>5, <2>6
  <1> HIDE DEF E
  <1>7. text[1] # "-"
    <2>1. PICK s \in {0} \cup E, e \in E :
            s < 1 /\ s \in Nat /\ text[s + 1] # "-"
      BY <1>4, <1>6
    <2>2. s + 1 = 1
      BY <2>1
    <2> QED
      BY <2>1, <2>2
  <1>8. text[n] # "-"
    <2>1. n \in 1 .. n
      BY <1>4
    <2>2. PICK s \in {0} \cup E, e \in E :
            n <= e /\ e \in Nat /\ e <= n + 1 /\ text[e - 1] # "-"
      BY <1>6, <2>1
    <2>3. n \notin E
      BY <1>2, <1>3, <2>1
    <2>4. e # n
      BY <2>3
    <2>5. e - 1 = n
      BY <1>1, <2>2, <2>4
    <2> QED
      BY <2>2, <2>5
  <1>9. ASSUME NEW i \in 1 .. (n - 1), "." \in {text[i], text[i + 1]}
        PROVE  /\ {text[i], text[i + 1]} \subseteq Alphanumeric \cup {"."}
               /\ text[i] # text[i + 1]
    <2>1. i \in 1 .. n /\ i + 1 \in 1 .. n /\ i \in Nat
      BY <1>1
    <2>2. PICK s \in {0} \cup E, e \in E :
            /\ s < i + 1 /\ i + 1 <= e /\ (\A j \in (s + 1) .. (e - 1) : j \notin E)
            /\ s + 1 < e
            /\ text[s + 1] # "-" /\ text[e - 1] # "-"
            /\ s \in Nat /\ e \in Nat
      BY <1>6, <2>1
    <2>3. CASE text[i] = "."
      <3>1. i \in E
        BY <1>2, <2>1, <2>3
      <3>2. s = i
        <4>1. ASSUME s < i PROVE FALSE
          <5>1. i \in (s + 1) .. (e - 1)
            BY <2>1, <2>2, <4>1
          <5> QED
            BY <2>2, <3>1, <5>1
        <4> QED
          BY <2>1, <2>2, <4>1
      <3>3. i + 1 \in (s + 1) .. (e - 1)
        BY <2>1, <2>2, <3>2
      <3>4. text[i + 1] # "." /\ text[i + 1] # "-"
        BY <1>2, <2>1, <2>2, <3>2, <3>3
      <3> QED
        BY <1>5, <2>1, <2>3, <3>4
    <2>4. CASE text[i + 1] = "."
      <3>1. i + 1 \in E
        BY <1>2, <2>1, <2>4
      <3>2. e = i + 1
        <4>1. ASSUME i + 1 < e PROVE FALSE
          <5>1. i + 1 \in (s + 1) .. (e - 1)
            BY <2>1, <2>2, <4>1
          <5> QED
            BY <2>2, <3>1, <5>1
        <4> QED
          BY <2>1, <2>2, <4>1
      <3>3. i \in (s + 1) .. (e - 1) /\ e - 1 = i
        BY <2>1, <2>2, <3>2
      <3>4. text[i] # "." /\ text[i] # "-"
        BY <1>2, <2>1, <2>2, <3>3
      <3> QED
        BY <1>5, <2>1, <2>4, <3>4
    <2> QED
      BY <1>9, <2>3, <2>4
  <1>10. ASSUME NEW i \in 1 .. (n - MaxLabel)
         PROVE  "." \in ToSet(SubSeq(text, i, i + MaxLabel))
    <2>1. i \in 1 .. n /\ i \in Nat /\ i + MaxLabel \in Nat /\ i + MaxLabel <= n
      BY <1>1, <1>3
    <2>2. PICK s \in {0} \cup E, e \in E :
            s < i /\ i <= e /\ s \in Nat /\ e \in Nat /\ e <= n + 1 /\ e - 1 - s <= MaxLabel
      BY <1>6, <2>1
    <2>3. e \in i .. (i + MaxLabel) /\ e \in 1 .. n
      BY <1>1, <1>3, <2>1, <2>2
    <2>4. text[e] = "."
      BY <1>2, <2>2, <2>3
    <2>5. /\ SubSeq(text, i, i + MaxLabel) \in Seq(Chars)
          /\ Len(SubSeq(text, i, i + MaxLabel)) =
               IF i <= i + MaxLabel THEN (i + MaxLabel) - i + 1 ELSE 0
          /\ \A j \in 1 .. ((i + MaxLabel) - i + 1) :
               SubSeq(text, i, i + MaxLabel)[j] = text[i + j - 1]
      BY <2>1, Part
    <2>6. e - i + 1 \in 1 .. ((i + MaxLabel) - i + 1) /\ i + (e - i + 1) - 1 = e
      BY <1>3, <2>1, <2>3
    <2>7. SubSeq(text, i, i + MaxLabel)[e - i + 1] = "."
      BY <2>4, <2>5, <2>6
    <2>8. e - i + 1 \in DOMAIN SubSeq(text, i, i + MaxLabel)
      <3>1. Len(SubSeq(text, i, i + MaxLabel)) = (i + MaxLabel) - i + 1
        BY <1>3, <2>1, <2>5
      <3> QED
        BY <2>5, <2>6, <3>1, LenProperties
    <2> QED
      BY <2>7, <2>8 DEF ToSet
  <1>11. {text[1], Last(text)} \subseteq Alphanumeric
    <2>1. 1 \in 1 .. n /\ n \in 1 .. n
      BY <1>4
    <2> QED
      BY <1>3, <1>5, <1>7, <1>8, <2>1 DEF Last
  <1> QED
    BY <1>3, <1>4, <1>9, <1>10, <1>11 DEF NamesHost

\* A host name, as the documents have it, consists of labels.
LEMMA NamedHostHasLabels ==
    ASSUME NEW text \in Seq(Chars), NamesHost(text)
    PROVE  IsHostName(text)
  <1> DEFINE n == Len(text)
             E == Ends(text)
  <1>1. n \in Nat /\ E \in SUBSET (1 .. (n + 1)) /\ n + 1 \in E
    BY EndsProperties
  <1>2. \A i \in 1 .. n : i \in E <=> text[i] = "."
    BY EndsProperties
  <1>3. /\ n \in 1 .. MaxHost /\ MaxHost \in Nat
        /\ MaxLabel \in Nat /\ MaxLabel > 0
        /\ ToSet(text) \subseteq Alphanumeric \cup {"-", "."}
        /\ text[1] \in Alphanumeric /\ text[n] \in Alphanumeric
    BY LimitsAssumption DEF NamesHost, Last
  <1>4. \A i \in 1 .. (n - 1) : "." \in {text[i], text[i + 1]} =>
          /\ {text[i], text[i + 1]} \subseteq Alphanumeric \cup {"."}
          /\ text[i] # text[i + 1]
    BY DEF NamesHost
  <1>5. \A i \in 1 .. (n - MaxLabel) : "." \in ToSet(SubSeq(text, i, i + MaxLabel))
    BY DEF NamesHost
  <1>6. "-" \notin Alphanumeric /\ "." \notin Alphanumeric
    BY PunctuationIsNoLetter DEF Punctuation
  <1>7. text # <<>> /\ n <= MaxHost
    <2>1. n # 0
      BY <1>3
    <2> QED
      BY <1>3, <2>1
  <1>8. ASSUME NEW s \in {0} \cup E, NEW e \in E, s < e,
               \A i \in (s + 1) .. (e - 1) : i \notin E
        PROVE  IsLabel(SubSeq(text, s + 1, e - 1))
    <2>1. s \in 0 .. n /\ e \in (s + 1) .. (n + 1) /\ s \in Nat /\ e \in Nat
      BY <1>1, <1>8
    <2>2. s # 0 => s \in 1 .. n /\ text[s] = "."
      BY <1>2, <1>8, <2>1
    <2>3. e # n + 1 => e \in 1 .. n /\ text[e] = "."
      BY <1>1, <1>2, <1>8, <2>1
    <2>4. s # n
      <3>1. s = n => s # 0
        BY <1>3
      <3> QED
        BY <1>3, <1>6, <2>2, <3>1
    <2>5. text[s + 1] # "-" /\ text[s + 1] # "."
      <3>1. CASE s = 0
        BY <1>3, <1>6, <3>1
      <3>2. CASE s # 0
        <4>1. s \in 1 .. (n - 1) /\ text[s] = "."
          BY <1>1, <2>1, <2>2, <2>4, <3>2
        <4> QED
          BY <1>4, <1>6, <4>1
      <3> QED
        BY <3>1, <3>2
    <2>6. s + 1 < e
      <3>1. ASSUME e = s + 1 PROVE FALSE
        <4>1. e # n + 1
          BY <1>1, <2>1, <2>4, <3>1
        <4> QED
          BY <2>3, <2>5, <3>1, <4>1
      <3> QED
        BY <2>1, <3>1
    <2>7. text[e - 1] # "-"
      <3>1. CASE e = n + 1
        <4>1. e - 1 = n
          BY <1>1, <3>1
        <4> QED
          BY <1>3, <1>6, <4>1
      <3>2. CASE e # n + 1
        <4>1. e - 1 \in 1 .. (n - 1) /\ (e - 1) + 1 = e /\ text[e] = "."
          BY <1>1, <2>1, <2>3, <2>6, <3>2
        <4>2. "." \in {text[e - 1], text[(e - 1) + 1]}
          BY <4>1
        <4> QED
          BY <1>4, <1>6, <4>1, <4>2
      <3> QED
        BY <3>1, <3>2
    <2>8. e - 1 - s <= MaxLabel
      <3>1. ASSUME e - 1 - s > MaxLabel PROVE FALSE
        <4> DEFINE i == s + 1
                   window == SubSeq(text, i, i + MaxLabel)
        <4>1. /\ i \in Nat /\ i >= 1 /\ i + MaxLabel \in Nat /\ i + MaxLabel <= n
              /\ i \in 1 .. (n - MaxLabel) /\ i + MaxLabel <= e - 1
          BY <1>1, <1>3, <2>1, <3>1
        <4>2. "." \in ToSet(window)
          BY <1>5, <4>1
        <4>3. /\ window \in Seq(Chars)
              /\ Len(window) = IF i <= i + MaxLabel THEN (i + MaxLabel) - i + 1 ELSE 0
              /\ \A j \in 1 .. ((i + MaxLabel) - i + 1) : window[j] = text[i + j - 1]
          BY <4>1, Part
        <4> HIDE DEF i, window
        <4>4. Len(window) = (i + MaxLabel) - i + 1
          BY <1>3, <4>1, <4>3
        <4>5. PICK j \in 1 .. ((i + MaxLabel) - i + 1) : window[j] = "."
          BY <4>2, <4>3, <4>4, LenProperties DEF ToSet
        <4>6. i + j - 1 \in (s + 1) .. (e - 1) /\ i + j - 1 \in 1 .. n
          <5>1. i = s + 1
            BY DEF i
          <5> QED
            BY <1>1, <1>3, <2>1, <4>1, <4>5, <5>1
        <4>7. text[i + j - 1] = "."
          BY <4>3, <4>5
        <4> QED
          BY <1>2, <1>8, <4>6, <4>7
      <3> QED
        BY <1>3, <2>1, <3>1
    <2> QED
      BY <2>1, <2>5, <2>6, <2>7, <2>8, LabelOfText
  <1>9. text[1] # "." /\ text[n] # "."
    BY <1>3, <1>6
  <1> QED
    BY <1>3, <1>7, <1>8, <1>9, HostNameIsLabels

\* The host names of the parser are those of the documents.
LEMMA HostNames ==
    ASSUME NEW text \in Seq(Chars)
    PROVE  IsHostName(text) <=> NamesHost(text)
  BY LabelsNameHost, NamedHostHasLabels

-----------------------------------------------------------------------------
(* Endpoints *)

\* A part of the beginning of a text is a part of the text.
LEMMA PartOfBeginning ==
    ASSUME NEW text \in Seq(Chars), NEW a \in 0 .. Len(text),
           NEW m \in Nat, m >= 1, NEW n \in Nat, n <= a
    PROVE  SubSeq(SubSeq(text, 1, a), m, n) = SubSeq(text, m, n)
  <1> DEFINE beginning == SubSeq(text, 1, a)
             length == IF m <= n THEN n - m + 1 ELSE 0
  <1>1. Len(text) \in Nat /\ a \in Nat /\ a <= Len(text)
    BY LenProperties
  <1>2. beginning \in Seq(Chars) /\ Len(beginning) = a
        /\ \A i \in 1 .. a : beginning[i] = text[i]
    <2>1. /\ beginning \in Seq(Chars)
          /\ Len(beginning) = IF 1 <= a THEN a - 1 + 1 ELSE 0
          /\ \A i \in 1 .. (a - 1 + 1) : beginning[i] = text[1 + i - 1]
      BY <1>1, Part
    <2>2. a - 1 + 1 = a /\ (~ (1 <= a) => a = 0) /\ \A i \in 1 .. a : 1 + i - 1 = i
      BY <1>1
    <2> QED
      BY <2>1, <2>2
  <1>3. /\ SubSeq(text, m, n) \in Seq(Chars)
        /\ Len(SubSeq(text, m, n)) = length
        /\ \A i \in 1 .. (n - m + 1) : SubSeq(text, m, n)[i] = text[m + i - 1]
    <2>1. n <= Len(text)
      BY <1>1
    <2> QED
      BY <2>1, Part
  <1> HIDE DEF beginning
  <1>4. /\ SubSeq(beginning, m, n) \in Seq(Chars)
        /\ Len(SubSeq(beginning, m, n)) = length
        /\ \A i \in 1 .. (n - m + 1) : SubSeq(beginning, m, n)[i] = beginning[m + i - 1]
    BY <1>2, Part
  <1>5. \A i \in 1 .. length : i \in 1 .. (n - m + 1) /\ m + i - 1 \in 1 .. a
    BY <1>1
  <1>6. \A i \in 1 .. length : SubSeq(beginning, m, n)[i] = SubSeq(text, m, n)[i]
    BY <1>2, <1>3, <1>4, <1>5
  <1>7. SubSeq(beginning, m, n) = SubSeq(text, m, n)
    BY <1>3, <1>4, <1>6, SeqEqual
  <1> QED
    BY <1>7 DEF beginning

\* A text in brackets.
LEMMA InBrackets ==
    ASSUME NEW x \in Seq(Chars)
    PROVE  LET t == <<"[">> \o x \o <<"]">>
           IN  /\ t \in Seq(Chars) /\ Len(t) = Len(x) + 2
               /\ t[1] = "[" /\ t[Len(x) + 2] = "]"
               /\ \A i \in 1 .. Len(x) : t[i + 1] = x[i]
  <1> DEFINE open == <<"[">>
             close == <<"]">>
             l == Len(x)
  <1>1. open \in Seq(Chars) /\ Len(open) = 1 /\ open[1] = "["
        /\ close \in Seq(Chars) /\ Len(close) = 1 /\ close[1] = "]"
        /\ l \in Nat
    <2>1. "[" \in Chars /\ "]" \in Chars
      BY DEF Chars, Punctuation
    <2>2. open \in Seq(Chars) /\ close \in Seq(Chars)
      BY <2>1
    <2>3. Len(open) = 1 /\ open[1] = "[" /\ Len(close) = 1 /\ close[1] = "]"
      OBVIOUS
    <2> QED
      BY <2>2, <2>3, LenProperties
  <1> HIDE DEF open, close
  <1>2. /\ open \o x \in Seq(Chars) /\ Len(open \o x) = 1 + l
        /\ \A i \in 1 .. (1 + l) :
             (open \o x)[i] = IF i <= 1 THEN open[i] ELSE x[i - 1]
    <2>1. /\ open \o x \in Seq(Chars) /\ Len(open \o x) = Len(open) + Len(x)
          /\ \A i \in 1 .. (Len(open) + Len(x)) :
               (open \o x)[i] = IF i <= Len(open) THEN open[i] ELSE x[i - Len(open)]
      BY <1>1, ConcatProperties
    <2> QED
      BY <1>1, <2>1
  <1>3. /\ open \o x \o close \in Seq(Chars) /\ Len(open \o x \o close) = (1 + l) + 1
        /\ \A i \in 1 .. ((1 + l) + 1) : (open \o x \o close)[i] =
             IF i <= 1 + l THEN (open \o x)[i] ELSE close[i - (1 + l)]
    BY <1>1, <1>2, ConcatProperties
  <1>4. (1 + l) + 1 = l + 2 /\ 1 \in 1 .. (1 + l) /\ 1 \in 1 .. ((1 + l) + 1)
        /\ l + 2 \in 1 .. ((1 + l) + 1) /\ (l + 2) - (1 + l) = 1 /\ ~ (l + 2 <= 1 + l)
        /\ 1 <= 1 + l
    BY <1>1
  <1>5. \A i \in 1 .. l : i + 1 \in 1 .. (1 + l) /\ i + 1 \in 1 .. ((1 + l) + 1)
                          /\ (i + 1) - 1 = i /\ ~ (i + 1 <= 1) /\ i + 1 <= 1 + l
    BY <1>1
  <1>6. (open \o x \o close)[1] = "["
    BY <1>1, <1>2, <1>3, <1>4
  <1>7. (open \o x \o close)[l + 2] = "]"
    BY <1>1, <1>3, <1>4
  <1>8. \A i \in 1 .. l : (open \o x \o close)[i + 1] = x[i]
    BY <1>2, <1>3, <1>5
  <1> QED
    BY <1>3, <1>4, <1>6, <1>7, <1>8 DEF open, close

\* The texts of addresses, by the assumption on them.
LEMMA AddressTexts ==
    ASSUME NEW x \in Ipv6Texts
    PROVE  /\ x \in Seq(Chars)
           /\ Len(x) \in Nat /\ Len(x) >= 2 /\ Len(x) <= 45
           /\ \A i \in 1 .. Len(x) : x[i] \in Alphanumeric \cup {":", "."}
  <1>1. /\ x \in Seq(Alphanumeric \cup {":", "."})
        /\ Len(x) \in Nat /\ Len(x) >= 2 /\ Len(x) <= 45
    BY Ipv6Assumption, LenProperties DEF Ipv6TextBufferSize
  <1>2. Alphanumeric \cup {":", "."} \subseteq Chars
    BY DEF Chars, Punctuation
  <1> QED
    BY <1>1, <1>2, SeqMonotonic, ElementOfSeq

\* The addresses of the parser are those of the documents.
LEMMA Addresses ==
    ASSUME NEW text \in Seq(Chars)
    PROVE  IsBracketedIpv6(text) <=> NamesAddress(text)
  <1> DEFINE n == Len(text)
             inner == SubSeq(text, 2, n - 1)
  <1>1. n \in Nat
    BY LenProperties
  <1>2. ASSUME IsBracketedIpv6(text) PROVE NamesAddress(text)
    <2>1. n >= 4 /\ text[1] = "[" /\ text[n] = "]" /\ inner \in Ipv6Texts
      BY <1>2 DEF IsBracketedIpv6, Last
    <2>2. /\ inner \in Seq(Chars)
          /\ Len(inner) = IF 2 <= n - 1 THEN (n - 1) - 2 + 1 ELSE 0
          /\ \A i \in 1 .. ((n - 1) - 2 + 1) : inner[i] = text[2 + i - 1]
      <3>1. 2 \in Nat /\ n - 1 \in Nat /\ 2 >= 1 /\ n - 1 <= n
        BY <1>1, <2>1
      <3> QED
        BY <3>1, Part
    <2> DEFINE t == <<"[">> \o inner \o <<"]">>
    <2>3. /\ t \in Seq(Chars) /\ Len(t) = Len(inner) + 2
          /\ t[1] = "[" /\ t[Len(inner) + 2] = "]"
          /\ \A i \in 1 .. Len(inner) : t[i + 1] = inner[i]
      BY <2>2, InBrackets
    <2> HIDE DEF t, inner
    <2>4. Len(inner) + 2 = n
      BY <1>1, <2>1, <2>2
    <2>5. ASSUME NEW i \in 1 .. n PROVE text[i] = t[i]
      <3>1. CASE i = 1
        BY <2>1, <2>3, <3>1
      <3>2. CASE i = n
        BY <2>1, <2>3, <2>4, <3>2
      <3>3. CASE i # 1 /\ i # n
        <4>1. /\ i - 1 \in 1 .. Len(inner) /\ (i - 1) + 1 = i
              /\ i - 1 \in 1 .. ((n - 1) - 2 + 1) /\ 2 + (i - 1) - 1 = i
          BY <1>1, <2>2, <2>4, <3>3
        <4>2. t[(i - 1) + 1] = inner[i - 1]
          BY <2>3, <4>1
        <4>3. inner[i - 1] = text[2 + (i - 1) - 1]
          BY <2>2, <4>1
        <4> QED
          BY <4>1, <4>2, <4>3
      <3> QED
        BY <3>1, <3>2, <3>3
    <2>6. text = t
      BY <2>3, <2>4, <2>5, SeqEqual
    <2> QED
      BY <2>1, <2>6 DEF NamesAddress, t
  <1>3. ASSUME NamesAddress(text) PROVE IsBracketedIpv6(text)
    <2>1. PICK x \in Ipv6Texts : text = <<"[">> \o x \o <<"]">>
      BY <1>3 DEF NamesAddress
    <2>2. x \in Seq(Chars) /\ Len(x) \in Nat /\ Len(x) >= 2 /\ Len(x) <= 45
      BY AddressTexts
    <2>3. /\ n = Len(x) + 2
          /\ text[1] = "[" /\ text[Len(x) + 2] = "]"
          /\ \A i \in 1 .. Len(x) : text[i + 1] = x[i]
      BY <2>1, <2>2, InBrackets
    <2>4. n >= 4 /\ n - 1 <= 46 /\ n - 1 \in Nat /\ n - 1 >= 2 /\ n - 1 <= n
          /\ (n - 1) - 2 + 1 = Len(x)
      BY <2>2, <2>3
    <2>5. /\ inner \in Seq(Chars)
          /\ Len(inner) = Len(x)
          /\ \A i \in 1 .. Len(x) : inner[i] = text[2 + i - 1]
      <3>1. /\ inner \in Seq(Chars)
            /\ Len(inner) = IF 2 <= n - 1 THEN (n - 1) - 2 + 1 ELSE 0
            /\ \A i \in 1 .. ((n - 1) - 2 + 1) : inner[i] = text[2 + i - 1]
        BY <2>4, Part
      <3> QED
        BY <2>4, <3>1
    <2> HIDE DEF inner
    <2>6. \A i \in 1 .. Len(x) : inner[i] = x[i]
      <3>1. \A i \in 1 .. Len(x) : 2 + i - 1 = i + 1
        BY <2>2
      <3> QED
        BY <2>3, <2>5, <3>1
    <2>7. inner = x
      BY <2>2, <2>5, <2>6, SeqEqual
    <2> QED
      BY <2>3, <2>4, <2>7 DEF IsBracketedIpv6, Last, Ipv6TextBufferSize, inner
  <1> QED
    BY <1>2, <1>3

\* The port, which follows a colon.
LEMMA PortTexts ==
    ASSUME NEW port \in Seq(Chars), port # <<>>
    PROVE  IsPort(From(port, 1)) <=>
             /\ Len(port) > 1 /\ ToSet(Tail(port)) \subseteq ToSet(Digits)
             /\ Number(Tail(port)) \in 1 .. MaxPort
  <1>1. From(port, 1) = Tail(port)
    <2>1. From(port, 1) = SubSeq(port, 2, Len(port))
      BY DEF From
    <2> QED
      BY <2>1, TailIsSubSeq
  <1>2. Tail(port) \in Seq(Chars) /\ Len(Tail(port)) = Len(port) - 1 /\ Len(port) \in Nat
    BY HeadTailProperties, LenProperties
  <1>3. Tail(port) # <<>> <=> Len(port) > 1
    <2>1. Tail(port) # <<>> => Len(Tail(port)) \in Nat \ {0}
      BY <1>2, EmptySeq
    <2>2. Tail(port) = <<>> => Len(Tail(port)) = 0
      BY EmptySeq
    <2> QED
      BY <1>2, <2>1, <2>2
  <1> QED
    BY <1>1, <1>3 DEF IsPort

\* The beginning of a text.
LEMMA Beginning ==
    ASSUME NEW text \in Seq(Chars), NEW a \in 0 .. Len(text)
    PROVE  /\ SubSeq(text, 1, a) \in Seq(Chars)
           /\ Len(SubSeq(text, 1, a)) = a
           /\ \A i \in 1 .. a : SubSeq(text, 1, a)[i] = text[i]
  <1>1. Len(text) \in Nat /\ a \in Nat /\ a <= Len(text)
    BY LenProperties
  <1>2. /\ SubSeq(text, 1, a) \in Seq(Chars)
        /\ Len(SubSeq(text, 1, a)) = IF 1 <= a THEN a - 1 + 1 ELSE 0
        /\ \A i \in 1 .. (a - 1 + 1) : SubSeq(text, 1, a)[i] = text[1 + i - 1]
    BY <1>1, Part
  <1>3. a - 1 + 1 = a /\ (~ (1 <= a) => a = 0) /\ \A i \in 1 .. a : 1 + i - 1 = i
    BY <1>1
  <1> QED
    BY <1>2, <1>3

\* The parts of an authority whose host ends after h characters.
LEMMA AuthorityParts ==
    ASSUME NEW text \in Seq(Chars), NEW a \in 0 .. Len(text), NEW h \in 0 .. a,
           HostLength(SubSeq(text, 1, a)) = h
    PROVE  /\ HostOf(SubSeq(text, 1, a)) = SubSeq(text, 1, h)
           /\ AfterHost(SubSeq(text, 1, a)) = SubSeq(text, h + 1, a)
           /\ Len(SubSeq(text, 1, a)) = a
           /\ SubSeq(text, 1, h) \in Seq(Chars) /\ SubSeq(text, h + 1, a) \in Seq(Chars)
  <1> DEFINE authority == SubSeq(text, 1, a)
             host == SubSeq(text, 1, h)
             port == SubSeq(text, h + 1, a)
  <1>1. Len(text) \in Nat /\ a \in Nat /\ h \in Nat /\ a <= Len(text) /\ h <= a
        /\ h + 1 \in Nat /\ h + 1 >= 1 /\ 1 \in Nat /\ 1 >= 1 /\ h \in 0 .. Len(text)
    BY LenProperties
  <1>2. authority \in Seq(Chars) /\ Len(authority) = a
    BY Beginning
  <1>3. host \in Seq(Chars) /\ port \in Seq(Chars)
    BY <1>1, Beginning, Part
  <1>4. HostOf(authority) = host
    <2>1. SubSeq(authority, 1, h) = host
      BY <1>1, PartOfBeginning
    <2> QED
      BY <2>1 DEF HostOf
  <1>5. AfterHost(authority) = port
    <2>1. SubSeq(authority, h + 1, a) = port
      BY <1>1, PartOfBeginning
    <2>2. AfterHost(authority) = SubSeq(authority, h + 1, Len(authority))
      BY DEF AfterHost, From
    <2> QED
      BY <1>2, <2>1, <2>2
  <1> QED
    BY <1>2, <1>3, <1>4, <1>5

\* When it is valid.
LEMMA SplitAuthority ==
    ASSUME NEW text \in Seq(Chars), NEW a \in 0 .. Len(text), NEW h \in 0 .. a,
           HostLength(SubSeq(text, 1, a)) = h
    PROVE  LET authority == SubSeq(text, 1, a)
               host == SubSeq(text, 1, h)
               port == SubSeq(text, h + 1, a)
           IN  AuthorityIsValid(authority) <=>
                 /\ authority # <<>>
                 /\ ~ Contains(authority, "@")
                 /\ IF authority[1] = "[" THEN NamesAddress(host) ELSE NamesHost(host)
                 /\ port # <<>> =>
                      /\ port[1] = ":" /\ Len(port) > 1
                      /\ ToSet(Tail(port)) \subseteq ToSet(Digits)
                      /\ Number(Tail(port)) \in 1 .. MaxPort
  <1> DEFINE authority == SubSeq(text, 1, a)
             host == SubSeq(text, 1, h)
             port == SubSeq(text, h + 1, a)
  <1>1. a \in Nat /\ h <= a
    BY LenProperties
  <1>2. /\ HostOf(authority) = host /\ AfterHost(authority) = port
        /\ Len(authority) = a /\ host \in Seq(Chars) /\ port \in Seq(Chars)
    BY AuthorityParts
  <1>3. HostLength(authority) <= Len(authority)
    BY <1>1, <1>2
  <1>4. /\ IsBracketedIpv6(host) <=> NamesAddress(host)
        /\ IsHostName(host) <=> NamesHost(host)
    BY <1>2, Addresses, HostNames
  <1>5. port # <<>> =>
          (IsPort(From(port, 1)) <=>
             /\ Len(port) > 1 /\ ToSet(Tail(port)) \subseteq ToSet(Digits)
             /\ Number(Tail(port)) \in 1 .. MaxPort)
    BY <1>2, PortTexts
  <1> HIDE DEF authority, host, port
  <1>6. AuthorityIsValid(authority) <=>
          /\ authority # <<>>
          /\ ~ Contains(authority, "@")
          /\ IF authority[1] = "[" THEN NamesAddress(host) ELSE NamesHost(host)
          /\ port = <<>> \/ (port[1] = ":" /\ IsPort(From(port, 1)))
    BY <1>2, <1>3, <1>4 DEF AuthorityIsValid
  <1>7. AuthorityIsValid(authority) <=>
           /\ authority # <<>>
           /\ ~ Contains(authority, "@")
           /\ IF authority[1] = "[" THEN NamesAddress(host) ELSE NamesHost(host)
           /\ port # <<>> =>
                /\ port[1] = ":" /\ Len(port) > 1
                /\ ToSet(Tail(port)) \subseteq ToSet(Digits)
                /\ Number(Tail(port)) \in 1 .. MaxPort
    BY <1>5, <1>6
  <1> QED
    BY <1>7 DEF authority, host, port

\* The texts of the endpoints of Endpoints.
LEMMA RestType ==
    ASSUME NEW e \in Endpoints
    PROVE  e.rest \in Seq(Chars) /\ Len(e.rest) \in Nat
  BY LenProperties DEF Endpoints, Chars

\* The parser takes nothing that is not an endpoint.
LEMMA ParsedIsUrl ==
    ASSUME NEW e \in Endpoints, EndpointIsValid(e, config.maxEndpointBytes)
    PROVE  IsEndpointUrl(e)
  <1> DEFINE text == e.rest
  <1>1. text \in Seq(Chars) /\ Len(text) \in Nat
    BY RestType
  <1>2. /\ e.https /\ SchemeLength + Len(text) <= config.maxEndpointBytes
        /\ ~ Contains(text, "#") /\ AuthorityIsValid(Before(text, {"/"}))
    BY DEF EndpointIsValid, Authority
  <1>3. "#" \notin ToSet(text)
    BY <1>1, <1>2, LenProperties DEF Contains, ToSet
  <1> HIDE DEF text
  <1>4. PICK a \in 0 .. Len(text) :
          /\ Before(text, {"/"}) = SubSeq(text, 1, a)
          /\ \A i \in 1 .. a : text[i] \notin {"/"}
          /\ a < Len(text) => text[a + 1] \in {"/"}
    BY <1>1, BeforeExists
  <1> DEFINE authority == SubSeq(text, 1, a)
             h == HostLength(authority)
             host == SubSeq(text, 1, h)
             port == SubSeq(text, h + 1, a)
  <1>5. authority \in Seq(Chars) /\ Len(authority) = a /\ a \in Nat
    BY <1>1, Beginning
  <1>6. AuthorityIsValid(authority)
    BY <1>2, <1>4
  <1>7. h \in 0 .. a
    <2>1. h <= a
      BY <1>5, <1>6 DEF AuthorityIsValid
    <2>2. h \in Nat
      <3> HIDE DEF authority
      <3>1. \A C : Len(Before(authority, C)) \in Nat
        <4> TAKE C
        <4>1. PICK n \in 0 .. Len(authority) : Before(authority, C) = SubSeq(authority, 1, n)
          BY <1>5, BeforeExists
        <4>2. Len(SubSeq(authority, 1, n)) = n
          BY <1>5, Beginning
        <4> QED
          BY <1>5, <4>1, <4>2
      <3> QED
        BY <3>1 DEF HostLength
    <2> QED
      BY <1>5, <2>1, <2>2
  <1>8. /\ IF authority[1] = "[" THEN NamesAddress(host) ELSE NamesHost(host)
        /\ port # <<>> =>
             /\ port[1] = ":" /\ Len(port) > 1
             /\ ToSet(Tail(port)) \subseteq ToSet(Digits)
             /\ Number(Tail(port)) \in 1 .. MaxPort
    BY <1>1, <1>6, <1>7, SplitAuthority
  <1>9. h <= a
    BY <1>5, <1>7
  <1>10. IsSplit(text, h, a)
    <2> HIDE DEF h, host, port, authority
    <2>1. NamesHost(host) \/ NamesAddress(host)
      BY <1>8
    <2>2. a < Len(text) => text[a + 1] = "/"
      BY <1>4
    <2> QED
      BY <1>8, <1>9, <2>1, <2>2 DEF IsSplit, host, port
  <1>11. <<h, a>> \in Splits(text)
    <2>1. h \in 0 .. Len(text)
      BY <1>1, <1>5, <1>7
    <2> HIDE DEF h
    <2> QED
      BY <1>10, <2>1 DEF Splits
  <1> QED
    BY <1>2, <1>3, <1>11 DEF IsEndpointUrl, text

\* The host names and addresses have none of the characters that end a host.
LEMMA HostCharacters ==
    ASSUME NEW host \in Seq(Chars), NamesHost(host) \/ NamesAddress(host)
    PROVE  /\ Len(host) \in Nat /\ Len(host) >= 1
           /\ \A i \in 1 .. Len(host) : host[i] \notin {"/", "@"}
           /\ NamesHost(host) =>
                /\ host[1] # "["
                /\ \A i \in 1 .. Len(host) : host[i] # ":"
           /\ NamesAddress(host) =>
                /\ host[1] = "[" /\ host[Len(host)] = "]"
                /\ \A i \in 1 .. (Len(host) - 1) : host[i] # "]"
  <1> DEFINE n == Len(host)
  <1>1. n \in Nat /\ Alphanumeric \cap Punctuation = {}
    BY LenProperties, PunctuationIsNoLetter
  <1>2. ASSUME NamesHost(host)
        PROVE  /\ n >= 1 /\ host[1] # "["
               /\ \A i \in 1 .. n : host[i] \notin {"/", "@", ":"}
    <2>1. /\ n \in 1 .. MaxHost /\ MaxHost \in Nat
          /\ ToSet(host) \subseteq Alphanumeric \cup {"-", "."}
          /\ host[1] \in Alphanumeric
      BY <1>2, LimitsAssumption DEF NamesHost
    <2>2. \A i \in 1 .. n : host[i] \in Alphanumeric \cup {"-", "."}
      BY <2>1, LenProperties DEF ToSet
    <2>3. "[" \notin Alphanumeric /\ "/" \notin Alphanumeric /\ "@" \notin Alphanumeric
          /\ ":" \notin Alphanumeric
      BY <1>1 DEF Punctuation
    <2>4. n >= 1
      BY <2>1
    <2> QED
      BY <2>1, <2>2, <2>3, <2>4
  <1>3. ASSUME NamesAddress(host)
        PROVE  /\ n >= 2 /\ host[1] = "[" /\ host[n] = "]"
               /\ \A i \in 1 .. (n - 1) : host[i] # "]"
               /\ \A i \in 1 .. n : host[i] \notin {"/", "@"}
    <2>1. PICK x \in Ipv6Texts : host = <<"[">> \o x \o <<"]">>
      BY <1>3 DEF NamesAddress
    <2>2. /\ x \in Seq(Chars) /\ Len(x) \in Nat
          /\ \A i \in 1 .. Len(x) : x[i] \in Alphanumeric \cup {":", "."}
      BY AddressTexts
    <2>3. /\ n = Len(x) + 2 /\ host[1] = "[" /\ host[Len(x) + 2] = "]"
          /\ \A i \in 1 .. Len(x) : host[i + 1] = x[i]
      BY <2>1, <2>2, InBrackets
    <2>4. "]" \notin Alphanumeric /\ "/" \notin Alphanumeric /\ "@" \notin Alphanumeric
      BY <1>1 DEF Punctuation
    <2>5. ASSUME NEW i \in 1 .. n, i # 1, i # n
          PROVE  host[i] \notin {"]", "/", "@"}
      <3>1. i - 1 \in 1 .. Len(x) /\ (i - 1) + 1 = i
        BY <1>1, <2>2, <2>3, <2>5
      <3>2. host[(i - 1) + 1] = x[i - 1] /\ x[i - 1] \in Alphanumeric \cup {":", "."}
        BY <2>2, <2>3, <3>1
      <3>3. host[i] \in Alphanumeric \cup {":", "."}
        BY <3>1, <3>2
      <3> QED
        BY <2>4, <3>3
    <2>6. n >= 2
      BY <2>2, <2>3
    <2>7. \A i \in 1 .. (n - 1) : i \in 1 .. n /\ i # n
      BY <1>1
    <2>8. \A i \in 1 .. n : host[i] \notin {"/", "@"}
      BY <2>3, <2>5
    <2>9. \A i \in 1 .. (n - 1) : host[i] # "]"
      BY <2>3, <2>5, <2>7
    <2> QED
      BY <2>3, <2>6, <2>8, <2>9
  <1> QED
    BY <1>1, <1>2, <1>3

\* A colon and digits have none of the characters that end an authority.
LEMMA PortCharacters ==
    ASSUME NEW port \in Seq(Chars), port # <<>>, port[1] = ":",
           ToSet(Tail(port)) \subseteq ToSet(Digits)
    PROVE  \A i \in 1 .. Len(port) : port[i] \notin {"/", "@"}
  <1>1. /\ Tail(port) \in Seq(Chars) /\ Len(Tail(port)) = Len(port) - 1
        /\ Len(port) \in Nat
        /\ \A i \in 1 .. Len(Tail(port)) : Tail(port)[i] = port[i + 1]
    BY HeadTailProperties, LenProperties
  <1>2. \A i \in 1 .. Len(Tail(port)) : Tail(port)[i] \in ToSet(Digits)
    BY <1>1, LenProperties DEF ToSet
  <1>3. "/" \notin ToSet(Digits) /\ "@" \notin ToSet(Digits)
    BY PunctuationIsNoLetter DEF Alphanumeric, Punctuation
  <1>4. ASSUME NEW i \in 1 .. Len(port), i # 1
        PROVE  port[i] \in ToSet(Digits)
    <2>1. i - 1 \in 1 .. Len(Tail(port)) /\ (i - 1) + 1 = i
      BY <1>1, <1>4
    <2> QED
      BY <1>1, <1>2, <2>1
  <1> QED
    BY <1>3, <1>4

\* The parser finds the host and the authority that the documents speak of.
LEMMA SplitIsParsed ==
    ASSUME NEW text \in Seq(Chars), NEW h \in 0 .. Len(text), NEW a \in 0 .. Len(text),
           IsSplit(text, h, a)
    PROVE  /\ h \in 0 .. a
           /\ Before(text, {"/"}) = SubSeq(text, 1, a)
           /\ HostLength(SubSeq(text, 1, a)) = h
           /\ AuthorityIsValid(SubSeq(text, 1, a))
  <1> DEFINE authority == SubSeq(text, 1, a)
             host == SubSeq(text, 1, h)
             port == SubSeq(text, h + 1, a)
  <1>1. /\ h <= a
        /\ NamesHost(host) \/ NamesAddress(host)
        /\ port # <<>> =>
             /\ port[1] = ":" /\ Len(port) > 1
             /\ ToSet(Tail(port)) \subseteq ToSet(Digits)
             /\ Number(Tail(port)) \in 1 .. MaxPort
        /\ a < Len(text) => text[a + 1] = "/"
    BY DEF IsSplit
  <1>2. h \in Nat /\ a \in Nat /\ h \in 0 .. a /\ a <= Len(text) /\ h <= Len(text)
    BY LenProperties, <1>1
  <1>3. /\ host \in Seq(Chars) /\ Len(host) = h /\ \A i \in 1 .. h : host[i] = text[i]
        /\ authority \in Seq(Chars) /\ Len(authority) = a
        /\ \A i \in 1 .. a : authority[i] = text[i]
    BY Beginning
  <1>4. /\ port \in Seq(Chars)
        /\ Len(port) = a - h
        /\ \A i \in 1 .. (a - h) : port[i] = text[h + i]
    <2>1. /\ port \in Seq(Chars)
          /\ Len(port) = IF h + 1 <= a THEN a - (h + 1) + 1 ELSE 0
          /\ \A i \in 1 .. (a - (h + 1) + 1) : port[i] = text[(h + 1) + i - 1]
      <3>1. h + 1 \in Nat /\ h + 1 >= 1
        BY <1>2
      <3> QED
        BY <1>2, <3>1, Part
    <2> HIDE DEF port
    <2>2. a - (h + 1) + 1 = a - h /\ (~ (h + 1 <= a) => a - h = 0)
          /\ \A i \in 1 .. (a - h) : (h + 1) + i - 1 = h + i
      BY <1>2
    <2> QED
      BY <2>1, <2>2
  <1> HIDE DEF authority, host, port
  <1>5. /\ h >= 1
        /\ \A i \in 1 .. h : host[i] \notin {"/", "@"}
        /\ NamesHost(host) => host[1] # "[" /\ \A i \in 1 .. h : host[i] # ":"
        /\ NamesAddress(host) =>
             /\ host[1] = "[" /\ host[h] = "]"
             /\ \A i \in 1 .. (h - 1) : host[i] # "]"
    BY <1>1, <1>3, HostCharacters
  <1>6. port = <<>> <=> a = h
    <2>1. port = <<>> => Len(port) = 0
      BY EmptySeq
    <2>2. port # <<>> => Len(port) # 0
      BY <1>4, EmptySeq
    <2> QED
      BY <1>2, <1>4, <2>1, <2>2
  <1>7. \A i \in 1 .. a : text[i] \notin {"/", "@"}
    <2> TAKE i \in 1 .. a
    <2>1. CASE i <= h
      <3>1. i \in 1 .. h
        BY <1>2, <2>1
      <3> QED
        BY <1>3, <1>5, <3>1
    <2>2. CASE h < i
      <3>1. i - h \in 1 .. (a - h) /\ h + (i - h) = i /\ a # h
        BY <1>2, <2>2
      <3>2. port # <<>>
        BY <1>6, <3>1
      <3>3. \A j \in 1 .. Len(port) : port[j] \notin {"/", "@"}
        BY <1>1, <1>4, <3>2, PortCharacters
      <3>4. port[i - h] = text[h + (i - h)]
        BY <1>4, <3>1
      <3> QED
        BY <1>4, <3>1, <3>3, <3>4
    <2> QED
      BY <1>2, <2>1, <2>2
  <1>8. Before(text, {"/"}) = authority
    <2>1. a < Len(text) => text[a + 1] \in {"/"}
      BY <1>1
    <2>2. \A i \in 1 .. a : text[i] \notin {"/"}
      BY <1>7
    <2> QED
      BY <2>1, <2>2, BeforeIs DEF authority
  <1>9. ~ Contains(authority, "@")
    BY <1>3, <1>7 DEF Contains
  <1>10. authority # <<>> /\ authority[1] = host[1]
    <2>1. Len(authority) # 0 /\ 1 \in 1 .. h /\ 1 \in 1 .. a
      BY <1>2, <1>3, <1>5
    <2> QED
      BY <1>3, <2>1, EmptySeq
  <1>11. HostLength(authority) = h
    <2>1. CASE NamesHost(host)
      <3>1. \A i \in 1 .. h : authority[i] \notin {":"}
        <4> TAKE i \in 1 .. h
        <4>1. i \in 1 .. a
          BY <1>2
        <4> QED
          BY <1>3, <1>5, <2>1, <4>1
      <3>2. h < a => authority[h + 1] \in {":"}
        <4> HAVE h < a
        <4>1. 1 \in 1 .. (a - h) /\ h + 1 \in 1 .. a /\ a # h
          BY <1>2
        <4> QED
          BY <1>1, <1>3, <1>4, <1>6, <4>1
      <3>3. h \in 0 .. Len(authority)
        BY <1>2, <1>3
      <3>4. Before(authority, {":"}) = SubSeq(authority, 1, h)
        BY <1>3, <3>1, <3>2, <3>3, BeforeIs
      <3>5. Len(SubSeq(authority, 1, h)) = h
        BY <1>3, <3>3, Beginning
      <3>6. authority[1] # "["
        BY <1>5, <1>10, <2>1
      <3> QED
        BY <3>4, <3>5, <3>6 DEF HostLength
    <2>2. CASE NamesAddress(host)
      <3>1. \A i \in 1 .. (h - 1) : authority[i] \notin {"]"}
        <4> TAKE i \in 1 .. (h - 1)
        <4>1. i \in 1 .. a /\ i \in 1 .. h
          BY <1>2
        <4> QED
          BY <1>3, <1>5, <2>2, <4>1
      <3>2. authority[(h - 1) + 1] \in {"]"}
        <4>1. (h - 1) + 1 = h /\ h \in 1 .. h /\ h \in 1 .. a
          BY <1>2, <1>5
        <4> QED
          BY <1>3, <1>5, <2>2, <4>1
      <3>3. h - 1 \in 0 .. Len(authority)
        BY <1>2, <1>3, <1>5
      <3>4. Before(authority, {"]"}) = SubSeq(authority, 1, h - 1)
        BY <1>3, <3>1, <3>2, <3>3, BeforeIs
      <3>5. Len(SubSeq(authority, 1, h - 1)) = h - 1
        BY <1>3, <3>3, Beginning
      <3>6. authority[1] = "["
        BY <1>5, <1>10, <2>2
      <3>7. HostLength(authority) = (h - 1) + 1
        BY <3>4, <3>5, <3>6 DEF HostLength
      <3> QED
        BY <1>2, <3>7
    <2> QED
      BY <1>1, <2>1, <2>2
  <1>12. IF authority[1] = "[" THEN NamesAddress(host) ELSE NamesHost(host)
    BY <1>1, <1>5, <1>10
  <1>13. AuthorityIsValid(authority)
    <2>1. HostLength(SubSeq(text, 1, a)) = h
      BY <1>11 DEF authority
    <2>2. AuthorityIsValid(authority) <=>
            /\ authority # <<>>
            /\ ~ Contains(authority, "@")
            /\ IF authority[1] = "[" THEN NamesAddress(host) ELSE NamesHost(host)
            /\ port # <<>> =>
                 /\ port[1] = ":" /\ Len(port) > 1
                 /\ ToSet(Tail(port)) \subseteq ToSet(Digits)
                 /\ Number(Tail(port)) \in 1 .. MaxPort
      BY <1>2, <2>1, SplitAuthority DEF authority, host, port
    <2> QED
      BY <1>1, <1>9, <1>10, <1>12, <2>2
  <1> QED
    BY <1>2, <1>8, <1>11, <1>13 DEF authority

\* The parser takes every endpoint.
LEMMA UrlIsParsed ==
    ASSUME NEW e \in Endpoints, IsEndpointUrl(e)
    PROVE  EndpointIsValid(e, config.maxEndpointBytes)
  <1> DEFINE text == e.rest
  <1>1. text \in Seq(Chars) /\ Len(text) \in Nat
    BY RestType
  <1>2. /\ e.https /\ SchemeLength + Len(text) <= config.maxEndpointBytes
        /\ "#" \notin ToSet(text) /\ Splits(text) # {}
    BY DEF IsEndpointUrl
  <1>3. ~ Contains(text, "#")
    BY <1>1, <1>2, LenProperties DEF Contains, ToSet
  <1> HIDE DEF text
  <1>4. PICK h \in 0 .. Len(text), a \in 0 .. Len(text) : IsSplit(text, h, a)
    BY <1>2 DEF Splits
  <1>5. AuthorityIsValid(Before(text, {"/"}))
    BY <1>1, <1>4, SplitIsParsed
  <1> QED
    BY <1>2, <1>3, <1>5 DEF EndpointIsValid, Authority, text

\* send() takes the subscriptions and nothing else.
LEMMA SubscriptionsAreTaken ==
    ASSUME NEW p \in SendArguments
    PROVE  IsSubscription(p) <=>
             /\ EndpointIsValid(p.endpoint, config.maxEndpointBytes)
             /\ IsPublicKey(p.p256dh, p.uncompressed) /\ IsAuthSecret(p.auth)
  <1>1. /\ p.endpoint \in Endpoints /\ p.p256dh \in KeyTexts /\ p.auth \in KeyTexts
        /\ p.uncompressed \in BOOLEAN
    BY DEF SendArguments
  <1>2. EndpointIsValid(p.endpoint, config.maxEndpointBytes) <=> IsEndpointUrl(p.endpoint)
    BY <1>1, ParsedIsUrl, UrlIsParsed
  <1>3. /\ IsPublicKey(p.p256dh, p.uncompressed) <=>
             EncodesBytes(p.p256dh, 65) /\ p.uncompressed
        /\ IsAuthSecret(p.auth) <=> EncodesBytes(p.auth, 16)
    BY <1>1, KeysAreEncoded
  <1> QED
    BY <1>2, <1>3 DEF IsSubscription

-----------------------------------------------------------------------------
(* Origins *)

\* The characters of an origin.
OriginChars == (Alphanumeric \ DOMAIN Lowercase) \cup {"-", ".", ":", "[", "]"}

\* What appendLowerAscii() makes of a host.
LEMMA LoweredHost ==
    ASSUME NEW host \in Seq(Chars), NamesHost(host) \/ NamesAddress(host)
    PROVE  /\ Lower(host) \in Seq(OriginChars)
           /\ Len(Lower(host)) = Len(host)
           /\ \A i \in 1 .. Len(host) :
                Lower(host)[i] = IF host[i] = "A" THEN "a" ELSE host[i]
  <1> DEFINE n == Len(host)
  <1>1. n \in Nat /\ DOMAIN host = 1 .. n
    BY LenProperties
  <1>2. DOMAIN Lowercase = {"A"} /\ Lowercase["A"] = "a"
    BY DEF Lowercase
  <1>3. \A i \in 1 .. n : host[i] \in Alphanumeric \cup {"-", ".", ":", "[", "]"}
    <2>1. CASE NamesHost(host)
      <3>1. ToSet(host) \subseteq Alphanumeric \cup {"-", "."}
        BY <2>1 DEF NamesHost
      <3> QED
        BY <1>1, <3>1 DEF ToSet
    <2>2. CASE NamesAddress(host)
      <3>1. PICK x \in Ipv6Texts : host = <<"[">> \o x \o <<"]">>
        BY <2>2 DEF NamesAddress
      <3>2. /\ x \in Seq(Chars) /\ Len(x) \in Nat
            /\ \A i \in 1 .. Len(x) : x[i] \in Alphanumeric \cup {":", "."}
        BY AddressTexts
      <3>3. /\ n = Len(x) + 2 /\ host[1] = "[" /\ host[Len(x) + 2] = "]"
            /\ \A i \in 1 .. Len(x) : host[i + 1] = x[i]
        BY <3>1, <3>2, InBrackets
      <3> TAKE i \in 1 .. n
      <3>4. CASE i = 1 \/ i = n
        BY <3>3, <3>4
      <3>5. CASE i # 1 /\ i # n
        <4>1. i - 1 \in 1 .. Len(x) /\ (i - 1) + 1 = i
          BY <1>1, <3>2, <3>3, <3>5
        <4>2. host[(i - 1) + 1] = x[i - 1] /\ x[i - 1] \in Alphanumeric \cup {":", "."}
          BY <3>2, <3>3, <4>1
        <4>3. host[i] \in Alphanumeric \cup {":", "."}
          BY <4>1, <4>2
        <4> QED
          BY <4>3
      <3> QED
        BY <3>4, <3>5
    <2> QED
      BY <2>1, <2>2
  <1>4. Lower(host) = [i \in 1 .. n |-> IF host[i] = "A" THEN "a" ELSE host[i]]
    BY <1>1, <1>2 DEF Lower
  <1>5. \A i \in 1 .. n : (IF host[i] = "A" THEN "a" ELSE host[i]) \in OriginChars
    <2>1. "a" \in Alphanumeric /\ "a" # "A"
      BY DEF Alphanumeric
    <2> QED
      BY <1>2, <1>3, <2>1 DEF OriginChars
  <1> HIDE DEF n
  <1>6. Lower(host) \in Seq(OriginChars)
    BY <1>1, <1>4, <1>5, IsASeq
  <1>7. Len(Lower(host)) = n
    BY <1>1, <1>4, <1>6, LenProperties
  <1>8. \A i \in 1 .. n : Lower(host)[i] = IF host[i] = "A" THEN "a" ELSE host[i]
    BY <1>4
  <1> QED
    BY <1>6, <1>7, <1>8 DEF n

\* The text of a port stands after the colon.
LEMMA AfterColon ==
    ASSUME NEW text \in Seq(Chars), NEW a \in 0 .. Len(text), NEW h \in 0 .. a
    PROVE  LET after == SubSeq(text, h + 1, a)
               port == SubSeq(text, h + 2, a)
           IN  /\ From(after, 1) = port
               /\ port # <<>> => after # <<>> /\ Tail(after) = port
               /\ Len(after) > 1 => port # <<>>
  <1> DEFINE after == SubSeq(text, h + 1, a)
             port == SubSeq(text, h + 2, a)
  <1>1. Len(text) \in Nat /\ a \in Nat /\ h \in Nat /\ h <= a /\ a <= Len(text)
    BY LenProperties
  <1>2. /\ after \in Seq(Chars)
        /\ Len(after) = IF h + 1 <= a THEN a - (h + 1) + 1 ELSE 0
        /\ \A i \in 1 .. (a - (h + 1) + 1) : after[i] = text[(h + 1) + i - 1]
    <2>1. h + 1 \in Nat /\ h + 1 >= 1
      BY <1>1
    <2> QED
      BY <1>1, <2>1, Part
  <1>3. /\ port \in Seq(Chars)
        /\ Len(port) = IF h + 2 <= a THEN a - (h + 2) + 1 ELSE 0
        /\ \A i \in 1 .. (a - (h + 2) + 1) : port[i] = text[(h + 2) + i - 1]
    <2>1. h + 2 \in Nat /\ h + 2 >= 1
      BY <1>1
    <2> QED
      BY <1>1, <2>1, Part
  <1> HIDE DEF after, port
  <1>4. From(after, 1) = port
    <2> DEFINE l == Len(after)
    <2>1. l \in Nat /\ (h + 1 <= a => l = a - h) /\ (~ (h + 1 <= a) => l = 0)
      BY <1>1, <1>2
    <2>2. /\ From(after, 1) \in Seq(Chars)
          /\ Len(From(after, 1)) = IF 2 <= l THEN l - 2 + 1 ELSE 0
          /\ \A i \in 1 .. (l - 2 + 1) : From(after, 1)[i] = after[2 + i - 1]
      <3>1. 1 + 1 = 2 /\ 2 \in Nat /\ 2 >= 1 /\ l <= Len(after)
        BY <2>1
      <3>2. From(after, 1) = SubSeq(after, 2, l)
        BY <3>1 DEF From
      <3> HIDE DEF l
      <3>3. /\ SubSeq(after, 2, l) \in Seq(Chars)
            /\ Len(SubSeq(after, 2, l)) = IF 2 <= l THEN l - 2 + 1 ELSE 0
            /\ \A i \in 1 .. (l - 2 + 1) : SubSeq(after, 2, l)[i] = after[2 + i - 1]
        <4>1. after \in Seq(Chars) /\ l \in Nat
          BY <1>2, <2>1
        <4> QED
          BY ONLY <3>1, <4>1, Part
      <3> QED
        BY <3>2, <3>3
    <2> HIDE DEF l
    <2>3. Len(From(after, 1)) = Len(port)
      BY <1>1, <1>3, <2>1, <2>2
    <2>4. ASSUME NEW i \in 1 .. Len(port) PROVE From(after, 1)[i] = port[i]
      <3>1. /\ i \in 1 .. (l - 2 + 1) /\ 2 + i - 1 \in 1 .. (a - (h + 1) + 1)
            /\ i \in 1 .. (a - (h + 2) + 1)
            /\ (h + 1) + (2 + i - 1) - 1 = (h + 2) + i - 1
        BY <1>1, <1>3, <2>1
      <3>2. /\ From(after, 1)[i] = after[2 + i - 1]
            /\ after[2 + i - 1] = text[(h + 1) + (2 + i - 1) - 1]
            /\ port[i] = text[(h + 2) + i - 1]
        BY <1>2, <1>3, <2>2, <3>1
      <3> QED
        BY <3>1, <3>2
    <2> QED
      BY <1>3, <2>2, <2>3, <2>4, SeqEqual
  <1>5. after = <<>> <=> Len(after) = 0
    BY <1>2, EmptySeq
  <1>6. port = <<>> <=> Len(port) = 0
    BY <1>3, EmptySeq
  <1>7. /\ Len(port) # 0 => Len(after) # 0
        /\ Len(after) > 1 => Len(port) # 0
    BY <1>1, <1>2, <1>3
  <1>8. after # <<>> => Tail(after) = From(after, 1)
    <2>1. From(after, 1) = SubSeq(after, 2, Len(after))
      BY DEF From
    <2> QED
      BY <1>2, <2>1, TailIsSubSeq
  <1>9. /\ From(after, 1) = port
        /\ port # <<>> => after # <<>> /\ Tail(after) = port
        /\ Len(after) > 1 => port # <<>>
    BY <1>4, <1>5, <1>6, <1>7, <1>8
  <1> QED
    BY <1>9 DEF after, port

\* What the parser appends to the host: nothing, or the port in digits.
LEMMA SuffixIsPort ==
    ASSUME NEW text \in Seq(Chars), NEW a \in 0 .. Len(text), NEW h \in 0 .. a,
           IsSplit(text, h, a)
    PROVE  LET port == SubSeq(text, h + 2, a)
           IN  PortSuffix(SubSeq(text, 1, a)) =
                 IF port = <<>> \/ Number(port) = DefaultPort
                 THEN <<>> ELSE <<":">> \o PortText(Number(port))
  <1> DEFINE authority == SubSeq(text, 1, a)
             after == SubSeq(text, h + 1, a)
             port == SubSeq(text, h + 2, a)
  <1>1. Len(text) \in Nat /\ a \in Nat /\ h \in Nat /\ h <= a /\ a <= Len(text)
        /\ h \in 0 .. Len(text)
    BY LenProperties
  <1>2. AfterHost(authority) = after
    BY <1>1, SplitIsParsed, AuthorityParts
  <1>3. after # <<>> => Len(after) > 1
    BY DEF IsSplit
  <1>4. /\ From(after, 1) = port
        /\ port # <<>> => after # <<>>
        /\ Len(after) > 1 => port # <<>>
    BY AfterColon
  <1> HIDE DEF authority, after, port
  <1>5. PortSuffix(authority) =
          IF port = <<>> \/ Number(port) = DefaultPort
          THEN <<>> ELSE <<":">> \o PortText(Number(port))
    BY <1>2, <1>3, <1>4 DEF PortSuffix
  <1> QED
    BY <1>5 DEF authority, port

\* A port after its colon.
LEMMA ColonAndPort ==
    ASSUME NEW n \in Nat \ {0}
    PROVE  LET suffix == <<":">> \o PortText(n)
           IN  /\ suffix \in Seq(OriginChars) /\ suffix # <<>>
               /\ suffix[1] = ":" /\ suffix[2] # "0" /\ Number(Tail(suffix)) = n
  <1> DEFINE text == PortText(n)
             colon == <<":">>
             suffix == colon \o text
             S == ToSet(Digits) \cup {":"}
  <1>1. /\ text \in Seq(ToSet(Digits)) /\ text # <<>>
        /\ Number(text) = n /\ text[1] # "0"
    BY PortTextDenotes DEF Denotes
  <1>2. S \subseteq OriginChars /\ ToSet(Digits) \subseteq S
    <2>1. "A" \notin ToSet(Digits)
      <3>1. ToSet(Digits) = {"0", "1", "2", "3", "4", "5", "6", "7", "8", "9"}
        BY DEF ToSet, Digits
      <3> QED
        BY <3>1
    <2>2. DOMAIN Lowercase = {"A"}
      BY DEF Lowercase
    <2> QED
      BY <2>1, <2>2 DEF OriginChars, Alphanumeric
  <1>3. colon \in Seq(S) /\ Len(colon) = 1 /\ colon[1] = ":"
    OBVIOUS
  <1> HIDE DEF text, colon, S
  <1>4. text \in Seq(S) /\ Len(text) \in Nat \ {0}
    BY <1>1, <1>2, SeqMonotonic, EmptySeq, LenProperties
  <1>5. /\ suffix \in Seq(S) /\ Len(suffix) = 1 + Len(text)
        /\ \A i \in 1 .. (1 + Len(text)) :
             suffix[i] = IF i <= 1 THEN colon[i] ELSE text[i - 1]
    BY <1>3, <1>4, ConcatProperties
  <1> HIDE DEF suffix
  <1>6. suffix # <<>> /\ suffix[1] = ":" /\ suffix[2] = text[1]
    <2>1. 1 \in 1 .. (1 + Len(text)) /\ 2 \in 1 .. (1 + Len(text)) /\ 1 + Len(text) # 0
      BY <1>4
    <2>2. suffix # <<>>
      BY <1>5, <2>1, EmptySeq
    <2> QED
      BY <1>3, <1>5, <2>1, <2>2
  <1>7. Tail(suffix) = text
    <2>1. /\ Tail(suffix) \in Seq(S) /\ Len(Tail(suffix)) = Len(suffix) - 1
          /\ \A i \in 1 .. Len(Tail(suffix)) : Tail(suffix)[i] = suffix[i + 1]
      BY <1>5, <1>6, HeadTailProperties
    <2>2. Len(Tail(suffix)) = Len(text)
      BY <1>4, <1>5, <2>1
    <2>3. ASSUME NEW i \in 1 .. Len(text) PROVE Tail(suffix)[i] = text[i]
      <3>1. i + 1 \in 1 .. (1 + Len(text)) /\ ~ (i + 1 <= 1) /\ (i + 1) - 1 = i
        BY <1>4
      <3>2. suffix[i + 1] = text[(i + 1) - 1]
        BY <1>5, <3>1
      <3> QED
        BY <2>1, <2>2, <3>1, <3>2
    <2> QED
      BY <1>4, <2>1, <2>2, <2>3, SeqEqual
  <1>8. suffix \in Seq(OriginChars)
    BY <1>2, <1>5, SeqMonotonic
  <1>9. /\ suffix \in Seq(OriginChars) /\ suffix # <<>>
        /\ suffix[1] = ":" /\ suffix[2] # "0" /\ Number(Tail(suffix)) = n
    BY <1>1, <1>6, <1>7, <1>8
  <1> QED
    BY <1>9 DEF suffix, colon, text

\* The origin of an endpoint, in terms of any split of it that the documents
\* allow.
LEMMA OriginOfSplit ==
    ASSUME NEW e \in Endpoints,
           NEW h \in 0 .. Len(e.rest), NEW a \in 0 .. Len(e.rest), IsSplit(e.rest, h, a)
    PROVE  LET host == SubSeq(e.rest, 1, h)
               port == SubSeq(e.rest, h + 2, a)
               origin0 == Origin(e)
               suffix == From(origin0, h)
           IN  /\ origin0 \in Seq(OriginChars) /\ Len(origin0) >= h
               /\ \A i \in 1 .. h : origin0[i] = IF host[i] = "A" THEN "a" ELSE host[i]
               /\ IF port = <<>> \/ Number(port) = DefaultPort
                  THEN suffix = <<>>
                  ELSE suffix = <<":">> \o PortText(Number(port)) /\ Number(port) \in Nat \ {0}
  <1> DEFINE text == e.rest
  <1>1. text \in Seq(Chars) /\ Len(text) \in Nat
    BY RestType
  <1> DEFINE authority == SubSeq(text, 1, a)
             host == SubSeq(text, 1, h)
             port == SubSeq(text, h + 2, a)
             lower == Lower(host)
             suffix == PortSuffix(authority)
  <1>2. Authority(e) = Before(text, {"/"})
    BY DEF Authority
  <1> HIDE DEF text
  <1>3. IsSplit(text, h, a) /\ h \in 0 .. Len(text) /\ a \in 0 .. Len(text)
    BY DEF text
  <1>4. h \in 0 .. a /\ Authority(e) = authority /\ HostLength(authority) = h
    BY <1>1, <1>2, <1>3, SplitIsParsed
  <1>5. HostOf(authority) = host
    BY <1>1, <1>3, <1>4, AuthorityParts
  <1>6. host \in Seq(Chars) /\ Len(host) = h /\ h \in Nat /\ h <= Len(text)
    BY <1>1, <1>3, Beginning
  <1>7. NamesHost(host) \/ NamesAddress(host)
    BY <1>3 DEF IsSplit
  <1>8. /\ lower \in Seq(OriginChars) /\ Len(lower) = h
        /\ \A i \in 1 .. h : lower[i] = IF host[i] = "A" THEN "a" ELSE host[i]
    BY <1>6, <1>7, LoweredHost
  <1>9. suffix = IF port = <<>> \/ Number(port) = DefaultPort
                 THEN <<>> ELSE <<":">> \o PortText(Number(port))
    BY <1>1, <1>3, <1>4, SuffixIsPort
  <1>10. Origin(e) = lower \o suffix
    BY <1>4, <1>5 DEF Origin
  \* The number is that of the text after the colon.
  <1>11. port # <<>> => Number(port) \in Nat \ {0}
    <2> DEFINE after == SubSeq(text, h + 1, a)
    <2>1. after # <<>> => Number(Tail(after)) \in 1 .. MaxPort
      BY <1>3 DEF IsSplit
    <2>2. port # <<>> => after # <<>> /\ Tail(after) = port
      BY <1>1, <1>3, <1>4, AfterColon
    <2> HIDE DEF after, port
    <2>3. port # <<>> => Number(port) \in 1 .. MaxPort
      BY <2>1, <2>2
    <2> QED
      BY <2>3, LimitsAssumption
  <1> HIDE DEF lower, suffix, authority, host, port
  <1>12. suffix \in Seq(OriginChars)
    <2>1. CASE port = <<>> \/ Number(port) = DefaultPort
      BY <1>9, <2>1, EmptySeq
    <2>2. CASE ~ (port = <<>> \/ Number(port) = DefaultPort)
      BY <1>9, <1>11, <2>2, ColonAndPort
    <2> QED
      BY <2>1, <2>2
  <1>13. /\ Origin(e) \in Seq(OriginChars)
         /\ Len(Origin(e)) = h + Len(suffix) /\ Len(suffix) \in Nat
         /\ \A i \in 1 .. (h + Len(suffix)) :
              Origin(e)[i] = IF i <= h THEN lower[i] ELSE suffix[i - h]
    <2>1. /\ lower \o suffix \in Seq(OriginChars)
          /\ Len(lower \o suffix) = Len(lower) + Len(suffix)
          /\ \A i \in 1 .. (Len(lower) + Len(suffix)) :
               (lower \o suffix)[i] =
                 IF i <= Len(lower) THEN lower[i] ELSE suffix[i - Len(lower)]
      BY <1>8, <1>12, ConcatProperties
    <2>2. Len(suffix) \in Nat
      BY <1>12, LenProperties
    <2> QED
      BY <1>8, <1>10, <2>1, <2>2
  <1>14. \A i \in 1 .. h : Origin(e)[i] = lower[i]
    <2>1. \A i \in 1 .. h : i \in 1 .. (h + Len(suffix)) /\ i <= h
      BY <1>6, <1>13
    <2> QED
      BY <1>13, <2>1
  <1>15. From(Origin(e), h) = suffix
    <2>1. From(Origin(e), h) = SubSeq(Origin(e), h + 1, h + Len(suffix))
      BY <1>13 DEF From
    <2>2. /\ From(Origin(e), h) \in Seq(OriginChars)
          /\ Len(From(Origin(e), h)) = Len(suffix)
          /\ \A i \in 1 .. Len(suffix) : From(Origin(e), h)[i] = Origin(e)[h + i]
      <3> DEFINE l == h + Len(suffix)
      <3>1. h + 1 \in Nat /\ l \in Nat /\ \A i \in (h + 1) .. l : i \in 1 .. Len(Origin(e))
        BY <1>6, <1>13
      <3>2. \A i \in (h + 1) .. l : Origin(e)[i] \in OriginChars
        BY <1>13, <3>1, ElementOfSeq
      <3>6. h + 1 \in Int /\ l \in Int
        BY <3>1
      <3> HIDE DEF l
      <3>3. /\ SubSeq(Origin(e), h + 1, l) \in Seq(OriginChars)
            /\ Len(SubSeq(Origin(e), h + 1, l)) =
                 IF h + 1 <= l THEN l - (h + 1) + 1 ELSE 0
            /\ \A i \in 1 .. (l - (h + 1) + 1) :
                 SubSeq(Origin(e), h + 1, l)[i] = Origin(e)[(h + 1) + i - 1]
        BY <3>2, <3>6, SubSeqProperties
      <3>4. l - (h + 1) + 1 = Len(suffix) /\ (~ (h + 1 <= l) => Len(suffix) = 0)
            /\ \A i \in 1 .. Len(suffix) : (h + 1) + i - 1 = h + i
        BY <1>6, <1>13 DEF l
      <3>5. From(Origin(e), h) = SubSeq(Origin(e), h + 1, l)
        BY <2>1 DEF l
      <3> QED
        BY <3>3, <3>4, <3>5
    <2>3. ASSUME NEW i \in 1 .. Len(suffix) PROVE Origin(e)[h + i] = suffix[i]
      <3>1. h + i \in 1 .. (h + Len(suffix)) /\ ~ (h + i <= h) /\ (h + i) - h = i
        BY <1>6, <1>13
      <3> QED
        BY <1>13, <3>1
    <2> QED
      BY <1>12, <2>2, <2>3, SeqEqual
  <1>16. Len(Origin(e)) >= h
    BY <1>6, <1>13
  <1>17. /\ Origin(e) \in Seq(OriginChars) /\ Len(Origin(e)) >= h
         /\ \A i \in 1 .. h : Origin(e)[i] = IF host[i] = "A" THEN "a" ELSE host[i]
         /\ IF port = <<>> \/ Number(port) = DefaultPort
            THEN From(Origin(e), h) = <<>>
            ELSE /\ From(Origin(e), h) = <<":">> \o PortText(Number(port))
                 /\ Number(port) \in Nat \ {0}
    BY <1>8, <1>9, <1>11, <1>13, <1>14, <1>15, <1>16
  <1> QED
    BY <1>17 DEF host, port, text

-----------------------------------------------------------------------------
(* What is accepted can be sent *)

Stages ==
    {"off", "ready", "refused", "accepted", "encrypted", "sent", "failed"}

\* Ends of a push that nobody can foresee.
Unforeseen ==
    \/ status = "CryptoError"
    \/ status = "TransportError" /\ ~ hasCertBundle

\* The configuration in use is a valid one and the push in hand was admitted
\* under it; the body is that of the push, and the request trusts what the
\* configuration says.
AdmissionInv ==
    /\ stage \in Stages
    /\ hasCertBundle \in BOOLEAN
    /\ stage # "off" => config \in Configurations /\ ConfigIsValid(config)
    /\ Accepted => push \in SendArguments /\ SendStatus(push) = "Ok"
    /\ stage \in {"encrypted", "sent"} =>
         body = BodySize(push.payload.size) /\ push.onCurve
    /\ stage = "sent" =>
         trust = TrustSources /\ (UsesBundle => hasCertBundle)
    /\ stage = "failed" => Unforeseen
    /\ stage = "refused" =>
         push \in SendArguments /\ status = SendStatus(push) /\ status # "Ok"
    /\ stage \notin {"off", "ready"} => push \in Pushes

\* send() accepts when nothing is wrong.
LEMMA SendOk ==
    ASSUME NEW p, SendStatus(p) = "Ok"
    PROVE  /\ PayloadIsValid(Document(p)) /\ p.payload.size # 0
           /\ ~(p.payload.size > config.maxPayloadBytes)
           /\ EndpointIsValid(p.endpoint, config.maxEndpointBytes)
           /\ IsPublicKey(p.p256dh, p.uncompressed) /\ IsAuthSecret(p.auth)
  BY DEF SendStatus

\* Whatever send() accepts has the size and the keys that encryption asks for.
LEMMA AcceptedEncrypts ==
    ASSUME NEW p \in SendArguments, SendStatus(p) = "Ok",
           config \in Configurations, ConfigIsValid(config)
    PROVE  /\ p.payload.size \in 1 .. MaxPlaintext
           /\ EncryptStatus(p) = IF p.onCurve THEN "Ok" ELSE "CryptoError"
           /\ BodySize(p.payload.size) \in 1 .. RecordSize
  <1> DEFINE n == p.payload.size
             max == config.maxPayloadBytes
  <1>1. /\ MaxPlaintext \in Nat /\ MaxPlaintext = 3993
        /\ RecordSize \in Nat /\ RecordSize = 4096
    BY DEF MaxPlaintext, RecordSize
  <1>2. n \in Nat /\ max \in 1 .. MaxPlaintext
    BY DEF SendArguments, Payloads, ConfigIsValid, PayloadLimitIsValid
  <1>3. n # 0 /\ ~(n > max)
    BY SendOk
  <1> HIDE DEF n, max
  <1>4. n \in 1 .. MaxPlaintext
    <2>1. MaxPlaintext \in Nat
      BY <1>1
    <2> QED
      BY ONLY <1>2, <1>3, <2>1
  <1>5. BodySize(n) \in 1 .. RecordSize
    BY <1>1, <1>4 DEF BodySize
  <1> USE DEF n
  <1>6. IsPublicKey(p.p256dh, p.uncompressed) /\ IsAuthSecret(p.auth)
    BY SendOk
  <1>7. EncryptStatus(p) = IF p.onCurve THEN "Ok" ELSE "CryptoError"
    BY <1>4, <1>6 DEF EncryptStatus
  <1> QED
    BY <1>4, <1>5, <1>7

\* A body of one record and a valid configuration make a request.
LEMMA RecordIsRequested ==
    ASSUME config \in Configurations, ConfigIsValid(config),
           body \in 1 .. RecordSize
    PROVE  RequestStatus = IF UsesBundle /\ ~ hasCertBundle
                           THEN "TransportError" ELSE "Ok"
  <1>1. body \in 1 .. IntMax
    BY BuildAssumption DEF RecordSize
  <1>2. config.requestTimeoutMs \in Nat /\ config.requestTimeoutMs <= IntMax
    BY BuildAssumption DEF Configurations, ConfigIsValid
  <1> QED
    BY <1>1, <1>2, BuildAssumption DEF RequestStatus

\* Nothing is admitted initially.
LEMMA AdmissionInit == Init => AdmissionInv
  BY BuildAssumption DEF Init, AdmissionInv, Stages, Accepted

\* Every step keeps AdmissionInv.
LEMMA AdmissionStep == AdmissionInv /\ [Next]_vars => AdmissionInv'
  <1> SUFFICES ASSUME AdmissionInv, [Next]_vars PROVE AdmissionInv'
    OBVIOUS
  <1>1. ASSUME NEW c \in Configs, InitSucceeds(c) PROVE AdmissionInv'
    <2>1. ConfigIsValid(c) /\ c \in Configurations
      BY <1>1, ConfigsAssumption DEF InitSucceeds, InitStatus
    <2> QED
      BY <1>1, <2>1 DEF InitSucceeds, AdmissionInv, Stages, Accepted
  <1>2. ASSUME NEW c \in Configs, InitRefused(c) PROVE AdmissionInv'
    BY <1>2 DEF InitRefused, AdmissionInv, Stages, Accepted
  <1>3. ASSUME NEW p \in Pushes, SendAccepted(p) PROVE AdmissionInv'
    <2>1. p \in SendArguments
      BY PushesAssumption
    <2>2. SendStatus(p)' = SendStatus(p)
      BY <1>3 DEF SendAccepted, SendStatus
    <2> QED
      BY <1>3, <2>1, <2>2 DEF SendAccepted, AdmissionInv, Stages, Accepted
  <1>4. ASSUME NEW p \in Pushes, SendRefused(p) PROVE AdmissionInv'
    <2>1. p \in SendArguments
      BY PushesAssumption
    <2>2. SendStatus(p)' = SendStatus(p)
      BY <1>4 DEF SendRefused, SendStatus
    <2> QED
      BY <1>4, <2>1, <2>2 DEF SendRefused, AdmissionInv, Stages, Accepted
  <1>5. CASE Encrypt
    <2>1. /\ stage = "accepted" /\ push \in SendArguments
          /\ SendStatus(push) = "Ok"
          /\ config \in Configurations /\ ConfigIsValid(config)
      BY <1>5 DEF Encrypt, AdmissionInv, Accepted
    <2>2. EncryptStatus(push) = IF push.onCurve THEN "Ok" ELSE "CryptoError"
      BY <2>1, AcceptedEncrypts
    <2>3. SendStatus(push)' = SendStatus(push)
      BY <1>5 DEF Encrypt, SendStatus
    <2> QED
      BY <1>5, <2>1, <2>2, <2>3
      DEF Encrypt, AdmissionInv, Stages, Accepted, Unforeseen
  <1>6. CASE EncryptFails
    <2>1. SendStatus(push)' = SendStatus(push)
      BY <1>6 DEF EncryptFails, SendStatus
    <2> QED
      BY <1>6, <2>1
      DEF EncryptFails, AdmissionInv, Stages, Accepted, Unforeseen
  <1>7. CASE Post
    <2>1. /\ stage = "encrypted" /\ push \in SendArguments
          /\ SendStatus(push) = "Ok" /\ hasCertBundle \in BOOLEAN
          /\ config \in Configurations /\ ConfigIsValid(config)
          /\ body = BodySize(push.payload.size)
      BY <1>7 DEF Post, AdmissionInv, Accepted
    <2>2. RequestStatus = IF UsesBundle /\ ~ hasCertBundle
                          THEN "TransportError" ELSE "Ok"
      BY <2>1, AcceptedEncrypts, RecordIsRequested
    <2>3. /\ SendStatus(push)' = SendStatus(push)
          /\ TrustSources' = TrustSources /\ UsesBundle' = UsesBundle
      BY <1>7 DEF Post, SendStatus, TrustSources, UsesBundle
    <2> QED
      BY <1>7, <2>1, <2>2, <2>3
      DEF Post, AdmissionInv, Stages, Accepted, Unforeseen
  <1>8. CASE Complete
    BY <1>8 DEF Complete, AdmissionInv, Stages, Accepted
  <1>9. CASE End
    BY <1>9 DEF End, AdmissionInv, Stages, Accepted
  <1>10. CASE UNCHANGED vars
    <2>1. /\ SendStatus(push)' = SendStatus(push)
          /\ TrustSources' = TrustSources /\ UsesBundle' = UsesBundle
      BY <1>10 DEF vars, SendStatus, TrustSources, UsesBundle
    <2> QED
      BY <1>10, <2>1 DEF vars, AdmissionInv, Stages, Accepted, Unforeseen
  <1> QED
    BY <1>1, <1>2, <1>3, <1>4, <1>5, <1>6, <1>7, <1>8, <1>9, <1>10 DEF Next

\* AdmissionInv is inductive.
LEMMA AdmissionInvAlways == Spec => []AdmissionInv
  BY AdmissionInit, AdmissionStep, PTL DEF Spec

\* In every reachable state what was accepted is encrypted in one record and
\* requested without another refusal of its sizes or keys.
THEOREM AcceptedIsDeliverableAlways == Spec => []AcceptedIsDeliverable
  <1>1. AdmissionInv => AcceptedIsDeliverable
    <2> SUFFICES ASSUME AdmissionInv PROVE AcceptedIsDeliverable
      OBVIOUS
    <2>1. stage = "failed" => Unforeseen
      BY DEF AdmissionInv
    <2>2. ASSUME stage \in {"encrypted", "sent"}
          PROVE  body <= RecordSize /\ push.onCurve
      <3>1. /\ push \in SendArguments /\ SendStatus(push) = "Ok"
            /\ config \in Configurations /\ ConfigIsValid(config)
            /\ body = BodySize(push.payload.size) /\ push.onCurve
        BY <2>2 DEF AdmissionInv, Accepted
      <3>2. BodySize(push.payload.size) \in 1 .. RecordSize
        BY <3>1, AcceptedEncrypts
      <3>3. RecordSize \in Nat
        BY DEF RecordSize
      <3> QED
        BY <3>1, <3>2, <3>3
    <2>3. /\ stage = "failed" =>
             \/ status = "CryptoError"
             \/ status = "TransportError" /\ ~ hasCertBundle
      BY <2>1 DEF Unforeseen
    <2> QED
      BY <2>2, <2>3 DEF AcceptedIsDeliverable
  <1> QED
    BY <1>1, AdmissionInvAlways, PTL

\* In every reachable state a request trusts one source, the one that has the
\* precedence.
THEOREM OneTrustSourceAlways == Spec => []OneTrustSource
  <1>1. AdmissionInv => OneTrustSource
    <2> SUFFICES ASSUME AdmissionInv, stage = "sent"
                 PROVE  /\ Cardinality(trust) = 1
                        /\ config.certificate => trust = {"certificate"}
                        /\ config.globalStore => trust = {"global store"}
                        /\ trust = {"bundle"} => hasCertBundle
      BY DEF OneTrustSource
    <2>1. /\ trust = TrustSources /\ (UsesBundle => hasCertBundle)
          /\ ~(config.globalStore /\ config.certificate)
          /\ config.bundle \/ config.globalStore \/ config.certificate
      BY DEF AdmissionInv, ConfigIsValid, TrustIsValid
    <2> DEFINE g == config.globalStore
               c == config.certificate
               bundle == config.bundle
    <2>2. trust = (IF g THEN {"global store"} ELSE {})
                    \cup (IF c THEN {"certificate"} ELSE {})
                    \cup (IF bundle /\ ~g /\ ~c THEN {"bundle"} ELSE {})
      BY <2>1 DEF TrustSources, UsesBundle
    <2>3. (bundle /\ ~g /\ ~c => hasCertBundle) /\ ~(g /\ c) /\ (bundle \/ g \/ c)
      BY <2>1 DEF UsesBundle
    <2> HIDE DEF g, c, bundle
    <2>4. CASE c
      <3>1. trust = {"certificate"} /\ ~g
        BY <2>2, <2>3, <2>4
      <3> QED
        BY <3>1, FS_Singleton DEF g, c
    <2>5. CASE g
      <3>1. trust = {"global store"} /\ ~c
        BY <2>2, <2>3, <2>5
      <3> QED
        BY <3>1, FS_Singleton DEF g, c
    <2>6. CASE ~c /\ ~g
      <3>1. trust = {"bundle"} /\ hasCertBundle
        BY <2>2, <2>3, <2>6
      <3> QED
        BY <2>6, <3>1, FS_Singleton DEF g, c
    <2> QED
      BY <2>4, <2>5, <2>6
  <1> QED
    BY <1>1, AdmissionInvAlways, PTL

\* In every reachable state what was accepted is a subscription and a
\* notification as the documents have them, whatever its length.
THEOREM AcceptedIsSoundAlways == Spec => []AcceptedIsSound
  <1>1. AdmissionInv => AcceptedIsSound
    <2> SUFFICES ASSUME AdmissionInv, Accepted
                 PROVE  /\ IsSubscription(push)
                        /\ IsNotification(Document(push))
                        /\ push.payload.size \in 1 .. config.maxPayloadBytes
      BY DEF AcceptedIsSound
    <2>1. /\ push \in SendArguments /\ SendStatus(push) = "Ok"
          /\ config \in Configurations
      BY DEF AdmissionInv, Accepted
    <2>2. /\ PayloadIsValid(Document(push)) /\ push.payload.size # 0
          /\ ~ (push.payload.size > config.maxPayloadBytes)
          /\ EndpointIsValid(push.endpoint, config.maxEndpointBytes)
          /\ IsPublicKey(push.p256dh, push.uncompressed) /\ IsAuthSecret(push.auth)
      BY <2>1, SendOk
    <2>3. IsSubscription(push)
      BY <2>1, <2>2, SubscriptionsAreTaken
    <2>4. IsNotification(Document(push))
      BY <2>1, <2>2, DocumentType, SchemaIsDocumented
    <2>5. push.payload.size \in Nat /\ config.maxPayloadBytes \in Nat
      BY <2>1 DEF SendArguments, Payloads, Configurations
    <2>6. push.payload.size \in 1 .. config.maxPayloadBytes
      BY ONLY <2>2, <2>5
    <2> QED
      BY <2>3, <2>4, <2>6
  <1> QED
    BY <1>1, AdmissionInvAlways, PTL

\* In every reachable state a refusal blames an argument that the documents do
\* not allow.
THEOREM RefusalIsJustAlways == Spec => []RefusalIsJust
  <1>1. AdmissionInv => RefusalIsJust
    <2> SUFFICES ASSUME AdmissionInv, stage = "refused"
                 PROVE  RefusalIsJust
      BY DEF RefusalIsJust
    <2>1. /\ push \in SendArguments /\ push \in Pushes
          /\ status = SendStatus(push) /\ status # "Ok"
      BY DEF AdmissionInv
    <2>2. PayloadIsValid(Document(push)) <=> IsNotification(Document(push))
      BY <2>1, DocumentType, SchemaIsDocumented
    <2>3. PayloadIsValid(Document(push)) => push.payload.size # 0
      <3> SUFFICES ASSUME PayloadIsValid(Document(push)) PROVE push.payload.size # 0
        OBVIOUS
      <3>1. push.payload \in Payloads
        BY <2>1 DEF SendArguments
      <3>2. Document(push).isObject = push.payload.isObject
        BY <3>1 DEF Document, Payloads
      <3>3. push.payload.size >= 2 /\ push.payload.size \in Nat
        BY <2>1, <3>1, <3>2, SizesAssumption DEF PayloadIsValid, Payloads
      <3> QED
        BY <3>3
    <2>4. CASE ~ PayloadIsValid(Document(push))
      <3>1. status = "InvalidPayload"
        BY <2>1, <2>4 DEF SendStatus
      <3> QED
        BY <2>2, <2>4, <3>1 DEF RefusalIsJust
    <2>5. CASE PayloadIsValid(Document(push)) /\ push.payload.size > config.maxPayloadBytes
      <3>1. status = "PayloadTooLarge"
        BY <2>1, <2>3, <2>5 DEF SendStatus
      <3> QED
        BY <2>5, <3>1 DEF RefusalIsJust
    <2>6. CASE /\ PayloadIsValid(Document(push))
               /\ ~ (push.payload.size > config.maxPayloadBytes)
      <3>1. /\ status = "InvalidSubscription"
            /\ ~ (/\ EndpointIsValid(push.endpoint, config.maxEndpointBytes)
                  /\ IsPublicKey(push.p256dh, push.uncompressed) /\ IsAuthSecret(push.auth))
        BY <2>1, <2>3, <2>6 DEF SendStatus
      <3>2. ~ IsSubscription(push)
        BY <2>1, <3>1, SubscriptionsAreTaken
      <3> QED
        BY <3>1, <3>2 DEF RefusalIsJust
    <2> QED
      BY <2>4, <2>5, <2>6
  <1> QED
    BY <1>1, AdmissionInvAlways, PTL

-----------------------------------------------------------------------------
(* What goes with a push *)

\* The origin is that of the accepted push and of nothing else; there is no push
\* and no configuration when none is in hand; the body fits the record.
JobInv ==
    /\ stage = "off" => config = None
    /\ stage \in {"off", "ready"} => push = None
    /\ IF Accepted THEN origin = Origin(push.endpoint) ELSE origin = <<>>
    /\ body \in 0 .. BodySize(MaxPlaintext)
    /\ trust \subseteq {"global store", "certificate", "bundle"}

\* Nothing is in hand initially.
LEMMA JobInit == Init => JobInv
  <1>1. 0 \in 0 .. BodySize(MaxPlaintext)
    BY DEF BodySize, MaxPlaintext
  <1> QED
    BY <1>1 DEF Init, JobInv, Accepted

\* Every step keeps JobInv.
LEMMA JobStep == AdmissionInv /\ JobInv /\ [Next]_vars => JobInv'
  <1> SUFFICES ASSUME AdmissionInv, JobInv, [Next]_vars PROVE JobInv'
    OBVIOUS
  <1>1. /\ BodySize(MaxPlaintext) \in Nat
        /\ \A n \in 1 .. MaxPlaintext : BodySize(n) \in 0 .. BodySize(MaxPlaintext)
        /\ 0 \in 0 .. BodySize(MaxPlaintext)
    <2>1. MaxPlaintext \in Nat
      BY DEF MaxPlaintext
    <2> QED
      BY <2>1 DEF BodySize
  <1>2. BodySize(MaxPlaintext)' = BodySize(MaxPlaintext)
    BY DEF BodySize, MaxPlaintext
  <1>3. ASSUME NEW c \in Configs, InitSucceeds(c) PROVE JobInv'
    BY <1>2, <1>3 DEF InitSucceeds, JobInv, Accepted
  <1>4. ASSUME NEW c \in Configs, InitRefused(c) PROVE JobInv'
    BY <1>2, <1>4 DEF InitRefused, JobInv, Accepted
  <1>5. ASSUME NEW p \in Pushes, SendAccepted(p) PROVE JobInv'
    BY <1>2, <1>5 DEF SendAccepted, JobInv, Accepted
  <1>6. ASSUME NEW p \in Pushes, SendRefused(p) PROVE JobInv'
    BY <1>2, <1>6 DEF SendRefused, JobInv, Accepted
  <1>7. CASE Encrypt
    <2>1. push.payload.size \in 1 .. MaxPlaintext
      <3>1. /\ push \in SendArguments /\ SendStatus(push) = "Ok"
            /\ config \in Configurations /\ ConfigIsValid(config)
        BY <1>7 DEF Encrypt, AdmissionInv, Accepted
      <3> QED
        BY <3>1, AcceptedEncrypts
    <2>2. body' \in 0 .. BodySize(MaxPlaintext)
      BY <1>1, <1>7, <2>1 DEF Encrypt
    <2> QED
      BY <1>2, <1>7, <2>2 DEF Encrypt, JobInv, Accepted
  <1>8. CASE EncryptFails
    BY <1>2, <1>8 DEF EncryptFails, JobInv, Accepted
  <1>9. CASE Post
    <2>1. trust' \subseteq {"global store", "certificate", "bundle"}
      BY <1>9 DEF Post, TrustSources
    <2> QED
      BY <1>2, <1>9, <2>1 DEF Post, JobInv, Accepted
  <1>10. CASE Complete
    BY <1>1, <1>2, <1>10 DEF Complete, JobInv, Accepted
  <1>11. CASE End
    BY <1>2, <1>11 DEF End, JobInv, Accepted
  <1>12. CASE UNCHANGED vars
    BY <1>2, <1>12 DEF vars, JobInv, Accepted
  <1> QED
    BY <1>3, <1>4, <1>5, <1>6, <1>7, <1>8, <1>9, <1>10, <1>11, <1>12 DEF Next

\* AdmissionInv and JobInv are inductive together.
LEMMA JobInvAlways == Spec => [](AdmissionInv /\ JobInv)
  BY AdmissionInit, AdmissionStep, JobInit, JobStep, PTL DEF Spec

\* The endpoint of an accepted push has a host and a port to speak of.
LEMMA AcceptedEndpoint ==
    ASSUME AdmissionInv, Accepted
    PROVE  push.endpoint \in Endpoints /\ Splits(push.endpoint.rest) # {}
  <1>1. push \in SendArguments /\ SendStatus(push) = "Ok"
    BY DEF AdmissionInv
  <1>2. IsSubscription(push)
    BY <1>1, SendOk, SubscriptionsAreTaken
  <1> QED
    BY <1>1, <1>2 DEF SendArguments, IsSubscription, IsEndpointUrl

\* In every reachable state every variable keeps its range; in particular an
\* origin has no upper case, whatever the endpoint.
THEOREM AdmissionTypeCorrect == Spec => []TypeOK
  <1>1. AdmissionInv /\ JobInv => TypeOK
    <2> SUFFICES ASSUME AdmissionInv, JobInv PROVE TypeOK
      OBVIOUS
    <2>1. ToSet(origin) \subseteq OriginChars
      <3>1. CASE Accepted
        <4>1. push.endpoint \in Endpoints /\ origin = Origin(push.endpoint)
          BY <3>1, AcceptedEndpoint DEF JobInv
        <4>2. PICK h \in 0 .. Len(push.endpoint.rest), a \in 0 .. Len(push.endpoint.rest) :
                IsSplit(push.endpoint.rest, h, a)
          BY <3>1, AcceptedEndpoint DEF Splits
        <4>3. origin \in Seq(OriginChars)
          BY <4>1, <4>2, OriginOfSplit
        <4>4. \A i \in 1 .. Len(origin) : origin[i] \in OriginChars
          BY <4>3, ElementOfSeq
        <4> QED
          BY <4>3, <4>4, LenProperties DEF ToSet
      <3>2. CASE ~ Accepted
        <4>1. origin = <<>>
          BY <3>2 DEF JobInv
        <4>2. DOMAIN origin = {}
          BY <4>1
        <4> QED
          BY <4>2 DEF ToSet
      <3> QED
        BY <3>1, <3>2
    <2>2. IF stage = "off" THEN config = None
          ELSE config \in Configurations /\ ConfigIsValid(config)
      BY DEF AdmissionInv, JobInv
    <2>3. IF stage \in {"off", "ready"} THEN push = None ELSE push \in SendArguments
      BY PushesAssumption DEF AdmissionInv, JobInv
    <2> QED
      BY <2>1, <2>2, <2>3 DEF TypeOK, AdmissionInv, JobInv, Stages, OriginChars
  <1> QED
    BY <1>1, JobInvAlways, PTL

\* In every reachable state the origin is that of the server that the accepted
\* endpoint names, in lower case and with its port in shortest form, for
\* endpoints of any length and however they are written.
THEOREM OriginIsOfServerAlways == Spec => []OriginIsOfServer
  <1>1. AdmissionInv /\ JobInv => OriginIsOfServer
    <2> SUFFICES ASSUME AdmissionInv, JobInv, Accepted,
                        NEW s \in Splits(push.endpoint.rest)
                 PROVE  LET host == SubSeq(push.endpoint.rest, 1, s[1])
                            port == SubSeq(push.endpoint.rest, s[1] + 2, s[2])
                            suffix == From(origin, s[1])
                        IN  /\ Len(origin) >= s[1]
                            /\ \A i \in 1 .. s[1] :
                                 origin[i] = IF host[i] = "A" THEN "a" ELSE host[i]
                            /\ IF port = <<>> \/ Number(port) = DefaultPort
                               THEN suffix = <<>>
                               ELSE /\ suffix # <<>> /\ suffix[1] = ":"
                                    /\ suffix[2] # "0"
                                    /\ Number(Tail(suffix)) = Number(port)
      BY DEF OriginIsOfServer
    <2> DEFINE text == push.endpoint.rest
               h == s[1]
               a == s[2]
               host == SubSeq(text, 1, h)
               port == SubSeq(text, h + 2, a)
               suffix == From(origin, h)
    <2>1. push.endpoint \in Endpoints /\ origin = Origin(push.endpoint)
      BY AcceptedEndpoint DEF JobInv
    <2>2. h \in 0 .. Len(text) /\ a \in 0 .. Len(text) /\ IsSplit(text, h, a)
      BY DEF Splits
    <2>3. /\ Len(origin) >= h
          /\ \A i \in 1 .. h : origin[i] = IF host[i] = "A" THEN "a" ELSE host[i]
          /\ IF port = <<>> \/ Number(port) = DefaultPort
             THEN suffix = <<>>
             ELSE suffix = <<":">> \o PortText(Number(port)) /\ Number(port) \in Nat \ {0}
      BY <2>1, <2>2, OriginOfSplit
    <2> HIDE DEF text, h, a, host, port, suffix
    <2>4. ~ (port = <<>> \/ Number(port) = DefaultPort) =>
            /\ suffix # <<>> /\ suffix[1] = ":" /\ suffix[2] # "0"
            /\ Number(Tail(suffix)) = Number(port)
      BY <2>3, ColonAndPort
    <2>5. /\ Len(origin) >= h
          /\ \A i \in 1 .. h : origin[i] = IF host[i] = "A" THEN "a" ELSE host[i]
          /\ IF port = <<>> \/ Number(port) = DefaultPort
             THEN suffix = <<>>
             ELSE /\ suffix # <<>> /\ suffix[1] = ":" /\ suffix[2] # "0"
                  /\ Number(Tail(suffix)) = Number(port)
      BY <2>3, <2>4
    <2> QED
      BY <2>5 DEF text, h, a, host, port, suffix
  <1> QED
    BY <1>1, JobInvAlways, PTL
=============================================================================
