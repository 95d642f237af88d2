-------------------------- MODULE WireFormatProofs --------------------------
(***************************************************************************)
(* Proofs about the wire format, for every base: an integer that           *)
(* writeVarUInt has written is what readVarUInt reads, with the cursor     *)
(* behind it, wherever in a buffer it stands (util/varint.cc).             *)
(***************************************************************************)
EXTENDS WireFormat, WellFoundedInduction, FiniteSetTheorems, SequenceTheorems,
        TLAPS

-----------------------------------------------------------------------------
(* Induction: the least and the greatest element of a set of naturals      *)

\* A set of naturals that is not empty has a least element.
LEMMA LeastNat ==
    ASSUME NEW T, T \subseteq Nat, T # {}
    PROVE  \E n \in T : \A m \in T : n <= m
<1>1. IsWellFoundedOn(OpToRel(<, Nat), Nat)
  BY NatLessThanWellFounded
<1>2. PICK n \in T : \A m \in T : <<m, n>> \notin OpToRel(<, Nat)
  BY <1>1, WFMin
<1>3. \A m \in T : ~ (m < n)
  BY <1>2 DEF OpToRel
<1>4. \A m \in T : n <= m
  BY <1>3
<1> QED
  BY <1>4

\* A bounded set of naturals that is not empty has a greatest element.
LEMMA GreatestNat ==
    ASSUME NEW T, NEW n \in Nat, T \subseteq 0 .. n, T # {}
    PROVE  \E g \in T : \A m \in T : m <= g
<1> DEFINE U == {k \in 0 .. n : n - k \in T}
<1>1. U # {}
  <2>1. PICK t \in T : TRUE
    OBVIOUS
  <2>2. n - t \in 0 .. n /\ n - (n - t) = t
    BY <2>1
  <2> QED
    BY <2>2
<1>2. PICK u \in U : \A w \in U : u <= w
  <2>1. U \subseteq Nat
    OBVIOUS
  <2> HIDE DEF U
  <2> QED
    BY <1>1, <2>1, LeastNat
<1>3. n - u \in T
  OBVIOUS
<1>4. ASSUME NEW m \in T PROVE m <= n - u
  <2>1. m \in 0 .. n /\ n - m \in 0 .. n /\ n - (n - m) = m
    OBVIOUS
  <2>2. n - m \in U
    BY <2>1
  <2> QED
    BY <1>2, <2>1, <2>2
<1> QED
  BY <1>3, <1>4

\* Induction over the naturals, as a fact about sets.
LEMMA InductionNat ==
    ASSUME NEW S, 0 \in S, \A n \in Nat : n \in S => n + 1 \in S
    PROVE  Nat \subseteq S
<1> DEFINE bad == {n \in Nat : n \notin S}
<1>1. SUFFICES ASSUME bad # {} PROVE FALSE
  OBVIOUS
<1>2. PICK n \in bad : \A m \in bad : n <= m
  BY <1>1, LeastNat
<1>3. n # 0 /\ n - 1 \in Nat /\ (n - 1) + 1 = n
  BY <1>2
<1>4. n - 1 \in S
  BY <1>2, <1>3
<1> QED
  BY <1>2, <1>3, <1>4

\* Min is the least element of a set of naturals.
LEMMA MinNat ==
    ASSUME NEW T, T \subseteq Nat, T # {}
    PROVE  Min(T) \in T /\ \A m \in T : Min(T) <= m
<1>1. \E n \in T : \A m \in T : n <= m
  BY LeastNat
<1> QED
  BY <1>1 DEF Min

\* Division with remainder by the base.
LEMMA DivMod ==
    ASSUME NEW a \in Nat
    PROVE  /\ a = VarintBase * (a \div VarintBase) + Digit(a)
           /\ a \div VarintBase \in Nat
           /\ Digit(a) \in 0 .. VarintBase - 1
<1>1. a = VarintBase * (a \div VarintBase) + Digit(a)
  BY VarintBaseAssumption DEF Digit
<1>2. a \div VarintBase \in Nat
  BY VarintBaseAssumption DEF Digit
<1>3. Digit(a) \in 0 .. VarintBase - 1
  BY VarintBaseAssumption DEF Digit
<1> QED
  BY <1>1, <1>2, <1>3

LEMMA DigitType ==
    ASSUME NEW x \in Nat
    PROVE  Digit(x) \in Nat
BY DivMod

-----------------------------------------------------------------------------
(* The encoder                                                             *)

\* The recursion of Shifted is well defined.
LEMMA ShiftedExists ==
    ASSUME NEW v \in Nat
    PROVE  /\ Shifted(v) =
                [k \in 0 .. MaxVarUIntLen |->
                    IF k = 0 THEN v ELSE Shifted(v)[k - 1] \div VarintBase]
<1> DEFINE step(s, k) == IF k = 0 THEN v ELSE s[k - 1] \div VarintBase
<1> DEFINE good(n) ==
             \E s \in [0 .. n -> Nat] : \A k \in 0 .. n : s[k] = step(s, k)
<1>1. good(0)
  <2> DEFINE t == [k \in 0 .. 0 |-> v]
  <2>1. t \in [0 .. 0 -> Nat] /\ \A k \in 0 .. 0 : t[k] = step(t, k)
    OBVIOUS
  <2> QED
    BY <2>1
<1>2. ASSUME NEW n \in Nat, good(n) PROVE good(n + 1)
  <2>1. PICK s \in [0 .. n -> Nat] : \A k \in 0 .. n : s[k] = step(s, k)
    BY <1>2
  <2> DEFINE t == [k \in 0 .. n + 1 |->
                     IF k <= n THEN s[k] ELSE s[n] \div VarintBase]
  <2>2. s[n] \div VarintBase \in Nat
    BY DivMod
  <2>3. t \in [0 .. n + 1 -> Nat]
    BY <2>2
  <2>4. \A k \in 0 .. n + 1 : t[k] = step(t, k)
    BY <2>1
  <2> QED
    BY <2>3, <2>4
<1>3. good(MaxVarUIntLen)
  <2> HIDE DEF good
  <2> DEFINE S == {n \in Nat : good(n)}
  <2>1. 0 \in S /\ \A n \in Nat : n \in S => n + 1 \in S
    BY <1>1, <1>2
  <2> HIDE DEF S
  <2>2. Nat \subseteq S
    BY <2>1, InductionNat
  <2> QED
    BY <2>2 DEF MaxVarUIntLen, S
<1>4. PICK s \in [0 .. MaxVarUIntLen -> Nat] :
        \A k \in 0 .. MaxVarUIntLen : s[k] = step(s, k)
  BY <1>3
<1> DEFINE D(f) == [k \in 0 .. MaxVarUIntLen |-> step(f, k)]
<1>5. s = D(s)
  BY <1>4
<1>6. Shifted(v) = CHOOSE f : f = D(f)
  BY DEF Shifted
<1> HIDE DEF D
<1>7. Shifted(v) = D(Shifted(v))
  BY <1>5, <1>6
<1> QED
  BY <1>7 DEF D

\* The rounds of the encoder: division by the base, over and over.
LEMMA ShiftedSteps ==
    ASSUME NEW v \in Nat
    PROVE  /\ Shifted(v)[0] = v
           /\ \A k \in 0 .. MaxVarUIntLen : Shifted(v)[k] \in Nat
           /\ \A k \in 1 .. MaxVarUIntLen :
                 Shifted(v)[k] = Shifted(v)[k - 1] \div VarintBase
<1> DEFINE s == Shifted(v)
           S == {k \in Nat : k <= MaxVarUIntLen => s[k] \in Nat}
<1>1. \A k \in 0 .. MaxVarUIntLen :
        s[k] = IF k = 0 THEN v ELSE s[k - 1] \div VarintBase
  BY ShiftedExists
<1> HIDE DEF s
<1>2. 0 \in S
  BY <1>1 DEF MaxVarUIntLen
<1>3. ASSUME NEW n \in Nat, n \in S PROVE n + 1 \in S
  <2>1. CASE n + 1 <= MaxVarUIntLen
    <3>1. s[n] \in Nat
      BY <1>3, <2>1 DEF MaxVarUIntLen
    <3>2. s[n + 1] = s[n] \div VarintBase
      BY <1>1, <2>1 DEF MaxVarUIntLen
    <3> QED
      BY <3>1, <3>2, DivMod
  <2> QED
    BY <2>1
<1> HIDE DEF S
<1>4. Nat \subseteq S
  BY <1>2, <1>3, InductionNat
<1>5. \A k \in 0 .. MaxVarUIntLen : s[k] \in Nat
  BY <1>4 DEF S, MaxVarUIntLen
<1> QED
  BY <1>1, <1>5 DEF s, MaxVarUIntLen

\* The value is smaller than the base to the power MaxVarUIntLen, as every
\* uint64 is: the encoder's buffer is long enough.
Fits(v) == Shifted(v)[MaxVarUIntLen] = 0

\* The encoder writes at least one byte and at most MaxVarUIntLen; it stops
\* with the first round that leaves nothing.
LEMMA VarUIntLenBounds ==
    ASSUME NEW v \in Nat
    PROVE  /\ VarUIntLen(v) \in 1 .. MaxVarUIntLen
           /\ \A k \in 1 .. VarUIntLen(v) - 1 : Shifted(v)[k] # 0
           /\ Fits(v) => Shifted(v)[VarUIntLen(v)] = 0
<1> DEFINE T == {k \in 1 .. MaxVarUIntLen : Shifted(v)[k] = 0}
                    \cup {MaxVarUIntLen}
<1>1. T \subseteq 1 .. MaxVarUIntLen /\ T # {}
  BY DEF MaxVarUIntLen
<1>2. VarUIntLen(v) = Min(T)
  BY DEF VarUIntLen
<1>3. \A k \in 1 .. MaxVarUIntLen : Shifted(v)[k] = 0 => k \in T
  OBVIOUS
<1>4. \A k \in T : k = MaxVarUIntLen \/ Shifted(v)[k] = 0
  OBVIOUS
<1> HIDE DEF T
<1>5. VarUIntLen(v) \in T /\ \A k \in T : VarUIntLen(v) <= k
  <2>1. T \subseteq Nat
    BY <1>1
  <2>2. Min(T) \in T /\ \A k \in T : Min(T) <= k
    BY <1>1, <2>1, MinNat
  <2> QED
    BY <1>2, <2>2
<1>6. ASSUME NEW k \in 1 .. VarUIntLen(v) - 1 PROVE Shifted(v)[k] # 0
  <2>1. VarUIntLen(v) \in 1 .. MaxVarUIntLen
    BY <1>1, <1>5
  <2>2. k \in 1 .. MaxVarUIntLen /\ ~ (VarUIntLen(v) <= k)
    BY <2>1 DEF MaxVarUIntLen
  <2> QED
    BY <1>3, <1>5, <2>2
<1> QED
  BY <1>1, <1>4, <1>5, <1>6 DEF Fits

\* What the encoder writes: bytes with a continuation bit up to the last.
LEMMA WriteVarUIntBytes ==
    ASSUME NEW v \in Nat, Fits(v)
    PROVE  LET n == VarUIntLen(v)
               w == WriteVarUInt(v)
           IN  /\ w \in Seq(Nat) /\ Len(w) = n
               /\ \A i \in 1 .. n : Digit(w[i])
                                       = Digit(Shifted(v)[i - 1])
               /\ \A i \in 1 .. n - 1 : w[i] >= VarintBase
               /\ w[n] < VarintBase
<1> DEFINE n == VarUIntLen(v)
           w == WriteVarUInt(v)
           s == Shifted(v)
<1>1. n \in 1 .. MaxVarUIntLen /\ n \in Nat
  BY VarUIntLenBounds DEF MaxVarUIntLen
<1>2. ASSUME NEW i \in 1 .. n
      PROVE  /\ Digit(s[i - 1]) \in 0 .. VarintBase - 1
             /\ i < n => s[i] # 0
             /\ s[n] = 0
  <2>1. s[i - 1] \in Nat
    <3>1. i - 1 \in 0 .. MaxVarUIntLen
      BY <1>1 DEF MaxVarUIntLen
    <3> QED
      BY <3>1, ShiftedSteps
  <2>2. i < n => s[i] # 0
    BY <1>1, VarUIntLenBounds
  <2> QED
    BY <2>1, <2>2, DivMod, VarUIntLenBounds
<1>3. w = [i \in 1 .. n |-> Digit(s[i - 1])
                              + (IF s[i] # 0 THEN VarintBase ELSE 0)]
  BY DEF WriteVarUInt
<1> HIDE DEF n, w, s
<1>4. w \in [1 .. n -> Nat]
  <2>1. \A i \in 1 .. n : Digit(s[i - 1])
                        + (IF s[i] # 0 THEN VarintBase ELSE 0) \in Nat
    BY <1>2, VarintBaseAssumption
  <2> QED
    BY <1>3, <2>1
<1>5. w \in Seq(Nat) /\ Len(w) = n
  BY <1>1, <1>4
<1>6. ASSUME NEW i \in 1 .. n
      PROVE  /\ Digit(w[i]) = Digit(s[i - 1])
             /\ i < n => w[i] >= VarintBase
             /\ i = n => w[i] < VarintBase
  <2> DEFINE d == Digit(s[i - 1])
  <2>1. d \in 0 .. VarintBase - 1
    BY <1>2
  <2>2. w[i] = d + (IF s[i] # 0 THEN VarintBase ELSE 0)
    BY <1>3
  <2> HIDE DEF d
  <2>3. Digit(d) = d /\ Digit(d + VarintBase) = d
    BY <2>1, VarintBaseAssumption DEF Digit
  <2> QED
    BY <1>2, <2>1, <2>2, <2>3, VarintBaseAssumption DEF d
<1> QED
  BY <1>1, <1>5, <1>6 DEF n, w, s

-----------------------------------------------------------------------------
(* The decoder                                                             *)

\* The recursion of Digits is well defined; the integer is a natural number.
LEMMA DigitsSteps ==
    ASSUME NEW buf, NEW first \in Nat, NEW last \in Nat, first <= last,
           \A i \in first .. last : buf[i] \in Nat
    PROVE  \A i \in first .. last :
              /\ Digits(buf, first, last)[i] \in Nat
              /\ Digits(buf, first, last)[i] =
                    Digit(buf[i])
                        + (IF i < last
                           THEN VarintBase * Digits(buf, first, last)[i + 1]
                           ELSE 0)
<1> DEFINE digit(i) == Digit(buf[i])
           step(f, i) ==
               digit(i) + (IF i < last THEN VarintBase * f[i + 1] ELSE 0)
           good(n) == \E f \in [last - n .. last -> Nat] :
                         \A i \in last - n .. last : f[i] = step(f, i)
           S == {n \in Nat : n <= last - first => good(n)}
<1>0. \A i \in first .. last : digit(i) \in Nat
  BY DivMod
<1> HIDE DEF digit
<1>1. 0 \in S
  <2> DEFINE f == [i \in last - 0 .. last |-> digit(i)]
  <2>1. f \in [last - 0 .. last -> Nat]
    BY <1>0
  <2>2. \A i \in last - 0 .. last : f[i] = step(f, i)
    BY <1>0
  <2> QED
    BY <2>1, <2>2
<1>2. ASSUME NEW n \in Nat, n \in S PROVE n + 1 \in S
  <2> HIDE DEF good
  <2>1. SUFFICES ASSUME n + 1 <= last - first PROVE good(n + 1)
    OBVIOUS
  <2>0. good(n)
    BY <1>2, <2>1
  <2> USE DEF good
  <2>2. PICK f \in [last - n .. last -> Nat] :
            \A i \in last - n .. last : f[i] = step(f, i)
    BY <2>0
  <2> DEFINE b == last - (n + 1)
             e == digit(b) + VarintBase * f[b + 1]
             g == [i \in b .. last |-> IF i = b THEN e ELSE f[i]]
  <2>3. /\ b \in first .. last /\ b < last /\ b + 1 = last - n
        /\ \A i \in b .. last : i # b => i \in last - n .. last
    BY <2>1
  <2>4. e \in Nat
    <3>1. f[b + 1] \in Nat /\ digit(b) \in Nat
      BY <1>0, <2>3
    <3> QED
      BY <3>1, VarintBaseAssumption
  <2> HIDE DEF e
  <2>5. g \in [b .. last -> Nat]
    BY <2>3, <2>4
  <2>6. ASSUME NEW i \in b .. last PROVE g[i] = step(g, i)
    <3>1. CASE i = b
      <4>1. g[i] = e /\ g[i + 1] = f[b + 1]
        BY <2>3, <3>1
      <4> QED
        BY <2>3, <3>1, <4>1 DEF e
    <3>2. CASE i # b
      <4>1. g[i] = f[i] /\ (i < last => g[i + 1] = f[i + 1])
        BY <2>3, <3>2
      <4> QED
        BY <2>2, <2>3, <3>2, <4>1
    <3> QED
      BY <3>1, <3>2
  <2> QED
    BY <2>5, <2>6
<1> HIDE DEF good
<1>3. good(last - first)
  <2> HIDE DEF S
  <2>1. Nat \subseteq S
    BY <1>1, <1>2, InductionNat
  <2>2. last - first \in S
    BY <2>1
  <2> QED
    BY <2>2 DEF S
<1>4. PICK f \in [first .. last -> Nat] :
         \A i \in first .. last : f[i] = step(f, i)
  <2>1. last - (last - first) = first
    OBVIOUS
  <2> QED
    BY <1>3, <2>1 DEF good
<1> DEFINE D(h) == [i \in first .. last |-> step(h, i)]
           d == Digits(buf, first, last)
<1>5. f = D(f)
  BY <1>4
<1>6. d = CHOOSE h : h = D(h)
  BY DEF Digits, digit
<1> HIDE DEF D, d
<1>7. d = D(d)
  BY <1>5, <1>6
<1>8. \A i \in first .. last : d[i] = step(d, i)
  BY <1>7 DEF D
<1> DEFINE R == {n \in Nat : n <= last - first => d[last - n] \in Nat}
<1>9. 0 \in R
  BY <1>0, <1>8
<1>10. ASSUME NEW n \in Nat, n \in R PROVE n + 1 \in R
  <2>1. SUFFICES ASSUME n + 1 <= last - first
                 PROVE  d[last - (n + 1)] \in Nat
    OBVIOUS
  <2> DEFINE b == last - (n + 1)
  <2>2. b \in first .. last /\ b < last /\ b + 1 = last - n
    BY <2>1
  <2>3. d[b + 1] \in Nat /\ digit(b) \in Nat
    BY <1>0, <1>10, <2>1, <2>2
  <2>4. d[b] = digit(b) + VarintBase * d[b + 1]
    BY <1>8, <2>2
  <2>5. VarintBase * d[b + 1] \in Nat
    BY <2>3, VarintBaseAssumption
  <2>6. d[b] \in Nat
    BY <2>3, <2>4, <2>5
  <2> QED
    BY <2>6
<1>11. ASSUME NEW i \in first .. last PROVE d[i] \in Nat
  <2>1. Nat \subseteq R
    <3> HIDE DEF R
    <3> QED
      BY <1>9, <1>10, InductionNat
  <2>2. /\ last - i \in Nat /\ last - i <= last - first
        /\ last - (last - i) = i
    OBVIOUS
  <2>3. last - i \in R
    BY <2>1, <2>2
  <2> QED
    BY <2>2, <2>3
<1> QED
  BY <1>8, <1>11 DEF d, digit

\* What readVarUInt returns, whatever the bytes are: the cursor moves, and
\* not beyond the end of the buffer.
LEMMA ReadVarUIntType ==
    ASSUME NEW buf \in Seq(Nat), NEW cur \in Nat, cur < Len(buf)
    PROVE  LET r == ReadVarUInt(buf, cur) IN
           /\ r.ok \in BOOLEAN
           /\ r.cur \in cur + 1 .. Len(buf)
           /\ r.value \in Nat
<1> DEFINE stops == {i \in cur + 1 .. Len(buf) : buf[i] < VarintBase}
           last == Min(stops)
           value == Digits(buf, cur + 1, last)[cur + 1]
<1>1. ReadVarUInt(buf, cur) =
        IF stops = {} THEN [ok |-> FALSE, cur |-> Len(buf), value |-> 0]
        ELSE [ok |-> TRUE, cur |-> last, value |-> value]
  BY DEF ReadVarUInt
<1>2. CASE stops = {}
  BY <1>1, <1>2
<1>3. CASE stops # {}
  <2>1. last \in stops
    <3>1. stops \subseteq Nat
      OBVIOUS
    <3> HIDE DEF stops
    <3> QED
      BY <1>3, <3>1, MinNat
  <2>2. last \in cur + 1 .. Len(buf)
    BY <2>1
  <2> HIDE DEF last, stops
  <2>3. value \in Nat
    <3>1. \A i \in cur + 1 .. last : buf[i] \in Nat
      BY <2>2
    <3>2. cur + 1 \in Nat /\ last \in Nat /\ cur + 1 <= last
      BY <2>2
    <3>3. \A i \in cur + 1 .. last : Digits(buf, cur + 1, last)[i] \in Nat
      BY <3>1, <3>2, DigitsSteps
    <3> QED
      BY <3>2, <3>3
  <2> HIDE DEF value
  <2> QED
    BY <1>1, <1>3, <2>2, <2>3
<1> QED
  BY <1>2, <1>3

\* The bytes that writeVarUInt wrote stand in the buffer behind the cursor, as
\* far as the buffer goes.
Encoded(buf, cur, v) ==
    \A i \in 1 .. VarUIntLen(v) :
        cur + i <= Len(buf) => buf[cur + i] = WriteVarUInt(v)[i]

\* What writeVarUInt writes is what readVarUInt reads, and the cursor stops
\* behind it.
THEOREM VarUIntReadBack ==
    ASSUME NEW buf \in Seq(Nat), NEW cur \in Nat, NEW v \in Nat,
           Fits(v), Encoded(buf, cur, v), cur + VarUIntLen(v) <= Len(buf)
    PROVE  ReadVarUInt(buf, cur) =
              [ok |-> TRUE, cur |-> cur + VarUIntLen(v), value |-> v]
<1> DEFINE n == VarUIntLen(v)
           w == WriteVarUInt(v)
           s == Shifted(v)
           stops == {i \in cur + 1 .. Len(buf) : buf[i] < VarintBase}
           last == cur + n
           d == Digits(buf, cur + 1, last)
<1>1. n \in 1 .. MaxVarUIntLen /\ n \in Nat /\ n >= 1 /\ n <= 10
  BY VarUIntLenBounds DEF MaxVarUIntLen
<1>2. /\ \A i \in 1 .. n : Digit(w[i]) = Digit(s[i - 1])
      /\ \A i \in 1 .. n - 1 : w[i] >= VarintBase
      /\ w[n] < VarintBase
      /\ w \in Seq(Nat) /\ Len(w) = n
  BY WriteVarUIntBytes
<1>3. \A i \in 1 .. n : buf[cur + i] = w[i]
  BY <1>1 DEF Encoded
<1>4. s[0] = v /\ s[n] = 0
  BY ShiftedSteps, VarUIntLenBounds
<1>5. ASSUME NEW k \in 1 .. n
      PROVE  /\ s[k - 1] \in Nat /\ s[k] \in Nat
             /\ s[k - 1] = VarintBase * s[k] + Digit(s[k - 1])
  <2>1. k \in 1 .. MaxVarUIntLen /\ k \in 0 .. MaxVarUIntLen
        /\ k - 1 \in 0 .. MaxVarUIntLen
    BY <1>1 DEF MaxVarUIntLen
  <2>2. s[k - 1] \in Nat /\ s[k] \in Nat
        /\ s[k] = s[k - 1] \div VarintBase
    BY <2>1, ShiftedSteps
  <2> QED
    BY <2>2, DivMod
<1> HIDE DEF n, w, s
<1>16. last \in stops
  <2>1. n \in 1 .. n /\ cur + n \in cur + 1 .. Len(buf)
    BY <1>1 DEF n
  <2>2. buf[cur + n] = w[n] /\ w[n] < VarintBase
    BY <1>2, <1>3, <2>1
  <2> QED
    BY <2>1, <2>2
<1>6. Min(stops) = last
  <2>1. last \in stops
    BY <1>16
  <2>2. ASSUME NEW i \in stops PROVE last <= i
    <3>1. SUFFICES ASSUME i < last PROVE FALSE
      BY <1>1
    <3>2. i - cur \in 1 .. n - 1 /\ cur + (i - cur) = i
      BY <1>1, <3>1
    <3>3. buf[i] = w[i - cur] /\ w[i - cur] >= VarintBase
      <4> DEFINE k == i - cur
      <4>1. k \in 1 .. n - 1 /\ k \in 1 .. n /\ cur + k = i
        BY <1>1, <3>2
      <4> HIDE DEF k
      <4>2. buf[i] = w[k] /\ w[k] >= VarintBase
        BY <1>2, <1>3, <4>1
      <4> QED
        BY <4>2 DEF k
    <3>4. w[i - cur] \in Nat
      BY <1>1, <1>2, <3>2
    <3> QED
      BY <3>3, <3>4, VarintBaseAssumption
  <2>3. stops \subseteq Nat
    OBVIOUS
  <2> HIDE DEF stops, last
  <2>4. Min(stops) \in stops /\ \A i \in stops : Min(stops) <= i
    BY <2>1, <2>3, MinNat
  <2>5. Min(stops) <= last /\ last <= Min(stops)
    BY <2>1, <2>2, <2>4
  <2>6. Min(stops) \in Nat /\ last \in Nat
    BY <2>1, <2>3, <2>4
  <2> QED
    BY <2>5, <2>6
<1>7. last \in Nat /\ cur + 1 \in Nat /\ cur + 1 <= last /\ stops # {}
  <2>1. last \in stops
    BY <1>16
  <2> QED
    BY <1>1, <2>1
<1>8. \A i \in cur + 1 .. last :
         d[i] = Digit(buf[i])
                  + (IF i < last THEN VarintBase * d[i + 1] ELSE 0)
  <2>1. \A i \in cur + 1 .. last : buf[i] \in Nat
    BY <1>1 DEF n
  <2> DEFINE first == cur + 1
  <2>2. first \in Nat /\ last \in Nat /\ first <= last
        /\ \A i \in first .. last : buf[i] \in Nat
    BY <1>7, <2>1
  <2> HIDE DEF last, first
  <2>3. \A i \in first .. last :
           Digits(buf, first, last)[i] =
              Digit(buf[i])
                 + (IF i < last
                    THEN VarintBase * Digits(buf, first, last)[i + 1] ELSE 0)
    BY <2>2, DigitsSteps
  <2> QED
    BY <2>3 DEF first
<1> HIDE DEF d
<1> DEFINE R == {k \in Nat : k <= n - 1 => d[last - k] = s[n - 1 - k]}
<1>9. 0 \in R
  <2>1. d[last] = Digit(buf[last])
    <3> DEFINE e == Digit(buf[last])
    <3>1. d[last] = e + 0
      <4>1. last \in cur + 1 .. last /\ ~(last < last)
        BY <1>7
      <4>2. d[last] = e + (IF last < last THEN VarintBase * d[last + 1]
                                          ELSE 0)
        BY <1>8, <4>1
      <4> HIDE DEF e
      <4> QED
        BY <4>1, <4>2
    <3>2. buf[last] \in Nat
      BY <1>1 DEF n
    <3>3. e \in Nat
      BY <3>2, DigitType
    <3> HIDE DEF e
    <3>4. d[last] = e
      BY <3>1, <3>3
    <3> QED
      BY <3>4 DEF e
  <2>2. Digit(buf[last]) = Digit(s[n - 1])
    BY <1>1, <1>2, <1>3
  <2>3. n \in 1 .. n
    BY <1>1
  <2>4. s[n - 1] = Digit(s[n - 1])
    <3> DEFINE e == Digit(s[n - 1])
    <3>1. s[n - 1] \in Nat /\ s[n - 1] = VarintBase * 0 + e
      BY <1>4, <1>5, <2>3
    <3>2. e \in Nat
      BY <3>1, DigitType
    <3> HIDE DEF e
    <3>3. VarintBase * 0 = 0
      BY VarintBaseAssumption
    <3>4. s[n - 1] = e
      BY <3>1, <3>2, <3>3
    <3> QED
      BY <3>4 DEF e
  <2>5. last - 0 = last /\ n - 1 - 0 = n - 1
    BY <1>1
  <2> QED
    BY <2>1, <2>2, <2>4, <2>5
<1>10. ASSUME NEW k \in Nat, k \in R PROVE k + 1 \in R
  <2>1. SUFFICES ASSUME k + 1 <= n - 1
                 PROVE  d[last - (k + 1)] = s[n - 1 - (k + 1)]
    OBVIOUS
  <2> DEFINE j == n - 1 - k
             i == last - (k + 1)
  <2>2. /\ j \in 1 .. n /\ i \in cur + 1 .. last /\ i < last
        /\ i + 1 = last - k /\ i = cur + j /\ n - 1 - (k + 1) = j - 1
    BY <1>1, <2>1
  <2>3. d[i + 1] = s[j]
    BY <1>1, <1>10, <2>1, <2>2
  <2> HIDE DEF i, j
  <2>4. Digit(buf[i]) = Digit(s[j - 1])
    BY <1>2, <1>3, <2>2
  <2>5. d[i] = Digit(s[j - 1]) + VarintBase * s[j]
    BY <1>8, <2>2, <2>3, <2>4
  <2>6. s[j] \in Nat /\ s[j - 1] \in Nat
        /\ s[j - 1] = VarintBase * s[j] + Digit(s[j - 1])
    BY <1>5, <2>2
  <2> DEFINE q == VarintBase * s[j]
             e == Digit(s[j - 1])
  <2>7. q \in Nat /\ e \in Nat
    <3>1. \A x \in Nat : VarintBase * x \in Nat
      BY VarintBaseAssumption
    <3> QED
      BY <2>6, <3>1, DigitType
  <2>8. d[i] = e + q /\ s[j - 1] = q + e
    BY <2>5, <2>6
  <2> HIDE DEF q, e
  <2>9. d[i] = s[j - 1]
    BY <2>7, <2>8
  <2> QED
    BY <2>2, <2>9 DEF i
<1>11. d[cur + 1] = v
  <2>1. Nat \subseteq R
    <3> HIDE DEF R
    <3> QED
      BY <1>9, <1>10, InductionNat
  <2>2. n - 1 \in Nat /\ last - (n - 1) = cur + 1 /\ n - 1 - (n - 1) = 0
    BY <1>1
  <2>3. n - 1 \in R
    BY <2>1, <2>2
  <2> QED
    BY <1>4, <2>2, <2>3
<1> QED
  BY <1>6, <1>7, <1>11 DEF ReadVarUInt, n, d

\* When the buffer ends within the integer, readVarUInt says so.
LEMMA VarUIntTruncated ==
    ASSUME NEW buf \in Seq(Nat), NEW cur \in Nat, NEW v \in Nat,
           Fits(v), Encoded(buf, cur, v),
           cur < Len(buf), Len(buf) < cur + VarUIntLen(v)
    PROVE  ~ReadVarUInt(buf, cur).ok
<1> DEFINE stops == {i \in cur + 1 .. Len(buf) : buf[i] < VarintBase}
<1>1. VarUIntLen(v) \in Nat
  BY VarUIntLenBounds DEF MaxVarUIntLen
<1>2. ASSUME NEW i \in stops PROVE FALSE
  <2>1. i - cur \in 1 .. VarUIntLen(v) - 1 /\ cur + (i - cur) = i
    BY <1>1
  <2>2. buf[i] = WriteVarUInt(v)[i - cur]
    BY <1>1, <2>1 DEF Encoded
  <2>3. WriteVarUInt(v)[i - cur] >= VarintBase
    BY <2>1, WriteVarUIntBytes
  <2>4. buf[i] \in Nat /\ buf[i] < VarintBase
    OBVIOUS
  <2> QED
    BY <2>2, <2>3, <2>4, VarintBaseAssumption
<1> QED
  BY <1>2 DEF ReadVarUInt
=============================================================================
