--------------------------- MODULE StreamsProofs ---------------------------
(***************************************************************************)
(* Proofs about the byte streams: for every size of the read buffer, every *)
(* way read() cuts a file into chunks and every sequence of calls, a       *)
(* stream answers from the bytes at its position (ByteStream), and a       *)
(* string that was written whole is read back.                             *)
(***************************************************************************)
EXTENDS Streams, WireFormatProofs

-----------------------------------------------------------------------------
(* Sequences and numbers                                                   *)

LEMMA ByteNat ==
    /\ Byte \subseteq Nat
    /\ \A s \in Seq(Byte) : s \in Seq(Nat) /\ Len(s) \in Nat
<1>1. Byte \subseteq Nat
  BY VarintBaseAssumption DEF Byte
<1>2. ASSUME NEW s \in Seq(Byte) PROVE s \in Seq(Nat) /\ Len(s) \in Nat
  <2>1. Len(s) \in Nat /\ s \in [1 .. Len(s) -> Byte]
    OBVIOUS
  <2>2. s \in [1 .. Len(s) -> Nat]
    BY <1>1, <2>1
  <2> QED
    BY <2>1, <2>2
<1> QED
  BY <1>1, <1>2

\* The smaller of two numbers.
LEMMA MinTwo ==
    ASSUME NEW a \in Nat, NEW b \in Nat
    PROVE  Min({a, b}) = IF a <= b THEN a ELSE b
<1>1. {a, b} \subseteq Nat /\ {a, b} # {}
  OBVIOUS
<1>2. Min({a, b}) \in {a, b} /\ \A m \in {a, b} : Min({a, b}) <= m
  BY <1>1, MinNat
<1> QED
  BY <1>2

\* The part of a sequence behind its first a elements and up to b.
LEMMA Part ==
    ASSUME NEW S, NEW s \in Seq(S), NEW a \in Nat, NEW b \in Nat, a <= b,
           b <= Len(s)
    PROVE  /\ SubSeq(s, a + 1, b) \in Seq(S)
           /\ Len(SubSeq(s, a + 1, b)) = b - a
           /\ \A i \in 1 .. b - a : SubSeq(s, a + 1, b)[i] = s[a + i]
<1>1. a + 1 \in Int /\ b \in Int
  OBVIOUS
<1>2. \A i \in a + 1 .. b : s[i] \in S
  OBVIOUS
<1>3. /\ SubSeq(s, a + 1, b) \in Seq(S)
      /\ Len(SubSeq(s, a + 1, b)) = IF a + 1 <= b THEN b - (a + 1) + 1 ELSE 0
      /\ \A i \in 1 .. b - (a + 1) + 1 :
            SubSeq(s, a + 1, b)[i] = s[(a + 1) + i - 1]
  BY <1>1, <1>2, SubSeqProperties
<1>4. /\ (IF a + 1 <= b THEN b - (a + 1) + 1 ELSE 0) = b - a
      /\ b - (a + 1) + 1 = b - a
      /\ \A i \in 1 .. b - a : (a + 1) + i - 1 = a + i
  OBVIOUS
<1> QED
  BY <1>3, <1>4

\* Its beginning.
LEMMA Prefix ==
    ASSUME NEW S, NEW s \in Seq(S), NEW b \in Nat, b <= Len(s)
    PROVE  /\ SubSeq(s, 1, b) \in Seq(S)
           /\ Len(SubSeq(s, 1, b)) = b
           /\ \A i \in 1 .. b : SubSeq(s, 1, b)[i] = s[i]
<1>1. /\ SubSeq(s, 0 + 1, b) \in Seq(S)
      /\ Len(SubSeq(s, 0 + 1, b)) = b - 0
      /\ \A i \in 1 .. b - 0 : SubSeq(s, 0 + 1, b)[i] = s[0 + i]
  BY Part
<1> QED
  BY <1>1

\* What two sequences one after the other are.
LEMMA Joined ==
    ASSUME NEW S, NEW s \in Seq(S), NEW t \in Seq(S)
    PROVE  /\ s \o t \in Seq(S)
           /\ Len(s \o t) = Len(s) + Len(t)
           /\ \A i \in 1 .. Len(s) : (s \o t)[i] = s[i]
           /\ \A i \in 1 .. Len(t) : (s \o t)[Len(s) + i] = t[i]
<1>1. /\ s \o t \in Seq(S) /\ Len(s \o t) = Len(s) + Len(t)
      /\ \A i \in 1 .. Len(s) + Len(t) :
            (s \o t)[i] = IF i <= Len(s) THEN s[i] ELSE t[i - Len(s)]
  BY ConcatProperties
<1>2. Len(s) \in Nat /\ Len(t) \in Nat
  OBVIOUS
<1>3. \A i \in 1 .. Len(s) : i \in 1 .. Len(s) + Len(t) /\ i <= Len(s)
  BY <1>2
<1>4. \A i \in 1 .. Len(t) :
         /\ Len(s) + i \in 1 .. Len(s) + Len(t) /\ ~ (Len(s) + i <= Len(s))
         /\ Len(s) + i - Len(s) = i
  BY <1>2
<1> QED
  BY <1>1, <1>3, <1>4

\* Sequences that agree everywhere are the same.
LEMMA SameSeq ==
    ASSUME NEW S, NEW s \in Seq(S), NEW t \in Seq(S), Len(s) = Len(t),
           \A i \in 1 .. Len(s) : s[i] = t[i]
    PROVE  s = t
<1>1. s \in [1 .. Len(s) -> S] /\ t \in [1 .. Len(s) -> S]
  OBVIOUS
<1> QED
  BY <1>1

LEMMA NotEmpty ==
    ASSUME NEW S, NEW s \in Seq(S)
    PROVE  s # << >> <=> Len(s) > 0
<1>1. CASE s = << >>
  BY <1>1
<1>2. CASE s # << >>
  <2>1. Len(s) \in Nat /\ Len(s) # 0
    BY <1>2
  <2> QED
    BY <1>2, <2>1
<1> QED
  BY <1>1, <1>2

-----------------------------------------------------------------------------
(* Integers within longer sequences                                        *)

\* The bytes of a sequence stand in another one, d places on.
Within(s, t, d) ==
    /\ d + Len(s) <= Len(t)
    /\ \A i \in 1 .. Len(s) : s[i] = t[d + i]

\* The same digits have the same value, wherever they stand.
LEMMA DigitsShift ==
    ASSUME NEW s \in Seq(Nat), NEW t \in Seq(Nat), NEW d \in Nat,
           Within(s, t, d), NEW last \in 1 .. Len(s)
    PROVE  Digits(s, 1, last)[1] = Digits(t, d + 1, d + last)[d + 1]
<1> DEFINE f == Digits(s, 1, last)
           g == Digits(t, d + 1, d + last)
           R == {k \in Nat : k <= last - 1 => f[last - k] = g[d + last - k]}
<1>1. last \in Nat /\ last >= 1 /\ Len(s) \in Nat /\ Len(t) \in Nat
  OBVIOUS
<1>2. \A i \in 1 .. last : s[i] \in Nat /\ s[i] = t[d + i]
  <2> HIDE DEF f, g
  <2>1. \A i \in 1 .. last : i \in 1 .. Len(s)
    BY <1>1
  <2>2. \A i \in 1 .. Len(s) : s[i] \in Nat
    OBVIOUS
  <2>3. \A i \in 1 .. Len(s) : s[i] = t[d + i]
    BY DEF Within
  <2> QED
    BY <2>1, <2>2, <2>3
<1>3. \A i \in 1 .. last :
         f[i] = Digit(s[i]) + (IF i < last THEN VarintBase * f[i + 1] ELSE 0)
  <2>1. 1 \in Nat /\ \A i \in 1 .. last : s[i] \in Nat
    BY <1>2
  <2> QED
    BY <1>1, <2>1, DigitsSteps
<1>4. \A j \in d + 1 .. d + last :
         g[j] = Digit(t[j])
                   + (IF j < d + last THEN VarintBase * g[j + 1] ELSE 0)
  <2>1. \A j \in d + 1 .. d + last : t[j] \in Nat
    <3>1. ASSUME NEW j \in d + 1 .. d + last PROVE t[j] \in Nat
      <4>1. j \in 1 .. Len(t)
        BY <1>1 DEF Within
      <4> QED
        BY <4>1
    <3> QED
      BY <3>1
  <2> DEFINE p == d + 1
             q == d + last
  <2>2. p \in Nat /\ q \in Nat /\ p <= q /\ \A j \in p .. q : t[j] \in Nat
    BY <1>1, <2>1
  <2> HIDE DEF p, q
  <2>3. \A j \in p .. q :
           Digits(t, p, q)[j] =
              Digit(t[j])
                 + (IF j < q THEN VarintBase * Digits(t, p, q)[j + 1] ELSE 0)
    BY <2>2, DigitsSteps
  <2> QED
    BY <2>3 DEF p, q
<1> HIDE DEF f, g
<1>5. 0 \in R
  <2>1. f[last] = Digit(s[last]) + 0
    BY <1>1, <1>3
  <2>2. g[d + last] = Digit(t[d + last]) + 0
    <3>1. d + last \in d + 1 .. d + last /\ ~ (d + last < d + last)
      BY <1>1
    <3> QED
      BY <1>4, <3>1
  <2>3. s[last] = t[d + last]
    BY <1>1, <1>2
  <2>4. last - 0 = last /\ d + last - 0 = d + last
    BY <1>1
  <2> QED
    BY <2>1, <2>2, <2>3, <2>4
<1>6. ASSUME NEW k \in Nat, k \in R PROVE k + 1 \in R
  <2>1. SUFFICES ASSUME k + 1 <= last - 1
                 PROVE  f[last - (k + 1)] = g[d + last - (k + 1)]
    OBVIOUS
  <2> DEFINE i == last - (k + 1)
             j == d + last - (k + 1)
  <2>2. /\ i \in 1 .. last /\ i < last /\ i + 1 = last - k
        /\ j \in d + 1 .. d + last /\ j < d + last /\ j + 1 = d + last - k
        /\ j = d + i
    BY <1>1, <2>1
  <2>3. f[i + 1] = g[j + 1]
    BY <1>1, <1>6, <2>1, <2>2
  <2>4. s[i] = t[j]
    BY <1>2, <2>2
  <2> HIDE DEF i, j
  <2>5. f[i] = Digit(s[i]) + VarintBase * f[i + 1]
    BY <1>3, <2>2
  <2>6. g[j] = Digit(t[j]) + VarintBase * g[j + 1]
    BY <1>4, <2>2
  <2>7. f[i] = g[j]
    BY <2>3, <2>4, <2>5, <2>6
  <2> QED
    BY <2>7 DEF i, j
<1>7. Nat \subseteq R
  <2> HIDE DEF R
  <2> QED
    BY <1>5, <1>6, InductionNat
<1>8. last - 1 \in R
  <2>1. last - 1 \in Nat
    BY <1>1
  <2> HIDE DEF R
  <2> QED
    BY <1>7, <2>1
<1>9. last - (last - 1) = 1 /\ d + last - (last - 1) = d + 1
  BY <1>1
<1>10. f[1] = g[d + 1]
  BY <1>1, <1>8, <1>9
<1> QED
  BY <1>10 DEF f, g

\* What readVarUInt does, without its loop: the first byte without the
\* continuation bit is the last one.
LEMMA ReadVarUIntAt ==
    ASSUME NEW s \in Seq(Nat), NEW cur \in Nat, cur <= Len(s),
           NEW first, first = cur + 1
    PROVE  LET r == ReadVarUInt(s, cur) IN
           \/ /\ r = [ok |-> FALSE, cur |-> Len(s), value |-> 0]
              /\ \A i \in first .. Len(s) : ~ (s[i] < VarintBase)
           \/ /\ r.ok /\ r.cur \in first .. Len(s) /\ r.value \in Nat
              /\ s[r.cur] < VarintBase
              /\ \A i \in first .. r.cur - 1 : ~ (s[i] < VarintBase)
              /\ r.value = Digits(s, first, r.cur)[first]
<1> DEFINE stops == {i \in cur + 1 .. Len(s) : s[i] < VarintBase}
           r == ReadVarUInt(s, cur)
<1>1. r = IF stops = {} THEN [ok |-> FALSE, cur |-> Len(s), value |-> 0]
          ELSE [ok |-> TRUE, cur |-> Min(stops),
                value |-> Digits(s, cur + 1, Min(stops))[cur + 1]]
  BY DEF ReadVarUInt
<1>2. CASE stops = {}
  BY <1>1, <1>2
<1>3. CASE stops # {}
  <2>1. stops \subseteq Nat
    OBVIOUS
  <2>2. Min(stops) \in stops /\ \A m \in stops : Min(stops) <= m
    <3> HIDE DEF stops
    <3> QED
      BY <1>3, <2>1, MinNat
  <2> DEFINE last == Min(stops)
  <2>3. last \in cur + 1 .. Len(s) /\ s[last] < VarintBase
    BY <2>2
  <2>4. \A i \in cur + 1 .. last - 1 : ~ (s[i] < VarintBase)
    <3>1. SUFFICES ASSUME NEW i \in cur + 1 .. last - 1, s[i] < VarintBase
                   PROVE  FALSE
      OBVIOUS
    <3>2. Len(s) \in Nat /\ i \in cur + 1 .. Len(s) /\ ~ (last <= i)
      BY <2>3
    <3>3. i \in stops
      BY <3>1, <3>2
    <3> QED
      BY <2>2, <3>2, <3>3
  <2>5. r = [ok |-> TRUE, cur |-> last,
             value |-> Digits(s, cur + 1, last)[cur + 1]]
    BY <1>1, <1>3
  <2>6. r.value \in Nat
    <3>1. cur < Len(s)
      BY <2>3
    <3> QED
      BY <3>1, ReadVarUIntType
  <2> HIDE DEF stops, r, last
  <2>7. r.ok /\ r.cur = last /\ r.value = Digits(s, cur + 1, last)[cur + 1]
    BY <2>5
  <2>8. /\ r.ok /\ r.cur \in cur + 1 .. Len(s) /\ r.value \in Nat
        /\ s[r.cur] < VarintBase
        /\ \A i \in cur + 1 .. r.cur - 1 : ~ (s[i] < VarintBase)
        /\ r.value = Digits(s, cur + 1, r.cur)[cur + 1]
    BY <2>3, <2>4, <2>6, <2>7
  <2> QED
    BY <2>8 DEF r
<1> QED
  BY <1>2, <1>3

\* An integer that a part of the bytes holds is the one that all of them hold
\* there.
LEMMA IntegerWithin ==
    ASSUME NEW s \in Seq(Nat), NEW t \in Seq(Nat), NEW d \in Nat,
           Within(s, t, d), ReadVarUInt(s, 0).ok
    PROVE  /\ ReadVarUInt(t, d).ok
           /\ ReadVarUInt(t, d).cur = d + ReadVarUInt(s, 0).cur
           /\ ReadVarUInt(t, d).value = ReadVarUInt(s, 0).value
           /\ ReadVarUInt(s, 0).cur \in 1 .. Len(s)
           /\ ReadVarUInt(s, 0).value \in Nat
<1> DEFINE r == ReadVarUInt(s, 0)
           u == ReadVarUInt(t, d)
<1>1. Len(s) \in Nat /\ Len(t) \in Nat /\ d + Len(s) <= Len(t) /\ d <= Len(t)
  BY DEF Within
<1>2. /\ r.cur \in 1 .. Len(s) /\ r.value \in Nat /\ s[r.cur] < VarintBase
      /\ \A i \in 1 .. r.cur - 1 : ~ (s[i] < VarintBase)
      /\ r.value = Digits(s, 1, r.cur)[1]
  <2>1. 0 \in Nat /\ 0 <= Len(s) /\ 0 + 1 = 1
    BY <1>1
  <2>2. r.ok
    OBVIOUS
  <2>3. r # [ok |-> FALSE, cur |-> Len(s), value |-> 0]
    BY <2>2
  <2> HIDE DEF r
  <2>4. \/ r = [ok |-> FALSE, cur |-> Len(s), value |-> 0]
        \/ /\ r.cur \in 1 .. Len(s) /\ r.value \in Nat
           /\ s[r.cur] < VarintBase
           /\ \A i \in 1 .. r.cur - 1 : ~ (s[i] < VarintBase)
           /\ r.value = Digits(s, 1, r.cur)[1]
    BY <2>1, ReadVarUIntAt DEF r
  <2> QED
    BY <2>3, <2>4
<1> DEFINE last == d + r.cur
<1> HIDE DEF r, u
<1>8. r.cur \in Nat /\ r.cur >= 1 /\ r.cur <= Len(s)
  BY <1>1, <1>2
<1>3. last \in d + 1 .. Len(t) /\ t[last] < VarintBase
  <2>1. last \in d + 1 .. Len(t)
    <3> DEFINE c == r.cur
    <3>1. c \in Nat /\ c >= 1 /\ c <= Len(s)
      BY <1>8
    <3> HIDE DEF c
    <3>2. d + c \in d + 1 .. Len(t)
      BY <1>1, <3>1
    <3> QED
      BY <3>2 DEF c
  <2>2. s[r.cur] = t[d + r.cur]
    BY <1>2 DEF Within
  <2> QED
    BY <1>2, <2>1, <2>2
<1>4. \A j \in d + 1 .. last - 1 : ~ (t[j] < VarintBase)
  <2>1. SUFFICES ASSUME NEW j \in d + 1 .. last - 1
                 PROVE  ~ (t[j] < VarintBase)
    OBVIOUS
  <2> DEFINE i == j - d
  <2>2. i \in 1 .. r.cur - 1 /\ i \in 1 .. Len(s) /\ j = d + i
    BY <1>1, <1>8, SMTT(20)
  <2> HIDE DEF i
  <2>3. ~ (s[i] < VarintBase) /\ s[i] = t[d + i]
    BY <1>2, <2>2 DEF Within
  <2> QED
    BY <2>2, <2>3
<1>5. /\ u.ok /\ u.cur \in d + 1 .. Len(t) /\ t[u.cur] < VarintBase
      /\ \A i \in d + 1 .. u.cur - 1 : ~ (t[i] < VarintBase)
      /\ u.value = Digits(t, d + 1, u.cur)[d + 1]
  <2>1. last \in d + 1 .. Len(t) /\ t[last] < VarintBase
    BY <1>3
  <2> HIDE DEF u, last
  <2>2. \/ \A i \in d + 1 .. Len(t) : ~ (t[i] < VarintBase)
        \/ /\ u.ok /\ u.cur \in d + 1 .. Len(t) /\ t[u.cur] < VarintBase
           /\ \A i \in d + 1 .. u.cur - 1 : ~ (t[i] < VarintBase)
           /\ u.value = Digits(t, d + 1, u.cur)[d + 1]
    BY <1>1, ReadVarUIntAt DEF u
  <2> QED
    BY <2>1, <2>2
<1>6. u.cur = last
  <2>1. last \in Nat /\ u.cur \in Nat
    <3> HIDE DEF last
    <3> QED
      BY <1>1, <1>3, <1>5
  <2>2. ~ (u.cur < last)
    <3>1. SUFFICES ASSUME u.cur < last PROVE FALSE
      OBVIOUS
    <3>2. u.cur \in d + 1 .. last - 1
      BY <1>1, <1>5, <2>1, <3>1
    <3> QED
      BY <1>4, <1>5, <3>2
  <2>3. ~ (last < u.cur)
    <3>1. SUFFICES ASSUME last < u.cur PROVE FALSE
      OBVIOUS
    <3>2. last \in d + 1 .. u.cur - 1
      BY <1>1, <1>3, <2>1, <3>1
    <3> QED
      BY <1>3, <1>5, <3>2
  <2> QED
    BY <2>1, <2>2, <2>3
<1>7. Digits(s, 1, r.cur)[1] = Digits(t, d + 1, d + r.cur)[d + 1]
  BY <1>2, DigitsShift
<1> QED
  BY <1>2, <1>5, <1>6, <1>7 DEF r, u

\* Bytes up to the end without an integer are the end of all of them without
\* one.
LEMMA NoInteger ==
    ASSUME NEW s \in Seq(Nat), ~ReadVarUInt(s, 0).ok
    PROVE  /\ \A i \in 1 .. Len(s) : ~ (s[i] < VarintBase)
           /\ \A t \in Seq(Nat), d \in Nat :
                 Within(s, t, d) /\ d + Len(s) = Len(t) =>
                    ReadVarUInt(t, d)
                       = [ok |-> FALSE, cur |-> Len(t), value |-> 0]
<1>1. \A i \in 1 .. Len(s) : ~ (s[i] < VarintBase)
  <2>1. 0 \in Nat /\ 0 <= Len(s) /\ 0 + 1 = 1
    OBVIOUS
  <2> QED
    BY <2>1, ReadVarUIntAt
<1>2. ASSUME NEW t \in Seq(Nat), NEW d \in Nat,
             Within(s, t, d), d + Len(s) = Len(t)
      PROVE  ReadVarUInt(t, d) = [ok |-> FALSE, cur |-> Len(t), value |-> 0]
  <2>1. Len(s) \in Nat /\ Len(t) \in Nat /\ d <= Len(t)
    BY <1>2
  <2>2. \A j \in d + 1 .. Len(t) : ~ (t[j] < VarintBase)
    <3>1. SUFFICES ASSUME NEW j \in d + 1 .. Len(t)
                   PROVE  ~ (t[j] < VarintBase)
      OBVIOUS
    <3> DEFINE i == j - d
    <3>2. i \in 1 .. Len(s) /\ j = d + i
      BY <1>2, <2>1
    <3> HIDE DEF i
    <3>3. s[i] = t[d + i]
      BY <1>2, <3>2 DEF Within
    <3> QED
      BY <1>1, <3>2, <3>3
  <2> PICK first : first = d + 1
    OBVIOUS
  <2> DEFINE r == ReadVarUInt(t, d)
  <2>3. \/ r = [ok |-> FALSE, cur |-> Len(t), value |-> 0]
        \/ r.cur \in first .. Len(t) /\ t[r.cur] < VarintBase
    BY <2>1, ReadVarUIntAt, SMTT(20)
  <2> HIDE DEF r
  <2> QED
    BY <2>2, <2>3 DEF r
<1> QED
  BY <1>1, <1>2

\* The first byte without the continuation bit ends an integer.
LEMMA IntegerEnds ==
    ASSUME NEW s \in Seq(Nat), s # << >>, s[Len(s)] < VarintBase,
           \A i \in 1 .. Len(s) - 1 : ~ (s[i] < VarintBase)
    PROVE  ReadVarUInt(s, 0).ok /\ ReadVarUInt(s, 0).cur = Len(s)
<1> DEFINE r == ReadVarUInt(s, 0)
<1>1. 0 \in Nat /\ 0 <= Len(s) /\ 0 + 1 = 1 /\ Len(s) \in 1 .. Len(s)
  OBVIOUS
<1>2. \/ \A i \in 1 .. Len(s) : ~ (s[i] < VarintBase)
      \/ r.ok /\ r.cur \in 1 .. Len(s) /\ s[r.cur] < VarintBase
  BY <1>1, ReadVarUIntAt
<1> HIDE DEF r
<1>3. r.ok /\ r.cur \in 1 .. Len(s) /\ s[r.cur] < VarintBase
  BY <1>1, <1>2
<1>4. r.cur \notin 1 .. Len(s) - 1
  BY <1>3
<1> QED
  BY <1>1, <1>3, <1>4 DEF r

-----------------------------------------------------------------------------
(* What can be read, and the read buffer                                   *)

\* The types of what is stored, the part of the invariant that the lemmas
\* about streams need.
StoreOK ==
    /\ class \in {"file", "buffer"}
    /\ disk \in Seq(Byte)
    /\ buffer \in [data : Seq(Byte), size : Nat]
    /\ buffer.size <= Len(buffer.data)

LEMMA ContentsType ==
    ASSUME StoreOK
    PROVE  /\ Contents \in Seq(Byte) /\ Contents \in Seq(Nat)
           /\ Len(Contents) \in Nat
           /\ class = "buffer" => Len(Contents) = buffer.size
<1>1. SubSeq(buffer.data, 1, buffer.size) \in Seq(Byte)
      /\ Len(SubSeq(buffer.data, 1, buffer.size)) = buffer.size
  <2> DEFINE data == buffer.data
             size == buffer.size
  <2>1. data \in Seq(Byte) /\ size \in Nat /\ size <= Len(data)
    BY DEF StoreOK
  <2> HIDE DEF data, size
  <2>2. SubSeq(data, 1, size) \in Seq(Byte) /\ Len(SubSeq(data, 1, size)) = size
    BY <2>1, Prefix
  <2> QED
    BY <2>2 DEF data, size
<1>2. Contents \in Seq(Byte)
  BY <1>1 DEF StoreOK, Contents
<1>3. class = "buffer" => Len(Contents) = buffer.size
  BY <1>1 DEF Contents
<1> QED
  BY <1>2, <1>3, ByteNat

\* A place in what can be read.
LEMMA ClampedAt ==
    ASSUME StoreOK, NEW n \in Nat
    PROVE  /\ Clamped(n) = IF n <= Len(Contents) THEN n ELSE Len(Contents)
           /\ Clamped(n) \in Nat /\ Clamped(n) <= Len(Contents)
<1>1. Len(Contents) \in Nat
  BY ContentsType
<1>2. Clamped(n) = IF n <= Len(Contents) THEN n ELSE Len(Contents)
  BY <1>1, MinTwo DEF Clamped
<1> QED
  BY <1>1, <1>2

\* The bytes left in the read buffer are the next ones.
LEMMA StreamFacts ==
    ASSUME StoreOK, NEW s, StreamOK(s)
    PROVE  /\ Available(s) \in Nat /\ Position(s) \in Nat
           /\ s.pos + Available(s) = Len(s.buf)
           /\ s.offset = Position(s) + Available(s)
           /\ Available(s) > 0 => Position(s) + Available(s) <= Len(Contents)
           /\ \A i \in 1 .. Available(s) :
                 s.buf[s.pos + i] = Contents[Position(s) + i]
<1> DEFINE o == s.offset
           b == s.buf
           p == s.pos
           l == Len(b)
<1>1. /\ o \in Nat /\ b \in Seq(Byte) /\ p \in Nat /\ l \in Nat
      /\ p <= l /\ l <= o /\ (l > 0 => o <= Len(Contents))
      /\ \A i \in 1 .. l : b[i] = Contents[o - l + i]
  BY DEF StreamOK
<1>2. Len(Contents) \in Nat
  BY ContentsType
<1>3. Available(s) = l - p /\ Position(s) = o - (l - p)
  BY DEF Available, Position
<1> HIDE DEF o, b, p, l
<1>4. /\ l - p \in Nat /\ o - (l - p) \in Nat /\ p + (l - p) = l
      /\ o = (o - (l - p)) + (l - p)
      /\ (l - p > 0 => (o - (l - p)) + (l - p) <= Len(Contents))
  BY <1>1, <1>2
<1>5. \A i \in 1 .. l - p : b[p + i] = Contents[o - (l - p) + i]
  <2>1. SUFFICES ASSUME NEW i \in 1 .. l - p
                 PROVE  b[p + i] = Contents[o - (l - p) + i]
    OBVIOUS
  <2>2. p + i \in 1 .. l /\ o - l + (p + i) = o - (l - p) + i
    BY <1>1
  <2> QED
    BY <1>1, <2>2
<1>6. s.pos = p /\ s.buf = b /\ s.offset = o /\ Len(s.buf) = l
  BY DEF p, b, o, l
<1> QED
  BY <1>3, <1>4, <1>5, <1>6

\* The stream after a chunk of k bytes; k is zero only at the end.
LEMMA ChunkOK ==
    ASSUME StoreOK, NEW s, StreamOK(s), class = "file", Available(s) = 0,
           NEW k \in ChunkSizes(s)
    PROVE  LET t == ReadNextChunk(s, k) IN
           /\ StreamOK(t) /\ t.open = s.open
           /\ Position(t) = Position(s)
           /\ Available(t) = 0 => Position(t) >= Len(Contents)
<1> DEFINE o == s.offset
           c == SubSeq(Contents, o + 1, o + k)
           t == ReadNextChunk(s, k)
<1>1. o \in Nat /\ Position(s) = o /\ s.open \in BOOLEAN
  <2>1. Position(s) = s.offset - Available(s) /\ s.offset \in Nat
    BY DEF StreamOK, Position
  <2> QED
    BY <2>1 DEF StreamOK
<1>2. Len(Contents) \in Nat /\ Contents \in Seq(Byte)
  BY ContentsType
<1>3. t = [offset |-> o + k, buf |-> c, pos |-> 0, open |-> s.open]
  <2>1. s \in [offset : Nat, buf : Seq(Byte), pos : Nat, open : BOOLEAN]
    BY DEF StreamOK
  <2>2. s = [offset |-> o, buf |-> s.buf, pos |-> s.pos, open |-> s.open]
    BY <2>1
  <2>3. ReadNextChunk(s, k) =
           [s EXCEPT !.offset = o + k, !.pos = 0, !.buf = c]
    BY DEF ReadNextChunk
  <2> HIDE DEF c, o
  <2>4. ReadNextChunk(s, k) =
           [offset |-> o + k, buf |-> c, pos |-> 0, open |-> s.open]
    BY <2>1, <2>3
  <2> QED
    BY <2>4
<1> HIDE DEF o, t
<1>4. /\ k \in Nat /\ o + k \in Nat /\ c \in Seq(Byte) /\ Len(c) = k
      /\ (k > 0 => o + k <= Len(Contents))
      /\ (k = 0 => o >= Len(Contents))
      /\ \A i \in 1 .. k : c[i] = Contents[o + i]
  <2>1. CASE o >= Len(Contents)
    <3>1. k = 0
      BY <2>1 DEF ChunkSizes, o
    <3>2. c = << >>
      BY <1>1, <3>1
    <3> HIDE DEF c
    <3>3. c \in Seq(Byte) /\ Len(c) = 0
      BY <3>2
    <3> QED
      BY <1>1, <2>1, <3>1, <3>3
  <2>2. CASE ~ (o >= Len(Contents))
    <3>1. k \in 1 .. Min({BufferSize, Len(Contents) - o})
      BY <2>2 DEF ChunkSizes, o
    <3> DEFINE left == Len(Contents) - o
    <3>2. left \in Nat /\ BufferSize \in Nat
      BY <1>1, <1>2, <2>2, StreamsAssumption
    <3>3. Min({BufferSize, left}) \in Nat /\ Min({BufferSize, left}) <= left
      <4> HIDE DEF left
      <4> QED
        BY <3>2, MinTwo
    <3>4. k \in Nat /\ k >= 1 /\ k <= left
      BY <3>1, <3>2, <3>3
    <3>5. o + k \in Nat /\ o <= o + k /\ o + k <= Len(Contents)
      BY <1>1, <1>2, <3>4
    <3> DEFINE q == o + k
    <3> HIDE DEF q
    <3>6. /\ SubSeq(Contents, o + 1, q) \in Seq(Byte)
          /\ Len(SubSeq(Contents, o + 1, q)) = q - o
          /\ \A i \in 1 .. q - o :
                SubSeq(Contents, o + 1, q)[i] = Contents[o + i]
      <4>1. q \in Nat /\ o <= q /\ q <= Len(Contents)
        BY <3>5 DEF q
      <4> QED
        BY <1>1, <1>2, <4>1, Part
    <3>7. q - o = k
      BY <1>1, <3>4 DEF q
    <3> QED
      BY <3>4, <3>5, <3>6, <3>7 DEF q
  <2> QED
    BY <2>1, <2>2
<1> HIDE DEF c
<1>5. /\ t.offset = o + k /\ t.buf = c /\ t.pos = 0 /\ t.open = s.open
      /\ t \in [offset : Nat, buf : Seq(Byte), pos : Nat, open : BOOLEAN]
  BY <1>1, <1>3, <1>4
<1>6. o + k - k = o /\ k <= o + k /\ k - 0 = k /\ o + k - (k - 0) = o
  BY <1>1, <1>4
<1>7. StreamOK(t)
  <2>1. /\ Len(t.buf) = k /\ t.pos <= Len(t.buf) /\ Len(t.buf) <= t.offset
        /\ Len(t.buf) > 0 => t.offset <= Len(Contents)
    BY <1>4, <1>5, <1>6
  <2>2. ASSUME NEW i \in 1 .. Len(t.buf)
        PROVE  t.buf[i] = Contents[t.offset - Len(t.buf) + i]
    <3>1. i \in 1 .. k /\ c[i] = Contents[o + i]
      BY <1>4, <2>1
    <3>2. t.buf[i] = c[i]
      BY <1>5
    <3>4. t.offset - Len(t.buf) = o
      <4>1. t.offset = o + k /\ Len(t.buf) = k
        BY <1>5, <2>1
      <4>2. o \in Nat /\ k \in Nat
        BY <1>1, <1>4
      <4> QED
        BY <4>1, <4>2
    <3> QED
      BY <3>1, <3>2, <3>4
  <2>3. ~ (class = "buffer")
    OBVIOUS
  <2> QED
    BY <1>5, <2>1, <2>2, <2>3 DEF StreamOK
<1>8. Available(t) = k /\ Position(t) = o
  <2>1. Available(t) = k - 0
    BY <1>4, <1>5 DEF Available
  <2>2. Position(t) = t.offset - Available(t)
    BY DEF Position
  <2>3. t.offset = o + k /\ o \in Nat /\ k \in Nat
    BY <1>1, <1>4, <1>5
  <2> QED
    BY <2>1, <2>2, <2>3
<1> QED
  BY <1>1, <1>4, <1>5, <1>7, <1>8 DEF t

\* Filling an empty read buffer moves the stream nowhere, and it stays empty
\* only at the end.
LEMMA FilledOK ==
    ASSUME StoreOK, NEW s, StreamOK(s), s.open, NEW t \in Filled(s)
    PROVE  /\ StreamOK(t) /\ t.open
           /\ Position(t) = Position(s)
           /\ Available(t) = 0 => Clamped(Position(t)) = Len(Contents)
<1>1. Available(s) \in Nat /\ Position(s) \in Nat /\ Len(Contents) \in Nat
  BY StreamFacts, ContentsType
<1>2. CASE class = "file" /\ s.pos >= Len(s.buf)
  <2>1. PICK k \in ChunkSizes(s) : t = ReadNextChunk(s, k)
    BY <1>2 DEF Filled
  <2>2. Available(s) = 0
    <3> DEFINE a == s.pos
               b == Len(s.buf)
    <3>1. a \in Nat /\ b \in Nat /\ a <= b /\ a >= b
      BY <1>2 DEF StreamOK
    <3>2. Available(s) = b - a
      BY DEF Available
    <3> HIDE DEF a, b
    <3> QED
      BY <3>1, <3>2
  <2>3. /\ StreamOK(t) /\ t.open = s.open /\ Position(t) = Position(s)
        /\ Available(t) = 0 => Position(t) >= Len(Contents)
    BY <1>2, <2>1, <2>2, ChunkOK
  <2> QED
    BY <1>1, <2>3, ClampedAt
<1>3. CASE ~ (class = "file" /\ s.pos >= Len(s.buf))
  <2>1. t = s
    BY <1>3 DEF Filled
  <2>2. ASSUME Available(s) = 0 PROVE Clamped(Position(s)) = Len(Contents)
    <3>1. s.pos + Available(s) = Len(s.buf)
          /\ s.offset = Position(s) + Available(s)
      BY StreamFacts
    <3>2. s.pos \in Nat /\ s.offset \in Nat
      BY DEF StreamOK
    <3>3. s.pos >= Len(s.buf)
      BY <2>2, <3>1, <3>2
    <3>4. class = "buffer"
      BY <1>3, <3>3 DEF StoreOK
    <3>5. s.offset = Len(Contents)
      BY <3>4 DEF StreamOK
    <3>6. Position(s) = Len(Contents)
      BY <1>1, <2>2, <3>1, <3>5
    <3> QED
      BY <1>1, <3>6, ClampedAt
  <2> QED
    BY <2>1, <2>2
<1> QED
  BY <1>2, <1>3

-----------------------------------------------------------------------------
(* What is stored                                                          *)

\* An encoded integer is made of bytes.
LEMMA IntegerBytes ==
    ASSUME NEW v \in Nat
    PROVE  /\ WriteVarUInt(v) \in Seq(Byte)
           /\ Len(WriteVarUInt(v)) = VarUIntLen(v)
           /\ VarUIntLen(v) \in Nat
<1> DEFINE n == VarUIntLen(v)
           s == Shifted(v)
<1>1. n \in 1 .. MaxVarUIntLen /\ n \in Nat
  BY VarUIntLenBounds DEF MaxVarUIntLen
<1>2. \A i \in 1 .. n : s[i - 1] \in Nat
  <2>1. \A i \in 1 .. n : i - 1 \in 0 .. MaxVarUIntLen
    BY <1>1 DEF MaxVarUIntLen
  <2> QED
    BY <2>1, ShiftedSteps
<1> HIDE DEF n, s
<1>3. ASSUME NEW i \in 1 .. n
      PROVE  Digit(s[i - 1]) + (IF s[i] # 0 THEN VarintBase ELSE 0) \in Byte
  <2> DEFINE d == Digit(s[i - 1])
  <2>1. d \in 0 .. VarintBase - 1
    BY <1>2, DivMod
  <2> HIDE DEF d
  <2>2. d \in Byte /\ d + VarintBase \in Byte /\ d + 0 = d
    BY <2>1, VarintBaseAssumption DEF Byte
  <2>3. CASE s[i] # 0
    BY <2>2, <2>3 DEF d
  <2>4. CASE s[i] = 0
    BY <2>2, <2>4 DEF d
  <2> QED
    BY <2>3, <2>4
<1>4. WriteVarUInt(v) \in [1 .. n -> Byte]
  BY <1>3 DEF WriteVarUInt, n, s
<1>5. WriteVarUInt(v) \in Seq(Byte) /\ Len(WriteVarUInt(v)) = n
  BY <1>1, <1>4
<1> QED
  BY <1>1, <1>5 DEF n

\* The parts of a record.
LEMMA TextFrame ==
    ASSUME NEW s \in Text
    PROVE  LET n == VarUIntLen(Len(s)) IN
           /\ n \in Nat /\ Len(s) \in Nat /\ s \in Seq(Byte) /\ Fits(Len(s))
           /\ Frame(s) \in Seq(Byte) /\ Len(Frame(s)) = n + Len(s)
           /\ \A i \in 1 .. n : Frame(s)[i] = WriteVarUInt(Len(s))[i]
           /\ \A i \in 1 .. Len(s) : Frame(s)[n + i] = s[i]
<1> DEFINE n == VarUIntLen(Len(s))
           w == WriteVarUInt(Len(s))
<1>1. s \in Seq(Byte) /\ Len(s) \in Nat /\ Fits(Len(s))
  BY StreamsAssumption DEF Fits
<1>2. w \in Seq(Byte) /\ Len(w) = n /\ n \in Nat
  BY <1>1, IntegerBytes
<1> HIDE DEF n, w
<1>3. /\ w \o s \in Seq(Byte) /\ Len(w \o s) = Len(w) + Len(s)
      /\ \A i \in 1 .. Len(w) : (w \o s)[i] = w[i]
      /\ \A i \in 1 .. Len(s) : (w \o s)[Len(w) + i] = s[i]
  <2>1. w \in Seq(Byte) /\ s \in Seq(Byte)
    BY <1>1, <1>2
  <2> QED
    BY <2>1, Joined
<1>4. Frame(s) = w \o s
  BY DEF Frame, w
<1> QED
  BY <1>1, <1>2, <1>3, <1>4 DEF n, w

\* A record stays where it is while the bytes up to its end do.
LEMMA RecordKept ==
    ASSUME NEW r, RecordOK(r), NEW m \in Nat,
           r.start + Len(Frame(r.value)) <= m,
           m <= Len(Contents'), Len(Contents') \in Nat,
           \A i \in 1 .. m : Contents'[i] = Contents[i]
    PROVE  RecordOK(r)'
<1> DEFINE f == Frame(r.value)
           a == r.start
<1>1. /\ r \in [start : Nat, value : Text] /\ a \in Nat
      /\ \A i \in 1 .. Len(f) : Contents[a + i] = f[i]
  BY DEF RecordOK
<1>2. Len(f) \in Nat
  <2>1. r.value \in Text
    BY <1>1
  <2>2. Frame(r.value) \in Seq(Byte)
    BY <2>1, TextFrame
  <2> QED
    BY <2>2
<1> HIDE DEF f, a
<1>3. a + Len(f) <= m
  BY DEF a, f
<1>4. a + Len(f) <= Len(Contents')
  BY <1>1, <1>2, <1>3
<1>5. ASSUME NEW i \in 1 .. Len(f) PROVE Contents'[a + i] = f[i]
  <2>1. a + i \in 1 .. m
    BY <1>1, <1>2, <1>3
  <2> QED
    BY <1>1, <2>1
<1> QED
  BY <1>1, <1>4, <1>5 DEF RecordOK, f, a

\* What readLenencString finds where a record begins.
LEMMA RecordAnswer ==
    ASSUME StoreOK, NEW r, RecordOK(r)
    PROVE  LET u == ReadVarUInt(Contents, r.start) IN
           /\ u.ok /\ u.cur + u.value <= Len(Contents)
           /\ SubSeq(Contents, u.cur + 1, u.cur + u.value) = r.value
           /\ u.value = Len(r.value)
<1> DEFINE a == r.start
           s == r.value
           n == VarUIntLen(Len(s))
<1>1. a \in Nat /\ s \in Text
  BY DEF RecordOK
<1>2. /\ n \in Nat /\ Len(s) \in Nat /\ s \in Seq(Byte) /\ Fits(Len(s))
      /\ Len(Frame(s)) = n + Len(s)
      /\ \A i \in 1 .. n : Frame(s)[i] = WriteVarUInt(Len(s))[i]
      /\ \A i \in 1 .. Len(s) : Frame(s)[n + i] = s[i]
  BY <1>1, TextFrame
<1>3. /\ a + Len(Frame(s)) <= Len(Contents)
      /\ \A i \in 1 .. Len(Frame(s)) : Contents[a + i] = Frame(s)[i]
  BY DEF RecordOK
<1>4. Contents \in Seq(Byte) /\ Contents \in Seq(Nat) /\ Len(Contents) \in Nat
  BY ContentsType
<1> HIDE DEF a, s, n
<1>5. a + n + Len(s) <= Len(Contents) /\ a + n <= Len(Contents)
  BY <1>1, <1>2, <1>3, <1>4
<1>6. ReadVarUInt(Contents, a)
        = [ok |-> TRUE, cur |-> a + n, value |-> Len(s)]
  <2>1. Encoded(Contents, a, Len(s))
    <3>1. \A i \in 1 .. n : i \in 1 .. Len(Frame(s))
      BY <1>2
    <3>2. \A i \in 1 .. n : Contents[a + i] = WriteVarUInt(Len(s))[i]
      BY <1>2, <1>3, <3>1
    <3> QED
      BY <3>2 DEF Encoded, n
  <2> QED
    BY <1>1, <1>2, <1>4, <1>5, <2>1, VarUIntReadBack DEF n
<1>7. SubSeq(Contents, a + n + 1, a + n + Len(s)) = s
  <2> DEFINE p == a + n
             q == a + n + Len(s)
  <2>1. p \in Nat /\ q \in Nat /\ p <= q /\ q <= Len(Contents) /\ q - p = Len(s)
    BY <1>1, <1>2, <1>5
  <2> HIDE DEF p, q
  <2>2. /\ SubSeq(Contents, p + 1, q) \in Seq(Byte)
        /\ Len(SubSeq(Contents, p + 1, q)) = Len(s)
        /\ \A i \in 1 .. Len(s) : SubSeq(Contents, p + 1, q)[i] = Contents[p + i]
    <3>1. /\ SubSeq(Contents, p + 1, q) \in Seq(Byte)
          /\ Len(SubSeq(Contents, p + 1, q)) = q - p
          /\ \A i \in 1 .. q - p :
                SubSeq(Contents, p + 1, q)[i] = Contents[p + i]
      BY <1>4, <2>1, Part
    <3> QED
      BY <2>1, <3>1
  <2>3. ASSUME NEW i \in 1 .. Len(s) PROVE Contents[p + i] = s[i]
    <3>1. n + i \in 1 .. Len(Frame(s)) /\ p + i = a + (n + i)
      BY <1>1, <1>2 DEF p
    <3> QED
      BY <1>2, <1>3, <3>1
  <2>4. SubSeq(Contents, p + 1, q) = s
    BY <1>2, <2>2, <2>3, SameSeq
  <2> QED
    BY <2>4 DEF p, q
<1> DEFINE u == ReadVarUInt(Contents, a)
<1>8. u.ok /\ u.cur = a + n /\ u.value = Len(s)
  BY <1>6
<1> HIDE DEF u
<1>9. u.ok /\ u.cur + u.value <= Len(Contents)
      /\ SubSeq(Contents, u.cur + 1, u.cur + u.value) = s
      /\ u.value = Len(s)
  BY <1>5, <1>7, <1>8
<1> QED
  BY <1>9 DEF u, a, s

\* What a Buffer that is resized to hold a number of bytes keeps.
LEMMA FittingOK ==
    ASSUME NEW b \in [data : Seq(Byte), size : Nat], b.size <= Len(b.data),
           NEW n \in Nat, NEW junk,
           \A i \in 1 .. n - Len(b.data) : junk[i] \in Byte
    PROVE  LET r == Fitting(b, n, junk) IN
           /\ r \in [data : Seq(Byte), size : Nat] /\ r.size = b.size
           /\ n <= Len(r.data) /\ Len(b.data) <= Len(r.data)
           /\ \A i \in 1 .. Len(b.data) : r.data[i] = b.data[i]
<1> DEFINE data == b.data
           r == Fitting(b, n, junk)
<1>1. data \in Seq(Byte) /\ Len(data) \in Nat /\ b.size \in Nat
  OBVIOUS
<1>2. CASE n > Len(data)
  <2> DEFINE k == n - Len(data)
             new == [i \in 1 .. k |-> junk[i]]
  <2>1. k \in Nat /\ Len(data) + k = n
    BY <1>1, <1>2
  <2>2. r = [b EXCEPT !.data = @ \o new]
    BY <1>2 DEF Fitting, Reserve
  <2>3. new \in Seq(Byte) /\ Len(new) = k
    <3>1. \A i \in 1 .. k : junk[i] \in Byte
      OBVIOUS
    <3> HIDE DEF k
    <3> QED
      BY <2>1, <3>1
  <2> HIDE DEF new, r, k
  <2>4. r = [data |-> data \o new, size |-> b.size]
    BY <2>2
  <2> HIDE DEF data
  <2>5. /\ data \o new \in Seq(Byte)
        /\ Len(data \o new) = Len(data) + Len(new)
        /\ \A i \in 1 .. Len(data) : (data \o new)[i] = data[i]
    BY <1>1, <2>3, Joined
  <2>6. Len(data \o new) = n
    BY <2>1, <2>3, <2>5
  <2>7. /\ r \in [data : Seq(Byte), size : Nat] /\ r.size = b.size
        /\ r.data = data \o new
    BY <1>1, <2>4, <2>5
  <2>8. Len(data) <= n
    BY <1>1, <1>2
  <2> QED
    BY <2>5, <2>6, <2>7, <2>8 DEF r, data
<1>3. CASE ~ (n > Len(data))
  <2>1. r = b
    BY <1>3 DEF Fitting
  <2>2. n <= Len(data) /\ Len(data) <= Len(data)
    BY <1>1, <1>3
  <2> QED
    BY <2>1, <2>2
<1> QED
  BY <1>2, <1>3

\* What append does to a Buffer: the bytes stay, and the new ones follow.
LEMMA BufferAppendOK ==
    ASSUME NEW b \in [data : Seq(Byte), size : Nat], b.size <= Len(b.data),
           NEW s \in Seq(Byte)
    PROVE  LET r == BufferAppend(b, s) IN
           /\ r \in [data : Seq(Byte), size : Nat]
           /\ r.size = b.size + Len(s) /\ r.size <= Len(r.data)
           /\ \A i \in 1 .. b.size : r.data[i] = b.data[i]
           /\ \A i \in 1 .. Len(s) : r.data[b.size + i] = s[i]
<1> DEFINE data == b.data
           size == b.size
           to == size + Len(s)
           f == Fitting(b, to, s).data
<1>1. /\ data \in Seq(Byte) /\ size \in Nat /\ size <= Len(data)
      /\ Len(s) \in Nat /\ Len(data) \in Nat
  OBVIOUS
<1>2. f \in Seq(Byte) /\ to <= Len(f) /\ \A i \in 1 .. size : f[i] = data[i]
  <2>1. to \in Nat
    BY <1>1
  <2>2. \A i \in 1 .. to - Len(b.data) : s[i] \in Byte
    <3>1. \A i \in 1 .. to - Len(b.data) : i \in 1 .. Len(s)
      BY <1>1
    <3> QED
      BY <3>1
  <2> HIDE DEF to
  <2>3. /\ f \in Seq(Byte) /\ to <= Len(f)
        /\ \A i \in 1 .. Len(data) : f[i] = data[i]
    BY <2>1, <2>2, FittingOK
  <2>4. \A i \in 1 .. size : i \in 1 .. Len(data)
    BY <1>1
  <2> QED
    BY <2>3, <2>4
<1> DEFINE d == [i \in 1 .. Len(f) |-> IF i \in size + 1 .. to THEN s[i - size]
                                       ELSE f[i]]
<1>3. BufferAppend(b, s) = [data |-> d, size |-> to]
  BY DEF BufferAppend
<1> HIDE DEF f, data, size
<1>4. Len(f) \in Nat /\ to \in Nat
  BY <1>1, <1>2
<1>5. d \in Seq(Byte) /\ Len(d) = Len(f)
  <2>1. ASSUME NEW i \in 1 .. Len(f)
        PROVE  (IF i \in size + 1 .. to THEN s[i - size] ELSE f[i]) \in Byte
    <3>1. CASE i \in size + 1 .. to
      <4>1. i - size \in 1 .. Len(s)
        BY <1>1, <3>1
      <4> QED
        BY <3>1, <4>1
    <3>2. CASE i \notin size + 1 .. to
      BY <1>2, <3>2
    <3> QED
      BY <3>1, <3>2
  <2>2. d \in [1 .. Len(f) -> Byte]
    BY <2>1
  <2> HIDE DEF d
  <2> QED
    BY <1>4, <2>2
<1>6. ASSUME NEW i \in 1 .. size PROVE d[i] = data[i]
  <2>1. i \in 1 .. Len(f) /\ i \notin size + 1 .. to
    BY <1>1, <1>2, <1>4
  <2> QED
    BY <1>2, <2>1
<1>7. ASSUME NEW i \in 1 .. Len(s) PROVE d[size + i] = s[i]
  <2> DEFINE j == size + i
  <2>1. j \in 1 .. Len(f) /\ j \in size + 1 .. to /\ j - size = i
    BY <1>1, <1>2, <1>4
  <2> HIDE DEF j
  <2>2. d[j] = s[j - size]
    BY <2>1
  <2> QED
    BY <2>1, <2>2 DEF j
<1> HIDE DEF d
<1>8. LET r == [data |-> d, size |-> to] IN
      /\ r \in [data : Seq(Byte), size : Nat]
      /\ r.size = size + Len(s) /\ r.size <= Len(r.data)
      /\ \A i \in 1 .. size : r.data[i] = data[i]
      /\ \A i \in 1 .. Len(s) : r.data[size + i] = s[i]
  BY <1>2, <1>4, <1>5, <1>6, <1>7
<1> QED
  BY <1>3, <1>8 DEF size, data

-----------------------------------------------------------------------------
(* The byte stream's own operators are the ones of this module             *)

LEMMA ReaderSame ==
    /\ \A s, c : Reader!ReadVarUInt(s, c) = ReadVarUInt(s, c)
    /\ \A S : Reader!Min(S) = Min(S)
    /\ \A op, start, status, value :
          Reader!Answer(op, start, status, value)
             = Outcome(op, start, status, value)
    /\ Reader!Byte = Byte /\ Reader!NoAnswer = NoAnswer
<1>1. ASSUME NEW s, NEW c PROVE Reader!ReadVarUInt(s, c) = ReadVarUInt(s, c)
  BY DEF Reader!ReadVarUInt, ReadVarUInt, Reader!Digits, Digits, Reader!Min,
         Min, Reader!Digit, Digit
<1>2. \A S : Reader!Min(S) = Min(S)
  BY DEF Reader!Min, Min
<1>3. \A op, start, status, value :
         Reader!Answer(op, start, status, value)
            = Outcome(op, start, status, value)
  BY DEF Reader!Answer, Outcome
<1>4. Reader!Byte = Byte /\ Reader!NoAnswer = NoAnswer
  BY DEF Reader!Byte, Byte, Reader!NoAnswer, NoAnswer, Outcome
<1> QED
  BY <1>1, <1>2, <1>3, <1>4

-----------------------------------------------------------------------------
(* Steps that leave what is stored alone                                   *)

LEMMA StoreKept ==
    ASSUME StreamsInv, UNCHANGED <<class, storeVars>>
    PROVE  /\ StoreOK /\ StoreOK' /\ Contents' = Contents
           /\ \A n : Clamped(n)' = Clamped(n)
           /\ \A r \in records' : RecordOK(r)'
<1>1. StoreOK /\ StoreOK'
  BY DEF StreamsInv, StoreOK, storeVars
<1>2. Contents' = Contents
  BY DEF Contents, storeVars
<1>3. \A n : Clamped(n)' = Clamped(n)
  BY <1>2 DEF Clamped
<1>4. \A r \in records' : RecordOK(r)'
  BY <1>2 DEF StreamsInv, RecordOK, storeVars
<1> QED
  BY <1>1, <1>2, <1>3, <1>4

\* What the byte stream answers is right about the records, whichever call it
\* was.
LEMMA RecordsAnswered ==
    ASSUME StreamsInv, UNCHANGED <<class, storeVars>>, Reader!Read
    PROVE  RecordsReadBack'
<1>1. SUFFICES ASSUME NEW r \in records,
                      answer'.op = "lenenc", answer'.start = r.start
               PROVE  \/ class = "file" /\ answer'.status = "error"
                      \/ answer'.status = "ok" /\ answer'.value = r.value
  BY DEF RecordsReadBack, storeVars
<1>2. StoreOK /\ RecordOK(r)
  BY StoreKept DEF StreamsInv
<1>3. Reader!ReadLenenc \/ Reader!ReadError
  <2>1. \A op, start, status, value :
           Reader!Answer(op, start, status, value).op = op
    BY ReaderSame DEF Outcome
  <2>2. ASSUME NEW n \in Count,
               \/ Reader!ReadBytes(n) \/ Reader!ReadExactly(n)
               \/ Reader!Skip(n) \/ Reader!SeekTo(n)
        PROVE  FALSE
    BY <1>1, <2>1, <2>2
       DEF Reader!ReadBytes, Reader!ReadExactly, Reader!Skip, Reader!SeekTo
  <2>3. ~ Reader!ReadUntilEOF /\ ~ Reader!ReadLine /\ ~ Reader!ReadInteger
    BY <1>1, <2>1 DEF Reader!ReadUntilEOF, Reader!ReadLine, Reader!ReadInteger
  <2>4. ~ Reader!Eof /\ ~ Reader!ReadByteOrderMark
    BY <1>1, <2>1 DEF Reader!Eof, Reader!ReadByteOrderMark
  <2> QED
    BY <2>2, <2>3, <2>4 DEF Reader!Read
<1>4. CASE Reader!ReadError
  <2>1. PICK op : /\ class = "file"
                  /\ answer' = Outcome(op, Here, "error", << >>)
    BY <1>4, ReaderSame DEF Reader!ReadError
  <2> QED
    BY <2>1 DEF Outcome
<1>5. CASE Reader!ReadLenenc
  <2> DEFINE u == ReadVarUInt(Contents, Here)
             last == u.cur + u.value
             large == u.ok /\ u.value > MaxAllocation
  <2>1. \/ large /\ answer' = Outcome("lenenc", Here, "error", << >>)
        \/ /\ ~large
           /\ IF u.ok /\ last <= Len(Contents)
              THEN answer' = Outcome("lenenc", Here, "ok",
                                     SubSeq(Contents, u.cur + 1, last))
              ELSE answer' = Outcome("lenenc", Here, "eof", << >>)
    BY <1>5, ReaderSame DEF Reader!ReadLenenc
  <2> HIDE DEF u
  <2>2. Here = r.start
    BY <1>1, <2>1 DEF Outcome
  <2>3. /\ u.ok /\ last <= Len(Contents)
        /\ SubSeq(Contents, u.cur + 1, last) = r.value
        /\ u.value = Len(r.value)
    BY <1>2, <2>2, RecordAnswer DEF u
  <2>5. ~large
    <3>1. r.value \in Text
      BY <1>2 DEF RecordOK
    <3>2. Len(r.value) \in Nat /\ Len(r.value) <= MaxAllocation
      BY <3>1, StreamsAssumption, TextFrame
    <3> QED
      BY <2>3, <3>2, StreamsAssumption
  <2> HIDE DEF last, large
  <2>4. answer' = Outcome("lenenc", Here, "ok", r.value)
    BY <2>1, <2>3, <2>5
  <2> QED
    BY <2>4 DEF Outcome
<1> QED
  BY <1>3, <1>4, <1>5

\* A step of the reader keeps the invariant when its stream and its call are
\* right about the bytes, and its answer is one the byte stream allows.
LEMMA ReaderStep ==
    ASSUME StreamsInv, stream'.open, UNCHANGED <<class, storeVars>>,
           StreamOK(stream'),
           call' = Idle \/ CallOK(call', Clamped(Position(stream'))),
           UNCHANGED answer \/ Reader!Read
    PROVE  StreamsInv'
<1>1. /\ StoreOK' /\ Contents' = Contents
      /\ \A n : Clamped(n)' = Clamped(n)
      /\ \A r \in records' : RecordOK(r)'
  BY StoreKept
<1>2. StreamOK(stream)'
  BY <1>1 DEF StreamOK
<1>3. (call = Idle \/ CallOK(call, Clamped(Position(stream))))'
  <2>1. CASE call' = Idle
    BY <2>1 DEF Idle
  <2>2. CASE CallOK(call', Clamped(Position(stream')))
    <3>1. Clamped(Position(stream))' = Clamped(Position(stream'))
      BY <1>1 DEF Clamped, Position, Available
    <3>2. CallOK(call, Clamped(Position(stream)))'
      BY <1>1, <2>2, <3>1 DEF CallOK
    <3> QED
      BY <3>2
  <2> QED
    BY <2>1, <2>2
<1>4. RecordsReadBack'
  <2>1. CASE UNCHANGED answer
    BY <2>1 DEF StreamsInv, RecordsReadBack, storeVars
  <2>2. CASE Reader!Read
    BY <2>2, RecordsAnswered
  <2> QED
    BY <2>1, <2>2
<1> QED
  BY <1>1, <1>2, <1>3, <1>4 DEF StreamsInv, StoreOK

-----------------------------------------------------------------------------
(* A call that returns answers from the bytes                              *)

\* A call returns, and the stream is at now.
Returns(c, now, status, value) ==
    /\ CallOK(c, now) /\ now \in Nat /\ now <= Len(Contents)
    /\ Contents' = Contents
    /\ Here = c.start /\ Here' = now
    /\ answer' = Outcome(c.op, c.start, status, value)

LEMMA Got ==
    ASSUME StoreOK, NEW c, NEW now \in Nat, CallOK(c, now),
           now <= Len(Contents)
    PROVE  /\ c.start \in Nat /\ c.got \in Seq(Byte) /\ Len(c.got) \in Nat
           /\ c.count \in Nat
           /\ c.start <= now /\ Len(c.got) = now - c.start
           /\ c.got = SubSeq(Contents, c.start + 1, now)
           /\ c.got \in Seq(Nat) /\ Within(c.got, Contents, c.start)
<1> DEFINE a == c.start
           g == c.got
<1>1. /\ a \in Nat /\ g \in Seq(Byte) /\ c.count \in Count \cup {0}
      /\ a + Len(g) = now /\ \A i \in 1 .. Len(g) : g[i] = Contents[a + i]
  BY DEF CallOK
<1>2. Contents \in Seq(Byte) /\ Len(Contents) \in Nat
  BY ContentsType
<1>3. c.count \in Nat
  <2>1. Count \cup {0} \subseteq Nat
    BY StreamsAssumption
  <2> QED
    BY <1>1, <2>1
<1> HIDE DEF a, g
<1>4. Len(g) \in Nat /\ a <= now /\ Len(g) = now - a
  BY <1>1
<1>5. /\ SubSeq(Contents, a + 1, now) \in Seq(Byte)
      /\ Len(SubSeq(Contents, a + 1, now)) = now - a
      /\ \A i \in 1 .. now - a :
            SubSeq(Contents, a + 1, now)[i] = Contents[a + i]
  BY <1>1, <1>2, <1>4, Part, SMTT(20)
<1>6. g = SubSeq(Contents, a + 1, now)
  BY <1>1, <1>4, <1>5, SameSeq
<1>7. g \in Seq(Nat) /\ Within(g, Contents, a)
  BY <1>1, ByteNat DEF Within
<1> QED
  BY <1>1, <1>3, <1>4, <1>6, <1>7 DEF a, g

LEMMA BytesAnswered ==
    ASSUME StoreOK, NEW c, NEW now, Returns(c, now, "ok", c.got),
           c.op = "bytes", Len(c.got) = c.count \/ now = Len(Contents)
    PROVE  Reader!Read
<1> DEFINE a == c.start
           n == c.count
           rest == Len(Contents) - a
<1>1. /\ a \in Nat /\ n \in Nat /\ a <= now /\ Len(c.got) = now - a
      /\ c.got = SubSeq(Contents, a + 1, now)
      /\ now \in Nat /\ now <= Len(Contents) /\ Len(Contents) \in Nat
  BY Got, ContentsType DEF Returns
<1>2. n \in Count /\ Len(c.got) <= n
  BY DEF Returns, CallOK
<1> HIDE DEF a, n
<1>3. Min({n, rest}) = now - a
  <2>1. rest \in Nat /\ (n <= rest => n = now - a)
        /\ (~ (n <= rest) => rest = now - a)
    BY <1>1, <1>2 DEF n
  <2> HIDE DEF rest
  <2> QED
    BY <1>1, <2>1, MinTwo
<1>4. /\ Contents' = Contents /\ Here = a /\ Here' = now
      /\ answer' = Outcome("bytes", a, "ok", c.got)
  BY DEF Returns, a
<1>5. a + (now - a) = now
  BY <1>1
<1>6. Reader!ReadBytes(n)
  BY <1>1, <1>3, <1>4, <1>5, ReaderSame DEF Reader!ReadBytes, Reader!Rest
<1> QED
  BY <1>2, <1>4, <1>6 DEF Reader!Read

LEMMA ExactlyAnswered ==
    ASSUME StoreOK, NEW c, NEW now, NEW status, NEW value,
           Returns(c, now, status, value), c.op = "exact",
           \/ status = "ok" /\ value = c.got /\ Len(c.got) = c.count
           \/ /\ status = "eof" /\ value = << >>
              /\ Len(c.got) < c.count /\ now = Len(Contents)
    PROVE  Reader!Read
<1> DEFINE a == c.start
           n == c.count
           rest == Len(Contents) - a
<1>1. /\ a \in Nat /\ n \in Nat /\ a <= now /\ Len(c.got) = now - a
      /\ c.got = SubSeq(Contents, a + 1, now)
      /\ now \in Nat /\ now <= Len(Contents) /\ Len(Contents) \in Nat
  BY Got, ContentsType DEF Returns
<1>2. n \in Count /\ Len(c.got) <= n
  BY DEF Returns, CallOK
<1>4. /\ Contents' = Contents /\ Here = a /\ Here' = now
      /\ answer' = Outcome("exact", a, status, value)
  BY DEF Returns, a
<1>5. \/ /\ status = "ok" /\ value = c.got /\ n = now - a /\ n <= rest
      \/ /\ status = "eof" /\ value = << >> /\ ~ (n <= rest) /\ rest = now - a
  BY <1>1, SMTT(20)
<1> HIDE DEF a, n
<1>6. rest \in Nat
  BY <1>1
<1> HIDE DEF rest
<1>7. Min({n, rest}) = now - a
  BY <1>1, <1>5, <1>6, MinTwo
<1>8. a + (now - a) = now
  BY <1>1
<1>9. answer' = IF n <= rest THEN Outcome("exact", a, "ok",
                                         SubSeq(Contents, a + 1, a + n))
                ELSE Outcome("exact", a, "eof", << >>)
  BY <1>1, <1>4, <1>5, <1>8
<1>10. Reader!ReadExactly(n)
  BY <1>4, <1>7, <1>8, <1>9, ReaderSame
     DEF Reader!ReadExactly, Reader!Rest, rest
<1> QED
  BY <1>2, <1>4, <1>10 DEF Reader!Read

LEMMA UntilAnswered ==
    ASSUME StoreOK, NEW c, NEW now, Returns(c, now, "ok", c.got),
           c.op = "until", now = Len(Contents)
    PROVE  Reader!Read
<1>1. c.got = SubSeq(Contents, c.start + 1, now)
  BY Got DEF Returns
<1>2. /\ Contents' = Contents /\ Here = c.start /\ Here' = now
      /\ answer' = Outcome("until", c.start, "ok", c.got)
  BY DEF Returns
<1>3. Reader!ReadUntilEOF
  BY <1>1, <1>2, ReaderSame DEF Reader!ReadUntilEOF
<1> QED
  BY <1>2, <1>3 DEF Reader!Read

\* A line is finished, or the last one.
LEMMA LineAnswered ==
    ASSUME StoreOK, NEW c, NEW now, NEW status,
           Returns(c, now, status, c.got), c.op = "line",
           status = IF c.got # << >> THEN "ok" ELSE "eof",
           \/ c.got # << >> /\ c.got[Len(c.got)] = Newline
           \/ /\ now = Len(Contents)
              /\ c.got # << >> => c.got[Len(c.got)] # Newline
    PROVE  Reader!Read
<1> DEFINE a == c.start
           g == c.got
           k == Len(g)
<1>1. /\ a \in Nat /\ a <= now /\ k = now - a /\ g \in Seq(Byte) /\ k \in Nat
      /\ g = SubSeq(Contents, a + 1, now)
      /\ now \in Nat /\ now <= Len(Contents) /\ Len(Contents) \in Nat
      /\ \A i \in 1 .. k : g[i] = Contents[a + i]
  BY Got, ContentsType DEF Returns, Within
<1>2. \A i \in 1 .. k - 1 : g[i] \notin {Newline}
  BY DEF Returns, CallOK, Ends
<1>3. /\ Contents' = Contents /\ Here = a /\ Here' = now
      /\ answer' = Outcome("line", a, status, g)
  BY DEF Returns
<1>4. (g # << >>) <=> (k > 0)
  BY <1>1, NotEmpty
<1>5. /\ status = IF g # << >> THEN "ok" ELSE "eof"
      /\ \/ g # << >> /\ g[k] = Newline
         \/ now = Len(Contents) /\ (g # << >> => g[k] # Newline)
  OBVIOUS
<1> HIDE DEF a, g, k
<1>6. /\ a + k = now /\ k \in 0 .. Len(Contents) - a
      /\ (now = Len(Contents) => k = Len(Contents) - a)
  BY <1>1
<1>7. ASSUME NEW i \in 1 .. k - 1 PROVE Contents[a + i] \notin {Newline}
  <2>1. i \in 1 .. k
    BY <1>1
  <2> QED
    BY <1>1, <1>2, <2>1
<1>8. k > 0 => Contents[a + k] = g[k]
  BY <1>1
<1>9. \/ k = Len(Contents) - a /\ (k > 0 => Contents[a + k] \notin {Newline})
      \/ k > 0 /\ Contents[a + k] \in {Newline}
  BY <1>4, <1>5, <1>6, <1>8
<1>10. Reader!UpTo(k, {Newline}) /\ k \in 0 .. Reader!Rest
  BY <1>3, <1>6, <1>7, <1>9 DEF Reader!UpTo, Reader!Rest
<1>11. answer' = Outcome("line", a, IF k > 0 THEN "ok" ELSE "eof",
                        SubSeq(Contents, a + 1, a + k))
  BY <1>1, <1>3, <1>4, <1>5, <1>6
<1>12. Reader!ReadLine
  BY <1>3, <1>6, <1>10, <1>11, ReaderSame DEF Reader!ReadLine
<1> QED
  BY <1>3, <1>12 DEF Reader!Read

\* The integer of a call: its last byte ends it, or the stream ended before.
LEMMA IntegerAnswered ==
    ASSUME StoreOK, NEW c, NEW now, NEW status, NEW value,
           Returns(c, now, status, value), c.op = "varuint",
           \/ /\ status = "ok" /\ value = <<Size(c).value>>
              /\ c.got # << >> /\ c.got[Len(c.got)] \in Ends("varuint")
           \/ /\ status = "eof" /\ value = << >> /\ now = Len(Contents)
              /\ c.got # << >> => c.got[Len(c.got)] \notin Ends("varuint")
    PROVE  Reader!Read
<1> DEFINE a == c.start
           g == c.got
           u == ReadVarUInt(Contents, a)
<1>1. /\ a \in Nat /\ a <= now /\ Len(g) = now - a
      /\ g \in Seq(Nat) /\ Len(g) \in Nat /\ Within(g, Contents, a)
      /\ now \in Nat /\ now <= Len(Contents) /\ Len(Contents) \in Nat
      /\ Contents \in Seq(Nat)
  BY Got, ContentsType DEF Returns
<1>2. \A i \in 1 .. Len(g) - 1 : g[i] \notin Ends("varuint")
  BY DEF Returns, CallOK
<1>3. /\ Contents' = Contents /\ Here = a /\ Here' = now
      /\ answer' = Outcome("varuint", a, status, value)
  BY DEF Returns
<1>4. \/ /\ status = "ok" /\ value = <<ReadVarUInt(g, 0).value>>
         /\ g # << >> /\ g[Len(g)] \in Ends("varuint")
      \/ /\ status = "eof" /\ value = << >> /\ now = Len(Contents)
         /\ g # << >> => g[Len(g)] \notin Ends("varuint")
  BY DEF Size
<1> HIDE DEF a, g
<1>5. \A b \in Nat : b \in Ends("varuint") <=> b < VarintBase
  BY VarintBaseAssumption DEF Ends
<1>6. \A i \in 1 .. Len(g) - 1 : ~ (g[i] < VarintBase)
  <2>1. ASSUME NEW i \in 1 .. Len(g) - 1 PROVE ~ (g[i] < VarintBase)
    <3>0. i \in 1 .. Len(g) /\ g \in Seq(Nat)
      BY <1>1, SMTT(20)
    <3>1. g[i] \in Nat
      BY ONLY <3>0
    <3> QED
      BY ONLY <1>2, <1>5, <3>1
  <2> QED
    BY <2>1
<1>7. CASE status = "ok"
  <2>1. /\ value = <<ReadVarUInt(g, 0).value>>
        /\ g # << >> /\ g[Len(g)] \in Ends("varuint")
    BY <1>4, <1>7
  <2>2. g[Len(g)] < VarintBase
    <3>1. Len(g) \in 1 .. Len(g)
      BY <1>1, <2>1, NotEmpty
    <3>2. g \in Seq(Nat)
      BY <1>1
    <3>3. g[Len(g)] \in Nat
      BY ONLY <3>1, <3>2
    <3> QED
      BY ONLY <1>5, <2>1, <3>3
  <2>3. ReadVarUInt(g, 0).ok /\ ReadVarUInt(g, 0).cur = Len(g)
    BY <1>1, <1>6, <2>1, <2>2, IntegerEnds
  <2>4. /\ u.ok /\ u.cur = a + Len(g)
        /\ u.value = ReadVarUInt(g, 0).value
    BY <1>1, <2>3, IntegerWithin
  <2> HIDE DEF u
  <2>5. a + Len(g) = now
    BY <1>1
  <2>6. /\ answer' = IF u.ok THEN Outcome("varuint", a, "ok", <<u.value>>)
                     ELSE Outcome("varuint", a, "eof", << >>)
        /\ Here' = u.cur
    BY <1>3, <1>7, <2>1, <2>4, <2>5
  <2>7. Reader!ReadInteger
    BY <1>3, <2>6, ReaderSame DEF Reader!ReadInteger, u
  <2> QED
    BY <1>3, <2>7 DEF Reader!Read
<1>8. CASE status = "eof"
  <2>1. /\ value = << >> /\ now = Len(Contents)
        /\ g # << >> => g[Len(g)] \notin Ends("varuint")
    BY <1>4, <1>8
  <2>2. ASSUME NEW i \in 1 .. Len(g) PROVE ~ (g[i] < VarintBase)
    <3>1. CASE i \in 1 .. Len(g) - 1
      BY <1>6, <3>1
    <3>2. CASE i \notin 1 .. Len(g) - 1
      <4>1. i = Len(g) /\ Len(g) > 0
        BY <1>1, <3>2
      <4>2. g # << >> /\ g[i] \in Nat
        BY <1>1, <4>1, NotEmpty, SMTT(20)
      <4> QED
        BY <1>5, <2>1, <4>1, <4>2
    <3> QED
      BY <3>1, <3>2
  <2>3. ~ ReadVarUInt(g, 0).ok
    <3>1. 0 \in Nat /\ 0 <= Len(g) /\ 1 = 0 + 1
      BY <1>1
    <3> DEFINE r == ReadVarUInt(g, 0)
    <3> HIDE DEF r
    <3>2. \/ r = [ok |-> FALSE, cur |-> Len(g), value |-> 0]
          \/ r.cur \in 1 .. Len(g) /\ g[r.cur] < VarintBase
      BY <1>1, <3>1, ReadVarUIntAt DEF r
    <3>3. r = [ok |-> FALSE, cur |-> Len(g), value |-> 0]
      BY <2>2, <3>2
    <3> QED
      BY <3>3 DEF r
  <2>4. u = [ok |-> FALSE, cur |-> Len(Contents), value |-> 0]
    <3>1. a + Len(g) = Len(Contents)
      BY <1>1, <2>1
    <3> QED
      BY <1>1, <2>3, <3>1, NoInteger
  <2>5. ~ u.ok /\ u.cur = Len(Contents)
    BY <2>4
  <2> HIDE DEF u
  <2>6. /\ answer' = IF u.ok THEN Outcome("varuint", a, "ok", <<u.value>>)
                     ELSE Outcome("varuint", a, "eof", << >>)
        /\ Here' = u.cur
    BY <1>3, <1>8, <2>1, <2>5
  <2>7. Reader!ReadInteger
    BY <1>3, <2>6, ReaderSame DEF Reader!ReadInteger, u
  <2> QED
    BY <1>3, <2>7 DEF Reader!Read
<1> QED
  BY <1>4, <1>7, <1>8

\* A string of a length that was read: all of it is there, or the stream
\* ended before.
LEMMA LenencAnswered ==
    ASSUME StoreOK, NEW c, NEW now, NEW status, NEW value,
           Returns(c, now, status, value), c.op = "lenenc", ~TooLarge(c),
           \/ /\ status = "ok" /\ Size(c).ok
              /\ value = SubSeq(c.got, Size(c).cur + 1, Len(c.got))
              /\ Size(c).cur + Size(c).value = Len(c.got)
           \/ /\ status = "eof" /\ value = << >> /\ now = Len(Contents)
              /\ Size(c).ok => Len(c.got) < Size(c).cur + Size(c).value
    PROVE  Reader!Read
<1> DEFINE a == c.start
           g == c.got
           z == ReadVarUInt(g, 0)
           u == ReadVarUInt(Contents, a)
           last == u.cur + u.value
<1>1. /\ a \in Nat /\ a <= now /\ Len(g) = now - a
      /\ g \in Seq(Nat) /\ Len(g) \in Nat /\ Within(g, Contents, a)
      /\ g \in Seq(Byte) /\ \A i \in 1 .. Len(g) : g[i] = Contents[a + i]
      /\ now \in Nat /\ now <= Len(Contents) /\ Len(Contents) \in Nat
      /\ Contents \in Seq(Nat) /\ Contents \in Seq(Byte)
  BY Got, ContentsType DEF Returns, Within
<1>2. /\ Contents' = Contents /\ Here = a /\ Here' = now
      /\ answer' = Outcome("lenenc", a, status, value)
  BY DEF Returns
<1>3. \/ /\ status = "ok" /\ z.ok /\ value = SubSeq(g, z.cur + 1, Len(g))
         /\ z.cur + z.value = Len(g)
      \/ /\ status = "eof" /\ value = << >> /\ now = Len(Contents)
         /\ z.ok => Len(g) < z.cur + z.value
  BY DEF Size
<1>0. z.ok => ~ (z.value > MaxAllocation)
  BY DEF TooLarge, Size
<1> HIDE DEF a, g
<1>4. z.ok => /\ u.ok /\ u.cur = a + z.cur /\ u.value = z.value
              /\ z.cur \in 1 .. Len(g) /\ z.value \in Nat
  BY <1>1, IntegerWithin
<1>5. ~ z.ok /\ now = Len(Contents) => ~ u.ok
  <2>1. SUFFICES ASSUME ~ z.ok, now = Len(Contents) PROVE ~ u.ok
    OBVIOUS
  <2>2. a + Len(g) = Len(Contents)
    BY <1>1, <2>1
  <2>3. u = [ok |-> FALSE, cur |-> Len(Contents), value |-> 0]
    BY <1>1, <2>1, <2>2, NoInteger
  <2> QED
    BY <2>3
<1> HIDE DEF z, u
<1>8. ~ (u.ok /\ u.value > MaxAllocation)
  BY <1>0, <1>3, <1>4, <1>5
<1>6. CASE status = "ok"
  <2>1. /\ z.ok /\ value = SubSeq(g, z.cur + 1, Len(g))
        /\ z.cur + z.value = Len(g)
    BY <1>3, <1>6
  <2> DEFINE p == z.cur
             q == u.cur
             v == z.value
  <2>2. /\ u.ok /\ q = a + p /\ u.value = v /\ p \in 1 .. Len(g) /\ v \in Nat
        /\ p + v = Len(g) /\ last = q + v
    BY <1>4, <2>1
  <2> HIDE DEF p, q, v, last
  <2>3. last = now /\ last <= Len(Contents)
    BY <1>1, <2>2
  <2>4. SubSeq(g, p + 1, Len(g)) = SubSeq(Contents, q + 1, last)
    <3> DEFINE len == Len(g)
    <3>1. /\ p \in Nat /\ len \in Nat /\ p <= len /\ len <= Len(g)
          /\ q \in Nat /\ last \in Nat /\ q <= last /\ last <= Len(Contents)
          /\ len - p = v /\ last - q = v
      BY <1>1, <2>2, <2>3
    <3> HIDE DEF len
    <3>2. ASSUME NEW i \in 1 .. v PROVE g[p + i] = Contents[q + i]
      <4>1. p + i \in 1 .. Len(g) /\ a + (p + i) = q + i
        BY <1>1, <2>2
      <4> QED
        BY <1>1, <4>1
    <3>3. g \in Seq(Byte) /\ Contents \in Seq(Byte)
      BY <1>1
    <3> DEFINE x == SubSeq(g, p + 1, len)
               y == SubSeq(Contents, q + 1, last)
    <3>4. x \in Seq(Byte) /\ Len(x) = len - p
          /\ \A i \in 1 .. len - p : x[i] = g[p + i]
      BY <3>1, <3>3, Part
    <3>5. y \in Seq(Byte) /\ Len(y) = last - q
          /\ \A i \in 1 .. last - q : y[i] = Contents[q + i]
      BY <3>1, <3>3, Part
    <3> HIDE DEF x, y
    <3>6. Len(x) = v /\ Len(y) = v
      BY <3>1, <3>4, <3>5
    <3>7. ASSUME NEW i \in 1 .. v PROVE x[i] = y[i]
      BY <3>1, <3>2, <3>4, <3>5
    <3>8. x = y
      BY <3>4, <3>5, <3>6, <3>7, SameSeq
    <3> QED
      BY <3>8 DEF len, x, y
  <2>5. value = SubSeq(Contents, u.cur + 1, last)
    BY <2>1, <2>4 DEF p, q
  <2>6. u.ok /\ last <= Len(Contents) /\ Here' = last
    BY <1>2, <2>2, <2>3
  <2>7. answer' = Outcome("lenenc", a, "ok", SubSeq(Contents, u.cur + 1, last))
    BY <1>2, <1>6, <2>5
  <2>8. Reader!ReadLenenc
    BY <1>2, <1>8, <2>6, <2>7, ReaderSame DEF Reader!ReadLenenc, last, u
  <2> QED
    BY <1>2, <2>8 DEF Reader!Read
<1>7. CASE status = "eof"
  <2>1. value = << >> /\ now = Len(Contents)
        /\ (z.ok => Len(g) < z.cur + z.value)
    BY <1>3, <1>7
  <2>2. ~ (u.ok /\ last <= Len(Contents))
    <3>1. SUFFICES ASSUME u.ok, last <= Len(Contents) PROVE FALSE
      OBVIOUS
    <3>2. z.ok
      BY <1>5, <2>1, <3>1
    <3> DEFINE p == z.cur
               v == z.value
    <3>3. /\ last = a + p + v /\ p \in 1 .. Len(g) /\ v \in Nat
          /\ Len(g) < p + v
      BY <1>4, <2>1, <3>2
    <3> HIDE DEF p, v, last
    <3> QED
      BY <1>1, <2>1, <3>1, <3>3
  <2>3. Here' = Len(Contents) /\ answer' = Outcome("lenenc", a, "eof", << >>)
    BY <1>2, <1>7, <2>1
  <2> HIDE DEF last
  <2>4. Reader!ReadLenenc
    BY <1>2, <1>8, <2>2, <2>3, ReaderSame DEF Reader!ReadLenenc, last, u
  <2> QED
    BY <1>2, <2>4 DEF Reader!Read
<1> QED
  BY <1>3, <1>6, <1>7

\* A length that there is no memory for.
LEMMA LargeAnswered ==
    ASSUME StoreOK, NEW c, NEW now, Returns(c, now, "error", << >>),
           TooLarge(c)
    PROVE  Reader!Read
<1> DEFINE a == c.start
           g == c.got
           z == ReadVarUInt(g, 0)
           u == ReadVarUInt(Contents, a)
<1>1. /\ a \in Nat /\ a <= now /\ g \in Seq(Nat) /\ Within(g, Contents, a)
      /\ now \in Nat /\ now <= Len(Contents) /\ Len(Contents) \in Nat
      /\ Contents \in Seq(Nat)
  BY Got, ContentsType DEF Returns
<1>2. /\ Contents' = Contents /\ Here = a /\ Here' = now
      /\ answer' = Outcome("lenenc", a, "error", << >>)
  BY DEF Returns, TooLarge
<1>3. z.ok /\ z.value > MaxAllocation
  BY DEF TooLarge, Size
<1> HIDE DEF a, g
<1>4. u.ok /\ u.value = z.value
  BY <1>1, <1>3, IntegerWithin
<1> HIDE DEF z, u
<1>5. u.ok /\ u.value > MaxAllocation /\ now \in a .. Len(Contents)
  BY <1>1, <1>3, <1>4
<1>6. Reader!ReadLenenc
  BY <1>2, <1>5, ReaderSame DEF Reader!ReadLenenc, u
<1> QED
  BY <1>2, <1>6 DEF Reader!Read

\* An error loses what the call had read.
LEMMA ErrorAnswered ==
    ASSUME StoreOK, NEW c, NEW now, Returns(c, now, "error", << >>),
           class = "file"
    PROVE  Reader!Read
<1>1. /\ c.start \in Nat /\ now \in c.start .. Len(Contents)
  BY Got, ContentsType DEF Returns
<1>2. c.op \in {"bytes", "exact", "until", "line", "varuint", "lenenc",
                "eof", "mark"}
  BY DEF Returns, CallOK
<1>3. /\ Contents' = Contents /\ Here = c.start /\ Here' = now
      /\ answer' = Outcome(c.op, c.start, "error", << >>)
  BY DEF Returns
<1>4. Reader!ReadError
  BY <1>1, <1>2, <1>3, ReaderSame DEF Reader!ReadError
<1> QED
  BY <1>3, <1>4 DEF Reader!Read

-----------------------------------------------------------------------------
(* Writing                                                                 *)

\* The byte stream calls what happens before the first read a fill.
LEMMA FillStep ==
    ASSUME StreamsInv, Writing, UNCHANGED <<class, stream, call, answer>>,
           StoreOK', Contents' \in Seq(Byte), \A r \in records' : RecordOK(r)'
    PROVE  StreamsInv' /\ Reader!Fill
<1>1. /\ stream = NotOpen /\ call = Idle /\ answer = NoAnswer
      /\ stream' = NotOpen /\ call' = Idle /\ answer' = NoAnswer
  BY DEF StreamsInv, Writing
<1>2. NotOpen.open = FALSE /\ NotOpen.offset = 0 /\ NotOpen.buf = << >>
      /\ NotOpen.pos = 0
  BY DEF NotOpen, Beginning
<1>3. StreamOK(stream)'
  <2>1. NotOpen \in [offset : Nat, buf : Seq(Byte), pos : Nat, open : BOOLEAN]
    BY DEF NotOpen, Beginning
  <2>2. Len(NotOpen.buf) = 0
    BY <1>2
  <2> QED
    BY <1>1, <1>2, <2>1, <2>2 DEF StreamOK
<1>4. RecordsReadBack'
  <2>1. answer'.op = "none"
    BY <1>1 DEF NoAnswer, Outcome
  <2> QED
    BY <2>1 DEF RecordsReadBack
<1>5. StreamsInv'
  BY <1>1, <1>3, <1>4 DEF StreamsInv, StoreOK
<1>6. Here = 0 /\ Here' = 0
  <2>1. Position(NotOpen) = 0
    <3>1. Position(NotOpen)
             = NotOpen.offset - (Len(NotOpen.buf) - NotOpen.pos)
      BY DEF Position, Available
    <3>2. NotOpen.offset = 0 /\ NotOpen.pos = 0 /\ Len(NotOpen.buf) = 0
      BY <1>2
    <3>3. Position(NotOpen) = 0 - (0 - 0)
      BY <3>1, <3>2
    <3> QED
      BY <3>3
  <2>2. Min({0, Len(Contents)}) = 0 /\ Min({0, Len(Contents')}) = 0
    <3>1. Len(Contents) \in Nat /\ Len(Contents') \in Nat
      BY ContentsType DEF StreamsInv, StoreOK
    <3> QED
      BY <3>1, MinTwo
  <2>3. Here = Clamped(Position(stream)) /\ Here' = Clamped(Position(stream))'
    BY <1>1 DEF Here
  <2>4. /\ Clamped(Position(stream)) = Min({0, Len(Contents)})
        /\ Clamped(Position(stream))' = Min({0, Len(Contents')})
    BY <1>1, <2>1 DEF Clamped, Position, Available
  <2> QED
    BY <2>2, <2>3, <2>4
<1>7. Reader!Fill
  BY <1>1, <1>6, ReaderSame DEF Reader!Fill
<1> QED
  BY <1>5, <1>7

\* More bytes at the end.
LEMMA AppendStep ==
    ASSUME StreamsInv, Writing, UNCHANGED <<class, stream, call, answer>>,
           StoreOK', Contents' \in Seq(Byte),
           Len(Contents) <= Len(Contents'),
           \A i \in 1 .. Len(Contents) : Contents'[i] = Contents[i],
           \A r \in records' : r \in records \/ RecordOK(r)'
    PROVE  StreamsInv' /\ Reader!Fill
<1>1. Len(Contents) \in Nat /\ Len(Contents') \in Nat
  BY ContentsType DEF StreamsInv, StoreOK
<1>2. ASSUME NEW r \in records PROVE RecordOK(r)'
  <2>1. RecordOK(r) /\ r.start + Len(Frame(r.value)) <= Len(Contents)
    BY DEF StreamsInv, RecordOK
  <2> QED
    BY <1>1, <2>1, RecordKept
<1>3. \A r \in records' : RecordOK(r)'
  BY <1>2
<1> QED
  BY <1>3, FillStep

\* What a Buffer holds.
LEMMA BufferContents ==
    ASSUME NEW b \in [data : Seq(Byte), size : Nat], b.size <= Len(b.data)
    PROVE  /\ SubSeq(b.data, 1, b.size) \in Seq(Byte)
           /\ Len(SubSeq(b.data, 1, b.size)) = b.size
           /\ \A i \in 1 .. b.size : SubSeq(b.data, 1, b.size)[i] = b.data[i]
<1> DEFINE data == b.data
           size == b.size
<1>1. data \in Seq(Byte) /\ size \in Nat /\ size <= Len(data)
  OBVIOUS
<1> HIDE DEF data, size
<1>2. /\ SubSeq(data, 1, size) \in Seq(Byte)
      /\ Len(SubSeq(data, 1, size)) = size
      /\ \A i \in 1 .. size : SubSeq(data, 1, size)[i] = data[i]
  BY <1>1, Prefix
<1> QED
  BY <1>2 DEF data, size

\* The bytes a file had, and the new ones.
LEMMA FileAppended ==
    ASSUME StreamsInv, class = "file", class' = class, NEW x \in Seq(Byte),
           disk' = disk \o x, buffer' = buffer
    PROVE  /\ StoreOK' /\ Contents = disk
           /\ Contents' \in Seq(Byte)
           /\ Len(Contents') = Len(Contents) + Len(x)
           /\ Len(Contents) <= Len(Contents')
           /\ \A i \in 1 .. Len(Contents) : Contents'[i] = Contents[i]
           /\ \A i \in 1 .. Len(x) : Contents'[Len(Contents) + i] = x[i]
<1>1. Contents = disk /\ Contents' = disk'
  BY DEF Contents
<1>2. disk \in Seq(Byte)
  BY DEF StreamsInv
<1>3. /\ disk \o x \in Seq(Byte) /\ Len(disk \o x) = Len(disk) + Len(x)
      /\ \A i \in 1 .. Len(disk) : (disk \o x)[i] = disk[i]
      /\ \A i \in 1 .. Len(x) : (disk \o x)[Len(disk) + i] = x[i]
  BY <1>2, Joined
<1>4. Len(disk) <= Len(disk) + Len(x)
  <2>1. Len(disk) \in Nat /\ Len(x) \in Nat
    BY <1>2
  <2> QED
    BY <2>1
<1>5. StoreOK'
  BY <1>3 DEF StreamsInv, StoreOK
<1> QED
  BY <1>1, <1>3, <1>4, <1>5

\* The bytes a Buffer had, and the new ones.
LEMMA BufferAppended ==
    ASSUME StreamsInv, class = "buffer", class' = class, disk' = disk,
           NEW b \in [data : Seq(Byte), size : Nat], b.size <= Len(b.data),
           buffer' = b, buffer.size <= b.size,
           \A i \in 1 .. buffer.size : b.data[i] = buffer.data[i]
    PROVE  /\ StoreOK' /\ Len(Contents) = buffer.size
           /\ Contents' \in Seq(Byte) /\ Len(Contents') = b.size
           /\ Len(Contents) <= Len(Contents')
           /\ \A i \in 1 .. Len(Contents) : Contents'[i] = Contents[i]
           /\ \A i \in 1 .. b.size : Contents'[i] = b.data[i]
<1>1. Contents = SubSeq(buffer.data, 1, buffer.size)
      /\ Contents' = SubSeq(b.data, 1, b.size)
  BY DEF Contents
<1>2. /\ Len(Contents) = buffer.size
      /\ \A i \in 1 .. buffer.size : Contents[i] = buffer.data[i]
  <2>1. /\ buffer \in [data : Seq(Byte), size : Nat]
        /\ buffer.size <= Len(buffer.data)
    BY DEF StreamsInv
  <2> QED
    BY <1>1, <2>1, BufferContents
<1>3. /\ Contents' \in Seq(Byte) /\ Len(Contents') = b.size
      /\ \A i \in 1 .. b.size : Contents'[i] = b.data[i]
  BY <1>1, BufferContents
<1>4. StoreOK'
  BY DEF StreamsInv, StoreOK
<1>5. \A i \in 1 .. buffer.size : i \in 1 .. b.size
  <2>1. buffer.size \in Nat /\ b.size \in Nat /\ buffer.size <= b.size
    BY DEF StreamsInv
  <2> QED
    BY <2>1
<1> QED
  BY <1>2, <1>3, <1>4, <1>5

\* A record that is there from its first to its last byte.
LEMMA RecordWritten ==
    ASSUME NEW a \in Nat, NEW s \in Text, Len(Contents') \in Nat,
           a + VarUIntLen(Len(s)) + Len(s) <= Len(Contents'),
           \A i \in 1 .. VarUIntLen(Len(s)) :
              Contents'[a + i] = WriteVarUInt(Len(s))[i],
           \A i \in 1 .. Len(s) :
              Contents'[a + VarUIntLen(Len(s)) + i] = s[i]
    PROVE  RecordOK(RecordAt(a, s))'
<1> DEFINE n == VarUIntLen(Len(s))
           f == Frame(s)
<1>1. /\ n \in Nat /\ Len(s) \in Nat /\ Len(f) = n + Len(s)
      /\ \A i \in 1 .. n : f[i] = WriteVarUInt(Len(s))[i]
      /\ \A i \in 1 .. Len(s) : f[n + i] = s[i]
  BY TextFrame
<1>2. /\ a + n + Len(s) <= Len(Contents')
      /\ \A i \in 1 .. n : Contents'[a + i] = WriteVarUInt(Len(s))[i]
      /\ \A i \in 1 .. Len(s) : Contents'[a + n + i] = s[i]
  OBVIOUS
<1> HIDE DEF n, f
<1>3. a + Len(f) <= Len(Contents')
  BY <1>1, <1>2
<1>4. ASSUME NEW i \in 1 .. Len(f) PROVE Contents'[a + i] = f[i]
  <2>1. CASE i <= n
    <3>1. i \in 1 .. n
      BY <1>1, <2>1
    <3> QED
      BY <1>1, <1>2, <3>1
  <2>2. CASE ~ (i <= n)
    <3> DEFINE j == i - n
    <3>1. j \in 1 .. Len(s) /\ i = n + j /\ a + i = a + n + j
      BY <1>1, <2>2
    <3> HIDE DEF j
    <3> QED
      BY <1>1, <1>2, <3>1
  <2> QED
    BY <2>1, <2>2
<1>5. RecordAt(a, s) \in [start : Nat, value : Text]
      /\ RecordAt(a, s).start = a /\ RecordAt(a, s).value = s
  BY DEF RecordAt
<1> QED
  BY <1>3, <1>4, <1>5 DEF RecordOK, f

LEMMA AppendStringStep ==
    ASSUME StreamsInv, NEW s \in Text, AppendString(s)
    PROVE  StreamsInv' /\ Reader!Fill
<1>1. /\ Writing /\ class' = class /\ stream' = stream /\ call' = call
      /\ answer' = answer /\ records' = records
  BY DEF AppendString
<1>2. s \in Seq(Byte) /\ Len(s) \in Nat
  BY TextFrame
<1>3. CASE class = "file"
  <2>1. PICK j \in 0 .. Len(s) : disk' = disk \o SubSeq(s, 1, j)
    BY <1>3 DEF AppendString, Written
  <2>2. buffer' = buffer
    BY <1>3 DEF AppendString
  <2>3. SubSeq(s, 1, j) \in Seq(Byte)
    <3>1. j \in Nat /\ j <= Len(s)
      BY <1>2
    <3> QED
      BY <1>2, <3>1, Prefix
  <2> DEFINE x == SubSeq(s, 1, j)
  <2> HIDE DEF x
  <2>4. x \in Seq(Byte) /\ disk' = disk \o x
    BY <2>1, <2>3 DEF x
  <2>5. /\ StoreOK' /\ Contents' \in Seq(Byte)
        /\ Len(Contents) <= Len(Contents')
        /\ \A i \in 1 .. Len(Contents) : Contents'[i] = Contents[i]
    BY <1>1, <1>3, <2>2, <2>4, FileAppended
  <2> QED
    BY <1>1, <2>5, AppendStep
<1>4. CASE class = "buffer"
  <2>1. buffer' = BufferAppend(buffer, s)
    BY <1>4 DEF AppendString
  <2>2. disk' = disk
    BY <1>4 DEF AppendString
  <2> DEFINE b == BufferAppend(buffer, s)
  <2>3. /\ buffer \in [data : Seq(Byte), size : Nat]
        /\ buffer.size <= Len(buffer.data)
    BY DEF StreamsInv
  <2>4. /\ b \in [data : Seq(Byte), size : Nat]
        /\ b.size = buffer.size + Len(s) /\ b.size <= Len(b.data)
        /\ \A i \in 1 .. buffer.size : b.data[i] = buffer.data[i]
    BY <1>2, <2>3, BufferAppendOK
  <2> HIDE DEF b
  <2>5. buffer.size <= b.size
    <3>1. buffer.size \in Nat
      BY <2>3
    <3> QED
      BY <1>2, <2>4, <3>1
  <2>6. buffer' = b
    BY <2>1 DEF b
  <2>7. /\ StoreOK' /\ Contents' \in Seq(Byte)
        /\ Len(Contents) <= Len(Contents')
        /\ \A i \in 1 .. Len(Contents) : Contents'[i] = Contents[i]
    BY <1>1, <1>4, <2>2, <2>4, <2>5, <2>6, BufferAppended
  <2> QED
    BY <1>1, <2>7, AppendStep
<1> QED
  BY <1>3, <1>4 DEF StreamsInv

LEMMA ReserveStep ==
    ASSUME StreamsInv, NEW n \in Count, ReserveBuffer(n)
    PROVE  StreamsInv' /\ Reader!Fill
<1>1. /\ Writing /\ class' = class /\ stream' = stream /\ call' = call
      /\ answer' = answer /\ records' = records /\ disk' = disk
      /\ class = "buffer"
  BY DEF ReserveBuffer
<1>2. PICK junk \in [1 .. n -> Byte] : buffer' = Reserve(buffer, n, junk)
  BY DEF ReserveBuffer
<1> DEFINE data == buffer.data
           new == [i \in 1 .. n |-> junk[i]]
           b == Reserve(buffer, n, junk)
<1>3. /\ buffer \in [data : Seq(Byte), size : Nat]
      /\ buffer.size <= Len(data) /\ buffer.size \in Nat /\ data \in Seq(Byte)
  BY DEF StreamsInv
<1>4. n \in Nat
  BY StreamsAssumption
<1>5. new \in Seq(Byte)
  BY <1>2, <1>4
<1>6. b = [data |-> data \o new, size |-> buffer.size]
  <2> HIDE DEF new
  <2>1. b = [buffer EXCEPT !.data = @ \o new]
    BY DEF Reserve, new
  <2> QED
    BY <1>3, <2>1
<1> HIDE DEF new, data, b
<1>7. /\ data \o new \in Seq(Byte) /\ Len(data \o new) = Len(data) + Len(new)
      /\ \A i \in 1 .. Len(data) : (data \o new)[i] = data[i]
  BY <1>3, <1>5, Joined
<1>8. Len(data) \in Nat /\ Len(new) \in Nat
  BY <1>3, <1>5
<1>9. /\ b \in [data : Seq(Byte), size : Nat] /\ b.size = buffer.size
      /\ b.size <= Len(b.data) /\ buffer.size <= b.size
      /\ b.data = data \o new
  <2>1. b.size = buffer.size /\ b.data = data \o new
    BY <1>6
  <2>2. buffer.size <= Len(data) + Len(new) /\ buffer.size <= buffer.size
    BY <1>3, <1>8
  <2> QED
    BY <1>3, <1>6, <1>7, <2>1, <2>2
<1>10. \A i \in 1 .. buffer.size : b.data[i] = buffer.data[i]
  <2>1. \A i \in 1 .. buffer.size : i \in 1 .. Len(data)
    BY <1>3, <1>8
  <2> QED
    BY <1>7, <1>9, <2>1 DEF data
<1>11. buffer' = b
  BY <1>2 DEF b
<1>12. /\ StoreOK' /\ Contents' \in Seq(Byte)
       /\ Len(Contents) <= Len(Contents')
       /\ \A i \in 1 .. Len(Contents) : Contents'[i] = Contents[i]
  BY <1>1, <1>9, <1>10, <1>11, BufferAppended
<1> QED
  BY <1>1, <1>12, AppendStep

\* A copy keeps the contents alone.
LEMMA CopyStep ==
    ASSUME StreamsInv, CopyBuffer
    PROVE  StreamsInv' /\ Reader!Fill
<1>1. /\ Writing /\ class' = class /\ stream' = stream /\ call' = call
      /\ answer' = answer /\ records' = records /\ disk' = disk
      /\ class = "buffer"
  BY DEF CopyBuffer
<1> PICK data : data = buffer.data
  OBVIOUS
<1> PICK size : size = buffer.size
  OBVIOUS
<1> DEFINE kept == SubSeq(data, 1, size)
           b == [data |-> kept, size |-> size]
<1>2. /\ buffer \in [data : Seq(Byte), size : Nat]
      /\ size <= Len(data) /\ size \in Nat /\ data \in Seq(Byte)
  BY DEF StreamsInv
<1>3. /\ kept \in Seq(Byte) /\ Len(kept) = size
      /\ \A i \in 1 .. size : kept[i] = data[i]
  BY <1>2, Prefix
<1>4. buffer' = b
  BY <1>2 DEF CopyBuffer
<1> HIDE DEF kept
<1>5. /\ b \in [data : Seq(Byte), size : Nat] /\ b.size = size
      /\ b.size <= Len(b.data) /\ buffer.size <= b.size
      /\ \A i \in 1 .. buffer.size : b.data[i] = buffer.data[i]
  BY <1>2, <1>3
<1> HIDE DEF b
<1>6. /\ StoreOK' /\ Contents' \in Seq(Byte)
      /\ Len(Contents) <= Len(Contents')
      /\ \A i \in 1 .. Len(Contents) : Contents'[i] = Contents[i]
  BY <1>1, <1>4, <1>5, BufferAppended
<1> QED
  BY <1>1, <1>6, AppendStep

\* What is cut off takes its records with it, what is laid open has none.
LEMMA ResizeStep ==
    ASSUME StreamsInv, NEW n \in Count, ResizeBuffer(n)
    PROVE  StreamsInv' /\ Reader!Fill
<1>1. /\ Writing /\ class' = class /\ stream' = stream /\ call' = call
      /\ answer' = answer /\ records' = RecordsWithin(n) /\ disk' = disk
      /\ class = "buffer"
  BY DEF ResizeBuffer
<1>2. PICK junk \in [1 .. n -> Byte] : buffer' = Resize(buffer, n, junk)
  BY DEF ResizeBuffer
<1>3. n \in Nat
  BY StreamsAssumption
<1> DEFINE f == Fitting(buffer, n, junk)
           b == [f EXCEPT !.size = n]
<1>4. /\ buffer \in [data : Seq(Byte), size : Nat]
      /\ buffer.size <= Len(buffer.data) /\ buffer.size \in Nat
      /\ buffer.data \in Seq(Byte) /\ Len(buffer.data) \in Nat
  BY DEF StreamsInv
<1>5. /\ f \in [data : Seq(Byte), size : Nat] /\ n <= Len(f.data)
      /\ \A i \in 1 .. Len(buffer.data) : f.data[i] = buffer.data[i]
  <2>1. \A i \in 1 .. n - Len(buffer.data) : junk[i] \in Byte
    BY <1>2, <1>3, <1>4
  <2> QED
    BY ONLY <1>3, <1>4, <2>1, FittingOK, SMTT(20)
<1>6. buffer' = b
  BY <1>2 DEF Resize
<1> HIDE DEF f
<1>7. /\ b \in [data : Seq(Byte), size : Nat] /\ b.size = n /\ b.data = f.data
      /\ b.size <= Len(b.data)
  BY <1>3, <1>5
<1> HIDE DEF b
<1>8. /\ Contents' = SubSeq(b.data, 1, b.size)
      /\ Contents = SubSeq(buffer.data, 1, buffer.size)
  BY <1>1, <1>6 DEF Contents
<1>9. /\ Contents' \in Seq(Byte) /\ Len(Contents') = n
      /\ \A i \in 1 .. n : Contents'[i] = f.data[i]
  BY <1>7, <1>8, BufferContents
<1>10. /\ Len(Contents) = buffer.size
       /\ \A i \in 1 .. buffer.size : Contents[i] = buffer.data[i]
  BY <1>4, <1>8, BufferContents
<1>11. StoreOK'
  BY <1>1, <1>6, <1>7 DEF StreamsInv, StoreOK
<1>12. ASSUME NEW r \in records' PROVE RecordOK(r)'
  <2> DEFINE m == r.start + Len(Frame(r.value))
  <2>1. r \in records /\ m <= n
    BY <1>1 DEF RecordsWithin
  <2>2. RecordOK(r) /\ m <= buffer.size
    BY <1>10, <2>1 DEF StreamsInv, RecordOK
  <2>3. m \in Nat
    <3>1. r.start \in Nat /\ r.value \in Text
      BY <2>2 DEF RecordOK
    <3>2. Len(Frame(r.value)) \in Nat
      BY <3>1, TextFrame
    <3> QED
      BY <3>1, <3>2
  <2>4. r.start + Len(Frame(r.value)) <= m
    BY <2>3
  <2> HIDE DEF m
  <2>5. m <= Len(Contents') /\ Len(Contents') \in Nat
    BY <1>3, <1>9, <2>1
  <2>6. ASSUME NEW i \in 1 .. m PROVE Contents'[i] = Contents[i]
    <3>1. i \in 1 .. n /\ i \in 1 .. buffer.size /\ i \in 1 .. Len(buffer.data)
      BY <1>3, <1>4, <2>1, <2>2, <2>3
    <3> QED
      BY <1>5, <1>9, <1>10, <3>1
  <2> QED
    BY <2>2, <2>3, <2>4, <2>5, <2>6, RecordKept
<1> QED
  BY <1>1, <1>9, <1>11, <1>12, FillStep

\* A string to a file: either write may be short.
LEMMA AppendLenencFile ==
    ASSUME StreamsInv, NEW s \in Text, AppendLenencString(s), class = "file"
    PROVE  StreamsInv' /\ Reader!Fill
<1> DEFINE n == VarUIntLen(Len(s))
           w == WriteVarUInt(Len(s))
<1>1. /\ Writing /\ class' = class /\ stream' = stream /\ call' = call
      /\ answer' = answer /\ buffer' = buffer
  BY DEF AppendLenencString
<1>2. /\ s \in Seq(Byte) /\ Len(s) \in Nat /\ w \in Seq(Byte) /\ Len(w) = n
      /\ n \in Nat
  BY TextFrame, IntegerBytes
<1>3. PICK i \in 0 .. n, j \in 0 .. Len(s) :
         /\ disk' = (disk \o SubSeq(w, 1, i)) \o SubSeq(s, 1, j)
         /\ records' = IF SubSeq(w, 1, i) = w /\ SubSeq(s, 1, j) = s
                       THEN records \cup {RecordAt(Len(disk), s)}
                       ELSE records
  <2>1. PICK x \in Written(w), y \in Written(s) :
           /\ disk' = (disk \o x) \o y
           /\ records' = IF x = w /\ y = s
                         THEN records \cup {RecordAt(Len(disk), s)}
                         ELSE records
    BY DEF AppendLenencString
  <2>2. PICK i \in 0 .. n : x = SubSeq(w, 1, i)
    BY <1>2, <2>1 DEF Written
  <2>3. PICK j \in 0 .. Len(s) : y = SubSeq(s, 1, j)
    BY <2>1 DEF Written
  <2> HIDE DEF w, n
  <2> QED
    BY <2>1, <2>2, <2>3
<1>4. disk \in Seq(Byte) /\ Contents = disk /\ Contents' = disk'
  BY <1>1 DEF StreamsInv, Contents
<1> HIDE DEF n, w
<1> DEFINE a == SubSeq(w, 1, i)
           b == SubSeq(s, 1, j)
           d == disk \o a
<1>5. a \in Seq(Byte) /\ Len(a) = i /\ \A k \in 1 .. i : a[k] = w[k]
  <2>1. i \in Nat /\ i <= Len(w)
    BY <1>2
  <2> QED
    BY <1>2, <2>1, Prefix
<1>6. b \in Seq(Byte) /\ Len(b) = j /\ \A k \in 1 .. j : b[k] = s[k]
  <2>1. j \in Nat /\ j <= Len(s)
    BY <1>2
  <2> QED
    BY <1>2, <2>1, Prefix
<1> HIDE DEF a, b
<1>7. /\ d \in Seq(Byte) /\ Len(d) = Len(disk) + Len(a)
      /\ \A k \in 1 .. Len(disk) : d[k] = disk[k]
      /\ \A k \in 1 .. Len(a) : d[Len(disk) + k] = a[k]
  <2>1. disk \in Seq(Byte) /\ a \in Seq(Byte)
    BY <1>4, <1>5
  <2> QED
    BY <2>1, Joined
<1> HIDE DEF d
<1>8. disk' = d \o b
  BY <1>3 DEF a, b, d
<1>9. /\ d \o b \in Seq(Byte) /\ Len(d \o b) = Len(d) + Len(b)
      /\ \A k \in 1 .. Len(d) : (d \o b)[k] = d[k]
      /\ \A k \in 1 .. Len(b) : (d \o b)[Len(d) + k] = b[k]
  <2>1. d \in Seq(Byte) /\ b \in Seq(Byte)
    BY <1>6, <1>7
  <2> QED
    BY <2>1, Joined
<1> PICK l : l = Len(disk)
  OBVIOUS
<1>10. /\ l \in Nat /\ i \in Nat /\ j \in Nat /\ l = Len(Contents)
       /\ Len(d) = l + i /\ Contents' \in Seq(Byte) /\ Len(Contents') = l + i + j
       /\ Contents' = d \o b
  BY <1>2, <1>4, <1>5, <1>6, <1>7, <1>8, <1>9
<1>11. Len(Contents) <= Len(Contents')
  BY <1>10
<1>12. ASSUME NEW k \in 1 .. Len(Contents) PROVE Contents'[k] = Contents[k]
  <2>1. k \in 1 .. Len(d) /\ k \in 1 .. Len(disk)
    BY <1>4, <1>10
  <2> QED
    BY <1>4, <1>7, <1>9, <1>10, <2>1
<1>13. StoreOK'
  BY <1>1, <1>4, <1>10 DEF StreamsInv, StoreOK
<1>14. ASSUME a = w, b = s PROVE RecordOK(RecordAt(l, s))'
  <2>0. i = n /\ j = Len(s)
    BY <1>2, <1>5, <1>6, <1>14
  <2>1. l + n + Len(s) <= Len(Contents') /\ Len(Contents') \in Nat
    BY <1>2, <1>10, <2>0
  <2>2. ASSUME NEW k \in 1 .. n PROVE Contents'[l + k] = w[k]
    <3>1. l + k \in 1 .. Len(d) /\ k \in 1 .. Len(a)
      BY <1>2, <1>5, <1>10, <2>0
    <3> QED
      BY <1>5, <1>7, <1>9, <1>10, <2>0, <3>1
  <2>3. ASSUME NEW k \in 1 .. Len(s) PROVE Contents'[l + n + k] = s[k]
    <3>1. l + n + k = Len(d) + k /\ k \in 1 .. Len(b)
      BY <1>2, <1>6, <1>10, <2>0
    <3> QED
      BY <1>6, <1>9, <1>10, <2>0, <3>1
  <2> QED
    BY <1>10, <2>1, <2>2, <2>3, RecordWritten DEF n, w
<1>15. \A r \in records' : r \in records \/ RecordOK(r)'
  BY <1>3, <1>14 DEF a, b
<1> QED
  BY <1>1, <1>10, <1>11, <1>12, <1>13, <1>15, AppendStep

\* A string to a Buffer.
LEMMA AppendLenencBuffer ==
    ASSUME StreamsInv, NEW s \in Text, AppendLenencString(s), class = "buffer"
    PROVE  StreamsInv' /\ Reader!Fill
<1> DEFINE n == VarUIntLen(Len(s))
           w == WriteVarUInt(Len(s))
<1>1. /\ Writing /\ class' = class /\ stream' = stream /\ call' = call
      /\ answer' = answer /\ disk' = disk
      /\ records' = records \cup {RecordAt(buffer.size, s)}
  BY DEF AppendLenencString
<1>2. buffer' = BufferAppend(BufferAppend(buffer, w), s)
  BY DEF AppendLenencString
<1>3. /\ s \in Seq(Byte) /\ Len(s) \in Nat /\ w \in Seq(Byte) /\ Len(w) = n
      /\ n \in Nat
  BY TextFrame, IntegerBytes
<1> HIDE DEF n, w
<1> DEFINE a == BufferAppend(buffer, w)
           b == BufferAppend(a, s)
<1> PICK l : l = buffer.size
  OBVIOUS
<1>4. /\ buffer \in [data : Seq(Byte), size : Nat]
      /\ buffer.size <= Len(buffer.data) /\ l \in Nat
  BY DEF StreamsInv
<1>5. /\ a \in [data : Seq(Byte), size : Nat]
      /\ a.size = l + Len(w) /\ a.size <= Len(a.data)
      /\ \A i \in 1 .. l : a.data[i] = buffer.data[i]
      /\ \A i \in 1 .. Len(w) : a.data[l + i] = w[i]
  BY <1>3, <1>4, BufferAppendOK
<1> HIDE DEF a
<1>6. /\ b \in [data : Seq(Byte), size : Nat]
      /\ b.size = a.size + Len(s) /\ b.size <= Len(b.data)
      /\ \A i \in 1 .. a.size : b.data[i] = a.data[i]
      /\ \A i \in 1 .. Len(s) : b.data[a.size + i] = s[i]
  BY <1>3, <1>5, BufferAppendOK
<1>7. buffer' = b
  BY <1>2 DEF a
<1> HIDE DEF b
<1>8. a.size = l + n /\ b.size = l + n + Len(s)
  BY <1>3, <1>5, <1>6
<1>9. /\ l <= b.size /\ \A i \in 1 .. l : i \in 1 .. a.size
      /\ \A i \in 1 .. a.size : i \in 1 .. b.size
  BY <1>3, <1>4, <1>8
<1>10. buffer.size <= b.size
       /\ \A i \in 1 .. buffer.size : b.data[i] = buffer.data[i]
  BY <1>5, <1>6, <1>9
<1>11. /\ StoreOK' /\ Contents' \in Seq(Byte) /\ Len(Contents') = b.size
       /\ Len(Contents) <= Len(Contents')
       /\ \A i \in 1 .. Len(Contents) : Contents'[i] = Contents[i]
       /\ \A i \in 1 .. b.size : Contents'[i] = b.data[i]
  BY <1>1, <1>6, <1>7, <1>10, BufferAppended
<1>12. RecordOK(RecordAt(l, s))'
  <2>1. l + n + Len(s) <= Len(Contents') /\ Len(Contents') \in Nat
    BY <1>3, <1>4, <1>8, <1>11
  <2>2. ASSUME NEW k \in 1 .. n PROVE Contents'[l + k] = w[k]
    <3>1. l + k \in 1 .. a.size /\ l + k \in 1 .. b.size /\ k \in 1 .. Len(w)
      BY <1>3, <1>4, <1>8
    <3> QED
      BY <1>5, <1>6, <1>11, <3>1
  <2>3. ASSUME NEW k \in 1 .. Len(s) PROVE Contents'[l + n + k] = s[k]
    <3>1. l + n + k = a.size + k /\ a.size + k \in 1 .. b.size
      BY <1>3, <1>4, <1>8
    <3> QED
      BY <1>6, <1>11, <3>1
  <2> QED
    BY <1>4, <2>1, <2>2, <2>3, RecordWritten DEF n, w
<1>13. \A r \in records' : r \in records \/ RecordOK(r)'
  BY <1>1, <1>12
<1> QED
  BY <1>1, <1>11, <1>13, AppendStep

-----------------------------------------------------------------------------
(* Opening a stream, and calls that begin or go on                         *)

\* A stream begins where the reader of the byte stream has been waiting.
LEMMA OpenedStep ==
    ASSUME StreamsInv, stream = NotOpen, call = Idle,
           UNCHANGED <<class, storeVars, call, answer>>,
           stream'.open, StreamOK(stream'), Position(stream') = 0
    PROVE  StreamsInv' /\ UNCHANGED Reader!streamVars
<1>1. StreamsInv'
  BY ReaderStep
<1>2. Contents' = Contents
  BY StoreKept
<1>3. Position(NotOpen) = 0
  <2>1. /\ NotOpen.offset = 0 /\ NotOpen.pos = 0 /\ NotOpen.buf = << >>
        /\ Position(NotOpen) = NotOpen.offset - (Len(NotOpen.buf) - NotOpen.pos)
    BY DEF NotOpen, Beginning, Position, Available
  <2>2. Len(NotOpen.buf) = 0
    BY <2>1
  <2>3. Position(NotOpen) = 0 - (0 - 0)
    BY <2>1, <2>2
  <2> QED
    BY <2>3
<1>4. Here = Clamped(0) /\ Here' = Clamped(Position(stream))'
  BY <1>3 DEF Here
<1>5. Clamped(Position(stream))' = Clamped(0)
  BY <1>2 DEF Clamped, Position, Available
<1> QED
  BY <1>1, <1>2, <1>4, <1>5 DEF Reader!streamVars

LEMMA OpenStep ==
    ASSUME StreamsInv, Open
    PROVE  StreamsInv' /\ UNCHANGED Reader!streamVars
<1>1. /\ Writing /\ UNCHANGED <<class, storeVars>>
      /\ call' = call /\ answer' = answer
  BY DEF Open
<1>2. /\ stream = NotOpen /\ call = Idle /\ StoreOK
  BY <1>1 DEF StreamsInv, Writing, StoreOK
<1>3. Contents \in Seq(Byte) /\ Len(Contents) \in Nat
  BY <1>2, ContentsType
<1>4. PICK t : t = stream'
  OBVIOUS
<1> DEFINE s == Beginning(TRUE)
<1>5. s = [offset |-> 0, buf |-> << >>, pos |-> 0, open |-> TRUE]
  BY DEF Beginning
<1>6. CASE class = "file"
  <2> HIDE DEF s
  <2>1. s.offset = 0 /\ s.buf = << >> /\ s.pos = 0 /\ s.open = TRUE
    BY <1>5
  <2>2. Len(s.buf) = 0
    BY <2>1
  <2>3. StreamOK(s)
    <3>1. s \in [offset : Nat, buf : Seq(Byte), pos : Nat, open : BOOLEAN]
      BY <1>5
    <3> QED
      BY <1>6, <2>1, <2>2, <3>1 DEF StreamOK
  <2>4. Position(s) = 0
    <3>1. Position(s) = s.offset - (Len(s.buf) - s.pos)
      BY DEF Position, Available
    <3>2. Position(s) = 0 - (0 - 0)
      BY <2>1, <2>2, <3>1
    <3> QED
      BY <3>2
  <2>5. t = s \/ t \in Filled(s)
    BY <1>4, <1>6 DEF Open, s
  <2> QED
    BY <1>2, <2>1, <2>3, <2>4, <2>5, FilledOK, OpenedStep, <1>1, <1>4
<1>7. CASE class = "buffer"
  <2> DEFINE l == Len(Contents)
  <2>1. t = [offset |-> l, buf |-> Contents, pos |-> 0, open |-> TRUE]
    BY <1>4, <1>7 DEF Open, MemoryStream
  <2>2. /\ t.offset = l /\ t.buf = Contents /\ t.pos = 0 /\ t.open = TRUE
        /\ l \in Nat /\ Len(t.buf) = l
    BY <1>3, <2>1
  <2>3. StreamOK(t)
    <3>1. t \in [offset : Nat, buf : Seq(Byte), pos : Nat, open : BOOLEAN]
      BY <1>3, <2>1
    <3>2. t.offset - Len(t.buf) = 0
      <4> HIDE DEF l
      <4>1. t.offset - Len(t.buf) = l - l
        BY <2>2
      <4> QED
        BY <2>2, <4>1
    <3>3. \A i \in 1 .. Len(t.buf) :
             t.buf[i] = Contents[t.offset - Len(t.buf) + i]
      BY <2>2, <3>2
    <3> QED
      BY <1>3, <2>2, <3>1, <3>3 DEF StreamOK
  <2>4. Position(t) = 0
    <3>1. Position(t) = t.offset - (Len(t.buf) - t.pos)
      BY DEF Position, Available
    <3> HIDE DEF l
    <3>2. Position(t) = l - (l - 0)
      BY <2>2, <3>1
    <3> QED
      BY <2>2, <3>2
  <2> QED
    BY <1>1, <1>2, <1>4, <2>2, <2>3, <2>4, OpenedStep
<1> QED
  BY <1>2, <1>6, <1>7 DEF StoreOK

\* How much a call still asks for.
LEMMA WantedIs ==
    ASSUME NEW c
    PROVE  /\ c.op \in {"bytes", "exact"} => Wanted(c) = c.count - Len(c.got)
           /\ c.op = "until" => Wanted(c) = 1
           /\ c.op \in {"line", "varuint"} =>
                 Wanted(c) = IF c.got # << >> /\ c.got[Len(c.got)] \in Ends(c.op)
                             THEN 0 ELSE 1
           /\ c.op = "lenenc" =>
                 Wanted(c) = IF Size(c).ok
                             THEN Size(c).cur + Size(c).value - Len(c.got)
                             ELSE 1
<1>1. ASSUME c.op \in {"bytes", "exact"}
      PROVE  Wanted(c) = c.count - Len(c.got)
  BY <1>1 DEF Wanted
<1>2. ASSUME c.op = "until" PROVE Wanted(c) = 1
  BY <1>2 DEF Wanted
<1>3. ASSUME c.op \in {"line", "varuint"}
      PROVE  Wanted(c) = IF c.got # << >> /\ c.got[Len(c.got)] \in Ends(c.op)
                         THEN 0 ELSE 1
  BY <1>3 DEF Wanted, Last
<1>4. ASSUME c.op = "lenenc"
      PROVE  Wanted(c) = IF Size(c).ok
                         THEN Size(c).cur + Size(c).value - Len(c.got)
                         ELSE 1
  BY <1>4 DEF Wanted
<1> QED
  BY <1>1, <1>2, <1>3, <1>4

\* A call begins with nothing read.
LEMMA CallBegins ==
    ASSUME NEW now \in Nat, NEW n \in Count \cup {0},
           NEW op \in {"bytes", "exact", "until", "line", "varuint", "lenenc"},
           op \in {"bytes", "exact"} => n \in Count,
           NEW c, c = [op |-> op, count |-> n, start |-> now, got |-> << >>]
    PROVE  CallOK(c, now)
<1>0. c.op = op
  OBVIOUS
<1>1. /\ c.count = n /\ c.start = now /\ c.got = << >> /\ Len(c.got) = 0
      /\ c \in [op : {"bytes", "exact", "until", "line", "varuint", "lenenc"},
                count : Count \cup {0}, start : Nat, got : Seq(Byte)]
  OBVIOUS
<1>2. ~ Size(c).ok
  <2> DEFINE r == ReadVarUInt(<< >>, 0)
  <2>1. << >> \in Seq(Nat) /\ 0 \in Nat /\ 0 <= Len(<< >>) /\ 1 = 0 + 1
        /\ Len(<< >>) = 0
    OBVIOUS
  <2> HIDE DEF r
  <2>2. \/ r = [ok |-> FALSE, cur |-> Len(<< >>), value |-> 0]
        \/ r.cur \in 1 .. Len(<< >>)
    BY <2>1, ReadVarUIntAt DEF r
  <2>3. ~ r.ok
    BY <2>1, <2>2
  <2> QED
    BY <1>1, <2>3 DEF Size, r
<1>3. now + 0 = now /\ 0 <= n
  BY StreamsAssumption
<1> QED
  BY <1>0, <1>1, <1>2, <1>3 DEF CallOK

LEMMA CallStep ==
    ASSUME StreamsInv, Read
    PROVE  StreamsInv' /\ UNCHANGED Reader!streamVars
<1>1. PICK op \in {"bytes", "exact", "until", "line", "varuint", "lenenc"},
           n \in Count \cup {0} :
         Call(op, n) /\ (op \in {"bytes", "exact"} => n \in Count)
  BY DEF Read
<1>2. /\ stream.open /\ call = Idle /\ stream' = stream /\ answer' = answer
      /\ UNCHANGED <<class, storeVars>>
      /\ call' = [op |-> op, count |-> n, start |-> Clamped(Position(stream)),
                  got |-> << >>]
  BY <1>1 DEF Call, CanCall
<1>3. StoreOK /\ StreamOK(stream)
  BY DEF StreamsInv, StoreOK
<1>4. PICK now : now = Clamped(Position(stream))
  OBVIOUS
<1>5. now \in Nat
  BY <1>3, <1>4, StreamFacts, ClampedAt
<1>6. PICK c : c = call'
  OBVIOUS
<1>7. c = [op |-> op, count |-> n, start |-> now, got |-> << >>]
  BY <1>2, <1>4, <1>6
<1>8. c.op = op
  BY <1>7
<1>9. CallOK(c, now)
  BY <1>1, <1>5, <1>7, <1>8, CallBegins
<1>10. StreamsInv'
  BY <1>2, <1>3, <1>4, <1>6, <1>9, ReaderStep
<1>11. Here = now /\ Here' = now
  <2>1. call' # Idle /\ call'.start = now
    BY <1>6, <1>7, <1>8 DEF Idle
  <2> QED
    BY <1>2, <1>4, <2>1 DEF Here
<1>12. Contents' = Contents
  BY <1>2, StoreKept
<1> QED
  BY <1>2, <1>10, <1>11, <1>12 DEF Reader!streamVars

\* Taking bytes out of the read buffer moves the stream by as many.
LEMMA Advanced ==
    ASSUME StoreOK, NEW s, StreamOK(s), NEW n \in Nat, n <= Available(s),
           NEW t, t = [s EXCEPT !.pos = @ + n]
    PROVE  /\ StreamOK(t) /\ t.open = s.open
           /\ Position(t) = Position(s) + n
           /\ SubSeq(s.buf, s.pos + 1, s.pos + n) \in Seq(Byte)
           /\ Len(SubSeq(s.buf, s.pos + 1, s.pos + n)) = n
           /\ \A i \in 1 .. n : SubSeq(s.buf, s.pos + 1, s.pos + n)[i]
                                   = Contents[Position(s) + i]
           /\ Position(s) \in Nat /\ Len(Contents) \in Nat
           /\ n > 0 => Position(s) + n <= Len(Contents)
<1> DEFINE b == s.buf
           p == s.pos
           q == p + n
           o == s.offset
           a == Available(s)
           h == Position(s)
<1>1. /\ a \in Nat /\ h \in Nat /\ p + a = Len(b) /\ o = h + a
      /\ a > 0 => h + a <= Len(Contents)
      /\ \A i \in 1 .. a : b[p + i] = Contents[h + i]
  BY StreamFacts
<1>2. s \in [offset : Nat, buf : Seq(Byte), pos : Nat, open : BOOLEAN]
  BY DEF StreamOK
<1>3. p \in Nat /\ b \in Seq(Byte) /\ o \in Nat /\ Len(b) \in Nat
  BY <1>2
<1>4. Len(Contents) \in Nat
  BY ContentsType
<1>5. /\ t \in [offset : Nat, buf : Seq(Byte), pos : Nat, open : BOOLEAN]
      /\ t.offset = o /\ t.buf = b /\ t.pos = q /\ t.open = s.open
  <2>1. q \in Nat
    BY <1>3
  <2> HIDE DEF q
  <2>2. t = [s EXCEPT !.pos = q]
    BY DEF q
  <2> QED
    BY <1>2, <2>1, <2>2
<1>6. n <= a
  OBVIOUS
<1> HIDE DEF b, p, o, a, h
<1>7. q \in Nat /\ p <= q /\ q <= Len(b) /\ q - p = n
  BY <1>1, <1>3, <1>6
<1>8. StreamOK(t)
  <2>1. t.pos <= Len(t.buf)
    BY <1>5, <1>7
  <2> QED
    BY <1>5, <2>1 DEF StreamOK, b, o
<1>9. Position(t) = h + n
  <2>1. Position(t) = t.offset - (Len(t.buf) - t.pos)
    BY DEF Position, Available
  <2>2. Position(t) = o - (Len(b) - q)
    BY <1>5, <2>1
  <2> QED
    BY <1>1, <1>3, <2>2
<1> HIDE DEF q
<1> DEFINE x == SubSeq(b, p + 1, q)
<1>10. x \in Seq(Byte) /\ Len(x) = q - p /\ \A i \in 1 .. q - p : x[i] = b[p + i]
  BY <1>3, <1>7, Part
<1> HIDE DEF x
<1>11. x \in Seq(Byte) /\ Len(x) = n /\ \A i \in 1 .. n : x[i] = b[p + i]
  BY <1>7, <1>10
<1>12. \A i \in 1 .. n : x[i] = Contents[h + i]
  <2>1. \A i \in 1 .. n : i \in 1 .. a
    BY <1>1, <1>6
  <2> QED
    BY <1>1, <1>11, <2>1
<1>13. n > 0 => h + n <= Len(Contents)
  BY <1>1, <1>4, <1>6
<1>14. x = SubSeq(s.buf, s.pos + 1, s.pos + n)
  BY DEF x, b, p, q
<1> QED
  BY <1>1, <1>4, <1>5, <1>8, <1>9, <1>11, <1>12, <1>13, <1>14 DEF h

\* A call that goes on with the next n bytes.
LEMMA CallContinues ==
    ASSUME StoreOK, NEW c, NEW now \in Nat, CallOK(c, now),
           NEW n \in Nat, n > 0, now + n <= Len(Contents),
           NEW x \in Seq(Byte), Len(x) = n,
           \A i \in 1 .. n : x[i] = Contents[now + i],
           Wanted(c) > 0, n <= Wanted(c),
           NEW d, d = [c EXCEPT !.got = @ \o x]
    PROVE  CallOK(d, now + n)
<1> DEFINE g == c.got
           a == c.start
           e == g \o x
<1>1. /\ c \in [op : {"bytes", "exact", "until", "line", "varuint", "lenenc"},
                count : Count \cup {0}, start : Nat, got : Seq(Byte)]
      /\ a + Len(g) = now /\ \A i \in 1 .. Len(g) : g[i] = Contents[a + i]
  BY DEF CallOK
<1>2. /\ g \in Seq(Byte) /\ g \in Seq(Nat) /\ Len(g) \in Nat /\ a \in Nat
      /\ c.count \in Nat
  <2>1. g \in Seq(Byte) /\ a \in Nat /\ c.count \in Count \cup {0}
    BY <1>1
  <2>2. Count \cup {0} \subseteq Nat
    BY StreamsAssumption
  <2> HIDE DEF g, a
  <2> QED
    BY <2>1, <2>2, ByteNat
<1> HIDE DEF g, a
<1>3. /\ e \in Seq(Byte) /\ Len(e) = Len(g) + Len(x)
      /\ \A i \in 1 .. Len(g) : e[i] = g[i]
      /\ \A i \in 1 .. Len(x) : e[Len(g) + i] = x[i]
  <2>1. g \in Seq(Byte) /\ x \in Seq(Byte)
    BY <1>2
  <2> QED
    BY ONLY <2>1, Joined
<1> HIDE DEF e
<1>4. /\ d \in [op : {"bytes", "exact", "until", "line", "varuint", "lenenc"},
                count : Count \cup {0}, start : Nat, got : Seq(Byte)]
      /\ d.op = c.op /\ d.count = c.count /\ d.start = a /\ d.got = e
  <2>1. d = [c EXCEPT !.got = e]
    BY DEF e, g
  <2> QED
    BY <1>1, <1>3, <2>1 DEF a
<1>5. Len(e) = Len(g) + n /\ e \in Seq(Nat) /\ Len(e) \in Nat
  BY <1>2, <1>3, ByteNat
<1>6. a + Len(e) = now + n
  BY <1>1, <1>2, <1>5
<1>7. ASSUME NEW i \in 1 .. Len(e) PROVE e[i] = Contents[a + i]
  <2>1. CASE i \in 1 .. Len(g)
    BY <1>1, <1>3, <2>1 DEF g, a
  <2>2. CASE i \notin 1 .. Len(g)
    <3> DEFINE j == i - Len(g)
    <3>1. j \in 1 .. n /\ i = Len(g) + j /\ a + i = now + j
      <4>1. /\ i \in Nat /\ Len(g) < i /\ i <= Len(g) + n
            /\ a + Len(g) = now /\ Len(g) \in Nat /\ a \in Nat
        BY <1>1, <1>2, <1>5, <2>2, SMTT(20) DEF g, a
      <4> QED
        BY ONLY <4>1, n \in Nat
    <3> HIDE DEF j
    <3> QED
      BY <1>3, <3>1
  <2> QED
    BY <2>1, <2>2
<1>8. ASSUME c.op \in {"bytes", "exact"} PROVE Len(e) <= c.count
  <2>1. n <= c.count - Len(g)
    BY <1>8, WantedIs DEF g
  <2> QED
    BY <1>2, <1>5, <2>1
<1>9. ASSUME c.op \in {"line", "varuint"}, NEW i \in 1 .. Len(e) - 1
      PROVE  e[i] \notin Ends(c.op)
  <2> DEFINE done == g # << >> /\ g[Len(g)] \in Ends(c.op)
  <2>1. Wanted(c) = IF done THEN 0 ELSE 1
    BY <1>9, WantedIs DEF g
  <2> HIDE DEF done
  <2>2. ~ done /\ n = 1
    BY <2>1
  <2>3. i \in 1 .. Len(g) /\ e[i] = g[i]
    BY <1>2, <1>3, <1>5, <2>2
  <2>4. CASE i = Len(g)
    <3>1. g # << >>
      BY <1>2, <2>3, NotEmpty
    <3> QED
      BY <2>2, <2>3, <2>4, <3>1 DEF done
  <2>5. CASE i # Len(g)
    <3>1. i \in 1 .. Len(g) - 1
      BY <1>2, <2>3, <2>5
    <3>2. \A k \in 1 .. Len(g) - 1 : g[k] \notin Ends(c.op)
      BY <1>9 DEF CallOK, g
    <3> QED
      BY <2>3, <3>1, <3>2
  <2> QED
    BY <2>4, <2>5
<1>10. ASSUME c.op = "lenenc", ReadVarUInt(e, 0).ok
       PROVE  Len(e) <= ReadVarUInt(e, 0).cur + ReadVarUInt(e, 0).value
  <2> DEFINE r == ReadVarUInt(g, 0)
             u == ReadVarUInt(e, 0)
  <2>1. Wanted(c) = IF r.ok THEN r.cur + r.value - Len(g) ELSE 1
    BY <1>10, WantedIs DEF g, Size
  <2>2. Within(g, e, 0)
    BY <1>2, <1>3, <1>5, SMTT(20) DEF Within
  <2>3. CASE r.ok
    <3>1. /\ u.ok /\ u.cur = 0 + r.cur /\ u.value = r.value
          /\ r.cur \in 1 .. Len(g) /\ r.value \in Nat
      <4>1. g \in Seq(Nat) /\ e \in Seq(Nat) /\ 0 \in Nat
        BY <1>2, <1>5
      <4> QED
        BY ONLY <2>2, <2>3, <4>1, IntegerWithin, SMTT(20)
    <3> HIDE DEF r, u
    <3> DEFINE p == r.cur
               v == r.value
    <3>2. p \in Nat /\ v \in Nat /\ n <= p + v - Len(g) /\ u.cur = p /\ u.value = v
      BY <1>2, <2>1, <2>3, <3>1
    <3> HIDE DEF p, v
    <3>3. Len(e) <= p + v
      BY <1>2, <1>5, <3>2
    <3> QED
      BY <3>2, <3>3 DEF u
  <2>4. CASE ~ r.ok
    <3>1. \A i \in 1 .. Len(g) : ~ (g[i] < VarintBase)
      BY <1>2, <2>4, NoInteger
    <3>2. u.cur \in 1 .. Len(e) /\ e[u.cur] < VarintBase /\ u.value \in Nat
      <4>1. 0 \in Nat /\ 0 <= Len(e) /\ 0 + 1 = 1 /\ u.ok
        BY <1>5, <1>10
      <4> HIDE DEF u
      <4>2. \/ u = [ok |-> FALSE, cur |-> Len(e), value |-> 0]
            \/ u.cur \in 1 .. Len(e) /\ u.value \in Nat /\ e[u.cur] < VarintBase
        BY <1>5, <4>1, ReadVarUIntAt DEF u
      <4> QED
        BY <4>1, <4>2
    <3> HIDE DEF r, u
    <3>3. n = 1
      BY <2>1, <2>4
    <3> DEFINE k == u.cur
    <3>4. k \in 1 .. Len(e) /\ e[k] < VarintBase
      BY <3>2
    <3> HIDE DEF k
    <3>5. k \notin 1 .. Len(g)
      BY <1>3, <3>1, <3>4
    <3>6. k = Len(e)
      BY <1>2, <1>5, <3>3, <3>4, <3>5
    <3>7. u.cur = Len(e) /\ u.value \in Nat
      BY <3>2, <3>6 DEF k
    <3>8. Len(e) <= u.cur + u.value
      BY <1>5, <3>7
    <3> QED
      BY <3>8 DEF u
  <2> QED
    BY <2>3, <2>4
<1> QED
  BY <1>4, <1>6, <1>7, <1>8, <1>9, <1>10, <1>1 DEF CallOK, Size

\* What the invariant says while a call runs, and of the stream it reads.
LEMMA Running ==
    ASSUME StreamsInv, call # Idle
    PROVE  /\ StoreOK /\ stream.open /\ StreamOK(stream)
           /\ CallOK(call, Clamped(Position(stream)))
           /\ Clamped(Position(stream)) \in Nat
           /\ Clamped(Position(stream)) <= Len(Contents)
           /\ Here = call.start
<1>1. /\ StoreOK /\ stream.open /\ StreamOK(stream)
      /\ CallOK(call, Clamped(Position(stream)))
  BY DEF StreamsInv, StoreOK
<1>2. Position(stream) \in Nat
  BY <1>1, StreamFacts
<1> QED
  BY <1>1, <1>2, ClampedAt DEF Here

LEMMA WantedType ==
    ASSUME NEW c, NEW now, CallOK(c, now), Wanted(c) > 0
    PROVE  Wanted(c) \in Nat
<1> DEFINE w == Wanted(c)
           m == c.count
           l == Len(c.got)
           r == ReadVarUInt(c.got, 0)
<1>1. /\ c.op \in {"bytes", "exact", "until", "line", "varuint", "lenenc"}
      /\ m \in Count \cup {0} /\ c.got \in Seq(Byte)
  BY DEF CallOK
<1>2. m \in Nat /\ l \in Nat
  <2>1. Count \cup {0} \subseteq Nat
    BY StreamsAssumption
  <2> QED
    BY <1>1, <2>1
<1>3. r.ok => r.cur \in Nat /\ r.value \in Nat
  <2>1. SUFFICES ASSUME r.ok PROVE r.cur \in Nat /\ r.value \in Nat
    OBVIOUS
  <2>2. c.got \in Seq(Nat) /\ Within(c.got, c.got, 0) /\ 0 \in Nat
    BY <1>1, ByteNat DEF Within
  <2>3. r.cur \in 1 .. Len(c.got) /\ r.value \in Nat
    BY <2>1, <2>2, IntegerWithin
  <2> HIDE DEF r
  <2> QED
    BY <2>3
<1>4. CASE c.op \in {"bytes", "exact"}
  <2>1. w = m - l
    BY <1>4, WantedIs
  <2> HIDE DEF w, m, l
  <2>2. w > 0
    BY DEF w
  <2>3. w \in Nat
    BY <1>2, <2>1, <2>2
  <2> QED
    BY <2>3 DEF w
<1>5. CASE c.op \in {"until", "line", "varuint"}
  <2>1. w \in {0, 1}
    BY <1>5, WantedIs
  <2> QED
    BY <2>1
<1>6. CASE c.op = "lenenc"
  <2>1. PICK z : z = Size(c)
    OBVIOUS
  <2>4. w = IF z.ok THEN z.cur + z.value - l ELSE 1
    BY <1>6, <2>1, WantedIs
  <2>5. z = r
    BY <2>1 DEF Size
  <2>2. w > 0 /\ (z.ok => z.cur \in Nat /\ z.value \in Nat)
    BY <1>3, <2>5
  <2> HIDE DEF w, l, r
  <2>3. w \in Nat
    <3>1. CASE z.ok
      <4> DEFINE p == z.cur
                 v == z.value
      <4>1. p \in Nat /\ v \in Nat /\ w = p + v - l
        BY <2>2, <2>4, <3>1
      <4> HIDE DEF p, v
      <4> QED
        BY <1>2, <2>2, <4>1
    <3>2. CASE ~ z.ok
      BY <2>4, <3>2
    <3> QED
      BY <3>1, <3>2
  <2> QED
    BY <2>3 DEF w
<1> QED
  BY <1>1, <1>4, <1>5, <1>6

LEMMA ReadMoreStep ==
    ASSUME StreamsInv, ReadMore
    PROVE  StreamsInv' /\ UNCHANGED Reader!streamVars
<1>1. /\ call # Idle /\ Wanted(call) > 0 /\ answer' = answer
      /\ UNCHANGED <<class, storeVars>>
  BY DEF ReadMore, Reading
<1> DEFINE taken(s) == IF class = "file" THEN Min({Available(s), Wanted(call)})
                       ELSE 1
<1>2. PICK s \in Filled(stream) :
         /\ Available(s) > 0
         /\ stream' = [s EXCEPT !.pos = @ + taken(s)]
         /\ call' = [call EXCEPT !.got =
                        @ \o SubSeq(s.buf, s.pos + 1, s.pos + taken(s))]
  BY DEF ReadMore
<1>3. /\ StoreOK /\ stream.open /\ StreamOK(stream)
      /\ CallOK(call, Clamped(Position(stream))) /\ Here = call.start
  BY <1>1, Running
<1>4. StreamOK(s) /\ s.open /\ Position(s) = Position(stream)
  BY <1>2, <1>3, FilledOK
<1>5. Available(s) \in Nat /\ Wanted(call) \in Nat
  <2>1. Available(s) \in Nat
    BY <1>3, <1>4, StreamFacts
  <2>2. PICK c : c = call
    OBVIOUS
  <2>3. CallOK(c, Clamped(Position(stream))) /\ Wanted(c) > 0
    BY <1>1, <1>3, <2>2
  <2>4. Wanted(c) \in Nat
    BY <2>3, WantedType
  <2> QED
    BY <2>1, <2>2, <2>4
<1>6. PICK n : n = taken(s)
  OBVIOUS
<1>7. n \in Nat /\ n > 0 /\ n <= Available(s) /\ n <= Wanted(call)
  <2>1. Min({Available(s), Wanted(call)})
           = IF Available(s) <= Wanted(call) THEN Available(s) ELSE Wanted(call)
    BY <1>5, MinTwo
  <2> QED
    BY <1>1, <1>2, <1>5, <1>6, <2>1
<1> PICK t : t = stream'
  OBVIOUS
<1> PICK now : now = Clamped(Position(stream))
  OBVIOUS
<1> DEFINE x == SubSeq(s.buf, s.pos + 1, s.pos + n)
<1>8. t = [s EXCEPT !.pos = @ + n] /\ call' = [call EXCEPT !.got = @ \o x]
  BY <1>2, <1>6
<1>9. /\ StreamOK(t) /\ t.open = s.open
      /\ Position(t) = Position(s) + n
      /\ x \in Seq(Byte) /\ Len(x) = n
      /\ \A i \in 1 .. n : x[i] = Contents[Position(s) + i]
      /\ Position(s) \in Nat /\ Len(Contents) \in Nat
      /\ Position(s) + n <= Len(Contents)
  BY <1>3, <1>4, <1>7, <1>8, Advanced
<1> HIDE DEF x
<1>10. now = Position(s) /\ now \in Nat
  <2>1. Position(s) <= Len(Contents)
    BY <1>7, <1>9
  <2> QED
    BY <1>3, <1>4, <1>9, <2>1, ClampedAt
<1>11. Clamped(Position(t)) = now + n
  <2>1. Position(t) \in Nat /\ Position(t) <= Len(Contents)
    BY <1>7, <1>9, <1>10
  <2> QED
    BY <1>3, <1>9, <1>10, <2>1, ClampedAt
<1>12. PICK c : c = call
  OBVIOUS
<1>13. PICK d : d = call'
  OBVIOUS
<1>14. CallOK(d, now + n)
  <2>1. CallOK(c, now) /\ Wanted(c) > 0 /\ n <= Wanted(c)
    BY <1>1, <1>3, <1>7, <1>12
  <2>2. d = [c EXCEPT !.got = @ \o x]
    BY <1>8, <1>12, <1>13
  <2>3. /\ now + n <= Len(Contents)
        /\ \A i \in 1 .. n : x[i] = Contents[now + i]
    BY <1>9, <1>10
  <2> QED
    BY <1>3, <1>7, <1>9, <1>10, <2>1, <2>2, <2>3, CallContinues
<1>15. StreamsInv'
  BY <1>1, <1>4, <1>9, <1>11, <1>13, <1>14, ReaderStep
<1>16. Here' = call.start
  <2>1. call'.start = call.start
    <3>1. c \in [op : {"bytes", "exact", "until", "line", "varuint", "lenenc"},
                 count : Count \cup {0}, start : Nat, got : Seq(Byte)]
      BY <1>3, <1>12 DEF CallOK
    <3>2. d = [c EXCEPT !.got = @ \o x]
      BY <1>8, <1>12, <1>13
    <3> QED
      BY <1>12, <1>13, <3>1, <3>2
  <2>2. call' # Idle
    <3>1. d.op # "none"
      BY <1>14 DEF CallOK
    <3> QED
      BY <1>13, <3>1 DEF Idle
  <2> QED
    BY <2>1, <2>2 DEF Here
<1>17. Contents' = Contents
  BY <1>1, StoreKept
<1> QED
  BY <1>1, <1>3, <1>15, <1>16, <1>17 DEF Reader!streamVars

-----------------------------------------------------------------------------
(* Calls that return                                                       *)

\* What a step that returns has in common with the others: the call is over,
\* and the stream is where the last byte that was read left it.
LEMMA ReturnStep ==
    ASSUME StreamsInv, call # Idle, NEW status, NEW value,
           Return(status, value), stream'.open, StreamOK(stream'),
           Position(stream') = Position(stream),
           NEW c, c = call, NEW now, now = Clamped(Position(stream)),
           Returns(c, now, status, value) => Reader!Read
    PROVE  StreamsInv' /\ Reader!Read
<1>1. /\ call' = Idle /\ UNCHANGED <<class, storeVars>>
      /\ answer' = Outcome(call.op, call.start, status, value)
  BY DEF Return
<1>2. /\ StoreOK /\ CallOK(call, Clamped(Position(stream)))
      /\ Clamped(Position(stream)) \in Nat
      /\ Clamped(Position(stream)) <= Len(Contents) /\ Here = call.start
  BY Running
<1>3. Contents' = Contents
  BY <1>1, StoreKept
<1>4. Here' = now
  <2>1. Here' = Clamped(Position(stream))'
    BY <1>1 DEF Here
  <2>2. Clamped(Position(stream))' = Clamped(Position(stream'))
    BY <1>3 DEF Clamped, Position, Available
  <2> QED
    BY <2>1, <2>2
<1>5. Returns(c, now, status, value)
  BY <1>1, <1>2, <1>3, <1>4 DEF Returns
<1>6. StreamsInv'
  BY <1>1, <1>5, ReaderStep
<1> QED
  BY <1>5, <1>6

LEMMA ReturnReadStep ==
    ASSUME StreamsInv, ReturnRead
    PROVE  StreamsInv' /\ Reader!Read
<1>1. /\ call # Idle /\ ~TooLarge(call) /\ Wanted(call) = 0
      /\ stream' = stream
  BY DEF ReturnRead, Reading
<1>2. /\ StoreOK /\ stream.open /\ StreamOK(stream)
      /\ CallOK(call, Clamped(Position(stream)))
  BY <1>1, Running
<1> PICK c : c = call
  OBVIOUS
<1> PICK now : now = Clamped(Position(stream))
  OBVIOUS
<1> PICK value :
       value = CASE c.op = "varuint" -> <<Size(c).value>>
                 [] c.op = "lenenc" ->
                       SubSeq(c.got, Size(c).cur + 1, Len(c.got))
                 [] OTHER -> c.got
  OBVIOUS
<1>3. Return("ok", value)
  BY DEF ReturnRead
<1>4. /\ CallOK(c, now) /\ Wanted(c) = 0
      /\ c.op \in {"bytes", "exact", "until", "line", "varuint", "lenenc"}
      /\ c.got \in Seq(Byte) /\ c.count \in Count \cup {0}
  BY <1>1, <1>2 DEF CallOK
<1>5. Len(c.got) \in Nat /\ c.count \in Nat
  <2>1. Count \cup {0} \subseteq Nat
    BY StreamsAssumption
  <2> QED
    BY <1>4, <2>1
<1>6. ASSUME Returns(c, now, "ok", value) PROVE Reader!Read
  <2>1. CASE c.op \in {"bytes", "exact"}
    <3>1. value = c.got
      BY <2>1
    <3> DEFINE m == c.count
               l == Len(c.got)
    <3>2. m - l = 0 /\ m \in Nat /\ l \in Nat
      BY <1>4, <1>5, <2>1, WantedIs
    <3> HIDE DEF m, l
    <3>3. l = m
      BY <3>2
    <3>4. Len(c.got) = c.count
      BY <3>3 DEF m, l
    <3> QED
      BY <1>2, <1>6, <2>1, <3>1, <3>4, BytesAnswered, ExactlyAnswered
  <2>2. CASE c.op = "until"
    BY <1>4, <2>2, WantedIs
  <2>3. CASE c.op = "line"
    <3>1. value = c.got
      BY <2>3
    <3>2. c.got # << >> /\ c.got[Len(c.got)] = Newline
      BY <1>4, <2>3, WantedIs DEF Ends
    <3> QED
      BY <1>2, <1>6, <2>3, <3>1, <3>2, LineAnswered
  <2>4. CASE c.op = "varuint"
    <3>1. value = <<Size(c).value>>
      BY <2>4
    <3>2. c.got # << >> /\ c.got[Len(c.got)] \in Ends("varuint")
      BY <1>4, <2>4, WantedIs
    <3> QED
      BY <1>2, <1>6, <2>4, <3>1, <3>2, IntegerAnswered
  <2>5. CASE c.op = "lenenc"
    <3>1. value = SubSeq(c.got, Size(c).cur + 1, Len(c.got))
      BY <2>5
    <3> DEFINE p == Size(c).cur
               v == Size(c).value
               l == Len(c.got)
    <3>2. Size(c).ok /\ p + v - l = 0
      BY <1>4, <2>5, WantedIs
    <3>3. p \in Nat /\ v \in Nat /\ l \in Nat
      <4>1. c.got \in Seq(Nat) /\ Within(c.got, c.got, 0) /\ 0 \in Nat
        BY <1>4, <1>5, ByteNat DEF Within
      <4>2. /\ ReadVarUInt(c.got, 0).cur \in 1 .. Len(c.got)
            /\ ReadVarUInt(c.got, 0).value \in Nat
        BY <3>2, <4>1, IntegerWithin DEF Size
      <4>3. p \in 1 .. Len(c.got) /\ v \in Nat
        BY <4>2 DEF Size
      <4> HIDE DEF p, v
      <4> QED
        BY <1>5, <4>3
    <3> HIDE DEF p, v, l
    <3>4. p + v = l
      BY <3>2, <3>3
    <3>5. Size(c).cur + Size(c).value = Len(c.got)
      BY <3>4 DEF p, v, l
    <3> QED
      BY <1>1, <1>2, <1>6, <2>5, <3>1, <3>2, <3>5, LenencAnswered
  <2> QED
    BY <1>4, <2>1, <2>2, <2>3, <2>4, <2>5
<1> QED
  BY <1>1, <1>2, <1>3, <1>6, ReturnStep

LEMMA ReturnEOFStep ==
    ASSUME StreamsInv, ReturnEOF
    PROVE  StreamsInv' /\ Reader!Read
<1>1. /\ call # Idle /\ ~TooLarge(call) /\ Wanted(call) > 0
      /\ stream' \in Filled(stream) /\ Available(stream') = 0
  BY DEF ReturnEOF, Reading
<1>2. /\ StoreOK /\ stream.open /\ StreamOK(stream)
      /\ CallOK(call, Clamped(Position(stream)))
      /\ Clamped(Position(stream)) \in Nat
      /\ Clamped(Position(stream)) <= Len(Contents)
  BY <1>1, Running
<1> PICK c : c = call
  OBVIOUS
<1> PICK now : now = Clamped(Position(stream))
  OBVIOUS
<1> PICK t : t = stream'
  OBVIOUS
<1>3. /\ StreamOK(t) /\ t.open /\ Position(t) = Position(stream)
      /\ now = Len(Contents)
  BY <1>1, <1>2, FilledOK
<1> DEFINE whole == \/ c.op \in {"bytes", "until"}
                    \/ c.op = "line" /\ c.got # << >>
<1>4. IF whole THEN Return("ok", c.got) ELSE Return("eof", << >>)
  BY DEF ReturnEOF
<1>5. /\ CallOK(c, now) /\ Wanted(c) > 0
      /\ c.op \in {"bytes", "exact", "until", "line", "varuint", "lenenc"}
  BY <1>1, <1>2 DEF CallOK
<1>6. CASE whole
  <2>1. ASSUME Returns(c, now, "ok", c.got) PROVE Reader!Read
    <3>1. CASE c.op = "bytes"
      BY <1>2, <1>3, <2>1, <3>1, BytesAnswered
    <3>2. CASE c.op = "until"
      BY <1>2, <1>3, <2>1, <3>2, UntilAnswered
    <3>3. CASE c.op = "line" /\ c.got # << >>
      <4>1. c.got[Len(c.got)] # Newline
        BY <1>5, <3>3, WantedIs DEF Ends
      <4> QED
        BY <1>2, <1>3, <2>1, <3>3, <4>1, LineAnswered
    <3> QED
      BY <1>6, <3>1, <3>2, <3>3
  <2>2. Return("ok", c.got)
    BY <1>4, <1>6
  <2> QED
    BY <1>1, <1>3, <2>1, <2>2, ReturnStep
<1>7. CASE ~ whole
  <2>1. ASSUME Returns(c, now, "eof", << >>) PROVE Reader!Read
    <3>1. CASE c.op = "exact"
      <4> DEFINE m == c.count
                 l == Len(c.got)
      <4>1. m - l > 0 /\ m \in Nat /\ l \in Nat
        BY <1>2, <1>5, <3>1, WantedIs, Got
      <4> HIDE DEF m, l
      <4>2. l < m
        BY <4>1
      <4>3. Len(c.got) < c.count
        BY <4>2 DEF m, l
      <4> QED
        BY <1>2, <1>3, <2>1, <3>1, <4>3, ExactlyAnswered
    <3>2. CASE c.op = "line"
      <4>1. c.got = << >>
        BY <1>7, <3>2
      <4> QED
        BY <1>2, <1>3, <2>1, <3>2, <4>1, LineAnswered
    <3>3. CASE c.op = "varuint"
      <4>1. c.got # << >> => c.got[Len(c.got)] \notin Ends("varuint")
        BY <1>5, <3>3, WantedIs
      <4> QED
        BY <1>2, <1>3, <2>1, <3>3, <4>1, IntegerAnswered
    <3>4. CASE c.op = "lenenc"
      <4>1. Size(c).ok => Len(c.got) < Size(c).cur + Size(c).value
        <5>1. SUFFICES ASSUME Size(c).ok
                       PROVE  Len(c.got) < Size(c).cur + Size(c).value
          OBVIOUS
        <5> DEFINE p == Size(c).cur
                   v == Size(c).value
                   l == Len(c.got)
        <5>2. p + v - l > 0
          BY <1>5, <3>4, <5>1, WantedIs
        <5>3. p \in 1 .. l /\ v \in Nat /\ l \in Nat
          <6>1. c.got \in Seq(Nat) /\ Within(c.got, c.got, 0) /\ 0 \in Nat
                /\ Len(c.got) \in Nat
            BY <1>2, <1>5, Got DEF Within
          <6> QED
            BY <5>1, <6>1, IntegerWithin DEF Size
        <5> HIDE DEF p, v, l
        <5>4. l < p + v
          BY <5>2, <5>3
        <5> QED
          BY <5>4 DEF p, v, l
      <4> QED
        BY <1>1, <1>2, <1>3, <2>1, <3>4, <4>1, LenencAnswered
    <3> QED
      BY <1>5, <1>7, <3>1, <3>2, <3>3, <3>4
  <2>2. Return("eof", << >>)
    BY <1>4, <1>7
  <2> QED
    BY <1>1, <1>3, <2>1, <2>2, ReturnStep
<1> QED
  BY <1>6, <1>7

LEMMA ReadFailsStep ==
    ASSUME StreamsInv, ReadFails
    PROVE  StreamsInv' /\ Reader!Read
<1>1. /\ call # Idle /\ stream' = stream /\ Return("error", << >>)
      /\ class = "file"
  BY DEF ReadFails, Reading
<1>2. StoreOK /\ stream.open /\ StreamOK(stream)
  BY <1>1, Running
<1> PICK c : c = call
  OBVIOUS
<1> PICK now : now = Clamped(Position(stream))
  OBVIOUS
<1>3. Returns(c, now, "error", << >>) => Reader!Read
  BY <1>1, <1>2, ErrorAnswered
<1> QED
  BY <1>1, <1>2, <1>3, ReturnStep

LEMMA AllocationFailsStep ==
    ASSUME StreamsInv, AllocationFails
    PROVE  StreamsInv' /\ Reader!Read
<1>1. /\ call # Idle /\ stream' = stream /\ Return("error", << >>)
      /\ TooLarge(call)
  BY DEF AllocationFails
<1>2. StoreOK /\ stream.open /\ StreamOK(stream)
  BY <1>1, Running
<1> PICK c : c = call
  OBVIOUS
<1> PICK now : now = Clamped(Position(stream))
  OBVIOUS
<1>3. Returns(c, now, "error", << >>) => Reader!Read
  BY <1>1, <1>2, LargeAnswered
<1> QED
  BY <1>1, <1>2, <1>3, ReturnStep

-----------------------------------------------------------------------------
(* Calls without a loop                                                    *)

\* What they have in common.
LEMMA AtStep ==
    ASSUME StreamsInv, NEW op, NEW status, NEW value, At(op, status, value),
           NEW t, t = stream', StreamOK(t), t.open = stream.open,
           NEW here, here = Clamped(Position(stream)),
           /\ Contents' = Contents /\ Here = here
           /\ Here' = Clamped(Position(t))
           /\ answer' = Outcome(op, here, status, value)
           => Reader!Read
    PROVE  StreamsInv' /\ Reader!Read
<1>1. /\ stream.open /\ call = Idle /\ call' = Idle
      /\ UNCHANGED <<class, storeVars>>
      /\ answer' = Outcome(op, here, status, value)
  BY DEF At, CanCall
<1>2. Contents' = Contents
  BY <1>1, StoreKept
<1>3. Here = here /\ Here' = Clamped(Position(t))
  <2>1. Here' = Clamped(Position(stream))'
    BY <1>1 DEF Here
  <2>2. Clamped(Position(stream))' = Clamped(Position(t))
    BY <1>2 DEF Clamped, Position, Available
  <2> QED
    BY <1>1, <2>1, <2>2 DEF Here
<1>4. Reader!Read
  BY <1>1, <1>2, <1>3
<1>5. StreamsInv'
  BY <1>1, <1>4, ReaderStep
<1> QED
  BY <1>4, <1>5

\* Where a step of n bytes leads.
LEMMA ClampedSum ==
    ASSUME StoreOK, NEW p \in Nat, NEW n \in Nat
    PROVE  LET here == Clamped(p)
               k == Min({n, Len(Contents) - here})
           IN  /\ Clamped(p + n) = here + k /\ k \in Nat /\ k <= n
               /\ p + n <= Len(Contents) => k = n
<1> DEFINE l == Len(Contents)
           here == Clamped(p)
           rest == l - here
<1>1. l \in Nat
  BY ContentsType
<1>2. p + n \in Nat
  OBVIOUS
<1>3. /\ here = IF p <= l THEN p ELSE l
      /\ Clamped(p + n) = IF p + n <= l THEN p + n ELSE l
  BY <1>2, ClampedAt
<1> HIDE DEF here, l
<1>4. rest \in Nat
  BY <1>1, <1>3
<1>5. Min({n, rest}) = IF n <= rest THEN n ELSE rest
  <2> HIDE DEF rest
  <2> QED
    BY <1>4, MinTwo
<1>6. /\ Clamped(p + n) = here + Min({n, rest}) /\ Min({n, rest}) \in Nat
      /\ Min({n, rest}) <= n /\ (p + n <= l => Min({n, rest}) = n)
  BY <1>1, <1>3, <1>4, <1>5
<1> QED
  BY <1>6 DEF here, l

\* Over memory the stream has all that is left.
LEMMA MemoryLeft ==
    ASSUME StoreOK, NEW s, StreamOK(s), s.open, class = "buffer"
    PROVE  /\ Clamped(Position(s)) = Position(s)
           /\ Len(Contents) - Position(s) = Available(s)
           /\ s.offset = Len(Contents) /\ Len(s.buf) = Len(Contents)
           /\ Position(s) = s.pos
<1> DEFINE l == Len(Contents)
           a == Available(s)
           h == Position(s)
           p == s.pos
<1>1. a \in Nat /\ h \in Nat /\ s.offset = h + a /\ p + a = Len(s.buf)
  BY StreamFacts
<1>2. s.offset = l /\ Len(s.buf) = l /\ p \in Nat
  BY DEF StreamOK
<1> HIDE DEF a, h, p
<1>3. l = h + a /\ h <= l /\ l - h = a /\ h = p
  BY <1>1, <1>2
<1>4. Clamped(h) = h
  BY <1>1, <1>3, ClampedAt
<1> QED
  BY <1>2, <1>3, <1>4 DEF a, h, p

\* A file's descriptor is moved, and the read buffer dropped.
LEMMA Moved ==
    ASSUME StoreOK, class = "file", NEW s, StreamOK(s), NEW o \in Nat,
           NEW t, \/ t = [Dropped(s) EXCEPT !.offset = o]
                  \/ t = Dropped(s) /\ o = s.offset
    PROVE  StreamOK(t) /\ t.open = s.open /\ Position(t) = o
<1>1. s \in [offset : Nat, buf : Seq(Byte), pos : Nat, open : BOOLEAN]
  BY DEF StreamOK
<1> PICK b : b = << >>
  OBVIOUS
<1>0. b \in Seq(Byte) /\ Len(b) = 0
  OBVIOUS
<1>2. t = [offset |-> o, buf |-> b, pos |-> 0, open |-> s.open]
  <2>1. Dropped(s) = [offset |-> s.offset, buf |-> b, pos |-> 0,
                      open |-> s.open]
    <3>1. Dropped(s) = [s EXCEPT !.pos = 0, !.buf = b]
      BY DEF Dropped
    <3> QED
      BY ONLY <1>1, <3>1
  <2> QED
    BY <2>1
<1>3. /\ t.offset = o /\ t.pos = 0 /\ t.buf = b /\ t.open = s.open
      /\ t \in [offset : Nat, buf : Seq(Byte), pos : Nat, open : BOOLEAN]
  <2>1. o \in Nat /\ s.open \in BOOLEAN
    BY <1>1
  <2> QED
    BY ONLY <1>0, <1>2, <2>1
<1>4. Len(t.buf) = 0
  BY <1>0, <1>3
<1>5. StreamOK(t)
  BY <1>3, <1>4 DEF StreamOK
<1>6. Position(t) = t.offset - (Len(t.buf) - t.pos)
  BY DEF Position, Available
<1>7. Position(t) = o - (0 - 0)
  BY <1>3, <1>4, <1>6
<1> QED
  BY <1>3, <1>5, <1>7

\* lseek() fails, and what was buffered is lost.
LEMMA MoveFails ==
    ASSUME StreamsInv, class = "file", NEW op \in {"skip", "seek"},
           At(op, "error", << >>), stream' = Dropped(stream)
    PROVE  StreamsInv' /\ Reader!Read
<1> DEFINE l == Len(Contents)
           p == Position(stream)
           o == stream.offset
<1> PICK t : t = stream'
  OBVIOUS
<1> PICK here : here = Clamped(p)
  OBVIOUS
<1>1. StoreOK /\ StreamOK(stream)
  BY DEF StreamsInv, StoreOK, At, CanCall
<1>2. /\ p \in Nat /\ o \in Nat /\ p <= o /\ l \in Nat
  <2>1. /\ Available(stream) \in Nat /\ p \in Nat
        /\ o = p + Available(stream) /\ l \in Nat
    BY <1>1, StreamFacts, ContentsType
  <2> HIDE DEF p, o, l
  <2> QED
    BY <2>1
<1>3. StreamOK(t) /\ t.open = stream.open /\ Position(t) = o
  BY <1>1, <1>2, Moved
<1>4. Clamped(o) \in here .. l /\ here \in Nat
  <2>1. /\ here = IF p <= l THEN p ELSE l
        /\ Clamped(o) = IF o <= l THEN o ELSE l
    BY <1>1, <1>2, ClampedAt
  <2> HIDE DEF p, o, l
  <2> QED
    BY <1>2, <2>1
<1>5. ASSUME /\ Contents' = Contents /\ Here = here
             /\ Here' = Clamped(Position(t))
             /\ answer' = Outcome(op, here, "error", << >>)
      PROVE  Reader!Read
  <2>1. Reader!ReadError
    BY <1>3, <1>4, <1>5, ReaderSame DEF Reader!ReadError
  <2> QED
    BY <1>5, <2>1 DEF Reader!Read
<1> QED
  BY <1>3, <1>5, AtStep

LEMMA SkipStep ==
    ASSUME StreamsInv, NEW n \in Count, Skip(n)
    PROVE  StreamsInv' /\ Reader!Read
<1>8. CASE /\ class = "file" /\ At("skip", "error", << >>)
           /\ stream' = Dropped(stream)
  BY <1>8, MoveFails
<1> DEFINE left == Available(stream)
           h == Position(stream)
           l == Len(Contents)
<1>1. n \in Nat
  BY StreamsAssumption
<1> PICK all : all = IF class = "file" THEN n ELSE Min({n, left})
  OBVIOUS
<1> PICK t : t = stream'
  OBVIOUS
<1> PICK here : here = Clamped(h)
  OBVIOUS
<1> PICK k : k = Min({n, l - here})
  OBVIOUS
<1>9. SUFFICES ASSUME
                  /\ At("skip", "ok", <<all>>)
                  /\ t = IF all <= left THEN [stream EXCEPT !.pos = @ + all]
                         ELSE [Dropped(stream) EXCEPT !.offset = @ + (n - left)]
               PROVE  StreamsInv' /\ Reader!Read
  BY <1>8 DEF Skip
<1>2. /\ At("skip", "ok", <<all>>)
      /\ t = IF all <= left THEN [stream EXCEPT !.pos = @ + all]
             ELSE [Dropped(stream) EXCEPT !.offset = @ + (n - left)]
  BY <1>9
<1>3. /\ stream.open /\ StoreOK /\ StreamOK(stream)
      /\ class \in {"file", "buffer"}
  BY <1>2 DEF StreamsInv, StoreOK, At, CanCall
<1>4. /\ left \in Nat /\ h \in Nat /\ stream.offset = h + left
      /\ l \in Nat
  BY <1>3, StreamFacts, ContentsType
<1>5. /\ Clamped(h + n) = here + k /\ k \in Nat /\ k <= n
      /\ (h + n <= l => k = n)
  BY <1>1, <1>3, <1>4, ClampedSum
<1>6. /\ StreamOK(t) /\ t.open = stream.open
      /\ Clamped(Position(t)) = here + k
      /\ all = IF class = "file" THEN n ELSE k
  <2>1. CASE class = "file" /\ all <= left
    <3>1. all = n /\ t = [stream EXCEPT !.pos = @ + n]
      BY <1>2, <2>1
    <3>2. StreamOK(t) /\ t.open = stream.open /\ Position(t) = h + n
      BY <1>1, <1>3, <2>1, <3>1, Advanced
    <3> QED
      BY <1>5, <2>1, <3>1, <3>2
  <2>2. CASE class = "file" /\ ~ (all <= left)
    <3> DEFINE o == stream.offset + (n - left)
    <3>1. all = n /\ t = [Dropped(stream) EXCEPT !.offset = o]
      BY <1>2, <2>2 DEF Dropped
    <3>2. o = h + n /\ o \in Nat
      BY <1>1, <1>4
    <3> HIDE DEF o
    <3>3. StreamOK(t) /\ t.open = stream.open /\ Position(t) = o
      BY ONLY <1>3, <2>2, <3>1, <3>2, Moved
    <3> QED
      BY <1>5, <2>2, <3>1, <3>2, <3>3
  <2>3. CASE class = "buffer"
    <3>1. here = h /\ l - h = left
      BY <1>3, <2>3, MemoryLeft
    <3>2. all = k
      BY <2>3, <3>1
    <3>3. k <= left
      <4>1. k = Min({n, left})
        BY <3>1
      <4>2. Min({n, left}) = IF n <= left THEN n ELSE left
        BY <1>1, <1>4, MinTwo
      <4> HIDE DEF left
      <4> QED
        BY <1>1, <1>4, <4>1, <4>2
    <3>4. t = [stream EXCEPT !.pos = @ + k]
      BY <1>2, <3>2, <3>3
    <3>5. StreamOK(t) /\ t.open = stream.open /\ Position(t) = h + k
      <4>1. /\ StoreOK /\ StreamOK(stream)
            /\ k \in Nat /\ k <= Available(stream)
            /\ t = [stream EXCEPT !.pos = @ + k]
        BY <1>3, <1>5, <3>3, <3>4
      <4> QED
        BY ONLY <4>1, Advanced
    <3>6. Clamped(h + k) = h + k
      <4>1. h + k \in Nat /\ h + k <= l
        <5> HIDE DEF h, left, l
        <5> QED
          BY <1>4, <1>5, <3>1, <3>3
      <4> QED
        BY <1>3, <4>1, ClampedAt
    <3> QED
      BY <3>1, <3>2, <3>5, <3>6
  <2> QED
    BY <1>3, <2>1, <2>2, <2>3
<1>7. ASSUME /\ Contents' = Contents /\ Here = here
             /\ Here' = Clamped(Position(t))
             /\ answer' = Outcome("skip", here, "ok", <<all>>)
      PROVE  Reader!Read
  <2>1. Reader!Skip(n)
    BY <1>6, <1>7, ReaderSame DEF Reader!Skip, Reader!Rest
  <2> QED
    BY <1>7, <2>1 DEF Reader!Read
<1> QED
  BY <1>2, <1>6, <1>7, AtStep

LEMMA SeekToStep ==
    ASSUME StreamsInv, NEW n \in Count, SeekTo(n)
    PROVE  StreamsInv' /\ Reader!Read
<1>7. CASE /\ class = "file" /\ At("seek", "error", << >>)
           /\ stream' = Dropped(stream)
  BY <1>7, MoveFails
<1> DEFINE l == Len(Contents)
<1>1. n \in Nat
  BY StreamsAssumption
<1> PICK t : t = stream'
  OBVIOUS
<1> PICK here : here = Clamped(Position(stream))
  OBVIOUS
<1>8. SUFFICES ASSUME
                  /\ At("seek", "ok", << >>)
                  /\ t = IF class = "file"
                         THEN [Dropped(stream) EXCEPT !.offset = n]
                         ELSE [stream EXCEPT !.pos = Min({n, Len(stream.buf)})]
               PROVE  StreamsInv' /\ Reader!Read
  BY <1>7 DEF SeekTo
<1>2. /\ At("seek", "ok", << >>)
      /\ t = IF class = "file"
             THEN [Dropped(stream) EXCEPT !.offset = n]
             ELSE [stream EXCEPT !.pos = Min({n, Len(stream.buf)})]
  BY <1>8
<1>3. /\ stream.open /\ StoreOK /\ StreamOK(stream)
      /\ class \in {"file", "buffer"}
  BY <1>2 DEF StreamsInv, StoreOK, At, CanCall
<1>4. stream \in [offset : Nat, buf : Seq(Byte), pos : Nat, open : BOOLEAN]
      /\ l \in Nat
  BY <1>3, ContentsType DEF StreamOK
<1>5. /\ StreamOK(t) /\ t.open = stream.open
      /\ Clamped(Position(t)) = Min({n, l})
  <2>1. CASE class = "file"
    <3>1. t = [Dropped(stream) EXCEPT !.offset = n]
      BY <1>2, <2>1
    <3>2. StreamOK(t) /\ t.open = stream.open /\ Position(t) = n
      BY <1>1, <1>3, <2>1, <3>1, Moved
    <3> QED
      BY <3>2 DEF Clamped
  <2>2. CASE class = "buffer"
    <3> DEFINE m == Min({n, l})
    <3>1. m = (IF n <= l THEN n ELSE l) /\ m \in Nat /\ m <= l
      BY <1>1, <1>4, MinTwo
    <3>2. /\ Len(stream.buf) = l /\ stream.offset = l
      BY <1>3, <2>2, MemoryLeft
    <3>3. t = [stream EXCEPT !.pos = m]
      BY <1>2, <2>2, <3>2
    <3> HIDE DEF m
    <3>4. /\ t.offset = stream.offset /\ t.pos = m /\ t.buf = stream.buf
          /\ t.open = stream.open
          /\ t \in [offset : Nat, buf : Seq(Byte), pos : Nat, open : BOOLEAN]
      BY <1>4, <3>1, <3>3
    <3>5. StreamOK(t)
      <4>1. t.pos <= Len(t.buf)
        BY <3>1, <3>2, <3>4
      <4> QED
        BY <1>3, <3>4, <4>1 DEF StreamOK
    <3>6. Position(t) = m
      <4>1. Position(t) = t.offset - (Len(t.buf) - t.pos)
        BY DEF Position, Available
      <4> HIDE DEF l
      <4>2. Position(t) = l - (l - m)
        BY <3>2, <3>4, <4>1
      <4> QED
        BY <1>4, <3>1, <4>2
    <3>7. Clamped(m) = m
      BY <1>3, <3>1, ClampedAt
    <3> QED
      BY <3>4, <3>5, <3>6, <3>7 DEF m
  <2> QED
    BY <1>3, <2>1, <2>2
<1>6. ASSUME /\ Contents' = Contents /\ Here = here
             /\ Here' = Clamped(Position(t))
             /\ answer' = Outcome("seek", here, "ok", << >>)
      PROVE  Reader!Read
  <2>1. Reader!SeekTo(n)
    BY <1>5, <1>6, ReaderSame DEF Reader!SeekTo
  <2> QED
    BY <1>6, <2>1 DEF Reader!Read
<1> QED
  BY <1>2, <1>5, <1>6, AtStep

LEMMA EofStep ==
    ASSUME StreamsInv, Eof
    PROVE  StreamsInv' /\ Reader!Read
<1> DEFINE l == Len(Contents)
<1> PICK t : t = stream'
  OBVIOUS
<1> PICK here : here = Clamped(Position(stream))
  OBVIOUS
<1> PICK status : status = IF Available(t) = 0 THEN "eof" ELSE "ok"
  OBVIOUS
<1>1. t \in Filled(stream) /\ At("eof", status, << >>)
  BY DEF Eof
<1>2. stream.open /\ StoreOK /\ StreamOK(stream)
  BY <1>1 DEF StreamsInv, StoreOK, At, CanCall
<1>3. /\ StreamOK(t) /\ t.open /\ Position(t) = Position(stream)
      /\ Available(t) = 0 => here = l
  BY <1>1, <1>2, FilledOK
<1>4. Available(t) # 0 => here # l
  <2>1. /\ Available(t) \in Nat /\ Position(t) \in Nat /\ l \in Nat
        /\ Available(t) > 0 => Position(t) + Available(t) <= l
    BY <1>2, <1>3, StreamFacts, ContentsType
  <2>2. here = IF Position(t) <= l THEN Position(t) ELSE l
    BY <1>2, <1>3, <2>1, ClampedAt
  <2> QED
    BY <2>1, <2>2
<1>5. here \in Nat /\ l \in Nat
  BY <1>2, StreamFacts, ClampedAt, ContentsType
<1>6. status = IF l - here = 0 THEN "eof" ELSE "ok"
  <2>1. l - here = 0 <=> here = l
    <3> HIDE DEF l
    <3> QED
      BY <1>5
  <2> QED
    BY <1>3, <1>4, <2>1
<1>7. ASSUME /\ Contents' = Contents /\ Here = here
             /\ Here' = Clamped(Position(t))
             /\ answer' = Outcome("eof", here, status, << >>)
      PROVE  Reader!Read
  <2>1. Here' = Here
    BY <1>3, <1>7
  <2>2. Reader!Eof
    BY <1>6, <1>7, <2>1, ReaderSame DEF Reader!Eof, Reader!Rest
  <2> QED
    BY <1>7, <2>2 DEF Reader!Read
<1>8. t.open = stream.open
  <2>1. t.open \in BOOLEAN /\ stream.open \in BOOLEAN
    BY <1>2, <1>3 DEF StreamOK
  <2> QED
    BY <1>2, <1>3, <2>1
<1> QED
  BY <1>1, <1>3, <1>7, <1>8, AtStep

\* A mark that stands in the read buffer stands in the bytes.
LEMMA ByteOrderMarkStep ==
    ASSUME StreamsInv, ReadByteOrderMark
    PROVE  StreamsInv' /\ Reader!Read
<1> DEFINE left(s) == SubSeq(s.buf, s.pos + 1, Len(s.buf))
<1>1. PICK s \in Filled(stream), m \in ByteOrderMarks \cup {<< >>} :
         /\ m # << >> => IsPrefix(m, left(s))
         /\ stream' = [s EXCEPT !.pos = @ + Len(m)]
         /\ At("mark", "ok", m)
  <2>1. PICK s \in Filled(stream) :
           LET marks == {m \in ByteOrderMarks : IsPrefix(m, left(s))} IN
           \E m \in IF marks = {} THEN {<< >>} ELSE marks :
              /\ stream' = [s EXCEPT !.pos = @ + Len(m)]
              /\ At("mark", "ok", m)
    BY DEF ReadByteOrderMark
  <2> DEFINE marks == {m \in ByteOrderMarks : IsPrefix(m, left(s))}
  <2>2. PICK m \in IF marks = {} THEN {<< >>} ELSE marks :
           /\ stream' = [s EXCEPT !.pos = @ + Len(m)]
           /\ At("mark", "ok", m)
    BY <2>1
  <2>3. /\ m \in ByteOrderMarks \cup {<< >>}
        /\ m # << >> => IsPrefix(m, left(s))
    BY <2>2
  <2> QED
    BY <2>2, <2>3
<1> PICK t : t = stream'
  OBVIOUS
<1> PICK here : here = Clamped(Position(stream))
  OBVIOUS
<1> PICK n : n = Len(m)
  OBVIOUS
<1>2. stream.open /\ StoreOK /\ StreamOK(stream)
  BY <1>1 DEF StreamsInv, StoreOK, At, CanCall
<1>3. StreamOK(s) /\ s.open /\ Position(s) = Position(stream)
  BY <1>1, <1>2, FilledOK
<1>4. m \in Seq(Byte) /\ n \in Nat
  <2>1. << >> \in Seq(Byte)
    OBVIOUS
  <2>2. m \in Seq(Byte)
    BY <1>1, <2>1, StreamsAssumption
  <2> QED
    BY <2>2
<1> DEFINE b == s.buf
           p == s.pos
           a == Available(s)
           x == SubSeq(b, p + 1, p + n)
<1>5. /\ b \in Seq(Byte) /\ p \in Nat /\ Len(b) \in Nat /\ a \in Nat
      /\ p + a = Len(b) /\ Position(s) \in Nat /\ Len(Contents) \in Nat
  <2>1. /\ p + a = Len(b) /\ a \in Nat /\ Position(s) \in Nat
        /\ Len(Contents) \in Nat
    BY <1>2, <1>3, StreamFacts, ContentsType
  <2>2. b \in Seq(Byte) /\ p \in Nat
    BY <1>3 DEF StreamOK
  <2> HIDE DEF a, b, p
  <2> QED
    BY <2>1, <2>2
<1>6. n <= a /\ \A i \in 1 .. n : m[i] = b[p + i]
  <2>1. CASE m = << >>
    <3>1. n = 0
      BY <2>1
    <3> QED
      BY <1>5, <3>1
  <2>2. CASE m # << >>
    <3> DEFINE y == left(s)
    <3>1. n <= Len(y) /\ SubSeq(m, 1, n) = SubSeq(y, 1, n)
      BY <1>1, <2>2 DEF IsPrefix
    <3> HIDE DEF b, p, a
    <3>2. y \in Seq(Byte) /\ Len(y) = a /\ \A i \in 1 .. a : y[i] = b[p + i]
      <4> PICK e : e = Len(b)
        OBVIOUS
      <4>1. e \in Nat /\ p <= e /\ e <= Len(b) /\ e - p = a
        BY <1>5
      <4>2. /\ SubSeq(b, p + 1, e) \in Seq(Byte)
            /\ Len(SubSeq(b, p + 1, e)) = e - p
            /\ \A i \in 1 .. e - p : SubSeq(b, p + 1, e)[i] = b[p + i]
        BY ONLY <1>5, <4>1, Part
      <4>3. y = SubSeq(b, p + 1, e)
        BY DEF b, p
      <4> HIDE DEF y
      <4> QED
        BY <4>1, <4>2, <4>3
    <3> HIDE DEF y
    <3>3. n <= a
      BY <3>1, <3>2
    <3>4. ASSUME NEW i \in 1 .. n PROVE m[i] = b[p + i]
      <4>1. SubSeq(m, 1, n)[i] = m[i]
        BY <1>4, Prefix
      <4>2. SubSeq(y, 1, n)[i] = y[i]
        BY <1>4, <3>1, <3>2, Prefix
      <4>3. i \in 1 .. a
        BY <1>4, <1>5, <3>3
      <4> QED
        BY <3>1, <3>2, <4>1, <4>2, <4>3
    <3> QED
      BY <3>3, <3>4
  <2> QED
    BY <2>1, <2>2
<1>7. /\ StreamOK(t) /\ t.open = s.open /\ Position(t) = Position(s) + n
      /\ n > 0 => Position(s) + n <= Len(Contents)
  <2>1. StoreOK /\ StreamOK(s) /\ n \in Nat /\ n <= Available(s)
        /\ t = [s EXCEPT !.pos = @ + n]
    BY <1>1, <1>2, <1>3, <1>4, <1>6
  <2> QED
    BY ONLY <2>1, Advanced
<1>8. \A i \in 1 .. n : m[i] = Contents[Position(s) + i]
  <2>1. \A i \in 1 .. a : b[p + i] = Contents[Position(s) + i]
    BY <1>2, <1>3, StreamFacts
  <2>2. \A i \in 1 .. n : i \in 1 .. a
    BY <1>4, <1>5, <1>6
  <2> HIDE DEF b, p, a
  <2> QED
    BY <1>6, <2>1, <2>2
<1> HIDE DEF b, p, a
<1>9. /\ here \in Nat /\ here <= Len(Contents) /\ here + n <= Len(Contents)
      /\ Clamped(Position(t)) = here + n
      /\ n > 0 => here = Position(s)
  <2>1. /\ here = (IF Position(s) <= Len(Contents) THEN Position(s)
                   ELSE Len(Contents))
    BY <1>2, <1>3, <1>5, ClampedAt
  <2>2. CASE n > 0
    <3>1. /\ here = Position(s) /\ Position(s) + n \in Nat
      BY <1>4, <1>5, <1>7, <2>1, <2>2
    <3>2. Clamped(Position(s) + n) = Position(s) + n
      BY <1>2, <1>7, <2>2, <3>1, ClampedAt
    <3> QED
      BY <1>4, <1>5, <1>7, <2>2, <3>1, <3>2
  <2>3. CASE n = 0
    <3>1. Position(t) = Position(stream)
      BY <1>3, <1>5, <1>7, <2>3
    <3>2. Clamped(Position(t)) = here
      BY <3>1
    <3>3. here \in Nat /\ here <= Len(Contents)
      BY <1>5, <2>1
    <3> QED
      BY <1>5, <2>3, <3>2, <3>3
  <2> QED
    BY <1>4, <2>2, <2>3
<1>10. m = SubSeq(Contents, here + 1, here + n)
  <2> PICK to : to = here + n
    OBVIOUS
  <2>0. /\ here \in Nat /\ n \in Nat /\ here + n <= Len(Contents)
        /\ to = here + n
    BY <1>4, <1>9
  <2>1. /\ to \in Nat /\ here \in Nat /\ here <= to /\ to <= Len(Contents)
        /\ to - here = n
    BY ONLY <2>0
  <2>2. Contents \in Seq(Byte)
    BY <1>2, ContentsType
  <2> DEFINE y == SubSeq(Contents, here + 1, to)
  <2>3. /\ y \in Seq(Byte) /\ Len(y) = to - here
        /\ \A i \in 1 .. to - here : y[i] = Contents[here + i]
    BY ONLY <2>1, <2>2, Part
  <2> HIDE DEF y
  <2>4. ASSUME NEW i \in 1 .. n PROVE m[i] = y[i]
    <3>1. n > 0
      BY <1>4
    <3>2. here = Position(s) /\ i \in 1 .. to - here
      BY <1>9, <2>1, <3>1
    <3>3. m[i] = Contents[here + i]
      BY <1>8, <3>2
    <3> QED
      BY <2>3, <3>2, <3>3
  <2>5. m = y
    BY <1>4, <2>1, <2>3, <2>4, SameSeq
  <2> QED
    BY <2>5 DEF y
<1>11. ASSUME /\ Contents' = Contents /\ Here = here
              /\ Here' = Clamped(Position(t))
              /\ answer' = Outcome("mark", here, "ok", m)
       PROVE  Reader!Read
  <2>1. Len(m) <= Len(Contents) - here
    BY <1>4, <1>5, <1>9
  <2>2. Reader!ReadByteOrderMark
    BY <1>1, <1>9, <1>10, <1>11, <2>1, ReaderSame
       DEF Reader!ReadByteOrderMark, Reader!Rest
  <2> QED
    BY <1>11, <2>2 DEF Reader!Read
<1>12. t.open = stream.open
  <2>1. s.open \in BOOLEAN /\ stream.open \in BOOLEAN
    BY <1>2, <1>3 DEF StreamOK
  <2> QED
    BY <1>2, <1>3, <1>7, <2>1
<1> QED
  BY <1>1, <1>7, <1>11, <1>12, AtStep

LEMMA FillFailsStep ==
    ASSUME StreamsInv, FillFails
    PROVE  StreamsInv' /\ Reader!Read
<1>1. PICK op \in {"eof", "mark"} : At(op, "error", << >>)
  BY DEF FillFails
<1>6. class = "file"
  BY DEF FillFails
<1> PICK t : t = stream'
  OBVIOUS
<1> PICK here : here = Clamped(Position(stream))
  OBVIOUS
<1>2. t = stream /\ stream.open /\ StoreOK /\ StreamOK(stream)
  BY <1>1 DEF FillFails, StreamsInv, StoreOK, At, CanCall
<1>3. here \in Nat /\ here <= Len(Contents) /\ Len(Contents) \in Nat
  BY <1>2, StreamFacts, ClampedAt, ContentsType
<1>4. ASSUME /\ Contents' = Contents /\ Here = here
             /\ Here' = Clamped(Position(t))
             /\ answer' = Outcome(op, here, "error", << >>)
      PROVE  Reader!Read
  <2>1. Here' = here /\ here \in here .. Len(Contents)
    BY <1>2, <1>3, <1>4
  <2>2. Reader!ReadError
    BY <1>4, <1>6, <2>1, ReaderSame DEF Reader!ReadError
  <2> QED
    BY <1>4, <2>2 DEF Reader!Read
<1>5. t = stream' /\ StreamOK(t) /\ t.open = stream.open
  BY <1>2
<1> QED
  BY <1>1, <1>4, <1>5, AtStep

-----------------------------------------------------------------------------
(* The theorems                                                            *)

LEMMA StreamsInit ==
    ASSUME StreamInit
    PROVE  StreamsInv /\ Reader!Init
<1>1. /\ class \in {"file", "buffer"} /\ disk = << >>
      /\ buffer = [data |-> << >>, size |-> 0]
      /\ stream = NotOpen /\ call = Idle /\ answer = NoAnswer
      /\ records = {}
  BY DEF StreamInit
<1> PICK none : none = << >>
  OBVIOUS
<1>2. none \in Seq(Byte) /\ Len(none) = 0
  OBVIOUS
<1>3. /\ disk = none /\ buffer = [data |-> none, size |-> 0]
      /\ stream = [offset |-> 0, buf |-> none, pos |-> 0, open |-> FALSE]
  BY <1>1 DEF NotOpen, Beginning
<1>4. StoreOK
  <2>1. /\ buffer \in [data : Seq(Byte), size : Nat]
        /\ buffer.size = 0 /\ buffer.data = none
    BY <1>2, <1>3
  <2> QED
    BY <1>1, <1>2, <1>3, <2>1 DEF StoreOK
<1>5. Contents = << >>
  <2>1. buffer.data = none /\ buffer.size = 0
    BY <1>3
  <2>2. SubSeq(none, 1, 0) = << >>
    BY <1>2
  <2> QED
    BY <1>1, <2>1, <2>2 DEF Contents
<1>6. StreamOK(stream) /\ Position(stream) = 0
  <2>1. /\ stream.offset = 0 /\ stream.buf = none /\ stream.pos = 0
        /\ stream.open = FALSE
        /\ stream \in [offset : Nat, buf : Seq(Byte), pos : Nat,
                       open : BOOLEAN]
    BY <1>2, <1>3
  <2>2. Len(stream.buf) = 0
    BY <1>2, <2>1
  <2>3. Position(stream) = stream.offset - (Len(stream.buf) - stream.pos)
    BY DEF Position, Available
  <2>4. Position(stream) = 0 - (0 - 0)
    BY <2>1, <2>2, <2>3
  <2> QED
    BY <2>1, <2>2, <2>4 DEF StreamOK
<1>7. RecordsReadBack
  BY <1>1 DEF RecordsReadBack
<1>8. StreamsInv
  BY <1>1, <1>4, <1>6, <1>7 DEF StreamsInv, StoreOK
<1>9. Here = 0
  <2>1. Len(Contents) = 0
    BY <1>5
  <2>2. Clamped(0) = 0
    BY <1>4, <2>1, ClampedAt
  <2> QED
    BY <1>1, <1>6, <2>2 DEF Here
<1> QED
  BY <1>1, <1>5, <1>8, <1>9, ReaderSame DEF Reader!Init

\* What the bytes lie in never changes.
LEMMA ClassKept ==
    ASSUME [StreamNext]_streamsVars
    PROVE  class' = class
<1>1. ASSUME WriteNext PROVE class' = class
  BY <1>1 DEF WriteNext, AppendLenencString, AppendString, ReserveBuffer,
              ResizeBuffer, CopyBuffer
<1>2. ASSUME Open \/ Read \/ ReadMore PROVE class' = class
  BY <1>2 DEF Open, Read, Call, ReadMore
<1>3. ASSUME ReturnRead \/ ReturnEOF \/ ReadFails \/ AllocationFails
      PROVE  class' = class
  BY <1>3 DEF ReturnRead, ReturnEOF, ReadFails, AllocationFails, Return
<1>4. ASSUME NEW n \in Count, Skip(n) \/ SeekTo(n) PROVE class' = class
  BY <1>4 DEF Skip, SeekTo, At
<1>5. ASSUME Eof \/ ReadByteOrderMark \/ FillFails PROVE class' = class
  BY <1>5 DEF Eof, ReadByteOrderMark, FillFails, At
<1>6. ASSUME UNCHANGED streamsVars PROVE class' = class
  BY <1>6 DEF streamsVars
<1> QED
  BY <1>1, <1>2, <1>3, <1>4, <1>5, <1>6 DEF StreamNext

\* Every step of a stream is one of the byte stream or none of its business.
LEMMA StreamsStep ==
    ASSUME StreamsInv, [StreamNext]_streamsVars
    PROVE  /\ StreamsInv'
           /\ [Reader!Next]_(Reader!streamVars)
<1>1. ASSUME NEW s \in Text, AppendLenencString(s)
      PROVE  StreamsInv' /\ Reader!Fill
  BY <1>1, AppendLenencFile, AppendLenencBuffer DEF StreamsInv
<1>2. ASSUME NEW s \in Text, AppendString(s)
      PROVE  StreamsInv' /\ Reader!Fill
  BY <1>2, AppendStringStep
<1>3. ASSUME NEW n \in Count, ReserveBuffer(n)
      PROVE  StreamsInv' /\ Reader!Fill
  BY <1>3, ReserveStep
<1>4. ASSUME NEW n \in Count, ResizeBuffer(n)
      PROVE  StreamsInv' /\ Reader!Fill
  BY <1>4, ResizeStep
<1>5. ASSUME CopyBuffer
       PROVE  StreamsInv' /\ Reader!Fill
  BY <1>5, CopyStep
<1>6. ASSUME WriteNext
       PROVE  StreamsInv' /\ Reader!Fill
  BY <1>1, <1>2, <1>3, <1>4, <1>5, <1>6 DEF WriteNext
<1>7. ASSUME Open \/ Read \/ ReadMore
      PROVE  StreamsInv' /\ UNCHANGED Reader!streamVars
  BY <1>7, OpenStep, CallStep, ReadMoreStep
<1>8. ASSUME ReturnRead \/ ReturnEOF \/ ReadFails \/ AllocationFails
      PROVE  StreamsInv' /\ Reader!Read
  BY <1>8, ReturnReadStep, ReturnEOFStep, ReadFailsStep, AllocationFailsStep
<1>9. ASSUME NEW n \in Count, Skip(n) \/ SeekTo(n)
      PROVE  StreamsInv' /\ Reader!Read
  BY <1>9, SkipStep, SeekToStep
<1>10. ASSUME Eof \/ ReadByteOrderMark \/ FillFails
      PROVE  StreamsInv' /\ Reader!Read
  BY <1>10, EofStep, ByteOrderMarkStep, FillFailsStep
<1>11. ASSUME UNCHANGED streamsVars
      PROVE  StreamsInv' /\ UNCHANGED Reader!streamVars
  <2>1. UNCHANGED <<class, storeVars>> /\ UNCHANGED <<stream, call, answer>>
    BY <1>11 DEF streamsVars, storeVars
  <2>2. /\ StoreOK /\ StoreOK' /\ Contents' = Contents
        /\ \A r \in records' : RecordOK(r)'
    BY <2>1, StoreKept
  <2>3. StreamsInv'
    <3>1. CASE stream.open
      BY <2>1, <3>1, ReaderStep DEF StreamsInv
    <3>2. CASE ~ stream.open
      <4>1. Contents' \in Seq(Byte)
        BY <2>2, ContentsType
      <4> QED
        BY <2>1, <2>2, <3>2, <4>1, FillStep DEF Writing
    <3> QED
      BY <3>1, <3>2
  <2>4. Here' = Here
    BY <2>1, <2>2 DEF Here, Clamped, Position, Available
  <2> QED
    BY <2>1, <2>2, <2>3, <2>4 DEF Reader!streamVars
<1>12. class' = class
  BY ClassKept
<1> QED
  BY <1>6, <1>7, <1>8, <1>9, <1>10, <1>11, <1>12 DEF StreamNext, Reader!Next

\* The invariant: what a stream has buffered is what its file or memory holds
\* there, a call has read what lies behind where it began, and what was
\* written whole is where it was written.
THEOREM StreamsInvariant == StreamSpec => []StreamsInv
<1>1. StreamInit => StreamsInv
  BY StreamsInit
<1>2. StreamsInv /\ [StreamNext]_streamsVars => StreamsInv'
  BY StreamsStep
<1> QED
  BY <1>1, <1>2, PTL DEF StreamSpec

\* readLenencString returns, where a whole string was written, that string,
\* or raises because read() of a file failed: short writes elsewhere, the sizes of the
\* chunks, seeks and skips make no difference.
THEOREM WrittenIsReadBack == StreamSpec => []RecordsReadBack
<1>1. StreamsInv => RecordsReadBack
  BY DEF StreamsInv
<1> QED
  BY <1>1, StreamsInvariant, PTL

\* The loops of inputstream.cc over a read buffer, and over memory, answer as
\* if they read the bytes themselves (ByteStream).
THEOREM StreamsImplementByteStream == StreamSpec => ImplementsByteStream
<1>1. StreamInit => Reader!Init
  BY StreamsInit
<1>2. StreamsInv /\ [StreamNext]_streamsVars
         => [Reader!Next]_(Reader!streamVars)
  BY StreamsStep
<1> QED
  BY <1>1, <1>2, StreamsInvariant, PTL
     DEF StreamSpec, ImplementsByteStream, Reader!Spec

=============================================================================
