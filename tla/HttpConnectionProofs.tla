------------------------ MODULE HttpConnectionProofs ------------------------
(***************************************************************************)
(* Proofs about HttpConnection: for every set of clients, every request    *)
(* and every answer of the handler, and wherever the text is cut, what the *)
(* handler gets is what the client sent, and what a client reports is what *)
(* the handler answered.                                                   *)
(***************************************************************************)
EXTENDS HttpConnectionInv, WellFoundedInduction, FiniteSetTheorems,
        SequenceTheorems, TLAPS

-----------------------------------------------------------------------------
(* Induction, and the least and the greatest of some numbers               *)

\* A set of naturals that is not empty has a least element.
LEMMA LeastNat ==
    ASSUME NEW T, T \subseteq Nat, T # {}
    PROVE  \E n \in T : \A m \in T : n <= m
<1>1. IsWellFoundedOn(OpToRel(<, Nat), Nat)
  BY NatLessThanWellFounded
<1>2. PICK n \in T : \A m \in T : <<m, n>> \notin OpToRel(<, Nat)
  BY <1>1, WFMin
<1>3. \A m \in T : ~ (m < n)
  BY <1>2 DEF OpToRel
<1>4. \A m \in T : n <= m
  BY <1>3
<1> QED
  BY <1>4

\* A bounded set of naturals that is not empty has a greatest element.
LEMMA GreatestNat ==
    ASSUME NEW T, NEW n \in Nat, T \subseteq 0 .. n, T # {}
    PROVE  \E g \in T : \A m \in T : m <= g
<1> DEFINE U == {k \in 0 .. n : n - k \in T}
<1>1. U # {}
  <2>1. PICK t \in T : TRUE
    OBVIOUS
  <2>2. n - t \in 0 .. n /\ n - (n - t) = t
    BY <2>1
  <2> QED
    BY <2>2
<1>2. PICK u \in U : \A w \in U : u <= w
  <2>1. U \subseteq Nat
    OBVIOUS
  <2> HIDE DEF U
  <2> QED
    BY <1>1, <2>1, LeastNat
<1>3. n - u \in T
  OBVIOUS
<1>4. ASSUME NEW m \in T PROVE m <= n - u
  <2>1. m \in 0 .. n /\ n - m \in 0 .. n /\ n - (n - m) = m
    OBVIOUS
  <2>2. n - m \in U
    BY <2>1
  <2> QED
    BY <1>2, <2>1, <2>2
<1> QED
  BY <1>3, <1>4

\* Induction over the naturals, as a fact about sets.
LEMMA InductionNat ==
    ASSUME NEW S, 0 \in S, \A n \in Nat : n \in S => n + 1 \in S
    PROVE  Nat \subseteq S
<1> DEFINE bad == {n \in Nat : n \notin S}
<1>1. SUFFICES ASSUME bad # {} PROVE FALSE
  OBVIOUS
<1>2. PICK n \in bad : \A m \in bad : n <= m
  BY <1>1, LeastNat
<1>3. n # 0 /\ n - 1 \in Nat /\ (n - 1) + 1 = n
  BY <1>2
<1>4. n - 1 \in S
  BY <1>2, <1>3
<1> QED
  BY <1>2, <1>3, <1>4

\* Min is the least element of a set of naturals.
LEMMA MinNat ==
    ASSUME NEW T, T \subseteq Nat, T # {}
    PROVE  Min(T) \in T /\ \A m \in T : Min(T) <= m
<1>1. \E n \in T : \A m \in T : n <= m
  BY LeastNat
<1> QED
  BY <1>1 DEF Min

\* Max is the greatest element of a bounded set of naturals.
LEMMA MaxNat ==
    ASSUME NEW T, NEW n \in Nat, T \subseteq 0 .. n, T # {}
    PROVE  Max(T) \in T /\ \A m \in T : m <= Max(T)
<1>1. \E g \in T : \A m \in T : m <= g
  BY GreatestNat
<1> QED
  BY <1>1 DEF Max

\* Where the least element is known.
LEMMA MinIs ==
    ASSUME NEW T, T \subseteq Nat, NEW n \in T, \A m \in T : n <= m
    PROVE  Min(T) = n
<1>1. Min(T) \in T /\ Min(T) <= n
  BY MinNat
<1>2. n <= Min(T) /\ Min(T) \in Nat /\ n \in Nat
  BY <1>1
<1> QED
  BY <1>1, <1>2

LEMMA MaxIs ==
    ASSUME NEW T, T \subseteq Nat, NEW n \in T, \A m \in T : m <= n
    PROVE  Max(T) = n
<1>1. T \subseteq 0 .. n /\ n \in Nat
  OBVIOUS
<1>2. Max(T) \in T /\ n <= Max(T)
  BY <1>1, MaxNat
<1>3. Max(T) <= n /\ Max(T) \in Nat /\ n \in Nat
  BY <1>2
<1> QED
  BY <1>2, <1>3

-----------------------------------------------------------------------------
(* Sequences                                                               *)

\* The part of a sequence behind its first a elements and up to b.
LEMMA Part ==
    ASSUME NEW S, NEW s \in Seq(S), NEW a \in Nat, NEW b \in Nat, a <= b,
           b <= Len(s)
    PROVE  /\ SubSeq(s, a + 1, b) \in Seq(S)
           /\ Len(SubSeq(s, a + 1, b)) = b - a
           /\ \A i \in 1 .. b - a : SubSeq(s, a + 1, b)[i] = s[a + i]
<1>1. a + 1 \in Int /\ b \in Int
  OBVIOUS
<1>2. \A i \in a + 1 .. b : s[i] \in S
  OBVIOUS
<1>3. /\ SubSeq(s, a + 1, b) \in Seq(S)
      /\ Len(SubSeq(s, a + 1, b)) = IF a + 1 <= b THEN b - (a + 1) + 1 ELSE 0
      /\ \A i \in 1 .. b - (a + 1) + 1 :
            SubSeq(s, a + 1, b)[i] = s[(a + 1) + i - 1]
  BY <1>1, <1>2, SubSeqProperties
<1>4. /\ (IF a + 1 <= b THEN b - (a + 1) + 1 ELSE 0) = b - a
      /\ b - (a + 1) + 1 = b - a
      /\ \A i \in 1 .. b - a : (a + 1) + i - 1 = a + i
  OBVIOUS
<1> QED
  BY <1>3, <1>4

\* Its beginning.
LEMMA Prefix ==
    ASSUME NEW S, NEW s \in Seq(S), NEW b \in Nat, b <= Len(s)
    PROVE  /\ SubSeq(s, 1, b) \in Seq(S)
           /\ Len(SubSeq(s, 1, b)) = b
           /\ \A i \in 1 .. b : SubSeq(s, 1, b)[i] = s[i]
<1>1. /\ SubSeq(s, 0 + 1, b) \in Seq(S)
      /\ Len(SubSeq(s, 0 + 1, b)) = b - 0
      /\ \A i \in 1 .. b - 0 : SubSeq(s, 0 + 1, b)[i] = s[0 + i]
  BY Part
<1> QED
  BY <1>1

\* What two sequences one after the other are.
LEMMA Joined ==
    ASSUME NEW S, NEW s \in Seq(S), NEW t \in Seq(S)
    PROVE  /\ s \o t \in Seq(S)
           /\ Len(s \o t) = Len(s) + Len(t)
           /\ \A i \in 1 .. Len(s) : (s \o t)[i] = s[i]
           /\ \A i \in 1 .. Len(t) : (s \o t)[Len(s) + i] = t[i]
<1>1. /\ s \o t \in Seq(S) /\ Len(s \o t) = Len(s) + Len(t)
      /\ \A i \in 1 .. Len(s) + Len(t) :
            (s \o t)[i] = IF i <= Len(s) THEN s[i] ELSE t[i - Len(s)]
  BY ConcatProperties
<1>2. Len(s) \in Nat /\ Len(t) \in Nat
  OBVIOUS
<1>3. \A i \in 1 .. Len(s) : i \in 1 .. Len(s) + Len(t) /\ i <= Len(s)
  BY <1>2
<1>4. \A i \in 1 .. Len(t) :
         /\ Len(s) + i \in 1 .. Len(s) + Len(t) /\ ~ (Len(s) + i <= Len(s))
         /\ Len(s) + i - Len(s) = i
  BY <1>2
<1> QED
  BY <1>1, <1>3, <1>4

\* Sequences that agree everywhere are the same.
LEMMA SameSeq ==
    ASSUME NEW S, NEW s \in Seq(S), NEW t \in Seq(S), Len(s) = Len(t),
           \A i \in 1 .. Len(s) : s[i] = t[i]
    PROVE  s = t
<1>1. s \in [1 .. Len(s) -> S] /\ t \in [1 .. Len(s) -> S]
  OBVIOUS
<1> QED
  BY <1>1

-----------------------------------------------------------------------------
(* Recursive functions over the naturals up to a bound                     *)

\* A function whose values follow one from the other.
Follows(f, N, x, step) ==
    /\ f[0] = x
    /\ \A k \in 1 .. N : f[k] = step[<<k, f[k - 1]>>]

LEMMA RecursionExists ==
    ASSUME NEW N \in Nat, NEW S, NEW x \in S,
           NEW step \in [Nat \X S -> S]
    PROVE  \E f \in [0 .. N -> S] : Follows(f, N, x, step)
<1> DEFINE good == {n \in Nat : \E f \in [0 .. n -> S] : Follows(f, n, x, step)}
<1>1. 0 \in good
  <2> DEFINE f == [k \in 0 .. 0 |-> x]
  <2>1. f \in [0 .. 0 -> S] /\ Follows(f, 0, x, step)
    BY DEF Follows
  <2> QED
    BY <2>1
<1>2. ASSUME NEW n \in Nat, n \in good PROVE n + 1 \in good
  <2>1. PICK f \in [0 .. n -> S] : Follows(f, n, x, step)
    BY <1>2
  <2>2. step[<<n + 1, f[n]>>] \in S
    BY <2>1
  <2> DEFINE g == [k \in 0 .. n + 1 |->
                     IF k <= n THEN f[k] ELSE step[<<n + 1, f[n]>>]]
  <2>3. g \in [0 .. n + 1 -> S]
    BY <2>1, <2>2
  <2>4. g[0] = x
    BY <2>1 DEF Follows
  <2>5. ASSUME NEW k \in 1 .. n + 1 PROVE g[k] = step[<<k, g[k - 1]>>]
    <3>1. CASE k <= n
      <4>1. k \in 1 .. n /\ k - 1 \in 0 .. n /\ k - 1 <= n
        BY <3>1
      <4>2. g[k] = f[k] /\ g[k - 1] = f[k - 1]
        BY <4>1
      <4> QED
        BY <2>1, <4>1, <4>2 DEF Follows
    <3>2. CASE k = n + 1
      <4>1. k - 1 = n /\ g[n] = f[n] /\ g[k] = step[<<n + 1, f[n]>>]
        BY <3>2
      <4> QED
        BY <3>2, <4>1
    <3> QED
      BY <3>1, <3>2
  <2> HIDE DEF g
  <2> QED
    BY <2>3, <2>4, <2>5 DEF Follows
<1> HIDE DEF good
<1>3. Nat \subseteq good
  BY <1>1, <1>2, InductionNat
<1> QED
  BY <1>3 DEF good

\* Values that follow one from the other stay in the set that is closed
\* under the step.
LEMMA RecursionType ==
    ASSUME NEW N \in Nat, NEW S, NEW f, f[0] \in S,
           \A k \in 1 .. N : f[k - 1] \in S => f[k] \in S
    PROVE  \A k \in 0 .. N : f[k] \in S
<1> DEFINE good == {k \in Nat : k <= N => f[k] \in S}
<1>1. 0 \in good
  OBVIOUS
<1>2. ASSUME NEW n \in Nat, n \in good PROVE n + 1 \in good
  <2>1. CASE n + 1 <= N
    <3>1. n + 1 \in 1 .. N /\ (n + 1) - 1 = n /\ n <= N
      BY <2>1
    <3> QED
      BY <1>2, <3>1
  <2>2. CASE ~ (n + 1 <= N)
    BY <2>2
  <2> QED
    BY <2>1, <2>2
<1> HIDE DEF good
<1>3. Nat \subseteq good
  BY <1>1, <1>2, InductionNat
<1> QED
  BY <1>3 DEF good

-----------------------------------------------------------------------------
(* Numerals                                                                *)

\* The rest of a number after each digit, as ToNumeral computes it.
Left(n) ==
    CHOOSE f : f = [k \in 0 .. n + 1 |-> IF k = 0 THEN n ELSE f[k - 1] \div 10]

\* The value of the first digits, as FromNumeral computes it.
DigitOf(symbol) == CHOOSE d \in 0 .. 9 : Digits[d + 1] = symbol

Value(word) ==
    CHOOSE f : f = [i \in 0 .. Len(word) |->
                      IF i = 0 THEN 0 ELSE 10 * f[i - 1] + DigitOf(word[i])]

LEMMA DigitsAre ==
    /\ Digits \in Seq(Symbol) /\ Len(Digits) = 10
    /\ \A d \in 0 .. 9 : Digits[d + 1] \in Range(Digits)
    /\ \A d \in 0 .. 9 : DigitOf(Digits[d + 1]) = d
    /\ \A x \in Range(Digits) : DigitOf(x) \in 0 .. 9 /\ x \in Symbol
    /\ Range(Digits) \cap {SP, COLON, CR, LF, TAB, PLUS, MINUS} = {}
<1>1. Digits \in Seq(Symbol) /\ Len(Digits) = 10 /\ DOMAIN Digits = 1 .. 10
  <2>1. Digits \in Seq(Symbol)
    BY SymbolAssumption
  <2>2. Len(Digits) = 10 /\ DOMAIN Digits = 1 .. 10
    BY DEF Digits
  <2> QED
    BY <2>1, <2>2
<1>2. \A d, e \in 0 .. 9 : Digits[d + 1] = Digits[e + 1] => d = e
  BY DEF Digits
<1>3. \A d \in 0 .. 9 :
         Digits[d + 1] \notin {SP, COLON, CR, LF, TAB, PLUS, MINUS}
  <2> DEFINE ten == {"0", "1", "2", "3", "4", "5", "6", "7", "8", "9"}
  <2>1. \A i \in 1 .. 10 : Digits[i] \in ten
    BY DEF Digits
  <2>2. \A x \in ten : x # " "
    OBVIOUS
  <2>3. \A x \in ten : x # ":" /\ x # "\r" /\ x # "\n"
    OBVIOUS
  <2>4. \A x \in ten : x # "\t" /\ x # "+" /\ x # "-"
    OBVIOUS
  <2> HIDE DEF ten
  <2>6. \A i \in 1 .. 10 :
           Digits[i] \notin {SP, COLON, CR, LF, TAB, PLUS, MINUS}
    BY <2>1, <2>2, <2>3, <2>4 DEF SP, COLON, CR, LF, TAB, PLUS, MINUS
  <2>5. \A d \in 0 .. 9 : d + 1 \in 1 .. 10
    OBVIOUS
  <2> QED
    BY <2>5, <2>6
<1>4. \A x \in Range(Digits) : \E d \in 0 .. 9 : x = Digits[d + 1]
  <2>1. ASSUME NEW x \in Range(Digits) PROVE \E d \in 0 .. 9 : x = Digits[d + 1]
    <3>1. PICK j \in 1 .. 10 : x = Digits[j]
      BY <1>1 DEF Range
    <3>2. j - 1 \in 0 .. 9 /\ (j - 1) + 1 = j
      OBVIOUS
    <3> QED
      BY <3>1, <3>2
  <2> QED
    BY <2>1
<1>5. ASSUME NEW d \in 0 .. 9
      PROVE  Digits[d + 1] \in Range(Digits) /\ Digits[d + 1] \in Symbol
  <2>1. d + 1 \in 1 .. 10
    OBVIOUS
  <2> QED
    BY <1>1, <2>1, ElementOfSeq DEF Range
<1>6. ASSUME NEW d \in 0 .. 9 PROVE DigitOf(Digits[d + 1]) = d
  <2>1. \E e \in 0 .. 9 : Digits[e + 1] = Digits[d + 1]
    OBVIOUS
  <2>2. /\ DigitOf(Digits[d + 1]) \in 0 .. 9
        /\ Digits[DigitOf(Digits[d + 1]) + 1] = Digits[d + 1]
    BY <2>1 DEF DigitOf
  <2> QED
    BY <1>2, <2>2
<1>7. \A x \in Range(Digits) : DigitOf(x) \in 0 .. 9 /\ x \in Symbol
  BY <1>4, <1>5, <1>6
<1>8. Range(Digits) \cap {SP, COLON, CR, LF, TAB, PLUS, MINUS} = {}
  BY <1>3, <1>4
<1> QED
  BY <1>1, <1>5, <1>6, <1>7, <1>8

LEMMA DivTen ==
    ASSUME NEW a \in Nat
    PROVE  /\ a \div 10 \in Nat
           /\ a % 10 \in 0 .. 9
           /\ a = 10 * (a \div 10) + (a % 10)
           /\ a > 0 => a \div 10 < a
OBVIOUS

LEMMA LeftSteps ==
    ASSUME NEW n \in Nat
    PROVE  /\ Left(n)[0] = n
           /\ \A k \in 0 .. n + 1 : Left(n)[k] \in Nat
           /\ \A k \in 1 .. n + 1 : Left(n)[k] = Left(n)[k - 1] \div 10
           /\ Left(n)[n + 1] = 0
<1> DEFINE D(f) == [k \in 0 .. n + 1 |-> IF k = 0 THEN n ELSE f[k - 1] \div 10]
           step == [e \in Nat \X Nat |-> e[2] \div 10]
<1>1. step \in [Nat \X Nat -> Nat]
  <2>1. \A e \in Nat \X Nat : e[2] \in Nat
    OBVIOUS
  <2>2. \A e \in Nat \X Nat : e[2] \div 10 \in Nat
    BY <2>1, DivTen
  <2> QED
    BY <2>2
<1>2. \A k \in Nat, a \in Nat : step[<<k, a>>] = a \div 10
  OBVIOUS
<1>3. PICK f \in [0 .. n + 1 -> Nat] : Follows(f, n + 1, n, step)
  <2> HIDE DEF step
  <2>1. n + 1 \in Nat
    OBVIOUS
  <2> QED
    BY <1>1, <2>1, RecursionExists
<1>4. f = D(f)
  <2>1. \A k \in 1 .. n + 1 : k - 1 \in 0 .. n + 1 /\ k \in Nat
    OBVIOUS
  <2>2. \A k \in 1 .. n + 1 : f[k] = f[k - 1] \div 10
    <3> HIDE DEF step
    <3> QED
      BY <1>2, <1>3, <2>1 DEF Follows
  <2>3. f[0] = n
    BY <1>3 DEF Follows
  <2> QED
    BY <2>2, <2>3
<1>5. Left(n) = CHOOSE g : g = D(g)
  BY DEF Left
<1>6. Left(n) = D(Left(n))
  <2> HIDE DEF D
  <2> QED
    BY <1>4, <1>5
<1>7. Left(n)[0] = n /\ \A k \in 1 .. n + 1 : Left(n)[k] = Left(n)[k - 1] \div 10
  BY <1>6
<1> DEFINE L == Left(n)
<1> HIDE DEF L
<1>8. \A k \in 0 .. n + 1 : L[k] \in Nat
  <2>1. \A k \in 1 .. n + 1 : L[k - 1] \in Nat => L[k] \in Nat
    BY <1>7, DivTen DEF L
  <2>2. L[0] \in Nat
    BY <1>7 DEF L
  <2> QED
    BY ONLY <2>1, <2>2, n \in Nat, n + 1 \in Nat, RecursionType
<1>9. L[n + 1] = 0
  <2> DEFINE good == {k \in Nat : k <= n + 1 => L[k] = 0 \/ L[k] + k <= n}
  <2>1. 0 \in good
    BY <1>7 DEF L
  <2>2. ASSUME NEW k \in Nat, k \in good PROVE k + 1 \in good
    <3>1. CASE k + 1 <= n + 1
      <4>1. k + 1 \in 1 .. n + 1 /\ (k + 1) - 1 = k /\ k \in 0 .. n + 1
        BY <3>1
      <4>2. L[k + 1] = L[k] \div 10 /\ L[k] \in Nat
        BY <1>7, <1>8, <4>1 DEF L
      <4>3. L[k] = 0 \/ L[k] + k <= n
        BY <2>2, <4>1
      <4>4. CASE L[k] = 0
        BY <4>2, <4>4
      <4>5. CASE L[k] > 0
        <5> DEFINE x == L[k]
                   y == L[k + 1]
        <5>1. x \in Nat /\ x > 0 /\ x + k <= n /\ y = x \div 10
          BY <4>2, <4>3, <4>5
        <5> HIDE DEF x, y
        <5>2. y \in Nat /\ y < x
          BY ONLY <5>1, DivTen
        <5>3. y + (k + 1) <= n
          BY <5>1, <5>2
        <5> QED
          BY <5>3 DEF y
      <4> QED
        BY <4>2, <4>4, <4>5
    <3>2. CASE ~ (k + 1 <= n + 1)
      BY <3>2
    <3> QED
      BY <3>1, <3>2
  <2> HIDE DEF good
  <2>3. Nat \subseteq good
    BY <2>1, <2>2, InductionNat
  <2>4. n + 1 \in good /\ L[n + 1] \in Nat
    BY <1>8, <2>3
  <2> QED
    BY <2>4 DEF good
<1> QED
  BY <1>7, <1>8, <1>9 DEF L

LEMMA ValueSteps ==
    ASSUME NEW word \in Seq(Symbol), IsNumber(word)
    PROVE  /\ Value(word)[0] = 0
           /\ \A i \in 0 .. Len(word) : Value(word)[i] \in Nat
           /\ \A i \in 1 .. Len(word) :
                 Value(word)[i] = 10 * Value(word)[i - 1] + DigitOf(word[i])
           /\ FromNumeral(word) = Value(word)[Len(word)]
           /\ FromNumeral(word) \in Nat
<1> DEFINE digit(i) == IF i \in 1 .. Len(word) THEN DigitOf(word[i]) ELSE 0
           D(f) == [i \in 0 .. Len(word) |->
                      IF i = 0 THEN 0 ELSE 10 * f[i - 1] + DigitOf(word[i])]
           step == [e \in Nat \X Nat |-> 10 * e[2] + digit(e[1])]
<1>0. Len(word) \in Nat /\ DOMAIN word = 1 .. Len(word)
  OBVIOUS
<1>1. \A i \in 1 .. Len(word) : DigitOf(word[i]) \in Nat
  <2>1. \A i \in 1 .. Len(word) : word[i] \in Range(Digits)
    BY <1>0 DEF IsNumber, Range
  <2>2. \A x \in Range(Digits) : DigitOf(x) \in 0 .. 9
    BY DigitsAre
  <2>3. \A x \in Range(Digits) : DigitOf(x) \in Nat
    BY <2>2
  <2> QED
    BY ONLY <2>1, <2>3
<1>2. \A k \in Nat, a \in Nat : step[<<k, a>>] = 10 * a + digit(k)
  OBVIOUS
<1>3. step \in [Nat \X Nat -> Nat]
  <2>1. \A k \in Nat : digit(k) \in Nat
    BY <1>1
  <2> HIDE DEF digit
  <2>2. \A e \in Nat \X Nat : e[1] \in Nat /\ e[2] \in Nat
    OBVIOUS
  <2>3. \A a, b \in Nat : 10 * a + b \in Nat
    OBVIOUS
  <2>4. \A e \in Nat \X Nat : 10 * e[2] + digit(e[1]) \in Nat
    BY <2>1, <2>2, <2>3
  <2> QED
    BY <2>4
<1> HIDE DEF step
<1>4. PICK f \in [0 .. Len(word) -> Nat] : Follows(f, Len(word), 0, step)
  BY <1>0, <1>3, RecursionExists
<1>5. f = D(f)
  <2>1. \A k \in 1 .. Len(word) : k - 1 \in 0 .. Len(word) /\ k \in Nat
    OBVIOUS
  <2>2. \A k \in 1 .. Len(word) : f[k] = 10 * f[k - 1] + DigitOf(word[k])
    BY <1>2, <1>4, <2>1 DEF Follows
  <2>3. f[0] = 0
    BY <1>4 DEF Follows
  <2> QED
    BY <2>2, <2>3
<1>6. Value(word) = CHOOSE g : g = D(g)
  BY DEF Value
<1>7. Value(word) = D(Value(word))
  <2> HIDE DEF D
  <2> QED
    BY <1>5, <1>6
<1>8. /\ Value(word)[0] = 0
      /\ \A i \in 1 .. Len(word) :
            Value(word)[i] = 10 * Value(word)[i - 1] + DigitOf(word[i])
  BY <1>0, <1>7
<1> DEFINE V == Value(word)
<1> HIDE DEF V
<1>9. \A i \in 0 .. Len(word) : V[i] \in Nat
  <2>1. \A k \in 1 .. Len(word) : V[k - 1] \in Nat => V[k] \in Nat
    BY <1>1, <1>8 DEF V
  <2>2. V[0] \in Nat
    BY <1>8 DEF V
  <2> QED
    BY ONLY <2>1, <2>2, <1>0, RecursionType
<1>10. FromNumeral(word) = Value(word)[Len(word)]
  BY DEF FromNumeral, Value, DigitOf
<1> QED
  BY <1>0, <1>8, <1>9, <1>10 DEF V

\* The numeral of a number has its value, and is made of digits alone.
LEMMA NumeralRead ==
    ASSUME NEW n \in Nat
    PROVE  /\ ToNumeral(n) \in Seq(Symbol) /\ ToNumeral(n) # << >>
           /\ Range(ToNumeral(n)) \subseteq Range(Digits)
           /\ IsNumber(ToNumeral(n))
           /\ FromNumeral(ToNumeral(n)) = n
<1> DEFINE L == Left(n)
           zeros == {k \in 1 .. n + 1 : L[k] = 0}
           size == Min(zeros)
           word == [i \in 1 .. size |-> Digits[(L[size - i] % 10) + 1]]
<1>1. ToNumeral(n) = word
  BY DEF ToNumeral, Left
<1>2. /\ L[0] = n
      /\ \A k \in 0 .. n + 1 : L[k] \in Nat
      /\ \A k \in 1 .. n + 1 : L[k] = L[k - 1] \div 10
      /\ L[n + 1] = 0
  BY LeftSteps
<1> HIDE DEF L
<1>3. size \in zeros
  <2>1. zeros \subseteq Nat /\ n + 1 \in zeros
    BY <1>2
  <2> HIDE DEF zeros
  <2> QED
    BY <2>1, MinNat
<1>4. size \in 1 .. n + 1 /\ L[size] = 0
  BY <1>3
<1> HIDE DEF size
<1>5. \A i \in 1 .. size : size - i \in 0 .. n + 1 /\ L[size - i] \in Nat
  BY <1>2, <1>4
<1>6. \A i \in 1 .. size : /\ word[i] = Digits[(L[size - i] % 10) + 1]
                           /\ word[i] \in Range(Digits)
                           /\ word[i] \in Symbol
                           /\ DigitOf(word[i]) = L[size - i] % 10
  <2>1. \A i \in 1 .. size : L[size - i] % 10 \in 0 .. 9
    BY <1>5, DivTen
  <2> QED
    BY <2>1, DigitsAre
<1>7. word \in Seq(Symbol) /\ Len(word) = size
  BY <1>4, <1>6
<1>8. word # << >>
  BY <1>4, <1>7
<1>9. Range(word) \subseteq Range(Digits)
  BY <1>6 DEF Range
<1>10. IsNumber(word)
  BY <1>8, <1>9 DEF IsNumber
<1> HIDE DEF word
<1>11. /\ Value(word)[0] = 0
       /\ \A i \in 1 .. size :
             Value(word)[i] = 10 * Value(word)[i - 1] + DigitOf(word[i])
       /\ FromNumeral(word) = Value(word)[size]
  BY <1>7, <1>10, ValueSteps
<1> DEFINE V == Value(word)
           good == {i \in Nat : i <= size => V[i] = L[size - i]}
<1> HIDE DEF V
<1>12. 0 \in good
  BY <1>4, <1>11 DEF V
<1>13. ASSUME NEW i \in Nat, i \in good PROVE i + 1 \in good
  <2>1. CASE i + 1 <= size
    <3>1. i + 1 \in 1 .. size /\ (i + 1) - 1 = i /\ i <= size
      BY <1>4, <2>1
    <3>2. V[i] = L[size - i]
      BY <1>13, <3>1
    <3>3. V[i + 1] = 10 * V[i] + (L[size - (i + 1)] % 10)
      BY <1>6, <1>11, <3>1 DEF V
    <3>4. size - i \in 1 .. n + 1 /\ (size - i) - 1 = size - (i + 1)
      BY <1>4, <3>1
    <3>5. L[size - i] = L[size - (i + 1)] \div 10
      BY <1>2, <3>4
    <3>6. L[size - (i + 1)] \in Nat
      BY <1>5, <3>1
    <3>7. V[i + 1] = L[size - (i + 1)]
      BY <3>2, <3>3, <3>5, <3>6, DivTen
    <3> QED
      BY <3>7
  <2>2. CASE ~ (i + 1 <= size)
    BY <2>2
  <2> QED
    BY <2>1, <2>2
<1> HIDE DEF good
<1>14. Nat \subseteq good
  BY <1>12, <1>13, InductionNat
<1>15. V[size] = L[size - size] /\ size - size = 0
  BY <1>4, <1>14 DEF good
<1> QED
  BY <1>1, <1>2, <1>7, <1>8, <1>9, <1>10, <1>11, <1>15 DEF V

\* Where a word goes on with something else.
LEMMA FirstNotInIs ==
    ASSUME NEW word \in Seq(Symbol), NEW symbols
    PROVE  /\ FirstNotIn(word, symbols) \in 1 .. Len(word) + 1
           /\ (\A i \in 1 .. Len(word) : word[i] \in symbols) =>
                 FirstNotIn(word, symbols) = Len(word) + 1
           /\ (Len(word) > 0 /\ word[1] \notin symbols) =>
                 FirstNotIn(word, symbols) = 1
<1> DEFINE l == Len(word)
           others == {i \in DOMAIN word : word[i] \notin symbols}
           all == others \cup {l + 1}
<1>1. l \in Nat /\ DOMAIN word = 1 .. l
  OBVIOUS
<1>2. all \subseteq 1 .. l + 1 /\ l + 1 \in all
  BY <1>1
<1>3. FirstNotIn(word, symbols) = Min(all)
  BY DEF FirstNotIn
<1>4. (\A i \in 1 .. l : word[i] \in symbols) => all = {l + 1}
  BY <1>1
<1>5. l > 0 /\ word[1] \notin symbols => 1 \in all
  BY <1>1
<1> HIDE DEF all, l
<1>6. Min(all) \in all /\ \A m \in all : Min(all) <= m
  <2>1. all \subseteq Nat /\ all # {}
    BY <1>1, <1>2
  <2> QED
    BY <2>1, MinNat
<1>7. Min(all) \in 1 .. l + 1
  BY <1>2, <1>6
<1>8. 1 \in all => Min(all) = 1
  BY <1>1, <1>6, <1>7
<1> QED
  BY <1>3, <1>4, <1>5, <1>6, <1>7, <1>8 DEF l

\* What is left of a word behind its blanks and its sign.
LEMMA NumeralIs ==
    ASSUME NEW word \in Seq(Symbol)
    PROVE  Numeral(word) \in Seq(Symbol)
<1> DEFINE first == FirstNotIn(word, {SP, TAB, CR, LF})
           u == Unblanked(word)
           v == Unsigned(word)
           end == FirstNotIn(v, Range(Digits))
<1>1. u \in Seq(Symbol)
  <2>1. first \in 1 .. Len(word) + 1
    BY FirstNotInIs
  <2>2. u = SubSeq(word, first, Len(word))
    BY DEF Unblanked
  <2> HIDE DEF first
  <2>3. Len(word) \in Nat /\ \A i \in first .. Len(word) : word[i] \in Symbol
    BY <2>1
  <2> QED
    BY <2>1, <2>2, <2>3, SubSeqProperties
<1>2. v \in Seq(Symbol)
  <2>1. v = IF u # << >> /\ u[1] \in {PLUS, MINUS} THEN Tail(u) ELSE u
    BY DEF Unsigned
  <2> HIDE DEF u, v
  <2>2. u # << >> => Tail(u) \in Seq(Symbol)
    BY <1>1
  <2> QED
    BY <1>1, <2>1, <2>2
<1>3. Numeral(word) = SubSeq(v, 1, end - 1)
  BY DEF Numeral
<1> HIDE DEF v
<1>4. end \in 1 .. Len(v) + 1
  BY <1>2, FirstNotInIs
<1> HIDE DEF end
<1>5. end - 1 \in Nat /\ end - 1 <= Len(v)
  BY <1>2, <1>4
<1> QED
  BY <1>2, <1>3, <1>5, Prefix

\* stoul has a number where it does not throw.
LEMMA StoulIs ==
    ASSUME NEW word \in Seq(Symbol), StoulAccepts(word)
    PROVE  Stoul(word) \in Nat
<1>1. Magnitude(word) \in Nat /\ Magnitude(word) <= ULongMax
  <2>1. Numeral(word) \in Seq(Symbol) /\ IsNumber(Numeral(word))
    BY NumeralIs DEF StoulAccepts
  <2>2. FromNumeral(Numeral(word)) \in Nat
    BY <2>1, ValueSteps
  <2> QED
    BY <2>2 DEF Magnitude, StoulAccepts
<1>2. ULongMax \in Nat
  BY HttpParserAssumption
<1> QED
  BY <1>1, <1>2 DEF Stoul

\* A word of digits is its own numeral.
LEMMA PlainNumeral ==
    ASSUME NEW word \in Seq(Symbol), word # << >>,
           Range(word) \subseteq Range(Digits)
    PROVE  Numeral(word) = word /\ ~ IsNegative(word)
<1>1. /\ Len(word) \in Nat /\ Len(word) > 0
      /\ \A i \in 1 .. Len(word) : word[i] \in Range(Digits)
  BY DEF Range
<1>2. word[1] \in Range(Digits)
  BY <1>1
<1>3. word[1] \notin {SP, TAB, CR, LF} /\ word[1] \notin {PLUS, MINUS}
  BY <1>2, DigitsAre
<1>4. SubSeq(word, 1, Len(word)) = word
  BY <1>1
<1>5. Unblanked(word) = word
  <2>1. FirstNotIn(word, {SP, TAB, CR, LF}) = 1
    BY <1>1, <1>3, FirstNotInIs
  <2> QED
    BY <1>4, <2>1 DEF Unblanked
<1>6. Unsigned(word) = word
  BY <1>3, <1>5 DEF Unsigned
<1>7. Numeral(word) = word
  <2>1. FirstNotIn(word, Range(Digits)) = Len(word) + 1
    BY <1>1, FirstNotInIs
  <2>2. (Len(word) + 1) - 1 = Len(word)
    BY <1>1
  <2> QED
    BY <1>4, <1>6, <2>1, <2>2 DEF Numeral
<1>8. ~ IsNegative(word)
  BY <1>3, <1>5 DEF IsNegative
<1> QED
  BY <1>7, <1>8

\* std::stoul and std::stoi read what std::to_string wrote.
LEMMA NumeralValue ==
    ASSUME NEW n \in Nat
    PROVE  /\ IsNumber(Numeral(ToNumeral(n))) /\ Magnitude(ToNumeral(n)) = n
           /\ ~ IsNegative(ToNumeral(n))
<1>1. Numeral(ToNumeral(n)) = ToNumeral(n) /\ ~ IsNegative(ToNumeral(n))
  BY NumeralRead, PlainNumeral
<1> QED
  BY <1>1, NumeralRead DEF Magnitude

LEMMA StoulRead ==
    ASSUME NEW n \in Nat, n <= ULongMax
    PROVE  StoulAccepts(ToNumeral(n)) /\ Stoul(ToNumeral(n)) = n
BY NumeralValue DEF StoulAccepts, Stoul

LEMMA StatusNumeral ==
    ASSUME NEW n \in 0 .. IntMax
    PROVE  /\ StoiAccepts(ToNumeral(n)) /\ Stoi(ToNumeral(n)) = n
           /\ ToNumeral(n) \in Word({SP})
<1>1. IntMax \in Nat /\ n \in Nat
  BY HttpParserAssumption
<1>2. Stoi(ToNumeral(n)) = n
  BY <1>1, NumeralValue DEF Stoi
<1>3. StoiAccepts(ToNumeral(n))
  BY <1>1, <1>2, NumeralValue DEF StoiAccepts
<1>4. ToNumeral(n) \in Word({SP})
  BY <1>1, NumeralRead, DigitsAre DEF Word
<1> QED
  BY <1>2, <1>3, <1>4

-----------------------------------------------------------------------------
(* The headers of a message                                                *)

Header == [key : Word({COLON, CR, LF}), val : Word({CR, LF})]

LEMMA WordFacts ==
    ASSUME NEW symbols, NEW w \in Word(symbols)
    PROVE  /\ w \in Seq(Symbol) /\ Len(w) \in Nat
           /\ \A i \in 1 .. Len(w) : w[i] \in Symbol /\ w[i] \notin symbols
<1>1. w \in Seq(Symbol) /\ Range(w) \cap symbols = {}
  BY DEF Word
<1>2. Len(w) \in Nat /\ DOMAIN w = 1 .. Len(w)
  BY <1>1
<1>3. \A i \in 1 .. Len(w) : w[i] \in Range(w) /\ w[i] \in Symbol
  BY <1>1, <1>2 DEF Range
<1> QED
  BY <1>1, <1>2, <1>3

LEMMA SymbolsAre ==
    /\ SP \in Symbol /\ COLON \in Symbol /\ CR \in Symbol /\ LF \in Symbol
    /\ SP # COLON /\ SP # CR /\ SP # LF /\ COLON # CR /\ COLON # LF /\ CR # LF
    /\ StatusName \in Seq(Symbol) /\ Len(StatusName) = 1 /\ StatusName[1] # LF
    /\ StatusName[1] # CR
    /\ kContentLengthHeader \in Word({COLON, CR, LF})
<1>1. <<SP, COLON, CR, LF>> \in Seq(Symbol)
  BY SymbolAssumption
<1>2. SP \in Symbol /\ COLON \in Symbol /\ CR \in Symbol /\ LF \in Symbol
  <2> DEFINE s == <<SP, COLON, CR, LF>>
  <2>1. s[1] = SP /\ s[2] = COLON /\ s[3] = CR /\ s[4] = LF /\ Len(s) = 4
    OBVIOUS
  <2>2. s \in Seq(Symbol)
    BY <1>1
  <2> HIDE DEF s
  <2>3. \A i \in 1 .. Len(s) : s[i] \in Symbol
    BY <2>2
  <2>4. {1, 2, 3, 4} \subseteq 1 .. Len(s)
    BY <2>1
  <2> QED
    BY <2>1, <2>3, <2>4
<1>3. SP # COLON /\ SP # CR /\ SP # LF /\ COLON # CR /\ COLON # LF /\ CR # LF
  BY DEF SP, COLON, CR, LF
<1>4. /\ StatusName \in Seq(Symbol) /\ Len(StatusName) = 1
      /\ StatusName[1] # LF /\ StatusName[1] # CR
  <2>1. StatusName \in Seq(Symbol)
    BY SymbolAssumption
  <2>2. Len(StatusName) = 1 /\ StatusName[1] = "name"
    BY DEF StatusName
  <2>3. "name" # LF /\ "name" # CR
    BY DEF LF, CR
  <2> QED
    BY <2>1, <2>2, <2>3
<1>5. kContentLengthHeader \in Word({COLON, CR, LF})
  <2>1. kContentLengthHeader \in Seq(Symbol)
    BY SymbolAssumption
  <2>2. /\ Len(kContentLengthHeader) = 2
        /\ kContentLengthHeader[1] = "Content-"
        /\ kContentLengthHeader[2] = "Length"
    BY DEF kContentLengthHeader
  <2>3. "Content-" \notin {COLON, CR, LF} /\ "Length" \notin {COLON, CR, LF}
    BY DEF COLON, CR, LF
  <2>4. DOMAIN kContentLengthHeader = 1 .. 2
    BY <2>1, <2>2
  <2>5. Range(kContentLengthHeader) \subseteq {"Content-", "Length"}
    BY <2>2, <2>4 DEF Range
  <2> QED
    BY <2>1, <2>3, <2>5 DEF Word
<1> QED
  BY <1>2, <1>3, <1>4, <1>5

LEMMA MessageFacts ==
    ASSUME NEW msg, WellFormed(msg)
    PROVE  /\ msg = [method |-> msg.method, uri |-> msg.uri,
                     version |-> msg.version, status |-> msg.status,
                     headers |-> msg.headers, body |-> msg.body]
           /\ msg.method \in Word({SP}) /\ msg.uri \in Word({SP})
           /\ msg.version \in Word({SP, CR, LF}) /\ msg.status \in 0 .. IntMax
           /\ msg.body \in Seq(Symbol) /\ msg.headers \in Seq(Header)
           /\ Len(msg.headers) \in Nat /\ Len(msg.body) \in Nat
           /\ Len(msg.body) <= ULongMax
<1>1. msg \in Message /\ Len(msg.body) <= ULongMax
  BY DEF WellFormed
<1>2. /\ msg = [method |-> msg.method, uri |-> msg.uri,
                version |-> msg.version, status |-> msg.status,
                headers |-> msg.headers, body |-> msg.body]
      /\ msg.method \in Word({SP}) /\ msg.uri \in Word({SP})
      /\ msg.version \in Word({SP, CR, LF}) /\ msg.status \in 0 .. IntMax
      /\ msg.body \in Word({}) /\ msg.headers \in Seq(Header)
  BY <1>1 DEF Message, Header
<1>3. msg.body \in Seq(Symbol)
  BY <1>2, WordFacts
<1> QED
  BY <1>1, <1>2, <1>3

\* The headers that are sent keep to the grammar, with one length at most;
\* there is one when there is a body, and it does not promise less.
LEMMA HeadersFine ==
    ASSUME NEW msg, WellFormed(msg)
    PROVE  LET all == AllHeaders(msg) IN
           /\ all \in Seq(Header) /\ Len(all) \in Nat
           /\ \A i \in 1 .. Len(all) :
                 all[i].val # << >> => all[i].val[1] # SP
           /\ \A i, j \in 1 .. Len(all) :
                 all[i].key = kContentLengthHeader
                    /\ all[j].key = kContentLengthHeader => i = j
           /\ \A i \in 1 .. Len(all) :
                 all[i].key = kContentLengthHeader /\ StoulAccepts(all[i].val) =>
                    /\ Stoul(all[i].val) \in
                          Lengths(msg) \cup {Len(msg.body)}
                    /\ Stoul(all[i].val) \in Nat
                    /\ Stoul(all[i].val) >= Len(msg.body)
           /\ msg.body # << >> =>
                 \E i \in 1 .. Len(all) : all[i].key = kContentLengthHeader
<1> DEFINE given == msg.headers
           n == Len(given)
           length == [key |-> kContentLengthHeader,
                      val |-> ToNumeral(Len(msg.body))]
<1>1. /\ msg = [method |-> msg.method, uri |-> msg.uri,
                version |-> msg.version, status |-> msg.status,
                headers |-> msg.headers, body |-> msg.body]
      /\ given \in Seq(Header) /\ n \in Nat /\ Len(msg.body) \in Nat
      /\ Len(msg.body) <= ULongMax
  BY MessageFacts
<1>2. DOMAIN given = 1 .. n /\ \A i \in 1 .. n : given[i] \in Header
  BY <1>1
<1>3. \A i \in 1 .. n : given[i].val # << >> => given[i].val[1] # SP
  BY <1>2 DEF WellFormed
<1>4. LengthHeaders(msg) = {i \in 1 .. n : given[i].key = kContentLengthHeader}
  BY <1>2 DEF LengthHeaders
<1>5. \A i, j \in 1 .. n : given[i].key = kContentLengthHeader
          /\ given[j].key = kContentLengthHeader => i = j
  BY <1>4 DEF WellFormed
<1>6. ASSUME NEW i \in 1 .. n, given[i].key = kContentLengthHeader,
             StoulAccepts(given[i].val)
      PROVE  /\ Stoul(given[i].val) \in Lengths(msg)
             /\ Stoul(given[i].val) \in Nat
             /\ Stoul(given[i].val) >= Len(msg.body)
  <2>1. Stoul(given[i].val) \in Lengths(msg)
    BY <1>4, <1>6 DEF Lengths
  <2>2. given[i].val \in Seq(Symbol)
    <3>1. given[i].val \in Word({CR, LF})
      BY <1>2 DEF Header
    <3> QED
      BY <3>1, WordFacts
  <2>3. Stoul(given[i].val) \in Nat
    BY <1>6, <2>2, StoulIs
  <2>4. Stoul(given[i].val) >= Len(msg.body)
    BY <2>1 DEF WellFormed
  <2> QED
    BY <2>1, <2>3, <2>4
<1>7. HasHeader(msg, kContentLengthHeader) <=>
        \E i \in 1 .. n : given[i].key = kContentLengthHeader
  BY <1>2 DEF HasHeader
<1>8. CASE msg.body = << >> \/ HasHeader(msg, kContentLengthHeader)
  <2>1. AllHeaders(msg) = given
    BY <1>8 DEF AllHeaders
  <2> HIDE DEF given
  <2>2. msg.body # << >> => \E i \in 1 .. n : given[i].key = kContentLengthHeader
    BY <1>7, <1>8
  <2> QED
    BY <1>1, <1>3, <1>5, <1>6, <2>1, <2>2
<1>9. CASE ~ (msg.body = << >> \/ HasHeader(msg, kContentLengthHeader))
  <2> DEFINE all == AllHeaders(msg)
  <2>1. all = Append(given, length)
    BY <1>1, <1>9 DEF AllHeaders, AddHeader
  <2>2. length \in Header
    <3>1. /\ ToNumeral(Len(msg.body)) \in Seq(Symbol)
          /\ Range(ToNumeral(Len(msg.body))) \subseteq Range(Digits)
      BY <1>1, NumeralRead
    <3>2. ToNumeral(Len(msg.body)) \in Word({CR, LF})
      BY <3>1, DigitsAre DEF Word
    <3> QED
      BY <3>2, SymbolsAre DEF Header
  <2> HIDE DEF given, all, length
  <2>3. /\ all \in Seq(Header) /\ Len(all) = n + 1
        /\ \A i \in 1 .. n : all[i] = given[i]
        /\ all[n + 1] = length
    BY <1>1, <2>1, <2>2 DEF given
  <2>4. \A i \in 1 .. Len(all) : i \in 1 .. n \/ i = n + 1
    BY <1>1, <2>3
  <2>5. \A i \in 1 .. n : given[i].key # kContentLengthHeader
    BY <1>7, <1>9
  <2>6. /\ length.key = kContentLengthHeader
        /\ length.val # << >> /\ length.val[1] # SP
        /\ Stoul(length.val) = Len(msg.body)
    <3> DEFINE word == ToNumeral(Len(msg.body))
    <3>1. /\ word \in Seq(Symbol) /\ word # << >>
          /\ Range(word) \subseteq Range(Digits)
          /\ Stoul(word) = Len(msg.body)
      BY <1>1, NumeralRead, StoulRead
    <3>2. length.key = kContentLengthHeader /\ length.val = word
      BY DEF length
    <3> HIDE DEF word
    <3>3. 1 \in DOMAIN word
      BY <3>1
    <3>4. word[1] \in Range(Digits)
      BY <3>1, <3>3 DEF Range
    <3>5. word[1] # SP
      BY <3>4, DigitsAre
    <3> QED
      BY <3>1, <3>2, <3>5
  <2>7. \A i \in 1 .. Len(all) : all[i].val # << >> => all[i].val[1] # SP
    BY <1>3, <2>3, <2>4, <2>6 DEF given
  <2>8. \A i \in 1 .. Len(all) : all[i].key = kContentLengthHeader => i = n + 1
    BY <2>3, <2>4, <2>5
  <2>9. \A i \in 1 .. Len(all) : all[i].key = kContentLengthHeader =>
           Stoul(all[i].val) = Len(msg.body)
    BY <2>3, <2>6, <2>8
  <2>10. n + 1 \in 1 .. Len(all)
    BY <1>1, <2>3
  <2>11. \A i \in 1 .. Len(all) : all[i].key = kContentLengthHeader =>
            /\ Stoul(all[i].val) \in Lengths(msg) \cup {Len(msg.body)}
            /\ Stoul(all[i].val) \in Nat
            /\ Stoul(all[i].val) >= Len(msg.body)
    BY <1>1, <2>9
  <2>12. all[n + 1].key = kContentLengthHeader
    BY <2>3, <2>6
  <2>13. Len(all) \in Nat
    BY <2>3
  <2> HIDE DEF n
  <2> QED
    BY ONLY <2>3, <2>7, <2>8, <2>10, <2>11, <2>12, <2>13 DEF all
<1> QED
  BY <1>8, <1>9

-----------------------------------------------------------------------------
(* Words, and where they end in the text                                   *)

Mode == {"request", "response"}

LEMMA WordJoined ==
    ASSUME NEW symbols, NEW s \in Word(symbols), NEW t \in Word(symbols)
    PROVE  s \o t \in Word(symbols)
<1>1. s \in Seq(Symbol) /\ t \in Seq(Symbol)
  BY WordFacts
<1>2. /\ s \o t \in Seq(Symbol) /\ Len(s \o t) = Len(s) + Len(t)
      /\ \A i \in 1 .. Len(s) : (s \o t)[i] = s[i]
      /\ \A i \in 1 .. Len(t) : (s \o t)[Len(s) + i] = t[i]
  BY <1>1, Joined
<1>3. ASSUME NEW i \in 1 .. Len(s \o t) PROVE (s \o t)[i] \notin symbols
  <2>1. CASE i <= Len(s)
    <3>1. i \in 1 .. Len(s)
      BY <1>1, <2>1
    <3> QED
      BY <1>2, <3>1, WordFacts
  <2>2. CASE i > Len(s)
    <3>1. i - Len(s) \in 1 .. Len(t) /\ Len(s) + (i - Len(s)) = i
      BY <1>1, <1>2, <2>2
    <3> QED
      BY <1>2, <3>1, WordFacts
  <2> QED
    BY <1>1, <2>1, <2>2
<1>4. DOMAIN (s \o t) = 1 .. Len(s \o t)
  BY <1>2
<1>5. Range(s \o t) \cap symbols = {}
  BY <1>3, <1>4 DEF Range
<1> QED
  BY <1>2, <1>5 DEF Word

LEMMA WordWeaker ==
    ASSUME NEW symbols, NEW fewer, fewer \subseteq symbols, NEW w \in Word(symbols)
    PROVE  w \in Word(fewer)
BY DEF Word

LEMMA SymbolWord ==
    ASSUME NEW symbols, NEW x \in Symbol, x \notin symbols
    PROVE  <<x>> \in Word(symbols)
<1>1. <<x>> \in Seq(Symbol) /\ DOMAIN <<x>> = 1 .. 1 /\ <<x>>[1] = x
  OBVIOUS
<1>2. Range(<<x>>) \cap symbols = {}
  BY <1>1 DEF Range
<1> QED
  BY <1>1, <1>2 DEF Word

LEMMA WordsAre ==
    ASSUME NEW msg, WellFormed(msg)
    PROVE  /\ Words(msg) \in Nat /\ Words(msg) >= 4
           /\ Words(msg) = Len(AllHeaders(msg)) + 4
<1>1. Len(AllHeaders(msg)) \in Nat
  BY HeadersFine
<1> QED
  BY <1>1 DEF Words

\* A header's word, without the symbols that end it.
LEMMA HeaderWord ==
    ASSUME NEW h \in Header
    PROVE  /\ h.key \in Word({COLON, CR, LF}) /\ h.val \in Word({CR, LF})
           /\ h.key \o <<COLON, SP>> \o h.val \in Word({LF})
<1>1. h.key \in Word({COLON, CR, LF}) /\ h.val \in Word({CR, LF})
  BY DEF Header
<1>2. h.key \in Word({LF}) /\ h.val \in Word({LF})
  BY <1>1, WordWeaker
<1>3. <<COLON, SP>> \in Word({LF})
  <2> DEFINE s == <<COLON, SP>>
  <2>1. s \in Seq(Symbol) /\ DOMAIN s = 1 .. 2
    BY SymbolsAre
  <2>2. s[1] # LF /\ s[2] # LF
    BY SymbolsAre
  <2> HIDE DEF s
  <2>3. Range(s) \cap {LF} = {}
    BY <2>1, <2>2 DEF Range
  <2> QED
    BY <2>1, <2>3 DEF Word, s
<1>4. h.key \o <<COLON, SP>> \in Word({LF})
  BY <1>2, <1>3, WordJoined
<1> QED
  BY <1>1, <1>2, <1>4, WordJoined

\* No word holds the symbol that ends it.
LEMMA WordTypes ==
    ASSUME NEW msg, WellFormed(msg), NEW mode \in Mode,
           NEW k \in 1 .. Words(msg)
    PROVE  /\ WordAt(mode, msg, k) \in Word({StopAt(k)})
           /\ WordAt(mode, msg, k) \in Seq(Symbol)
           /\ Len(WordAt(mode, msg, k)) \in Nat
           /\ StopAt(k) \in Symbol
<1>1. /\ msg.method \in Word({SP}) /\ msg.uri \in Word({SP})
      /\ msg.version \in Word({SP, CR, LF}) /\ msg.status \in 0 .. IntMax
  BY MessageFacts
<1>2. Words(msg) \in Nat /\ Words(msg) >= 4
      /\ Words(msg) = Len(AllHeaders(msg)) + 4
  BY WordsAre
<1>3. StopAt(k) \in Symbol
  BY SymbolsAre DEF StopAt
<1>4. msg.version \in Word({SP}) /\ msg.version \in Word({LF})
  BY <1>1, WordWeaker
<1>5. <<CR>> \in Word({LF})
  BY SymbolsAre, SymbolWord
<1>6. StatusName \in Word({LF})
  <2>1. /\ StatusName \in Seq(Symbol) /\ Len(StatusName) = 1
        /\ StatusName[1] # LF
    BY SymbolsAre
  <2>2. DOMAIN StatusName = 1 .. 1
    BY <2>1
  <2>3. Range(StatusName) \cap {LF} = {}
    BY <2>1, <2>2 DEF Range
  <2> QED
    BY <2>1, <2>3 DEF Word
<1>7. WordAt(mode, msg, k) \in Word({StopAt(k)})
  <2>1. CASE k = 1
    BY <1>1, <1>4, <2>1 DEF WordAt, StopAt, FirstWord
  <2>2. CASE k = 2
    <3>1. ToNumeral(msg.status) \in Word({SP})
      BY <1>1, StatusNumeral
    <3> QED
      BY <1>1, <2>2, <3>1 DEF WordAt, StopAt, SecondWord
  <2>3. CASE k = 3
    <3>1. WordAt(mode, msg, k) = ThirdWord(mode, msg) \o <<CR>> /\ StopAt(k) = LF
      BY <2>3 DEF WordAt, StopAt
    <3>2. ThirdWord(mode, msg) \in Word({LF})
      BY <1>4, <1>6 DEF ThirdWord
    <3> QED
      BY <1>5, <3>1, <3>2, WordJoined
  <2>4. CASE k > 3 /\ k < Words(msg)
    <3> DEFINE h == AllHeaders(msg)[k - 3]
    <3>1. h \in Header
      <4>1. AllHeaders(msg) \in Seq(Header) /\ k - 3 \in 1 .. Len(AllHeaders(msg))
        BY <1>2, <2>4, HeadersFine
      <4> QED
        BY <4>1
    <3>2. /\ WordAt(mode, msg, k) = h.key \o <<COLON, SP>> \o h.val \o <<CR>>
          /\ StopAt(k) = LF
      <4>1. k # 1 /\ k # 2 /\ k # 3 /\ ~ (k <= 2)
        BY <2>4
      <4> QED
        BY <2>4, <4>1 DEF WordAt, StopAt
    <3> HIDE DEF h
    <3>3. h.key \o <<COLON, SP>> \o h.val \in Word({LF})
      BY <3>1, HeaderWord
    <3>4. h.key \o <<COLON, SP>> \o h.val \o <<CR>> \in Word({LF})
      BY <1>5, <3>3, WordJoined
    <3> QED
      BY <3>2, <3>4
  <2>5. CASE k = Words(msg)
    <3>1. WordAt(mode, msg, k) = <<CR>> /\ StopAt(k) = LF
      <4>1. k # 1 /\ k # 2 /\ k # 3 /\ ~ (k <= 2) /\ ~ (k < Words(msg))
        BY <1>2, <2>5
      <4> QED
        BY <4>1 DEF WordAt, StopAt
    <3> QED
      BY <1>5, <3>1
  <2> QED
    BY <1>2, <2>1, <2>2, <2>3, <2>4, <2>5
<1>8. WordAt(mode, msg, k) \in Seq(Symbol) /\ Len(WordAt(mode, msg, k)) \in Nat
  BY <1>7, WordFacts
<1> QED
  BY <1>3, <1>7, <1>8

\* The recursion of EndsAt is well defined: each word ends behind the one
\* before it.
LEMMA EndsSteps ==
    ASSUME NEW msg, WellFormed(msg), NEW mode \in Mode
    PROVE  /\ EndsAt(mode, msg)[0] = 0
           /\ \A k \in 0 .. Words(msg) : EndsAt(mode, msg)[k] \in Nat
           /\ \A k \in 1 .. Words(msg) :
                 EndsAt(mode, msg)[k] =
                    EndsAt(mode, msg)[k - 1] + Len(WordAt(mode, msg, k)) + 1
<1> DEFINE W == Words(msg)
           L(k) == Len(WordAt(mode, msg, k))
           size(k) == IF k \in 1 .. W THEN L(k) + 1 ELSE 0
           D(f) == [k \in 0 .. W |-> IF k = 0 THEN 0 ELSE f[k - 1] + L(k) + 1]
           step == [e \in Nat \X Nat |-> e[2] + size(e[1])]
<1>0. W \in Nat
  BY WordsAre
<1>1. \A k \in 1 .. W : L(k) \in Nat
  BY WordTypes
<1>2. EndsAt(mode, msg) = CHOOSE f : f = D(f)
  BY DEF EndsAt
<1> HIDE DEF L, W
<1>3. \A k \in Nat : size(k) \in Nat
  BY <1>1
<1>4. \A k \in Nat, a \in Nat : step[<<k, a>>] = a + size(k)
  OBVIOUS
<1>5. step \in [Nat \X Nat -> Nat]
  <2> HIDE DEF size
  <2>1. \A e \in Nat \X Nat : e[1] \in Nat /\ e[2] \in Nat
    OBVIOUS
  <2>2. \A a, b \in Nat : a + b \in Nat
    OBVIOUS
  <2>3. \A e \in Nat \X Nat : e[2] + size(e[1]) \in Nat
    BY <1>3, <2>1, <2>2
  <2> QED
    BY <2>3
<1> HIDE DEF step
<1>6. PICK f \in [0 .. W -> Nat] : Follows(f, W, 0, step)
  BY <1>0, <1>5, RecursionExists
<1>7. f = D(f)
  <2>1. \A k \in 1 .. W : k - 1 \in 0 .. W /\ k \in Nat
    BY <1>0
  <2>2. \A k \in 1 .. W : f[k] = f[k - 1] + size(k)
    BY <1>4, <1>6, <2>1 DEF Follows
  <2>3. ASSUME NEW k \in 1 .. W PROVE f[k] = f[k - 1] + L(k) + 1
    <3>1. size(k) = L(k) + 1
      OBVIOUS
    <3>2. f[k - 1] \in Nat /\ L(k) \in Nat
      BY <1>1, <2>1
    <3> HIDE DEF size
    <3>3. f[k] = f[k - 1] + (L(k) + 1)
      BY <2>2, <3>1
    <3> QED
      BY <3>2, <3>3
  <2>4. f[0] = 0
    BY <1>6 DEF Follows
  <2> QED
    BY <1>0, <2>3, <2>4
<1> DEFINE E == EndsAt(mode, msg)
<1> HIDE DEF E
<1>8. E = D(E)
  <2> HIDE DEF D
  <2> QED
    BY <1>2, <1>7 DEF E
<1>9. E[0] = 0 /\ \A k \in 1 .. W : E[k] = E[k - 1] + L(k) + 1
  BY <1>0, <1>8
<1>10. \A k \in 0 .. W : E[k] \in Nat
  <2>1. \A k \in 1 .. W : E[k - 1] \in Nat => E[k] \in Nat
    BY <1>1, <1>9
  <2>2. E[0] \in Nat
    BY <1>9
  <2> QED
    BY ONLY <2>1, <2>2, <1>0, RecursionType
<1> QED
  BY <1>9, <1>10 DEF E, L, W

LEMMA EndsMonotone ==
    ASSUME NEW msg, WellFormed(msg), NEW mode \in Mode,
           NEW k \in 0 .. Words(msg), NEW j \in 0 .. k
    PROVE  EndsAt(mode, msg)[j] <= EndsAt(mode, msg)[k]
<1> DEFINE E == EndsAt(mode, msg)
           W == Words(msg)
           L(i) == Len(WordAt(mode, msg, i))
<1>1. W \in Nat
  BY WordsAre
<1>2. \A i \in 1 .. W : L(i) \in Nat
  BY WordTypes
<1>3. /\ \A i \in 0 .. W : E[i] \in Nat
      /\ \A i \in 1 .. W : E[i] = E[i - 1] + L(i) + 1
  BY EndsSteps
<1>4. k \in 0 .. W /\ j \in 0 .. k
  OBVIOUS
<1> HIDE DEF E, W, L
<1> DEFINE good == {i \in Nat : i + j <= W => E[j] <= E[i + j]}
<1>5. 0 \in good
  BY <1>1, <1>3, <1>4
<1>6. ASSUME NEW i \in Nat, i \in good PROVE i + 1 \in good
  <2>1. CASE (i + 1) + j <= W
    <3>1. /\ (i + 1) + j \in 1 .. W /\ ((i + 1) + j) - 1 = i + j
          /\ i + j \in 0 .. W /\ i + j <= W /\ j \in 0 .. W
      BY <1>1, <1>4, <2>1
    <3>2. E[j] <= E[i + j]
      BY <1>6, <3>1
    <3>3. E[(i + 1) + j] = E[i + j] + L((i + 1) + j) + 1
      BY <1>3, <3>1
    <3>4. E[i + j] \in Nat /\ E[j] \in Nat /\ L((i + 1) + j) \in Nat
      BY <1>2, <1>3, <3>1
    <3>5. E[j] <= E[(i + 1) + j]
      BY <3>2, <3>3, <3>4
    <3> QED
      BY <3>5
  <2>2. CASE ~ ((i + 1) + j <= W)
    BY <2>2
  <2> QED
    BY <2>1, <2>2
<1> HIDE DEF good
<1>7. Nat \subseteq good
  BY <1>5, <1>6, InductionNat
<1>8. k - j \in Nat /\ (k - j) + j = k /\ k <= W
  BY <1>1, <1>4
<1>9. k - j \in good
  BY <1>7, <1>8
<1>10. E[j] <= E[(k - j) + j]
  BY <1>8, <1>9 DEF good
<1> QED
  BY <1>8, <1>10 DEF E

\* A sequence of lines, one behind the other.
LEMMA FlattenSteps ==
    ASSUME NEW lines \in Seq(Seq(Symbol))
    PROVE  \E f : /\ f[0] = << >>
                  /\ \A i \in 0 .. Len(lines) : f[i] \in Seq(Symbol)
                  /\ \A i \in 1 .. Len(lines) : f[i] = f[i - 1] \o lines[i]
                  /\ FlattenSeq(lines) = f[Len(lines)]
<1> DEFINE n == Len(lines)
           line(i) == IF i \in 1 .. n THEN lines[i] ELSE << >>
           D(f) == [i \in 1 .. n |->
                      IF i = 1 THEN lines[i] ELSE f[i - 1] \o lines[i]]
           flat == CHOOSE f : f = D(f)
           step == [e \in Nat \X Seq(Symbol) |-> e[2] \o line(e[1])]
<1>0. n \in Nat /\ \A i \in 1 .. n : lines[i] \in Seq(Symbol)
  OBVIOUS
<1>1. CASE n = 0
  <2>1. lines = << >>
    BY <1>1
  <2>2. FlattenSeq(lines) = << >>
    BY <1>1, <2>1 DEF FlattenSeq
  <2> DEFINE f == [i \in 0 .. 0 |-> << >>]
  <2>3. << >> \in Seq(Symbol)
    OBVIOUS
  <2>4. /\ f[0] = << >> /\ \A i \in 0 .. n : f[i] \in Seq(Symbol)
        /\ \A i \in 1 .. n : f[i] = f[i - 1] \o lines[i]
        /\ FlattenSeq(lines) = f[n]
    BY <1>1, <2>2, <2>3
  <2> HIDE DEF f
  <2> QED
    BY <2>4
<1>2. CASE n > 0
  <2>1. \A i \in Nat : line(i) \in Seq(Symbol)
    BY <1>0
  <2>2. \A k \in Nat, a \in Seq(Symbol) : step[<<k, a>>] = a \o line(k)
    OBVIOUS
  <2>3. step \in [Nat \X Seq(Symbol) -> Seq(Symbol)]
    <3> HIDE DEF line
    <3>1. \A e \in Nat \X Seq(Symbol) : e[1] \in Nat /\ e[2] \in Seq(Symbol)
      OBVIOUS
    <3>2. \A a, b \in Seq(Symbol) : a \o b \in Seq(Symbol)
      OBVIOUS
    <3>3. \A e \in Nat \X Seq(Symbol) : e[2] \o line(e[1]) \in Seq(Symbol)
      BY <2>1, <3>1, <3>2
    <3> QED
      BY <3>3
  <2> HIDE DEF step
  <2>4. << >> \in Seq(Symbol)
    OBVIOUS
  <2>5. PICK g \in [0 .. n -> Seq(Symbol)] : Follows(g, n, << >>, step)
    BY <1>0, <2>3, <2>4, RecursionExists
  <2>6. ASSUME NEW i \in 1 .. n PROVE g[i] = g[i - 1] \o lines[i]
    <3>1. i - 1 \in 0 .. n /\ i \in Nat /\ line(i) = lines[i]
      BY <1>0
    <3> HIDE DEF line
    <3> QED
      BY <2>2, <2>5, <3>1 DEF Follows
  <2>7. g[0] = << >>
    BY <2>5 DEF Follows
  <2> DEFINE h == [i \in 1 .. n |-> g[i]]
  <2>8. h = D(h)
    <3>1. ASSUME NEW i \in 1 .. n
          PROVE  g[i] = IF i = 1 THEN lines[i] ELSE h[i - 1] \o lines[i]
      <4>1. CASE i = 1
        <5>0. i - 1 = 0
          BY <4>1
        <5>1. g[i] = << >> \o lines[i] /\ lines[i] \in Seq(Symbol)
          BY <1>0, <2>6, <2>7, <5>0
        <5> QED
          BY <4>1, <5>1, ConcatEmptySeq
      <4>2. CASE i # 1
        <5>1. i - 1 \in 1 .. n
          BY <1>0, <4>2
        <5>2. h[i - 1] = g[i - 1]
          BY <5>1
        <5> QED
          BY <2>6, <4>2, <5>2
      <4> QED
        BY <4>1, <4>2
    <3> QED
      BY <3>1
  <2> HIDE DEF h
  <2>9. flat = D(flat)
    <3> HIDE DEF D
    <3> QED
      BY <2>8
  <2>10. FlattenSeq(lines) = flat[n]
    <3>1. n # 0
      BY <1>2
    <3> QED
      BY <3>1 DEF FlattenSeq
  <2> HIDE DEF flat
  <2> DEFINE f == [i \in 0 .. n |-> IF i = 0 THEN << >> ELSE flat[i]]
  <2>11. f[0] = << >>
    BY <1>0
  <2>12. ASSUME NEW i \in 1 .. n PROVE f[i] = f[i - 1] \o lines[i]
    <3>1. flat[i] = IF i = 1 THEN lines[i] ELSE flat[i - 1] \o lines[i]
      BY <2>9
    <3>2. i \in 0 .. n /\ i - 1 \in 0 .. n /\ i # 0
      BY <1>0
    <3>3. f[i] = flat[i] /\ f[i - 1] = IF i = 1 THEN << >> ELSE flat[i - 1]
      BY <3>2
    <3>4. CASE i = 1
      <4>1. << >> \o lines[i] = lines[i]
        BY <1>0, ConcatEmptySeq
      <4> QED
        BY <3>1, <3>3, <3>4, <4>1
    <3>5. CASE i # 1
      BY <3>1, <3>3, <3>5
    <3> QED
      BY <3>4, <3>5
  <2>13. f[n] = flat[n]
    BY <1>0, <1>2
  <2> HIDE DEF f
  <2>14. \A i \in 0 .. n : f[i] \in Seq(Symbol)
    <3>1. ASSUME NEW i \in 1 .. n, f[i - 1] \in Seq(Symbol)
          PROVE  f[i] \in Seq(Symbol)
      <4>1. lines[i] \in Seq(Symbol) /\ f[i] = f[i - 1] \o lines[i]
        BY <1>0, <2>12
      <4>2. f[i - 1] \o lines[i] \in Seq(Symbol)
        BY <3>1, <4>1, ConcatProperties
      <4> QED
        BY <4>1, <4>2
    <3>2. f[0] \in Seq(Symbol)
      BY <2>4, <2>11
    <3> HIDE DEF n
    <3> QED
      BY ONLY <1>0, <3>1, <3>2, RecursionType
  <2> QED
    BY <2>10, <2>11, <2>12, <2>13, <2>14
<1>3. n = 0 \/ n > 0
  BY <1>0
<1> QED
  BY ONLY <1>1, <1>2, <1>3

\* The k-th word of a message stands in a text, with the symbol that ends it.
Stands(t, mode, msg, k) ==
    LET begin == EndsAt(mode, msg)[k - 1] IN
    /\ \A i \in 1 .. Len(WordAt(mode, msg, k)) :
          t[begin + i] = WordAt(mode, msg, k)[i]
    /\ t[EndsAt(mode, msg)[k]] = StopAt(k)

\* A text of the first k words.
Laid(t, mode, msg, k) ==
    /\ t \in Seq(Symbol) /\ Len(t) = EndsAt(mode, msg)[k]
    /\ \A j \in 1 .. k : Stands(t, mode, msg, j)

\* What a text has laid stays where it is when something is appended.
LEMMA StandsLonger ==
    ASSUME NEW msg, WellFormed(msg), NEW mode \in Mode,
           NEW k \in 0 .. Words(msg), NEW t, Laid(t, mode, msg, k),
           NEW s \in Seq(Symbol), NEW j \in 1 .. k
    PROVE  Stands(t \o s, mode, msg, j)
<1> DEFINE E == EndsAt(mode, msg)
           w == WordAt(mode, msg, j)
<1>1. t \in Seq(Symbol) /\ Len(t) = E[k] /\ Stands(t, mode, msg, j)
  BY DEF Laid
<1>2. Words(msg) \in Nat /\ j \in 1 .. Words(msg) /\ j \in 0 .. k
      /\ j - 1 \in 0 .. Words(msg)
  BY WordsAre
<1>3. /\ E[j] \in Nat /\ E[j - 1] \in Nat /\ Len(w) \in Nat
      /\ E[j] = E[j - 1] + Len(w) + 1
  BY <1>2, EndsSteps, WordTypes
<1>4. E[j] <= E[k]
  BY <1>2, EndsMonotone
<1>5. \A i \in 1 .. Len(t) : (t \o s)[i] = t[i]
  BY <1>1, Joined
<1>6. Stands(t, mode, msg, j) <=>
        /\ \A i \in 1 .. Len(w) : t[E[j - 1] + i] = w[i]
        /\ t[E[j]] = StopAt(j)
  BY DEF Stands
<1>7. Stands(t \o s, mode, msg, j) <=>
        /\ \A i \in 1 .. Len(w) : (t \o s)[E[j - 1] + i] = w[i]
        /\ (t \o s)[E[j]] = StopAt(j)
  BY DEF Stands
<1> HIDE DEF E, w
<1>8. E[j] \in 1 .. Len(t)
  BY <1>1, <1>3, <1>4
<1>9. \A i \in 1 .. Len(w) : E[j - 1] + i \in 1 .. Len(t)
  <2> DEFINE begin == E[j - 1]
             end == E[j]
             size == Len(w)
  <2>1. /\ begin \in Nat /\ end \in Nat /\ size \in Nat
        /\ end = begin + size + 1 /\ end \in 1 .. Len(t) /\ Len(t) \in Nat
    BY <1>1, <1>3, <1>8
  <2> HIDE DEF begin, end, size
  <2>2. \A i \in 1 .. size : begin + i \in 1 .. Len(t)
    BY ONLY <2>1
  <2> QED
    BY <2>2 DEF begin, size
<1> QED
  BY <1>1, <1>5, <1>6, <1>7, <1>8, <1>9

LEMMA LineBehind ==
    ASSUME NEW S, NEW t \in Seq(S), NEW w \in Seq(S), NEW x \in S
    PROVE  LET u == t \o (w \o <<x>>) IN
           /\ w \o <<x>> \in Seq(S)
           /\ u \in Seq(S) /\ Len(u) = Len(t) + Len(w) + 1
           /\ \A i \in 1 .. Len(w) : u[Len(t) + i] = w[i]
           /\ u[Len(t) + Len(w) + 1] = x
<1> DEFINE s == <<x>>
           line == w \o s
           u == t \o line
<1>1. s \in Seq(S) /\ Len(s) = 1 /\ s[1] = x
  OBVIOUS
<1> HIDE DEF s
<1>2. /\ line \in Seq(S) /\ Len(line) = Len(w) + Len(s)
      /\ \A i \in 1 .. Len(w) : line[i] = w[i]
      /\ \A i \in 1 .. Len(s) : line[Len(w) + i] = s[i]
  <2>1. w \in Seq(S) /\ s \in Seq(S)
    BY <1>1
  <2> QED
    BY ONLY <2>1, Joined
<1> HIDE DEF line
<1>3. /\ u \in Seq(S) /\ Len(u) = Len(t) + Len(line)
      /\ \A i \in 1 .. Len(line) : u[Len(t) + i] = line[i]
  <2>1. t \in Seq(S) /\ line \in Seq(S)
    BY <1>2
  <2> QED
    BY ONLY <2>1, Joined
<1> HIDE DEF u
<1>4. Len(t) \in Nat /\ Len(w) \in Nat
  OBVIOUS
<1>5. Len(line) = Len(w) + 1 /\ line[Len(w) + 1] = x
  BY <1>1, <1>2
<1>6. \A i \in 1 .. Len(w) : i \in 1 .. Len(line)
  BY <1>4, <1>5
<1>7. \A i \in 1 .. Len(w) : u[Len(t) + i] = w[i]
  BY <1>2, <1>3, <1>6
<1>8. Len(w) + 1 \in 1 .. Len(line) /\ Len(t) + (Len(w) + 1) = Len(t) + Len(w) + 1
  BY <1>4, <1>5
<1>9. u[Len(t) + Len(w) + 1] = x
  BY ONLY <1>3, <1>5, <1>8
<1>10. Len(u) = Len(t) + Len(w) + 1
  BY ONLY <1>3, <1>4, <1>5
<1> QED
  BY <1>2, <1>3, <1>7, <1>9, <1>10 DEF u, line, s

LEMMA LaidStep ==
    ASSUME NEW msg, WellFormed(msg), NEW mode \in Mode,
           NEW k \in 1 .. Words(msg), NEW t, Laid(t, mode, msg, k - 1)
    PROVE  Laid(t \o (WordAt(mode, msg, k) \o <<StopAt(k)>>), mode, msg, k)
<1> DEFINE E == EndsAt(mode, msg)
           w == WordAt(mode, msg, k)
           line == w \o <<StopAt(k)>>
           u == t \o line
<1>1. t \in Seq(Symbol) /\ Len(t) = E[k - 1]
  BY DEF Laid
<1>2. Words(msg) \in Nat /\ k - 1 \in 0 .. Words(msg) /\ k \in 0 .. Words(msg)
  BY WordsAre
<1>3. /\ E[k] \in Nat /\ E[k - 1] \in Nat /\ Len(w) \in Nat
      /\ E[k] = E[k - 1] + Len(w) + 1
      /\ w \in Seq(Symbol) /\ StopAt(k) \in Symbol
  BY <1>2, EndsSteps, WordTypes
<1>4. Stands(u, mode, msg, k) <=>
        /\ \A i \in 1 .. Len(w) : u[E[k - 1] + i] = w[i]
        /\ u[E[k]] = StopAt(k)
  BY DEF Stands
<1>5. /\ line \in Seq(Symbol)
      /\ u \in Seq(Symbol) /\ Len(u) = Len(t) + Len(w) + 1
      /\ \A i \in 1 .. Len(w) : u[Len(t) + i] = w[i]
      /\ u[Len(t) + Len(w) + 1] = StopAt(k)
  <2>1. t \in Seq(Symbol) /\ w \in Seq(Symbol) /\ StopAt(k) \in Symbol
    BY <1>1, <1>3
  <2> HIDE DEF w
  <2> QED
    BY ONLY <2>1, LineBehind
<1>7. \A j \in 1 .. k - 1 : Stands(u, mode, msg, j)
  <2> HIDE DEF line
  <2> QED
    BY <1>2, <1>5, StandsLonger
<1> HIDE DEF u, E, w
<1>8. Len(u) = E[k]
  BY ONLY <1>1, <1>3, <1>5
<1>9. \A i \in 1 .. Len(w) : u[E[k - 1] + i] = w[i]
  BY ONLY <1>1, <1>5
<1>10. u[E[k]] = StopAt(k)
  BY ONLY <1>1, <1>3, <1>5
<1>11. \A j \in 1 .. k : j \in 1 .. k - 1 \/ j = k
  OBVIOUS
<1>12. Stands(u, mode, msg, k)
  BY <1>4, <1>9, <1>10
<1>13. Laid(u, mode, msg, k)
  BY <1>5, <1>7, <1>8, <1>11, <1>12 DEF Laid, E
<1> QED
  BY <1>13 DEF u, line, w

\* The text of a message is its words, one behind the other, and its body.
LEMMA TextLaid ==
    ASSUME NEW msg, WellFormed(msg), NEW mode \in Mode,
           NEW extra \in Seq(Symbol)
    PROVE  LET text == Text(mode, msg, extra)
               begin == EndsAt(mode, msg)[Words(msg)] IN
           /\ text \in Seq(Symbol)
           /\ Len(text) = begin + Len(msg.body) + Len(extra)
           /\ \A k \in 1 .. Words(msg) : Stands(text, mode, msg, k)
           /\ \A i \in 1 .. Len(msg.body) : text[begin + i] = msg.body[i]
           /\ extra = << >> =>
                 text = Generate(FirstWord(mode, msg), SecondWord(mode, msg),
                                 ThirdWord(mode, msg), msg)
<1> DEFINE W == Words(msg)
           all == AllHeaders(msg)
           n == Len(all)
           w(k) == WordAt(mode, msg, k)
           line(k) == w(k) \o <<StopAt(k)>>
           x1 == FirstWord(mode, msg) \o <<SP>>
           x2 == x1 \o SecondWord(mode, msg) \o <<SP>>
           x3 == x2 \o ThirdWord(mode, msg) \o <<CR, LF>>
           lines == HeaderLines(msg)
           head == x3 \o FlattenSeq(lines) \o <<CR, LF>>
<1>1. /\ W \in Nat /\ W >= 4 /\ W = n + 4 /\ n \in Nat
      /\ all \in Seq(Header)
  BY WordsAre, HeadersFine
<1>2. \A k \in 1 .. W : w(k) \in Seq(Symbol) /\ StopAt(k) \in Symbol
  BY WordTypes
<1>3. <<SP>> \in Seq(Symbol) /\ <<CR>> \in Seq(Symbol) /\ <<LF>> \in Seq(Symbol)
      /\ << >> \in Seq(Symbol) /\ <<CR, LF>> \in Seq(Symbol)
  BY SymbolsAre
<1>4. ASSUME NEW s \in Seq(Symbol)
      PROVE  s \o <<CR, LF>> = (s \o <<CR>>) \o <<LF>>
  <2> DEFINE c == <<CR>>
             l == <<LF>>
             cl == <<CR, LF>>
  <2>1. c \o l = cl
    <3>1. /\ c \in Seq(Symbol) /\ Len(c) = 1 /\ c[1] = CR
          /\ l \in Seq(Symbol) /\ Len(l) = 1 /\ l[1] = LF
          /\ cl \in Seq(Symbol) /\ Len(cl) = 2 /\ cl[1] = CR /\ cl[2] = LF
      BY <1>3
    <3> HIDE DEF c, l, cl
    <3>2. /\ c \o l \in Seq(Symbol) /\ Len(c \o l) = 2
          /\ (c \o l)[1] = CR /\ (c \o l)[2] = LF
      <4>1. /\ c \o l \in Seq(Symbol) /\ Len(c \o l) = Len(c) + Len(l)
            /\ \A i \in 1 .. Len(c) : (c \o l)[i] = c[i]
            /\ \A i \in 1 .. Len(l) : (c \o l)[Len(c) + i] = l[i]
        <5>1. c \in Seq(Symbol) /\ l \in Seq(Symbol)
          BY <3>1
        <5> QED
          BY ONLY <5>1, Joined
      <4> QED
        BY ONLY <3>1, <4>1
    <3>3. \A i \in 1 .. 2 : (c \o l)[i] = cl[i]
      BY <3>1, <3>2
    <3>4. Len(c \o l) = Len(cl) /\ \A i \in 1 .. Len(cl) : cl[i] = (c \o l)[i]
      BY <3>1, <3>2, <3>3
    <3> QED
      BY ONLY <3>1, <3>2, <3>4, SameSeq
  <2>2. c \in Seq(Symbol) /\ l \in Seq(Symbol)
    BY <1>3
  <2> HIDE DEF c, l, cl
  <2>3. (s \o c) \o l = s \o (c \o l)
    BY ONLY s \in Seq(Symbol), <2>2, ConcatAssociative
  <2>4. s \o cl = (s \o c) \o l
    BY <2>1, <2>3
  <2> QED
    BY <2>4 DEF c, l, cl
<1>5. /\ w(1) = FirstWord(mode, msg) /\ StopAt(1) = SP
      /\ w(2) = SecondWord(mode, msg) /\ StopAt(2) = SP
      /\ w(3) = ThirdWord(mode, msg) \o <<CR>> /\ StopAt(3) = LF
      /\ w(W) = <<CR>> /\ StopAt(W) = LF
  <2>1. W # 1 /\ W # 2 /\ W # 3 /\ ~ (W < W) /\ ~ (W <= 2)
    BY <1>1
  <2> QED
    BY <2>1 DEF WordAt, StopAt
<1>6. ASSUME NEW i \in 1 .. n
      PROVE  /\ w(i + 3) = all[i].key \o <<COLON, SP>> \o all[i].val \o <<CR>>
             /\ StopAt(i + 3) = LF
             /\ lines[i] = line(i + 3) /\ lines[i] \in Seq(Symbol)
  <2>1. /\ i + 3 # 1 /\ i + 3 # 2 /\ i + 3 # 3 /\ i + 3 > 3
        /\ i + 3 < Words(msg) /\ ~ (i + 3 <= 2) /\ (i + 3) - 3 = i
    BY <1>1
  <2>2. /\ w(i + 3) = all[i].key \o <<COLON, SP>> \o all[i].val \o <<CR>>
        /\ StopAt(i + 3) = LF
    BY <2>1 DEF WordAt, StopAt
  <2> DEFINE h == all[i]
             word == h.key \o <<COLON, SP>> \o h.val
  <2>3. h \in Header
    BY <1>1
  <2>4. lines[i] = word \o <<CR, LF>>
    <3>1. DOMAIN all = 1 .. n
      BY <1>1
    <3>2. lines[i] = HeaderLine(all[i])
      BY <3>1 DEF HeaderLines
    <3> QED
      BY <3>2 DEF HeaderLine
  <2>5. word \in Seq(Symbol)
    <3> HIDE DEF h
    <3>1. word \in Word({LF})
      BY <2>3, HeaderWord
    <3> QED
      BY <3>1, WordFacts
  <2> HIDE DEF word
  <2>6. lines[i] = (word \o <<CR>>) \o <<LF>>
    BY <1>4, <2>4, <2>5
  <2>7. lines[i] = line(i + 3)
    BY <2>2, <2>6 DEF word
  <2>8. lines[i] \in Seq(Symbol)
    BY <1>3, <2>4, <2>5, ConcatProperties
  <2> QED
    BY <2>2, <2>7, <2>8
<1>7. lines \in Seq(Seq(Symbol)) /\ Len(lines) = n
  <2>1. lines = [i \in 1 .. n |-> HeaderLine(all[i])]
    BY <1>1 DEF HeaderLines
  <2>2. \A i \in 1 .. n : HeaderLine(all[i]) \in Seq(Symbol)
    BY <1>6, <2>1
  <2> HIDE DEF lines, all, n
  <2> QED
    BY <1>1, <2>1, <2>2
<1>8. PICK f : /\ f[0] = << >>
               /\ \A i \in 0 .. n : f[i] \in Seq(Symbol)
               /\ \A i \in 1 .. n : f[i] = f[i - 1] \o lines[i]
               /\ FlattenSeq(lines) = f[n]
  <2> HIDE DEF lines, n
  <2> QED
    BY <1>7, FlattenSteps
<1>9. ASSUME NEW k \in 1 .. W, NEW t, Laid(t, mode, msg, k - 1)
      PROVE  Laid(t \o line(k), mode, msg, k)
  BY <1>9, LaidStep
<1>10. /\ FirstWord(mode, msg) \in Seq(Symbol)
       /\ SecondWord(mode, msg) \in Seq(Symbol)
       /\ ThirdWord(mode, msg) \in Seq(Symbol)
  <2>1. /\ FirstWord(mode, msg) \in Seq(Symbol)
        /\ SecondWord(mode, msg) \in Seq(Symbol)
    BY <1>1, <1>2, <1>5
  <2>2. msg.version \in Seq(Symbol) /\ StatusName \in Seq(Symbol)
    BY MessageFacts, WordFacts, SymbolsAre
  <2> QED
    BY <2>1, <2>2 DEF ThirdWord
<1> HIDE DEF w
<1>11. Laid(x1, mode, msg, 1)
  <2>1. Laid(<< >>, mode, msg, 0)
    BY <1>3, EndsSteps DEF Laid
  <2>2. 1 \in 1 .. W /\ 1 - 1 = 0
    BY <1>1
  <2>3. Laid(<< >> \o line(1), mode, msg, 1)
    BY <1>9, <2>1, <2>2
  <2>4. x1 \in Seq(Symbol)
    BY <1>3, <1>10, ConcatProperties
  <2> HIDE DEF W, n
  <2>5. line(1) = x1
    BY ONLY <1>5
  <2>6. << >> \o x1 = x1
    BY ONLY <2>4, ConcatEmptySeq
  <2> QED
    BY <2>3, <2>5, <2>6
<1> HIDE DEF x1
<1>12. Laid(x2, mode, msg, 2)
  <2>1. 2 \in 1 .. W /\ 2 - 1 = 1
    BY <1>1
  <2>2. Laid(x1 \o line(2), mode, msg, 2)
    BY <1>9, <1>11, <2>1
  <2>3. x1 \in Seq(Symbol)
    BY <1>11 DEF Laid
  <2>4. x2 = x1 \o (SecondWord(mode, msg) \o <<SP>>)
    <3>1. <<SP>> \in Seq(Symbol) /\ SecondWord(mode, msg) \in Seq(Symbol)
      BY <1>3, <1>10
    <3> QED
      BY <2>3, <3>1, ConcatAssociative
  <2>5. line(2) = SecondWord(mode, msg) \o <<SP>>
    BY <1>5
  <2> QED
    BY <2>2, <2>4, <2>5
<1> HIDE DEF x2
<1>13. Laid(x3, mode, msg, 3)
  <2>1. 3 \in 1 .. W /\ 3 - 1 = 2
    BY <1>1
  <2>2. Laid(x2 \o line(3), mode, msg, 3)
    BY <1>9, <1>12, <2>1
  <2>3. x2 \in Seq(Symbol)
    BY <1>12 DEF Laid
  <2>4. x3 = x2 \o (ThirdWord(mode, msg) \o <<CR, LF>>)
    <3> DEFINE third == ThirdWord(mode, msg)
               cl == <<CR, LF>>
    <3>1. third \in Seq(Symbol) /\ cl \in Seq(Symbol)
      BY <1>3, <1>10
    <3> HIDE DEF third, cl
    <3>2. (x2 \o third) \o cl = x2 \o (third \o cl)
      BY ONLY <2>3, <3>1, ConcatAssociative
    <3> QED
      BY <3>2 DEF third, cl, x3
  <2>5. ThirdWord(mode, msg) \o <<CR, LF>>
           = (ThirdWord(mode, msg) \o <<CR>>) \o <<LF>>
    BY <1>4, <1>10
  <2>6. line(3) = (ThirdWord(mode, msg) \o <<CR>>) \o <<LF>>
    BY <1>5
  <2> QED
    BY <2>2, <2>4, <2>5, <2>6
<1> HIDE DEF x3
<1>14. \A i \in 0 .. n : Laid(x3 \o f[i], mode, msg, i + 3)
  <2> DEFINE good == {i \in Nat : i <= n => Laid(x3 \o f[i], mode, msg, i + 3)}
  <2>1. 0 \in good
    <3>1. x3 \in Seq(Symbol)
      BY <1>13 DEF Laid
    <3>2. x3 \o f[0] = x3 /\ 0 + 3 = 3
      BY <1>8, <3>1, ConcatEmptySeq
    <3> QED
      BY <1>13, <3>2
  <2>2. ASSUME NEW i \in Nat, i \in good PROVE i + 1 \in good
    <3>1. CASE i + 1 <= n
      <4>1. /\ i \in 0 .. n /\ i + 1 \in 1 .. n /\ (i + 1) - 1 = i /\ i <= n
            /\ (i + 1) + 3 \in 1 .. W /\ ((i + 1) + 3) - 1 = i + 3
        BY <1>1, <3>1
      <4>2. Laid(x3 \o f[i], mode, msg, i + 3)
        BY <2>2, <4>1
      <4>3. Laid((x3 \o f[i]) \o line((i + 1) + 3), mode, msg, (i + 1) + 3)
        BY <1>9, <4>1, <4>2
      <4>4. line((i + 1) + 3) = lines[i + 1] /\ lines[i + 1] \in Seq(Symbol)
        BY <1>6, <4>1
      <4>5. f[i + 1] = f[i] \o lines[i + 1] /\ f[i] \in Seq(Symbol)
        BY <1>8, <4>1
      <4>6. x3 \in Seq(Symbol)
        BY <1>13 DEF Laid
      <4>7. (x3 \o f[i]) \o lines[i + 1] = x3 \o (f[i] \o lines[i + 1])
        <5>1. f[i] \in Seq(Symbol) /\ lines[i + 1] \in Seq(Symbol)
          BY <4>4, <4>5
        <5>2. \A a, b, c \in Seq(Symbol) : (a \o b) \o c = a \o (b \o c)
          BY ConcatAssociative
        <5> HIDE DEF lines
        <5> QED
          BY ONLY <4>6, <5>1, <5>2
      <4>8. Laid(x3 \o f[i + 1], mode, msg, (i + 1) + 3)
        BY <4>3, <4>4, <4>5, <4>7
      <4> QED
        BY <4>8
    <3>2. CASE ~ (i + 1 <= n)
      BY <3>2
    <3> QED
      BY <3>1, <3>2
  <2> HIDE DEF good
  <2>3. Nat \subseteq good
    BY <2>1, <2>2, InductionNat
  <2> HIDE DEF n
  <2>4. \A i \in 0 .. n : i \in Nat /\ i <= n
    BY <1>1
  <2> QED
    BY <2>3, <2>4 DEF good
<1>15. Laid(head, mode, msg, W)
  <2>1. n \in 0 .. n /\ W \in 1 .. W /\ W - 1 = n + 3
    BY <1>1
  <2>2. Laid(x3 \o f[n], mode, msg, n + 3)
    BY <1>14, <2>1
  <2>3. Laid((x3 \o f[n]) \o line(W), mode, msg, W)
    BY <1>9, <2>1, <2>2
  <2>4. <<CR, LF>> = line(W)
    <3>1. << >> \o <<CR, LF>> = (<< >> \o <<CR>>) \o <<LF>>
      BY <1>3, <1>4
    <3>2. << >> \o <<CR, LF>> = <<CR, LF>> /\ << >> \o <<CR>> = <<CR>>
      BY <1>3, ConcatEmptySeq
    <3>3. line(W) = <<CR>> \o <<LF>>
      BY <1>5
    <3> QED
      BY <3>1, <3>2, <3>3
  <2>5. FlattenSeq(lines) = f[n]
    BY <1>8
  <2>6. head = (x3 \o f[n]) \o <<CR, LF>>
    BY <2>5
  <2> QED
    BY <2>3, <2>4, <2>6
<1> DEFINE body == msg.body
           text == Text(mode, msg, extra)
           whole == Generate(FirstWord(mode, msg), SecondWord(mode, msg),
                             ThirdWord(mode, msg), msg)
           begin == EndsAt(mode, msg)[W]
<1>16. body \in Seq(Symbol) /\ Len(body) \in Nat
  BY MessageFacts
<1>17. whole = head \o body
  BY DEF Generate, x3, x2, x1
<1>18. text = whole \o extra
  BY DEF Text
<1> HIDE DEF head, whole, text, lines
<1>19. /\ head \in Seq(Symbol) /\ Len(head) = begin
       /\ \A k \in 1 .. W : Stands(head, mode, msg, k)
  BY <1>15 DEF Laid
<1>20. /\ whole \in Seq(Symbol) /\ Len(whole) = Len(head) + Len(body)
       /\ \A i \in 1 .. Len(body) : whole[Len(head) + i] = body[i]
  <2> HIDE DEF body, begin
  <2>1. head \in Seq(Symbol) /\ body \in Seq(Symbol)
    BY <1>16, <1>19
  <2> QED
    BY ONLY <1>17, <2>1, Joined
<1>21. /\ text \in Seq(Symbol) /\ Len(text) = Len(whole) + Len(extra)
       /\ \A i \in 1 .. Len(whole) : text[i] = whole[i]
  <2>1. whole \in Seq(Symbol) /\ extra \in Seq(Symbol)
    BY <1>20
  <2> QED
    BY ONLY <1>18, <2>1, Joined
<1>22. Len(text) = begin + Len(body) + Len(extra)
  BY <1>19, <1>20, <1>21
<1>23. \A k \in 1 .. W : Stands(text, mode, msg, k)
  <2>1. W \in 0 .. W
    BY <1>1
  <2>2. body \o extra \in Seq(Symbol)
    BY <1>16, ConcatProperties
  <2>3. (head \o body) \o extra = head \o (body \o extra)
    <3> HIDE DEF body
    <3>1. head \in Seq(Symbol) /\ body \in Seq(Symbol) /\ extra \in Seq(Symbol)
      BY <1>16, <1>19
    <3> QED
      BY ONLY <3>1, ConcatAssociative
  <2>4. text = head \o (body \o extra)
    BY <1>17, <1>18, <2>3
  <2> HIDE DEF body
  <2> QED
    BY <1>15, <2>1, <2>2, <2>4, StandsLonger
<1>24. \A i \in 1 .. Len(body) : text[begin + i] = body[i]
  <2> HIDE DEF body, begin
  <2>1. begin \in Nat
    BY <1>19
  <2>2. \A i \in 1 .. Len(body) : begin + i \in 1 .. Len(whole)
    BY <1>16, <1>19, <1>20, <2>1
  <2>3. \A i \in 1 .. Len(body) : whole[begin + i] = body[i]
    BY <1>19, <1>20
  <2> QED
    BY <1>21, <2>2, <2>3
<1>25. extra = << >> => text = whole
  BY <1>18, <1>20, ConcatEmptySeq
<1> QED
  BY <1>21, <1>22, <1>23, <1>24, <1>25 DEF text, whole

-----------------------------------------------------------------------------
(* What the parser takes from a line                                       *)

LEMMA PrefixOfJoined ==
    ASSUME NEW S, NEW s \in Seq(S), NEW t \in Seq(S)
    PROVE  SubSeq(s \o t, 1, Len(s)) = s
<1> DEFINE u == s \o t
           v == SubSeq(u, 1, Len(s))
<1>1. /\ u \in Seq(S) /\ Len(u) = Len(s) + Len(t)
      /\ \A i \in 1 .. Len(s) : u[i] = s[i]
  BY ONLY s \in Seq(S), t \in Seq(S), Joined
<1>2. Len(s) \in Nat /\ Len(t) \in Nat
  OBVIOUS
<1> HIDE DEF u
<1>3. Len(s) <= Len(u)
  BY ONLY <1>1, <1>2
<1>4. v \in Seq(S) /\ Len(v) = Len(s) /\ \A i \in 1 .. Len(s) : v[i] = u[i]
  BY ONLY <1>1, <1>2, <1>3, Prefix
<1> HIDE DEF v
<1>5. \A i \in 1 .. Len(v) : v[i] = s[i]
  BY <1>1, <1>4
<1>6. v = s
  BY ONLY s \in Seq(S), <1>4, <1>5, SameSeq
<1> QED
  BY <1>6 DEF v, u

\* stripTrailingBytes takes the end of a line away, and no more of it.
LEMMA StripEnd ==
    ASSUME NEW w \in Seq(Symbol), w # << >> => w[Len(w)] # CR
    PROVE  Strip(w \o <<CR>>) = w
<1> DEFINE c == <<CR>>
           u == w \o c
           kept == {0} \cup {i \in DOMAIN u : u[i] # CR}
<1>1. c \in Seq(Symbol) /\ Len(c) = 1 /\ c[1] = CR
  BY SymbolsAre
<1>2. Len(w) \in Nat
  OBVIOUS
<1> HIDE DEF c
<1>3. /\ u \in Seq(Symbol) /\ Len(u) = Len(w) + Len(c)
      /\ \A i \in 1 .. Len(w) : u[i] = w[i]
      /\ \A i \in 1 .. Len(c) : u[Len(w) + i] = c[i]
  <2>1. c \in Seq(Symbol)
    BY <1>1
  <2> QED
    BY ONLY w \in Seq(Symbol), <2>1, Joined
<1>4. Strip(u) = SubSeq(u, 1, Max(kept))
  BY DEF Strip
<1>5. SubSeq(u, 1, Len(w)) = w
  BY ONLY w \in Seq(Symbol), <1>1, PrefixOfJoined
<1> HIDE DEF u
<1>6. DOMAIN u = 1 .. Len(w) + 1 /\ u[Len(w) + 1] = CR
  BY <1>1, <1>2, <1>3
<1>7. kept \subseteq Nat /\ Len(w) \in kept
  <2>1. kept \subseteq Nat
    BY <1>6
  <2>2. CASE Len(w) = 0
    BY <2>1, <2>2
  <2>3. CASE Len(w) > 0
    <3>1. w # << >> /\ Len(w) \in 1 .. Len(w)
      BY <1>2, <2>3
    <3>2. u[Len(w)] # CR /\ Len(w) \in 1 .. Len(w) + 1
      BY <1>2, <1>3, <3>1
    <3> QED
      BY <1>6, <2>1, <3>2
  <2> QED
    BY <1>2, <2>2, <2>3
<1>8. \A m \in kept : m <= Len(w)
  BY <1>2, <1>6
<1> HIDE DEF kept
<1>9. Max(kept) = Len(w)
  BY ONLY <1>7, <1>8, MaxIs
<1> QED
  BY <1>4, <1>5, <1>9 DEF u, c

\* A line with a key and a value comes out as the two.
LEMMA HeaderParsed ==
    ASSUME NEW h \in Header, h.val # << >> => h.val[1] # SP, NEW p
    PROVE  ParseHeader(p, h.key \o <<COLON, SP>> \o h.val \o <<CR>>)
              = Goto(ProcessHeader(p, h.key, h.val), "S_HEADER")
<1> DEFINE key == h.key
           val == h.val
           sep == <<COLON, SP>>
           a == key \o sep
           line == a \o val
           word == line \o <<CR>>
           colons == {i \in DOMAIN line : line[i] = COLON} \cup {Len(line) + 1}
           rest == SubSeq(line, Len(key) + 2, Len(line))
           others == {i \in DOMAIN rest : rest[i] # SP} \cup {Len(rest) + 1}
<1>1. /\ key \in Seq(Symbol) /\ Len(key) \in Nat
      /\ \A i \in 1 .. Len(key) : key[i] # COLON
  <2>1. key \in Word({COLON, CR, LF})
    BY DEF Header
  <2> HIDE DEF key
  <2> QED
    BY <2>1, WordFacts
<1>2. /\ val \in Seq(Symbol) /\ Len(val) \in Nat
      /\ \A i \in 1 .. Len(val) : val[i] # CR
      /\ val # << >> => val[1] # SP
  <2>1. val \in Word({CR, LF})
    BY DEF Header
  <2> HIDE DEF val
  <2> QED
    BY <2>1, WordFacts DEF val
<1>3. /\ sep \in Seq(Symbol) /\ Len(sep) = 2 /\ sep[1] = COLON /\ sep[2] = SP
  BY SymbolsAre
<1> HIDE DEF key, val, sep
<1>4. /\ a \in Seq(Symbol) /\ Len(a) = Len(key) + Len(sep)
      /\ \A i \in 1 .. Len(key) : a[i] = key[i]
      /\ \A i \in 1 .. Len(sep) : a[Len(key) + i] = sep[i]
  <2>1. key \in Seq(Symbol) /\ sep \in Seq(Symbol)
    BY <1>1, <1>3
  <2> QED
    BY ONLY <2>1, Joined
<1> HIDE DEF a
<1>5. /\ line \in Seq(Symbol) /\ Len(line) = Len(a) + Len(val)
      /\ \A i \in 1 .. Len(a) : line[i] = a[i]
      /\ \A i \in 1 .. Len(val) : line[Len(a) + i] = val[i]
  <2>1. a \in Seq(Symbol) /\ val \in Seq(Symbol)
    BY <1>2, <1>4
  <2> QED
    BY ONLY <2>1, Joined
<1> HIDE DEF line
<1>6. /\ Len(a) = Len(key) + 2 /\ Len(line) = Len(key) + 2 + Len(val)
      /\ a[Len(key) + 1] = COLON /\ a[Len(key) + 2] = SP
  BY <1>1, <1>2, <1>3, <1>4, <1>5
<1>7. /\ \A i \in 1 .. Len(key) : line[i] = key[i]
      /\ line[Len(key) + 1] = COLON /\ line[Len(key) + 2] = SP
  <2>1. /\ \A i \in 1 .. Len(key) : i \in 1 .. Len(a)
        /\ Len(key) + 1 \in 1 .. Len(a) /\ Len(key) + 2 \in 1 .. Len(a)
    BY <1>1, <1>6
  <2> QED
    BY <1>4, <1>5, <1>6, <2>1
<1>8. Strip(word) = line
  <2>1. line[Len(line)] # CR
    <3>1. CASE Len(val) = 0
      BY <1>1, <1>6, <1>7, <3>1, SymbolsAre
    <3>2. CASE Len(val) > 0
      <4>1. Len(val) \in 1 .. Len(val) /\ Len(line) = Len(a) + Len(val)
        BY <1>2, <1>5, <3>2
      <4> QED
        BY <1>2, <1>5, <4>1
    <3> QED
      BY <1>2, <3>1, <3>2
  <2> QED
    BY ONLY <1>5, <2>1, StripEnd
<1> HIDE DEF word
<1>9. Min(colons) = Len(key) + 1
  <2>1. DOMAIN line = 1 .. Len(line) /\ Len(line) \in Nat
    BY <1>5
  <2>2. colons \subseteq Nat /\ Len(key) + 1 \in colons
    BY <1>1, <1>2, <1>6, <1>7, <2>1
  <2>3. ASSUME NEW m \in colons PROVE Len(key) + 1 <= m
    <3>1. CASE m = Len(line) + 1
      BY <1>1, <1>2, <1>6, <3>1
    <3>2. CASE m \in DOMAIN line /\ line[m] = COLON
      <4>1. m \notin 1 .. Len(key)
        BY <1>1, <1>7, <3>2
      <4> QED
        BY <1>1, <2>1, <3>2, <4>1
    <3> QED
      BY <3>1, <3>2
  <2> HIDE DEF colons
  <2> QED
    BY ONLY <2>2, <2>3, MinIs
<1>10. /\ rest \in Seq(Symbol) /\ Len(rest) = Len(val) + 1
       /\ rest[1] = SP /\ \A i \in 1 .. Len(val) : rest[1 + i] = val[i]
  <2> DEFINE n == Len(key) + 1
  <2>1. n \in Nat /\ Len(line) \in Nat /\ n <= Len(line) /\ n + 1 = Len(key) + 2
        /\ Len(line) - n = Len(val) + 1
    BY <1>1, <1>2, <1>6
  <2> HIDE DEF n
  <2>2. /\ SubSeq(line, n + 1, Len(line)) \in Seq(Symbol)
        /\ Len(SubSeq(line, n + 1, Len(line))) = Len(line) - n
        /\ \A i \in 1 .. Len(line) - n :
              SubSeq(line, n + 1, Len(line))[i] = line[n + i]
    <3>1. line \in Seq(Symbol) /\ Len(line) <= Len(line)
      BY <1>5, <2>1
    <3> QED
      BY ONLY <2>1, <3>1, Part
  <2>3. SubSeq(line, n + 1, Len(line)) = rest
    BY <2>1
  <2> HIDE DEF rest
  <2>4. /\ rest \in Seq(Symbol) /\ Len(rest) = Len(val) + 1
        /\ \A i \in 1 .. Len(val) + 1 : rest[i] = line[n + i]
    BY <2>1, <2>2, <2>3
  <2>5. rest[1] = SP
    <3>1. 1 \in 1 .. Len(val) + 1 /\ n + 1 = Len(key) + 2
      BY <1>2, <2>1
    <3> QED
      BY <1>7, <2>4, <3>1
  <2>6. ASSUME NEW i \in 1 .. Len(val) PROVE rest[1 + i] = val[i]
    <3>1. 1 + i \in 1 .. Len(val) + 1 /\ n + (1 + i) = Len(a) + i
      BY <1>1, <1>2, <1>6, <2>1 DEF n
    <3> QED
      BY <1>5, <2>4, <3>1
  <2> QED
    BY <2>4, <2>5, <2>6
<1> HIDE DEF rest
<1>11. Min(others) = 2
  <2>1. DOMAIN rest = 1 .. Len(val) + 1 /\ Len(rest) + 1 = Len(val) + 2
    BY <1>2, <1>10
  <2>2. others \subseteq Nat
    BY <1>2, <2>1
  <2>3. 2 \in others
    <3>1. CASE Len(val) = 0
      BY <2>1, <3>1
    <3>2. CASE Len(val) > 0
      <4>1. val # << >> /\ 1 \in 1 .. Len(val) /\ 2 \in 1 .. Len(val) + 1
        BY <1>2, <3>2
      <4>2. rest[1 + 1] = val[1] /\ 1 + 1 = 2
        BY <1>10, <4>1
      <4>3. rest[2] # SP
        BY <1>2, <4>1, <4>2
      <4> QED
        BY <2>1, <4>1, <4>3
    <3> QED
      BY <1>2, <3>1, <3>2
  <2>4. \A m \in others : m # 0 /\ m # 1
    BY <1>2, <1>10, <2>1
  <2>5. \A m \in others : 2 <= m
    BY <2>2, <2>4
  <2> HIDE DEF others
  <2> QED
    BY ONLY <2>2, <2>3, <2>5, MinIs
<1>12. SubSeq(line, 1, Len(key)) = key
  <2>1. Len(key) \in Nat /\ Len(key) <= Len(line)
    BY <1>1, <1>2, <1>6
  <2> DEFINE v == SubSeq(line, 1, Len(key))
  <2>2. v \in Seq(Symbol) /\ Len(v) = Len(key)
        /\ \A i \in 1 .. Len(key) : v[i] = line[i]
    <3>1. line \in Seq(Symbol)
      BY <1>5
    <3> QED
      BY ONLY <2>1, <3>1, Prefix
  <2> HIDE DEF v
  <2>3. \A i \in 1 .. Len(v) : v[i] = key[i]
    BY <1>7, <2>2
  <2>4. key \in Seq(Symbol)
    BY <1>1
  <2>5. v = key
    BY ONLY <2>2, <2>3, <2>4, SameSeq
  <2> QED
    BY <2>5 DEF v
<1>13. SubSeq(rest, 2, Len(rest)) = val
  <2>1. 1 \in Nat /\ Len(rest) \in Nat /\ 1 <= Len(rest) /\ 1 + 1 = 2
        /\ Len(rest) <= Len(rest) /\ Len(rest) - 1 = Len(val)
    BY <1>2, <1>10
  <2> DEFINE v == SubSeq(rest, 1 + 1, Len(rest))
  <2>2. v \in Seq(Symbol) /\ Len(v) = Len(rest) - 1
        /\ \A i \in 1 .. Len(rest) - 1 : v[i] = rest[1 + i]
    <3>1. rest \in Seq(Symbol)
      BY <1>10
    <3> QED
      BY ONLY <2>1, <3>1, Part
  <2> HIDE DEF v
  <2>3. Len(v) = Len(val) /\ \A i \in 1 .. Len(v) : v[i] = val[i]
    BY <1>10, <2>1, <2>2
  <2>4. val \in Seq(Symbol)
    BY <1>2
  <2>5. v = val
    BY ONLY <2>2, <2>3, <2>4, SameSeq
  <2> QED
    BY <2>1, <2>5 DEF v
<1>14. line # << >> /\ ~ (Len(key) + 1 > Len(line))
       /\ (Len(key) + 1) + 1 = Len(key) + 2 /\ (Len(key) + 1) - 1 = Len(key)
  BY <1>1, <1>2, <1>5, <1>6
<1>15. ParseHeader(p, word) = Goto(ProcessHeader(p, key, val), "S_HEADER")
  <2>1. Strip(word) = line
    BY <1>8
  <2> QED
    BY <2>1, <1>9, <1>11, <1>12, <1>13, <1>14 DEF ParseHeader, rest
<1> QED
  BY <1>15 DEF word, line, a, key, val, sep

\* The empty line ends the headers.
LEMMA EmptyLineParsed ==
    ASSUME NEW p
    PROVE  ParseHeader(p, <<CR>>)
              = Goto(p, IF p.expected = 0 THEN "S_DONE" ELSE "S_BODY")
<1>1. << >> \in Seq(Symbol) /\ << >> \o <<CR>> = <<CR>>
  <2>1. <<CR>> \in Seq(Symbol)
    BY SymbolsAre
  <2> QED
    BY <2>1, ConcatEmptySeq
<1>2. Strip(<< >> \o <<CR>>) = << >>
  BY ONLY <1>1, StripEnd
<1>3. Strip(<<CR>>) = << >>
  BY <1>1, <1>2
<1> QED
  BY <1>3 DEF ParseHeader

-----------------------------------------------------------------------------
(* How much of a body is expected                                          *)

LEMMA ExpectedFirst ==
    ASSUME NEW mode, NEW msg
    PROVE  Expected(mode, msg, 0) = InitiallyExpected(mode, msg)
<1>1. Decisive(mode, msg, 0) = {}
  BY DEF Decisive
<1> QED
  BY <1>1 DEF Expected

LEMMA ExpectedStep ==
    ASSUME NEW mode, NEW msg, NEW n \in Nat \ {0}
    PROVE  Expected(mode, msg, n) =
             LET header == AllHeaders(msg)[n] IN
             IF header.key = kContentLengthHeader THEN Stoul(header.val)
             ELSE IF mode = "response" /\ header.key = kConnectionHeader
                        /\ header.val = Close
             THEN Unlimited
             ELSE Expected(mode, msg, n - 1)
<1> DEFINE header(i) == AllHeaders(msg)[i]
           decides(i) == \/ header(i).key = kContentLengthHeader
                         \/ mode = "response" /\ header(i).key = kConnectionHeader
                               /\ header(i).val = Close
           D == Decisive(mode, msg, n)
           C == Decisive(mode, msg, n - 1)
<1>1. D = {i \in 1 .. n : decides(i)} /\ C = {i \in 1 .. n - 1 : decides(i)}
  BY DEF Decisive
<1>2. /\ Expected(mode, msg, n) =
            IF D = {} THEN InitiallyExpected(mode, msg)
            ELSE IF header(Max(D)).key = kContentLengthHeader
            THEN Stoul(header(Max(D)).val) ELSE Unlimited
      /\ Expected(mode, msg, n - 1) =
            IF C = {} THEN InitiallyExpected(mode, msg)
            ELSE IF header(Max(C)).key = kContentLengthHeader
            THEN Stoul(header(Max(C)).val) ELSE Unlimited
  BY DEF Expected
<1> HIDE DEF D, C
<1>3. CASE decides(n)
  <2>1. D \subseteq Nat /\ n \in D /\ \A m \in D : m <= n
    <3> HIDE DEF decides
    <3> QED
      BY <1>1, <1>3
  <2>2. Max(D) = n
    BY ONLY <2>1, MaxIs
  <2>3. D # {}
    BY <2>1
  <2> QED
    BY <1>2, <1>3, <2>2, <2>3
<1>4. CASE ~ decides(n)
  <2>1. D = C
    <3> HIDE DEF decides
    <3>1. \A i \in 1 .. n : i = n \/ i \in 1 .. n - 1
      OBVIOUS
    <3>2. \A i \in 1 .. n - 1 : i \in 1 .. n
      OBVIOUS
    <3> QED
      BY <1>1, <1>4, <3>1, <3>2
  <2> QED
    BY <1>2, <1>4, <2>1
<1> QED
  BY <1>3, <1>4

\* When all the headers are read, the parser expects the length that the
\* message announces, which is not less than the body, or no known length.
LEMMA ExpectedLast ==
    ASSUME NEW msg, WellFormed(msg), NEW mode \in Mode,
           Numbers(msg, Len(AllHeaders(msg)))
    PROVE  LET e == Expected(mode, msg, Len(AllHeaders(msg))) IN
           /\ \/ e = Unlimited /\ mode = "response"
              \/ /\ e \in Nat /\ e >= Len(msg.body)
                 /\ e \in Lengths(msg) \cup {Len(msg.body)}
           /\ mode = "request" => Announced(msg) = e
<1> DEFINE all == AllHeaders(msg)
           n == Len(all)
           D == Decisive(mode, msg, n)
           e == Expected(mode, msg, n)
           last == all[Max(D)]
<1>1. /\ n \in Nat /\ Len(msg.body) \in Nat
      /\ \A i, j \in 1 .. n : all[i].key = kContentLengthHeader
            /\ all[j].key = kContentLengthHeader => i = j
      /\ \A i \in 1 .. n :
            all[i].key = kContentLengthHeader /\ StoulAccepts(all[i].val) =>
               /\ Stoul(all[i].val) \in Lengths(msg) \cup {Len(msg.body)}
               /\ Stoul(all[i].val) \in Nat
               /\ Stoul(all[i].val) >= Len(msg.body)
      /\ msg.body # << >> => \E i \in 1 .. n : all[i].key = kContentLengthHeader
  BY HeadersFine, MessageFacts
<1>2. \A i \in 1 .. n : all[i].key = kContentLengthHeader => StoulAccepts(all[i].val)
  BY DEF Numbers
<1>3. D = {i \in 1 .. n :
             \/ all[i].key = kContentLengthHeader
             \/ mode = "response" /\ all[i].key = kConnectionHeader
                   /\ all[i].val = Close}
  BY DEF Decisive
<1>4. e = IF D = {} THEN InitiallyExpected(mode, msg)
          ELSE IF last.key = kContentLengthHeader THEN Stoul(last.val)
          ELSE Unlimited
  BY DEF Expected
<1>5. D # {} => Max(D) \in D
  <2>1. D \subseteq 0 .. n
    BY <1>3
  <2> HIDE DEF D, n
  <2> QED
    BY <1>1, <2>1, MaxNat
<1> DEFINE l == Max(D)
<1> HIDE DEF all, n, D, l, e
<1>6. msg.body = << >> => Len(msg.body) = 0
  OBVIOUS
<1>7. \/ e = Unlimited /\ mode = "response"
      \/ /\ e \in Nat /\ e >= Len(msg.body)
         /\ e \in Lengths(msg) \cup {Len(msg.body)}
  <2>1. CASE D = {}
    <3>1. msg.body = << >>
      BY <1>1, <1>3, <2>1
    <3>2. e \in {0, Unlimited} /\ (e = Unlimited => mode = "response" \/ e = 0)
      BY <1>4, <2>1 DEF InitiallyExpected
    <3>3. Unlimited # 0
      BY HttpParserAssumption DEF Unlimited
    <3> QED
      BY <1>6, <3>1, <3>2, <3>3
  <2>2. CASE D # {} /\ all[l].key = kContentLengthHeader
    <3>1. l \in 1 .. n /\ e = Stoul(all[l].val)
      BY <1>3, <1>4, <1>5, <2>2 DEF l
    <3> QED
      BY <1>1, <1>2, <2>2, <3>1
  <2>3. CASE D # {} /\ all[l].key # kContentLengthHeader
    <3>1. l \in D /\ e = Unlimited
      BY <1>4, <1>5, <2>3 DEF l
    <3> QED
      BY <1>3, <2>3, <3>1
  <2> QED
    BY <2>1, <2>2, <2>3
<1>8. ASSUME mode = "request" PROVE Announced(msg) = e
  <2> DEFINE at == {i \in DOMAIN msg.headers :
                      msg.headers[i].key = kContentLengthHeader}
  <2>1. mode # "response"
    BY <1>8
  <2>2. HasHeader(msg, kContentLengthHeader) <=> at # {}
    BY DEF HasHeader
  <2>3. CASE at = {}
    <3>1. Lengths(msg) = {}
      BY <2>3 DEF Lengths, LengthHeaders
    <3> QED
      BY <1>7, <2>1, <2>2, <2>3, <3>1 DEF Announced
  <2>4. CASE at # {}
    <3>1. all = msg.headers
      BY <2>2, <2>4 DEF AllHeaders, all
    <3>2. DOMAIN msg.headers = 1 .. n
      BY <3>1, MessageFacts DEF n
    <3>3. at = {i \in 1 .. n : all[i].key = kContentLengthHeader}
      BY <3>1, <3>2
    <3>4. D = at
      BY <1>3, <2>1, <3>3
    <3>5. Min(at) \in at
      <4>1. at \subseteq Nat
        BY <3>3
      <4> HIDE DEF at
      <4> QED
        BY <2>4, <4>1, MinNat
    <3>6. l \in at
      BY <1>5, <2>4, <3>4 DEF l
    <3>7. Min(at) = l
      BY <1>1, <3>3, <3>5, <3>6
    <3>8. GetHeader(msg, kContentLengthHeader) = msg.headers[Min(at)].val
      BY <2>4 DEF GetHeader
    <3>9. Announced(msg) = Stoul(all[l].val)
      BY <2>2, <2>4, <3>1, <3>7, <3>8 DEF Announced
    <3>10. e = Stoul(all[l].val)
      BY <1>4, <2>4, <3>3, <3>4, <3>6 DEF l
    <3> QED
      BY <3>9, <3>10
  <2> QED
    BY <2>3, <2>4
<1> QED
  BY <1>7, <1>8 DEF e, n, all

-----------------------------------------------------------------------------
(* One word takes the parser to where it is before the next                *)

\* What ParseWord may make of the k-th word.
Parsed(q, mode, msg, k) ==
    \/ ~ q.ok
    \/ /\ k < Words(msg)
       /\ k + 1 > 4 => Numbers(msg, (k + 1) - 4)
       /\ q = Before(mode, msg, k + 1, << >>)
    \/ /\ k = Words(msg)
       /\ q = Behind(mode, msg, IF ExpectedBefore(mode, msg, k) = 0
                                THEN "S_DONE" ELSE "S_BODY", << >>)

\* The first k headers, one after the other.
LEMMA OneMore ==
    ASSUME NEW S, NEW s \in Seq(S), NEW n \in 1 .. Len(s)
    PROVE  /\ SubSeq(s, 1, n) = Append(SubSeq(s, 1, n - 1), s[n])
           /\ SubSeq(s, 1, 0) = << >>
<1>1. Len(s) \in Nat /\ n \in Nat /\ n - 1 \in Nat /\ n <= Len(s) /\ n - 1 <= Len(s)
  OBVIOUS
<1> DEFINE v == SubSeq(s, 1, n)
           u == SubSeq(s, 1, n - 1)
           a == Append(u, s[n])
<1>2. v \in Seq(S) /\ Len(v) = n /\ \A i \in 1 .. n : v[i] = s[i]
  BY ONLY s \in Seq(S), <1>1, Prefix
<1>3. u \in Seq(S) /\ Len(u) = n - 1 /\ \A i \in 1 .. n - 1 : u[i] = s[i]
  BY ONLY s \in Seq(S), <1>1, Prefix
<1>4. s[n] \in S
  OBVIOUS
<1> HIDE DEF u, v
<1>5. a \in Seq(S) /\ Len(a) = n /\ a[n] = s[n]
      /\ \A i \in 1 .. n - 1 : a[i] = u[i]
  BY <1>1, <1>3, <1>4
<1> HIDE DEF a
<1>6. \A i \in 1 .. n : i \in 1 .. n - 1 \/ i = n
  BY <1>1
<1>7. \A i \in 1 .. Len(v) : v[i] = a[i]
  BY <1>2, <1>3, <1>5, <1>6
<1>8. v = a
  BY ONLY <1>2, <1>5, <1>7, SameSeq
<1>9. SubSeq(s, 1, 0) = << >>
  <2>1. 0 \in Nat /\ 0 <= Len(s)
    BY <1>1
  <2>2. SubSeq(s, 1, 0) \in Seq(S) /\ Len(SubSeq(s, 1, 0)) = 0
    BY ONLY s \in Seq(S), <2>1, Prefix
  <2> QED
    BY <2>2
<1> QED
  BY <1>8, <1>9 DEF v, a, u

LEMMA FirstWordParsed ==
    ASSUME NEW msg, WellFormed(msg), NEW mode \in Mode, NEW buf
    PROVE  Parsed(ParseWord(Before(mode, msg, 1, buf), WordAt(mode, msg, 1)),
                  mode, msg, 1)
<1> DEFINE p == Before(mode, msg, 1, buf)
           word == WordAt(mode, msg, 1)
           q == ParseWord(p, word)
           next == Before(mode, msg, 2, << >>)
<1>1. 1 < Words(msg) /\ ~ (1 + 1 > 4) /\ 1 + 1 = 2
  BY WordsAre
<1>2. p = [mode |-> mode, ok |-> TRUE, buf |-> buf, read |-> 0, expected |-> 0,
           state |-> StateBefore(mode, 1), msg |-> NoMessage]
  BY DEF Before, ExpectedBefore, MessageBefore, NoMessage
<1>3. ExpectedBefore(mode, msg, 2) = InitiallyExpected(mode, msg)
  BY ExpectedFirst DEF ExpectedBefore
<1>4. CASE mode = "request"
  <2>1. word = msg.method /\ StateBefore(mode, 1) = "S_REQ_METHOD"
        /\ StateBefore(mode, 2) = "S_REQ_URI"
        /\ InitiallyExpected(mode, msg) = 0
    BY <1>4 DEF WordAt, FirstWord, StateBefore, InitiallyExpected
  <2>2. q = ParseMethod(p, word)
    BY <1>2, <2>1 DEF ParseWord
  <2>3. MessageBefore(mode, msg, 2, << >>) = [NoMessage EXCEPT !.method = msg.method]
    BY <1>4 DEF MessageBefore, NoMessage
  <2>4. next = [mode |-> mode, ok |-> TRUE, buf |-> << >>, read |-> 0,
                expected |-> 0, state |-> "S_REQ_URI",
                msg |-> [NoMessage EXCEPT !.method = msg.method]]
    BY <1>3, <2>1, <2>3 DEF Before
  <2> HIDE DEF p, word, next
  <2>5. CASE word \in Method
    <3>1. q = Goto([p EXCEPT !.msg.method = word], "S_REQ_URI")
      BY <2>2, <2>5 DEF ParseMethod
    <3>2. q = next
      BY <1>2, <2>1, <2>4, <3>1 DEF Goto
    <3> QED
      BY <1>1, <3>2 DEF Parsed, next, p, word
  <2>6. CASE word \notin Method
    <3>1. q = Fail(p)
      BY <2>2, <2>6 DEF ParseMethod
    <3>2. ~ q.ok
      BY <1>2, <3>1 DEF Fail
    <3> QED
      BY <3>2 DEF Parsed, p, word
  <2> QED
    BY <2>5, <2>6
<1>5. CASE mode = "response"
  <2>1. word = msg.version /\ StateBefore(mode, 1) = "S_RES_VERSION"
        /\ StateBefore(mode, 2) = "S_RES_STATUS_CODE"
        /\ InitiallyExpected(mode, msg) =
              IF IsPrefix(msg.version, Http10) THEN Unlimited ELSE 0
    BY <1>5 DEF WordAt, FirstWord, StateBefore, InitiallyExpected
  <2>2. q = ParseResponseVersion(p, word)
    BY <1>2, <2>1 DEF ParseWord
  <2>3. MessageBefore(mode, msg, 2, << >>) = [NoMessage EXCEPT !.version = msg.version]
    BY <1>5 DEF MessageBefore, NoMessage
  <2>4. next = [mode |-> mode, ok |-> TRUE, buf |-> << >>, read |-> 0,
                expected |-> IF IsPrefix(msg.version, Http10) THEN Unlimited ELSE 0,
                state |-> "S_RES_STATUS_CODE",
                msg |-> [NoMessage EXCEPT !.version = msg.version]]
    BY <1>3, <2>1, <2>3 DEF Before
  <2> HIDE DEF p, word, next
  <2>5. q = next
    BY <1>2, <2>1, <2>2, <2>4 DEF ParseResponseVersion, Goto
  <2> QED
    BY <1>1, <2>5 DEF Parsed, next, p, word
<1> QED
  BY <1>4, <1>5 DEF Mode

LEMMA SecondWordParsed ==
    ASSUME NEW msg, WellFormed(msg), NEW mode \in Mode, NEW buf
    PROVE  Parsed(ParseWord(Before(mode, msg, 2, buf), WordAt(mode, msg, 2)),
                  mode, msg, 2)
<1> DEFINE p == Before(mode, msg, 2, buf)
           word == WordAt(mode, msg, 2)
           q == ParseWord(p, word)
           next == Before(mode, msg, 3, << >>)
           old == MessageBefore(mode, msg, 2, << >>)
           new == MessageBefore(mode, msg, 3, << >>)
           e == ExpectedBefore(mode, msg, 2)
<1>1. 2 < Words(msg) /\ ~ (2 + 1 > 4) /\ 2 + 1 = 3
  BY WordsAre
<1>2. p = [mode |-> mode, ok |-> TRUE, buf |-> buf, read |-> 0, expected |-> e,
           state |-> StateBefore(mode, 2), msg |-> old]
  BY DEF Before
<1>3. next = [mode |-> mode, ok |-> TRUE, buf |-> << >>, read |-> 0,
              expected |-> e, state |-> StateBefore(mode, 3), msg |-> new]
  BY DEF Before, ExpectedBefore
<1>4. CASE mode = "request"
  <2>1. word = msg.uri /\ StateBefore(mode, 2) = "S_REQ_URI"
        /\ StateBefore(mode, 3) = "S_REQ_VERSION"
    BY <1>4 DEF WordAt, SecondWord, StateBefore
  <2>2. q = ParseURI(p, word)
    BY <1>2, <2>1 DEF ParseWord
  <2>3. new = [old EXCEPT !.uri = msg.uri]
    BY <1>4 DEF MessageBefore
  <2> HIDE DEF p, word, next, old, new, e
  <2>4. q = next
    BY <1>2, <1>3, <2>1, <2>2, <2>3 DEF ParseURI, Goto
  <2> QED
    BY <1>1, <2>4 DEF Parsed, next, p, word
<1>5. CASE mode = "response"
  <2>1. word = ToNumeral(msg.status)
        /\ StateBefore(mode, 2) = "S_RES_STATUS_CODE"
        /\ StateBefore(mode, 3) = "S_RES_STATUS_NAME"
    BY <1>5 DEF WordAt, SecondWord, StateBefore
  <2>2. q = ParseResponseStatusCode(p, word)
    BY <1>2, <2>1 DEF ParseWord
  <2>3. new = [old EXCEPT !.status = msg.status]
    BY <1>5 DEF MessageBefore
  <2>4. StoiAccepts(word) /\ Stoi(word) = msg.status
    BY <2>1, MessageFacts, StatusNumeral
  <2> HIDE DEF p, word, next, old, new, e
  <2>5. q = Goto([p EXCEPT !.msg.status = msg.status], "S_RES_STATUS_NAME")
    BY <2>2, <2>4 DEF ParseResponseStatusCode
  <2>6. q = next
    BY <1>2, <1>3, <2>1, <2>3, <2>5 DEF Goto
  <2> QED
    BY <1>1, <2>6 DEF Parsed, next, p, word
<1> QED
  BY <1>4, <1>5 DEF Mode

LEMMA ThirdWordParsed ==
    ASSUME NEW msg, WellFormed(msg), NEW mode \in Mode, NEW buf
    PROVE  Parsed(ParseWord(Before(mode, msg, 3, buf), WordAt(mode, msg, 3)),
                  mode, msg, 3)
<1> DEFINE p == Before(mode, msg, 3, buf)
           word == WordAt(mode, msg, 3)
           q == ParseWord(p, word)
           next == Before(mode, msg, 4, << >>)
           old == MessageBefore(mode, msg, 3, << >>)
           new == MessageBefore(mode, msg, 4, << >>)
           e == ExpectedBefore(mode, msg, 3)
<1>1. 3 < Words(msg) /\ 3 + 1 = 4 /\ ~ (4 > 4)
  BY WordsAre
<1>2. p = [mode |-> mode, ok |-> TRUE, buf |-> buf, read |-> 0, expected |-> e,
           state |-> StateBefore(mode, 3), msg |-> old]
  BY DEF Before
<1>3. next = [mode |-> mode, ok |-> TRUE, buf |-> << >>, read |-> 0,
              expected |-> e, state |-> "S_HEADER", msg |-> new]
  BY DEF Before, ExpectedBefore, StateBefore
<1>4. CASE mode = "request"
  <2>1. word = msg.version \o <<CR>> /\ StateBefore(mode, 3) = "S_REQ_VERSION"
    BY <1>4 DEF WordAt, ThirdWord, StateBefore
  <2>2. q = ParseRequestVersion(p, word)
    BY <1>2, <2>1 DEF ParseWord
  <2>3. new = [old EXCEPT !.version = msg.version]
    BY <1>4 DEF MessageBefore
  <2>4. Strip(word) = msg.version
    <3> DEFINE v == msg.version
    <3>1. v \in Word({SP, CR, LF})
      BY MessageFacts
    <3> HIDE DEF v
    <3>2. v \in Seq(Symbol) /\ (v # << >> => v[Len(v)] # CR)
      <4>1. v \in Seq(Symbol) /\ Len(v) \in Nat
            /\ \A i \in 1 .. Len(v) : v[i] \notin {SP, CR, LF}
        BY <3>1, WordFacts
      <4>2. v # << >> => Len(v) \in 1 .. Len(v)
        BY <4>1
      <4> QED
        BY <4>1, <4>2
    <3>3. Strip(v \o <<CR>>) = v
      BY ONLY <3>2, StripEnd
    <3> QED
      BY <2>1, <3>3 DEF v
  <2> HIDE DEF p, word, next, old, new, e
  <2>5. q = next
    BY <1>2, <1>3, <2>2, <2>3, <2>4 DEF ParseRequestVersion, Goto
  <2> QED
    BY <1>1, <2>5 DEF Parsed, next, p, word
<1>5. CASE mode = "response"
  <2>1. StateBefore(mode, 3) = "S_RES_STATUS_NAME"
    BY <1>5 DEF StateBefore
  <2>2. q = ParseResponseStatusName(p, word)
    BY <1>2, <2>1 DEF ParseWord
  <2>3. new = old
    BY <1>5 DEF MessageBefore
  <2> HIDE DEF p, word, next, old, new, e
  <2>4. q = next
    BY <1>2, <1>3, <2>2, <2>3 DEF ParseResponseStatusName, Goto
  <2> QED
    BY <1>1, <2>4 DEF Parsed, next, p, word
<1> QED
  BY <1>4, <1>5 DEF Mode

LEMMA HeaderWordParsed ==
    ASSUME NEW msg, WellFormed(msg), NEW mode \in Mode, NEW buf,
           NEW k \in 4 .. Words(msg) - 1, k > 4 => Numbers(msg, k - 4)
    PROVE  Parsed(ParseWord(Before(mode, msg, k, buf), WordAt(mode, msg, k)),
                  mode, msg, k)
<1> DEFINE all == AllHeaders(msg)
           n == k - 3
           h == all[n]
           p == Before(mode, msg, k, buf)
           word == WordAt(mode, msg, k)
           q == ParseWord(p, word)
           next == Before(mode, msg, k + 1, << >>)
           old == MessageBefore(mode, msg, k, << >>)
           new == MessageBefore(mode, msg, k + 1, << >>)
           e == ExpectedBefore(mode, msg, k)
           e2 == ExpectedBefore(mode, msg, k + 1)
           parsed == ProcessHeader(p, h.key, h.val)
<1>1. /\ Words(msg) = Len(all) + 4 /\ Len(all) \in Nat /\ all \in Seq(Header)
      /\ \A i \in 1 .. Len(all) : all[i].val # << >> => all[i].val[1] # SP
  BY WordsAre, HeadersFine
<1>2. /\ k \in Nat /\ n \in 1 .. Len(all) /\ n \in Nat \ {0} /\ k < Words(msg)
      /\ k > 3 /\ k # 1 /\ k # 2 /\ k # 3 /\ (k + 1) - 4 = n /\ k - 4 = n - 1
      /\ k + 1 > 4 /\ ~ (k + 1 < 5) /\ k + 1 # 1 /\ k + 1 # 2 /\ k + 1 # 3
  BY <1>1
<1>3. h \in Header /\ (h.val # << >> => h.val[1] # SP)
  BY <1>1, <1>2
<1>4. word = h.key \o <<COLON, SP>> \o h.val \o <<CR>>
  BY <1>2 DEF WordAt
<1>5. StateBefore(mode, k) = "S_HEADER" /\ StateBefore(mode, k + 1) = "S_HEADER"
  BY <1>2 DEF StateBefore
<1>6. p = [mode |-> mode, ok |-> TRUE, buf |-> buf, read |-> 0, expected |-> e,
           state |-> "S_HEADER", msg |-> old]
  BY <1>5 DEF Before
<1>7. next = [mode |-> mode, ok |-> TRUE, buf |-> << >>, read |-> 0,
              expected |-> e2, state |-> "S_HEADER", msg |-> new]
  BY <1>5 DEF Before
<1>8. e = Expected(mode, msg, n - 1) /\ e2 = Expected(mode, msg, n)
  <2>1. CASE k = 4
    BY <1>2, <2>1 DEF ExpectedBefore
  <2>2. CASE k # 4
    <3>1. ~ (k < 5)
      BY <1>2, <2>2
    <3> QED
      BY <1>2, <3>1 DEF ExpectedBefore
  <2> QED
    BY <2>1, <2>2
<1>9. new = AddHeader(old, h.key, h.val)
  <2>1. old.headers = SubSeq(all, 1, n - 1)
    <3>1. CASE k = 4
      <4>1. old.headers = << >> /\ n - 1 = 0
        BY <1>2, <3>1 DEF MessageBefore
      <4>2. SubSeq(all, 1, 0) = << >>
        BY <1>1, <1>2, OneMore
      <4> QED
        BY <4>1, <4>2
    <3>2. CASE k # 4
      <4>1. k > 4
        BY <1>2, <3>2
      <4> QED
        BY <1>2, <4>1 DEF MessageBefore
    <3> QED
      BY <3>1, <3>2
  <2>2. new.headers = SubSeq(all, 1, n)
    BY <1>2 DEF MessageBefore
  <2>3. SubSeq(all, 1, n) = Append(SubSeq(all, 1, n - 1), h)
    BY <1>1, <1>2, OneMore
  <2>4. h = [key |-> h.key, val |-> h.val]
    BY <1>3 DEF Header
  <2>5. new = [old EXCEPT !.headers = SubSeq(all, 1, n)]
    <3> DEFINE method == IF mode = "request" THEN msg.method ELSE NoMessage.method
               uri == IF mode = "request" THEN msg.uri ELSE << >>
               status == IF mode = "response" THEN msg.status ELSE NoStatus
    <3>1. k > 1 /\ k > 2 /\ k + 1 > 1 /\ k + 1 > 2 /\ k + 1 > 3
      BY <1>2
    <3>2. old = [method |-> method, uri |-> uri, version |-> msg.version,
                 status |-> status, headers |-> old.headers, body |-> << >>]
      BY <1>2, <3>1 DEF MessageBefore
    <3>3. new = [method |-> method, uri |-> uri, version |-> msg.version,
                 status |-> status, headers |-> new.headers, body |-> << >>]
      BY <1>2, <3>1 DEF MessageBefore
    <3> HIDE DEF method, uri, status, old, new, all
    <3> QED
      BY ONLY <2>2, <3>2, <3>3
  <2> HIDE DEF old, new, all, h
  <2>6. new = [old EXCEPT !.headers = Append(old.headers, [key |-> h.key, val |-> h.val])]
    BY ONLY <2>1, <2>3, <2>4, <2>5
  <2> QED
    BY <2>6 DEF AddHeader
<1>10. e2 = IF h.key = kContentLengthHeader THEN Stoul(h.val)
            ELSE IF mode = "response" /\ h.key = kConnectionHeader /\ h.val = Close
            THEN Unlimited ELSE e
  BY <1>2, <1>8, ExpectedStep
<1>11. q = Goto(parsed, "S_HEADER")
  <2>1. q = ParseHeader(p, word)
    BY <1>6 DEF ParseWord
  <2> HIDE DEF p, h, word
  <2> QED
    BY <1>3, <1>4, <2>1, HeaderParsed
<1> HIDE DEF p, word, next, old, new, e, e2, h
<1> DEFINE stops == h.key = kContentLengthHeader /\ ~ StoulAccepts(h.val)
<1>12. CASE stops
  <2>1. parsed = Fail(p)
    BY <1>12 DEF ProcessHeader
  <2>2. ~ q.ok
    BY <1>6, <1>11, <2>1 DEF Fail, Goto
  <2> QED
    BY <2>2 DEF Parsed, p, word
<1>13. CASE ~ stops
  <2>1. parsed = [mode |-> mode, ok |-> TRUE, buf |-> buf, read |-> 0,
                  expected |-> e2, state |-> "S_HEADER", msg |-> new]
    <3>1. CASE h.key = kContentLengthHeader
      BY <1>6, <1>9, <1>10, <1>13, <3>1 DEF ProcessHeader
    <3>2. CASE h.key # kContentLengthHeader
      BY <1>6, <1>9, <1>10, <3>2 DEF ProcessHeader
    <3> QED
      BY <3>1, <3>2
  <2>2. q = next
    <3> HIDE DEF parsed
    <3> QED
      BY ONLY <1>7, <1>11, <2>1 DEF Goto
  <2>3. Numbers(msg, n)
    <3>1. \A i \in 1 .. n : i \in 1 .. n - 1 \/ i = n
      BY <1>2
    <3>2. n - 1 > 0 => Numbers(msg, n - 1)
      BY <1>2
    <3>3. \A i \in 1 .. n - 1 : all[i].key = kContentLengthHeader =>
             StoulAccepts(all[i].val)
      BY <1>2, <3>2 DEF Numbers
    <3> QED
      BY <1>13, <3>1, <3>3 DEF Numbers, h
  <2> QED
    BY <1>2, <2>2, <2>3 DEF Parsed, next, p, word
<1> QED
  BY <1>12, <1>13

LEMMA LastWordParsed ==
    ASSUME NEW msg, WellFormed(msg), NEW mode \in Mode, NEW buf
    PROVE  Parsed(ParseWord(Before(mode, msg, Words(msg), buf),
                            WordAt(mode, msg, Words(msg))),
                  mode, msg, Words(msg))
<1> DEFINE k == Words(msg)
           p == Before(mode, msg, k, buf)
           word == WordAt(mode, msg, k)
           q == ParseWord(p, word)
           e == ExpectedBefore(mode, msg, k)
           m == MessageBefore(mode, msg, k, << >>)
           state == IF e = 0 THEN "S_DONE" ELSE "S_BODY"
           next == Behind(mode, msg, state, << >>)
<1>1. k # 1 /\ k # 2 /\ k # 3 /\ ~ (k < Words(msg))
  BY WordsAre
<1>2. word = <<CR>> /\ StateBefore(mode, k) = "S_HEADER"
  BY <1>1 DEF WordAt, StateBefore
<1>3. p = [mode |-> mode, ok |-> TRUE, buf |-> buf, read |-> 0, expected |-> e,
           state |-> "S_HEADER", msg |-> m]
  BY <1>2 DEF Before
<1>4. q = Goto(p, state)
  <2>1. q = ParseHeader(p, <<CR>>)
    BY <1>2, <1>3 DEF ParseWord
  <2>2. p.expected = e
    BY <1>3
  <2> HIDE DEF p
  <2> QED
    BY <2>1, <2>2, EmptyLineParsed
<1>5. next = [mode |-> mode, ok |-> TRUE, buf |-> << >>, read |-> 0,
              expected |-> e, state |-> state, msg |-> m]
  BY DEF Behind
<1>6. q = next
  <2> HIDE DEF p, next, e, m
  <2> QED
    BY <1>3, <1>4, <1>5 DEF Goto
<1> QED
  BY <1>6 DEF Parsed

\* A parser that gets a word of the text goes on to the next one, or stops.
LEMMA WordParsed ==
    ASSUME NEW msg, WellFormed(msg), NEW mode \in Mode, NEW buf,
           NEW k \in 1 .. Words(msg), k > 4 => Numbers(msg, k - 4)
    PROVE  Parsed(ParseWord(Before(mode, msg, k, buf), WordAt(mode, msg, k)),
                  mode, msg, k)
<1>1. Words(msg) \in Nat /\ Words(msg) >= 4
  BY WordsAre
<1>2. k = 1 \/ k = 2 \/ k = 3 \/ k \in 4 .. Words(msg) - 1 \/ k = Words(msg)
  BY <1>1
<1> QED
  BY <1>2, FirstWordParsed, SecondWordParsed, ThirdWordParsed,
     HeaderWordParsed, LastWordParsed

-----------------------------------------------------------------------------
(* Pieces of a text                                                        *)

LEMMA ContinuesAt ==
    ASSUME NEW text \in Seq(Symbol), NEW n \in Nat, NEW piece \in Seq(Symbol)
    PROVE  Continues(piece, text, n) <=>
             /\ n + Len(piece) <= Len(text)
             /\ \A i \in 1 .. Len(piece) : piece[i] = text[n + i]
<1> DEFINE m == n + Len(piece)
           v == SubSeq(text, n + 1, m)
<1>1. Len(piece) \in Nat /\ Len(text) \in Nat
  OBVIOUS
<1>2. m \in Nat /\ n <= m /\ m - n = Len(piece)
  BY <1>1
<1>3. CASE m <= Len(text)
  <2> HIDE DEF m
  <2>1. v \in Seq(Symbol) /\ Len(v) = m - n /\ \A i \in 1 .. m - n : v[i] = text[n + i]
    BY ONLY text \in Seq(Symbol), n \in Nat, <1>2, <1>3, Part
  <2>2. Continues(piece, text, n) <=> piece = v
    BY <1>3 DEF Continues, m
  <2> HIDE DEF v
  <2>3. piece = v => \A i \in 1 .. Len(piece) : piece[i] = text[n + i]
    BY <1>2, <2>1
  <2>4. ASSUME \A i \in 1 .. Len(piece) : piece[i] = text[n + i] PROVE piece = v
    <3>1. Len(piece) = Len(v) /\ \A i \in 1 .. Len(piece) : piece[i] = v[i]
      BY <1>2, <2>1, <2>4
    <3> QED
      BY ONLY piece \in Seq(Symbol), <2>1, <3>1, SameSeq
  <2> QED
    BY <1>3, <2>2, <2>3, <2>4 DEF m
<1>4. CASE ~ (m <= Len(text))
  BY <1>4 DEF Continues
<1> QED
  BY <1>3, <1>4

\* The first m symbols of a piece, and the others.
LEMMA ContinuesParts ==
    ASSUME NEW text \in Seq(Symbol), NEW n \in Nat, NEW piece \in Seq(Symbol),
           Continues(piece, text, n), NEW m \in 0 .. Len(piece)
    PROVE  /\ SubSeq(piece, 1, m) \in Seq(Symbol)
           /\ Len(SubSeq(piece, 1, m)) = m
           /\ Continues(SubSeq(piece, 1, m), text, n)
           /\ SubSeq(piece, m + 1, Len(piece)) \in Seq(Symbol)
           /\ Len(SubSeq(piece, m + 1, Len(piece))) = Len(piece) - m
           /\ Continues(SubSeq(piece, m + 1, Len(piece)), text, n + m)
<1> DEFINE a == SubSeq(piece, 1, m)
           b == SubSeq(piece, m + 1, Len(piece))
<1>1. /\ Len(piece) \in Nat /\ Len(text) \in Nat /\ m \in Nat
      /\ m <= Len(piece) /\ Len(piece) <= Len(piece) /\ n + m \in Nat
  OBVIOUS
<1>2. /\ n + Len(piece) <= Len(text)
      /\ \A i \in 1 .. Len(piece) : piece[i] = text[n + i]
  BY ContinuesAt
<1>3. a \in Seq(Symbol) /\ Len(a) = m /\ \A i \in 1 .. m : a[i] = piece[i]
  BY ONLY piece \in Seq(Symbol), <1>1, Prefix
<1>4. /\ b \in Seq(Symbol) /\ Len(b) = Len(piece) - m
      /\ \A i \in 1 .. Len(piece) - m : b[i] = piece[m + i]
  BY ONLY piece \in Seq(Symbol), <1>1, Part
<1> HIDE DEF a, b
<1>5. Continues(a, text, n)
  <2>1. n + Len(a) <= Len(text)
    BY <1>1, <1>2, <1>3
  <2>2. \A i \in 1 .. Len(a) : i \in 1 .. m /\ i \in 1 .. Len(piece)
    BY <1>1, <1>3
  <2>3. \A i \in 1 .. Len(a) : a[i] = text[n + i]
    BY <1>2, <1>3, <2>2
  <2> QED
    BY ONLY text \in Seq(Symbol), n \in Nat, <1>3, <2>1, <2>3, ContinuesAt
<1>6. Continues(b, text, n + m)
  <2>1. (n + m) + Len(b) <= Len(text)
    BY <1>1, <1>2, <1>4
  <2>2. ASSUME NEW i \in 1 .. Len(b) PROVE b[i] = text[(n + m) + i]
    <3>1. /\ i \in 1 .. Len(piece) - m /\ m + i \in 1 .. Len(piece)
          /\ n + (m + i) = (n + m) + i
      BY <1>1, <1>4
    <3> QED
      BY <1>2, <1>4, <3>1
  <2> QED
    BY ONLY text \in Seq(Symbol), <1>1, <1>4, <2>1, <2>2, ContinuesAt
<1> QED
  BY <1>3, <1>4, <1>5, <1>6 DEF a, b

\* Two pieces, one behind the other.
LEMMA ContinuesJoined ==
    ASSUME NEW text \in Seq(Symbol), NEW n \in Nat,
           NEW a \in Seq(Symbol), NEW b \in Seq(Symbol)
    PROVE  Continues(a \o b, text, n) <=>
             Continues(a, text, n) /\ Continues(b, text, n + Len(a))
<1> DEFINE u == a \o b
<1>1. /\ u \in Seq(Symbol) /\ Len(u) = Len(a) + Len(b)
      /\ \A i \in 1 .. Len(a) : u[i] = a[i]
      /\ \A i \in 1 .. Len(b) : u[Len(a) + i] = b[i]
  BY ONLY a \in Seq(Symbol), b \in Seq(Symbol), Joined
<1> HIDE DEF u
<1>2. Len(a) \in Nat /\ Len(b) \in Nat /\ Len(text) \in Nat /\ n + Len(a) \in Nat
  OBVIOUS
<1>3. Continues(u, text, n) <=>
        /\ n + Len(u) <= Len(text)
        /\ \A i \in 1 .. Len(u) : u[i] = text[n + i]
  BY ONLY text \in Seq(Symbol), n \in Nat, <1>1, ContinuesAt
<1>4. Continues(a, text, n) <=>
        /\ n + Len(a) <= Len(text)
        /\ \A i \in 1 .. Len(a) : a[i] = text[n + i]
  BY ContinuesAt
<1>5. Continues(b, text, n + Len(a)) <=>
        /\ (n + Len(a)) + Len(b) <= Len(text)
        /\ \A i \in 1 .. Len(b) : b[i] = text[(n + Len(a)) + i]
  BY ONLY text \in Seq(Symbol), b \in Seq(Symbol), <1>2, ContinuesAt
<1>6. ASSUME Continues(u, text, n)
      PROVE  Continues(a, text, n) /\ Continues(b, text, n + Len(a))
  <2>1. n + Len(a) <= Len(text) /\ (n + Len(a)) + Len(b) <= Len(text)
    BY <1>1, <1>2, <1>3, <1>6
  <2>2. ASSUME NEW i \in 1 .. Len(a) PROVE a[i] = text[n + i]
    <3>1. i \in 1 .. Len(u)
      BY <1>1, <1>2
    <3> QED
      BY <1>1, <1>3, <1>6, <3>1
  <2>3. ASSUME NEW i \in 1 .. Len(b) PROVE b[i] = text[(n + Len(a)) + i]
    <3>1. Len(a) + i \in 1 .. Len(u) /\ n + (Len(a) + i) = (n + Len(a)) + i
      BY <1>1, <1>2
    <3> QED
      BY <1>1, <1>3, <1>6, <3>1
  <2> QED
    BY ONLY <1>4, <1>5, <2>1, <2>2, <2>3
<1>7. ASSUME Continues(a, text, n), Continues(b, text, n + Len(a))
      PROVE  Continues(u, text, n)
  <2>1. n + Len(u) <= Len(text)
    BY <1>1, <1>2, <1>5, <1>7
  <2>2. ASSUME NEW i \in 1 .. Len(u) PROVE u[i] = text[n + i]
    <3>1. CASE i <= Len(a)
      <4>1. i \in 1 .. Len(a)
        BY <1>2, <3>1
      <4> QED
        BY <1>1, <1>4, <1>7, <4>1
    <3>2. CASE i > Len(a)
      <4>1. /\ i - Len(a) \in 1 .. Len(b) /\ Len(a) + (i - Len(a)) = i
            /\ (n + Len(a)) + (i - Len(a)) = n + i
        BY <1>1, <1>2, <3>2
      <4> QED
        BY <1>1, <1>5, <1>7, <4>1
    <3> QED
      BY <1>2, <3>1, <3>2
  <2> QED
    BY ONLY <1>3, <2>1, <2>2
<1> QED
  BY <1>6, <1>7 DEF u

-----------------------------------------------------------------------------
(* One round of the parser                                                 *)

LEMMA DelimiterIs ==
    ASSUME NEW mode \in Mode, NEW k \in Nat \ {0}
    PROVE  /\ Delimiter(StateBefore(mode, k)) = StopAt(k)
           /\ StateBefore(mode, k) \notin {"S_BODY", "S_DONE"}
<1>1. k = 1 \/ k = 2 \/ k = 3 \/ (k # 1 /\ k # 2 /\ k # 3 /\ ~ (k <= 2))
  OBVIOUS
<1>2. CASE k = 1
  BY <1>2 DEF Delimiter, StateBefore, StopAt
<1>3. CASE k = 2
  BY <1>3 DEF Delimiter, StateBefore, StopAt
<1>4. CASE k = 3
  BY <1>4 DEF Delimiter, StateBefore, StopAt
<1>5. CASE k # 1 /\ k # 2 /\ k # 3 /\ ~ (k <= 2)
  BY <1>5 DEF Delimiter, StateBefore, StopAt
<1> QED
  BY <1>1, <1>2, <1>3, <1>4, <1>5

\* The beginning of a word, and what of it the next piece holds.
LEMMA WordGrows ==
    ASSUME NEW w \in Seq(Symbol), NEW d \in Seq(Symbol), NEW j \in 0 .. Len(w),
           NEW m \in 0 .. Len(d), j + m <= Len(w),
           \A i \in 1 .. m : d[i] = w[j + i]
    PROVE  SubSeq(w, 1, j) \o SubSeq(d, 1, m) = SubSeq(w, 1, j + m)
<1>1. /\ Len(w) \in Nat /\ Len(d) \in Nat /\ j \in Nat /\ m \in Nat
      /\ j <= Len(w) /\ m <= Len(d) /\ j + m \in Nat
  OBVIOUS
<1> DEFINE a == SubSeq(w, 1, j)
           b == SubSeq(d, 1, m)
           v == SubSeq(w, 1, j + m)
           u == a \o b
<1>2. a \in Seq(Symbol) /\ Len(a) = j /\ \A i \in 1 .. j : a[i] = w[i]
  BY ONLY w \in Seq(Symbol), <1>1, Prefix
<1>3. b \in Seq(Symbol) /\ Len(b) = m /\ \A i \in 1 .. m : b[i] = d[i]
  BY ONLY d \in Seq(Symbol), <1>1, Prefix
<1>4. v \in Seq(Symbol) /\ Len(v) = j + m /\ \A i \in 1 .. j + m : v[i] = w[i]
  <2> DEFINE jm == j + m
  <2>1. jm \in Nat /\ jm <= Len(w)
    BY <1>1
  <2> HIDE DEF jm
  <2>2. /\ SubSeq(w, 1, jm) \in Seq(Symbol) /\ Len(SubSeq(w, 1, jm)) = jm
        /\ \A i \in 1 .. jm : SubSeq(w, 1, jm)[i] = w[i]
    BY ONLY w \in Seq(Symbol), <2>1, Prefix
  <2> QED
    BY <2>2 DEF jm
<1> HIDE DEF a, b, v
<1>5. /\ u \in Seq(Symbol) /\ Len(u) = Len(a) + Len(b)
      /\ \A i \in 1 .. Len(a) : u[i] = a[i]
      /\ \A i \in 1 .. Len(b) : u[Len(a) + i] = b[i]
  <2>1. a \in Seq(Symbol) /\ b \in Seq(Symbol)
    BY <1>2, <1>3
  <2> QED
    BY ONLY <2>1, Joined
<1> HIDE DEF u
<1>6. ASSUME NEW i \in 1 .. Len(u) PROVE u[i] = v[i]
  <2>1. i \in 1 .. j + m /\ v[i] = w[i]
    BY <1>2, <1>3, <1>4, <1>5
  <2>2. CASE i <= j
    <3>1. i \in 1 .. j
      BY <1>1, <2>1, <2>2
    <3> QED
      BY <1>2, <1>5, <2>1, <3>1
  <2>3. CASE i > j
    <3>1. i - j \in 1 .. m /\ j + (i - j) = i
      BY <1>1, <2>1, <2>3
    <3>2. u[i] = b[i - j] /\ b[i - j] = d[i - j] /\ d[i - j] = w[i]
      BY <1>2, <1>3, <1>5, <3>1
    <3> QED
      BY <2>1, <3>2
  <2> QED
    BY <1>1, <2>1, <2>2, <2>3
<1>7. u = v
  <2>1. Len(u) = Len(v)
    BY <1>2, <1>3, <1>4, <1>5
  <2> QED
    BY ONLY <1>4, <1>5, <1>6, <2>1, SameSeq
<1> QED
  BY <1>7 DEF u, v, a, b

\* What one round makes of a parser that has read n symbols of a text, and of
\* the piece that follows.
Advances(r, data, mode, msg, text, n) ==
    \/ ~ r.parser.ok
    \/ \E m \in 1 .. Len(data) :
          /\ r = [parser |-> r.parser, data |-> SubSeq(data, m + 1, Len(data))]
          /\ Reads(r.parser, mode, msg, text, n + m)

LEMMA RoundInWord ==
    ASSUME NEW msg, WellFormed(msg), NEW mode \in Mode, NEW extra \in Seq(Symbol),
           NEW n \in Nat, NEW data \in Seq(Symbol), data # << >>,
           Continues(data, Text(mode, msg, extra), n),
           NEW p, NEW k \in 1 .. Words(msg), InWord(p, mode, msg, k, n)
    PROVE  Advances(ParseRound([parser |-> p, data |-> data]), data, mode, msg,
                    Text(mode, msg, extra), n)
<1> DEFINE E == EndsAt(mode, msg)
           W == Words(msg)
           text == Text(mode, msg, extra)
           w == WordAt(mode, msg, k)
           begin == E[k - 1]
           j == n - begin
           rest == Len(w) - j
           buf == SubSeq(w, 1, j)
           stop == StopAt(k)
           stops == {i \in DOMAIN data : data[i] = stop} \cup {Len(data) + 1}
           at == Min(stops)
           round == [parser |-> p, data |-> data]
           r == ParseRound(round)
           word == ReadUntil(p, data, at)
<1>1. /\ W \in Nat /\ W >= 4 /\ k \in Nat \ {0} /\ k \in 0 .. W /\ k - 1 \in 0 .. W
      /\ (k < W => k + 1 \in 1 .. W /\ k + 1 \in 0 .. W /\ (k + 1) - 1 = k)
  BY WordsAre
<1>2. /\ w \in Seq(Symbol) /\ w \in Word({stop}) /\ Len(w) \in Nat
  BY WordTypes
<1>3. /\ begin \in Nat /\ E[k] \in Nat /\ E[k] = begin + Len(w) + 1
      /\ (k < W => E[k + 1] \in Nat /\ E[k] < E[k + 1])
  <2>1. begin \in Nat /\ E[k] \in Nat /\ E[k] = begin + Len(w) + 1
    BY <1>1, EndsSteps
  <2>2. ASSUME k < W PROVE E[k + 1] \in Nat /\ E[k] < E[k + 1]
    <3>1. /\ E[k + 1] \in Nat
          /\ E[k + 1] = E[k] + Len(WordAt(mode, msg, k + 1)) + 1
      BY <1>1, <2>2, EndsSteps
    <3>2. Len(WordAt(mode, msg, k + 1)) \in Nat
      BY <1>1, <2>2, WordTypes
    <3> DEFINE x == E[k]
               y == E[k + 1]
               z == Len(WordAt(mode, msg, k + 1))
    <3>3. x \in Nat /\ y \in Nat /\ z \in Nat /\ y = x + z + 1
      BY <2>1, <3>1, <3>2
    <3> HIDE DEF x, y, z
    <3>4. y \in Nat /\ x < y
      BY ONLY <3>3
    <3> QED
      BY <3>4 DEF x, y
  <2> QED
    BY <2>1, <2>2
<1>4. /\ begin <= n /\ n < E[k] /\ (k > 4 => Numbers(msg, k - 4))
      /\ p = Before(mode, msg, k, buf)
  BY DEF InWord
<1>5. /\ text \in Seq(Symbol) /\ Len(text) \in Nat
      /\ Len(text) = E[W] + Len(msg.body) + Len(extra)
      /\ Stands(text, mode, msg, k)
  BY TextLaid
<1>6. /\ Len(data) \in Nat /\ Len(data) > 0 /\ DOMAIN data = 1 .. Len(data)
  OBVIOUS
<1>7. /\ n + Len(data) <= Len(text)
      /\ \A i \in 1 .. Len(data) : data[i] = text[n + i]
  <2>1. Continues(data, text, n)
    OBVIOUS
  <2> HIDE DEF text
  <2> QED
    BY ONLY <1>5, n \in Nat, data \in Seq(Symbol), <2>1, ContinuesAt
<1>8. /\ \A i \in 1 .. Len(w) : text[begin + i] = w[i]
      /\ text[E[k]] = stop
  BY <1>5 DEF Stands
<1>9. \A i \in 1 .. Len(w) : w[i] # stop
  BY <1>2, WordFacts
<1>10. /\ p = [mode |-> mode, ok |-> TRUE, buf |-> buf, read |-> 0,
               expected |-> ExpectedBefore(mode, msg, k),
               state |-> StateBefore(mode, k),
               msg |-> MessageBefore(mode, msg, k, << >>)]
       /\ p.ok = TRUE /\ p.state = StateBefore(mode, k) /\ p.buf = buf
  BY <1>4 DEF Before
<1>11. Delimiter(p.state) = stop /\ p.state # "S_BODY" /\ p.state # "S_DONE"
  <2> HIDE DEF stop
  <2> QED
    BY <1>1, <1>10, DelimiterIs DEF stop
<1>12. r = IF at <= Len(data)
           THEN [parser |-> ParseWord(p, word),
                 data |-> SubSeq(data, at + 1, Len(data))]
           ELSE [parser |-> IF Len(word) > MaxSize(p.state) THEN Fail(p)
                            ELSE [p EXCEPT !.buf = word],
                 data |-> << >>]
  <2>1. round.parser = p /\ round.data = data
    OBVIOUS
  <2> HIDE DEF round
  <2> QED
    BY <1>10, <1>11, <2>1 DEF ParseRound
<1> HIDE DEF E, W, text, w, begin, stop, round, r
<1>13. j \in Nat /\ j \in 0 .. Len(w) /\ rest \in Nat /\ j + rest = Len(w)
       /\ begin + j = n /\ n + rest + 1 = E[k]
  BY <1>2, <1>3, <1>4
<1> HIDE DEF j, rest
<1>14. \A i \in 1 .. Len(data) : i <= rest => data[i] = w[j + i] /\ data[i] # stop
  <2>1. ASSUME NEW i \in 1 .. Len(data), i <= rest
        PROVE  data[i] = w[j + i] /\ data[i] # stop
    <3>1. j + i \in 1 .. Len(w) /\ begin + (j + i) = n + i
      BY <1>2, <1>3, <1>13, <2>1
    <3>2. data[i] = text[n + i] /\ text[n + i] = w[j + i]
      BY <1>7, <1>8, <3>1
    <3> QED
      BY <1>9, <3>1, <3>2
  <2> QED
    BY <2>1
<1>15. ASSUME NEW m \in 0 .. Len(data), m <= rest
       PROVE  buf \o SubSeq(data, 1, m) = SubSeq(w, 1, j + m)
  <2>1. j + m <= Len(w) /\ \A i \in 1 .. m : i \in 1 .. Len(data) /\ i <= rest
    BY <1>2, <1>6, <1>13, <1>15
  <2>2. \A i \in 1 .. m : data[i] = w[j + i]
    BY <1>14, <2>1
  <2>3. j \in 0 .. Len(w) /\ w \in Seq(Symbol)
    BY <1>2, <1>13
  <2> QED
    BY ONLY <1>15, data \in Seq(Symbol), <2>1, <2>2, <2>3, WordGrows
<1>16. word = buf \o SubSeq(data, 1, at - 1)
  BY <1>10 DEF ReadUntil
<1> HIDE DEF buf, at, word
<1>17. CASE rest + 1 <= Len(data)
  <2>1. data[rest + 1] = stop
    <3>1. rest + 1 \in 1 .. Len(data) /\ n + (rest + 1) = E[k]
      BY <1>6, <1>13, <1>17
    <3> QED
      BY <1>7, <1>8, <3>1
  <2>2. at = rest + 1
    <3>1. stops \subseteq Nat /\ rest + 1 \in stops
      BY <1>6, <1>13, <1>17, <2>1
    <3>2. ASSUME NEW m \in stops PROVE rest + 1 <= m
      <4>1. CASE m = Len(data) + 1
        BY <1>6, <1>13, <1>17, <4>1
      <4>2. CASE m \in 1 .. Len(data) /\ data[m] = stop
        BY <1>13, <1>14, <4>2
      <4> QED
        BY <1>6, <4>1, <4>2
    <3> HIDE DEF stops
    <3> QED
      BY ONLY <3>1, <3>2, MinIs DEF at
  <2>3. /\ at \in 1 .. Len(data) /\ at <= Len(data) /\ at - 1 = rest
        /\ rest \in 0 .. Len(data) /\ n + at = E[k]
    BY <1>6, <1>13, <1>17, <2>2
  <2>4. word = w
    <3>1. buf \o SubSeq(data, 1, rest) = SubSeq(w, 1, j + rest)
      <4>1. rest <= rest
        BY <1>13
      <4> QED
        BY ONLY <4>1, <2>3, <1>15
    <3>2. word = SubSeq(w, 1, Len(w))
      BY ONLY <3>1, <1>13, <1>16, <2>3
    <3>3. SubSeq(w, 1, Len(w)) = w
      BY <1>2
    <3> QED
      BY <3>2, <3>3
  <2> DEFINE q == ParseWord(p, w)
  <2>5. Parsed(q, mode, msg, k)
    BY <1>4, WordParsed DEF w
  <2>6. r = [parser |-> q, data |-> SubSeq(data, at + 1, Len(data))]
    BY <1>12, <2>3, <2>4
  <2>7. r.parser = q
    BY <2>6
  <2> HIDE DEF q
  <2>8. CASE ~ q.ok
    BY <2>7, <2>8 DEF Advances, r, round
  <2>9. ASSUME Reads(q, mode, msg, text, n + at)
        PROVE  Advances(r, data, mode, msg, text, n)
    BY <2>3, <2>6, <2>7, <2>9 DEF Advances
  <2>10. CASE k < W /\ (k + 1 > 4 => Numbers(msg, (k + 1) - 4))
                /\ q = Before(mode, msg, k + 1, << >>)
    <3> DEFINE w2 == WordAt(mode, msg, k + 1)
    <3>1. SubSeq(w2, 1, E[k] - E[k]) = << >>
      <4>1. E[k] - E[k] = 0
        BY <1>3
      <4>2. w2 \in Seq(Symbol)
        BY <1>1, <2>10, WordTypes DEF W
      <4> HIDE DEF w2
      <4>3. 0 \in Nat /\ 0 <= Len(w2)
        BY <4>2
      <4>4. SubSeq(w2, 1, 0) \in Seq(Symbol) /\ Len(SubSeq(w2, 1, 0)) = 0
        BY ONLY <4>2, <4>3, Prefix
      <4>5. SubSeq(w2, 1, 0) = << >>
        BY <4>4
      <4> QED
        BY <4>1, <4>5
    <3>2. E[(k + 1) - 1] = E[k] /\ E[k] <= n + at /\ n + at < E[k + 1]
      BY <1>1, <1>3, <2>3, <2>10
    <3>3. InWord(q, mode, msg, k + 1, n + at)
      BY <2>3, <2>10, <3>1, <3>2 DEF InWord, E
    <3>4. k + 1 \in 1 .. Words(msg)
      BY <1>1, <2>10 DEF W
    <3> QED
      BY <2>9, <3>3, <3>4 DEF Reads, r, round, text
  <2>11. CASE k = W /\ q = Behind(mode, msg,
                                  IF ExpectedBefore(mode, msg, k) = 0
                                  THEN "S_DONE" ELSE "S_BODY", << >>)
    <3>1. Numbers(msg, W - 4)
      <4>1. CASE W = 4
        BY <4>1 DEF Numbers
      <4>2. CASE W > 4
        BY <1>4, <2>11, <4>2
      <4> QED
        BY <1>1, <4>1, <4>2
    <3>2. q.state \in {"S_BODY", "S_DONE"}
      BY <2>11 DEF Behind
    <3>3. q = Behind(mode, msg, q.state, << >>)
      BY <2>11 DEF Behind
    <3>4. q.state = "S_DONE" => q.read = q.expected
      <4>1. q.expected = ExpectedBefore(mode, msg, Words(msg)) /\ q.read = 0
        <5>1. q.read = Len(<< >>)
          BY <2>11 DEF Behind
        <5> QED
          BY <2>11, <5>1 DEF Behind, W
      <4> QED
        BY <2>11, <4>1 DEF Behind, W
    <3>5. SubSeq(text, E[k] + 1, E[k]) = << >>
      <4> DEFINE v == SubSeq(text, E[k] + 1, E[k])
      <4>1. E[k] <= Len(text)
        BY <1>6, <1>7, <2>3
      <4>2. E[k] \in Nat /\ E[k] <= E[k] /\ text \in Seq(Symbol)
        BY <1>3, <1>5
      <4>3. v \in Seq(Symbol) /\ Len(v) = E[k] - E[k]
        BY ONLY <4>1, <4>2, Part
      <4>4. Len(v) = 0
        BY <1>3, <4>3
      <4> HIDE DEF v
      <4>5. v = << >>
        BY <4>3, <4>4
      <4> QED
        BY <4>5 DEF v
    <3>6. n + at <= Len(text) /\ E[k] <= n + at
      BY <1>3, <1>5, <1>6, <1>7, <2>3
    <3>7. InBody(q, mode, msg, text, n + at)
      BY <2>3, <2>11, <3>1, <3>2, <3>3, <3>4, <3>5, <3>6 DEF InBody, E, W
    <3> QED
      BY <2>9, <3>7 DEF Reads, r, round, text
  <2> QED
    BY <2>5, <2>8, <2>10, <2>11 DEF Parsed, W
<1>18. CASE ~ (rest + 1 <= Len(data))
  <2> DEFINE l == Len(data)
  <2>1. at = l + 1
    <3>1. stops = {l + 1}
      <4>1. \A i \in 1 .. l : i <= rest
        BY <1>6, <1>13, <1>18
      <4>2. \A i \in 1 .. l : data[i] # stop
        BY <1>14, <4>1
      <4> QED
        BY <1>6, <4>2
    <3>2. l + 1 \in stops /\ stops \subseteq Nat /\ \A m \in stops : l + 1 <= m
      BY <1>6, <3>1
    <3> HIDE DEF stops
    <3> QED
      BY ONLY <3>2, MinIs DEF at
  <2>2. /\ l \in 0 .. Len(data) /\ l <= rest /\ at - 1 = l /\ ~ (at <= Len(data))
        /\ l \in 1 .. Len(data)
    BY <1>6, <1>13, <1>18, <2>1
  <2>3. word = SubSeq(w, 1, j + l)
    BY <1>15, <1>16, <2>2
  <2>4. CASE Len(word) > MaxSize(p.state)
    <3>1. r.parser = Fail(p)
      BY <1>12, <2>2, <2>4
    <3>2. ~ r.parser.ok
      BY <1>10, <3>1 DEF Fail
    <3> QED
      BY <3>2 DEF Advances, r, round
  <2>5. CASE ~ (Len(word) > MaxSize(p.state))
    <3> DEFINE q == [p EXCEPT !.buf = word]
    <3>1. r = [parser |-> q, data |-> << >>]
      BY <1>12, <2>2, <2>5
    <3>2. q = Before(mode, msg, k, word)
      <4> DEFINE e == ExpectedBefore(mode, msg, k)
                 s == StateBefore(mode, k)
                 m == MessageBefore(mode, msg, k, << >>)
      <4>1. p = [mode |-> mode, ok |-> TRUE, buf |-> buf, read |-> 0,
                 expected |-> e, state |-> s, msg |-> m]
        BY <1>10
      <4>2. Before(mode, msg, k, word) =
              [mode |-> mode, ok |-> TRUE, buf |-> word, read |-> 0,
               expected |-> e, state |-> s, msg |-> m]
        BY DEF Before
      <4>3. q = [p EXCEPT !.buf = word]
        OBVIOUS
      <4> HIDE DEF e, s, m, q
      <4>4. q = [mode |-> mode, ok |-> TRUE, buf |-> word, read |-> 0,
                 expected |-> e, state |-> s, msg |-> m]
        BY ONLY <4>1, <4>3
      <4> QED
        BY ONLY <4>2, <4>4
    <3>3. SubSeq(data, l + 1, Len(data)) = << >>
      BY <1>6
    <3>4. /\ begin <= n + l /\ n + l < E[k] /\ (n + l) - begin = j + l
      <4> DEFINE end == E[k]
      <4>1. /\ begin \in Nat /\ n \in Nat /\ l \in Nat /\ j \in Nat
            /\ rest \in Nat /\ end \in Nat /\ l <= rest /\ begin + j = n
            /\ n + rest + 1 = end
        BY <1>3, <1>6, <1>13, <2>2
      <4> HIDE DEF l, end
      <4>2. begin <= n + l /\ n + l < end /\ (n + l) - begin = j + l
        BY ONLY <4>1
      <4> QED
        BY <4>2 DEF end
    <3>5. InWord(q, mode, msg, k, n + l)
      BY <1>4, <2>3, <3>2, <3>4 DEF InWord, E, w, begin
    <3>6. Reads(q, mode, msg, text, n + l)
      BY <3>5 DEF Reads
    <3>7. r.parser = q /\ r = [parser |-> r.parser, data |-> << >>]
      BY <3>1
    <3> HIDE DEF q
    <3>8. Advances(r, data, mode, msg, text, n)
      BY <2>2, <3>3, <3>6, <3>7 DEF Advances
    <3> QED
      BY <3>8 DEF r, round, text
  <2> QED
    BY <2>4, <2>5
<1> QED
  BY <1>17, <1>18

\* What a parser that is behind the headers expects.
LEMMA BodyExpected ==
    ASSUME NEW msg, WellFormed(msg), NEW mode \in Mode,
           Numbers(msg, Words(msg) - 4)
    PROVE  LET e == ExpectedBefore(mode, msg, Words(msg)) IN
           /\ \/ e = Unlimited /\ mode = "response"
              \/ /\ e \in Nat /\ e >= Len(msg.body)
                 /\ e \in Lengths(msg) \cup {Len(msg.body)}
           /\ mode = "request" => Announced(msg) = e
<1>1. /\ Words(msg) \in Nat /\ Words(msg) >= 4
      /\ Words(msg) = Len(AllHeaders(msg)) + 4
      /\ Words(msg) - 4 = Len(AllHeaders(msg))
  <2>1. Words(msg) \in Nat /\ Words(msg) >= 4
        /\ Words(msg) = Len(AllHeaders(msg)) + 4
    BY WordsAre
  <2>2. Len(AllHeaders(msg)) \in Nat
    BY HeadersFine
  <2> QED
    BY <2>1, <2>2
<1>2. Numbers(msg, Len(AllHeaders(msg)))
  BY <1>1
<1>3. ExpectedBefore(mode, msg, Words(msg))
        = Expected(mode, msg, Len(AllHeaders(msg)))
  <2>1. /\ Words(msg) # 1
        /\ (IF Words(msg) < 5 THEN 0 ELSE Words(msg) - 4) = Len(AllHeaders(msg))
    BY ONLY <1>1
  <2> QED
    BY <2>1 DEF ExpectedBefore
<1> QED
  BY <1>2, <1>3, ExpectedLast

\* What has been read of the body, and the piece that follows.
LEMMA BodyGrows ==
    ASSUME NEW text \in Seq(Symbol), NEW b \in Nat, NEW n \in Nat, b <= n,
           n <= Len(text), NEW data \in Seq(Symbol), Continues(data, text, n)
    PROVE  /\ SubSeq(text, b + 1, n) \o data
                = SubSeq(text, b + 1, n + Len(data))
           /\ SubSeq(text, b + 1, n) \in Seq(Symbol)
           /\ Len(SubSeq(text, b + 1, n)) = n - b
<1> DEFINE u == SubSeq(text, b + 1, n)
           e == n + Len(data)
           v == SubSeq(text, b + 1, e)
           w == u \o data
<1>1. /\ e \in Nat /\ b <= e /\ e <= Len(text) /\ Len(data) \in Nat
      /\ \A i \in 1 .. Len(data) : data[i] = text[n + i]
  <2>1. /\ n + Len(data) <= Len(text)
        /\ \A i \in 1 .. Len(data) : data[i] = text[n + i]
    BY ContinuesAt
  <2> QED
    BY <2>1
<1>2. /\ u \in Seq(Symbol) /\ Len(u) = n - b
      /\ \A i \in 1 .. n - b : u[i] = text[b + i]
  BY ONLY text \in Seq(Symbol), b \in Nat, n \in Nat, b <= n, n <= Len(text),
          Part
<1>3. e = n + Len(data)
  OBVIOUS
<1> HIDE DEF e
<1>4. /\ v \in Seq(Symbol) /\ Len(v) = e - b
      /\ \A i \in 1 .. e - b : v[i] = text[b + i]
  BY ONLY text \in Seq(Symbol), b \in Nat, <1>1, Part
<1> HIDE DEF u, v
<1>5. /\ w \in Seq(Symbol) /\ Len(w) = Len(u) + Len(data)
      /\ \A i \in 1 .. Len(u) : w[i] = u[i]
      /\ \A i \in 1 .. Len(data) : w[Len(u) + i] = data[i]
  <2>1. u \in Seq(Symbol)
    BY <1>2
  <2> QED
    BY ONLY <2>1, data \in Seq(Symbol), Joined
<1> HIDE DEF w
<1>6. Len(w) = Len(v) /\ Len(w) = e - b
  BY <1>1, <1>2, <1>3, <1>4, <1>5
<1>7. ASSUME NEW i \in 1 .. Len(w) PROVE w[i] = v[i]
  <2>1. i \in 1 .. e - b /\ v[i] = text[b + i]
    BY <1>4, <1>6
  <2>2. CASE i <= n - b
    <3>1. i \in 1 .. n - b /\ i \in 1 .. Len(u)
      BY <1>2, <2>1, <2>2
    <3> QED
      BY <1>2, <1>5, <2>1, <3>1
  <2>3. CASE i > n - b
    <3>1. /\ i - (n - b) \in 1 .. Len(data) /\ Len(u) + (i - (n - b)) = i
          /\ n + (i - (n - b)) = b + i
      BY <1>1, <1>2, <1>3, <2>1, <2>3
    <3> QED
      BY <1>1, <1>5, <2>1, <3>1
  <2> QED
    BY <2>1, <2>2, <2>3
<1>8. w = v
  BY ONLY <1>4, <1>5, <1>6, <1>7, SameSeq
<1> QED
  BY <1>2, <1>8 DEF w, u, v, e

LEMMA RoundInBody ==
    ASSUME NEW msg, WellFormed(msg), NEW mode \in Mode, NEW extra \in Seq(Symbol),
           mode = "response" => extra = << >>,
           NEW n \in Nat, NEW data \in Seq(Symbol), data # << >>,
           Continues(data, Text(mode, msg, extra), n),
           NEW p, InBody(p, mode, msg, Text(mode, msg, extra), n)
    PROVE  Advances(ParseRound([parser |-> p, data |-> data]), data, mode, msg,
                    Text(mode, msg, extra), n)
<1> DEFINE W == Words(msg)
           begin == EndsAt(mode, msg)[W]
           text == Text(mode, msg, extra)
           round == [parser |-> p, data |-> data]
           r == ParseRound(round)
           e == ExpectedBefore(mode, msg, W)
           body == SubSeq(text, begin + 1, n)
           l == Len(data)
<1>1. W \in Nat /\ W >= 4 /\ W \in 0 .. W
  BY WordsAre
<1>2. begin \in Nat
  BY <1>1, EndsSteps
<1>3. /\ text \in Seq(Symbol) /\ Len(text) \in Nat
      /\ Len(text) = begin + Len(msg.body) + Len(extra)
  BY TextLaid
<1>4. /\ begin <= n /\ n <= Len(text) /\ Numbers(msg, W - 4)
      /\ p.state \in {"S_BODY", "S_DONE"}
      /\ p = Behind(mode, msg, p.state, body)
      /\ (p.state = "S_DONE" => p.read = p.expected)
  BY DEF InBody
<1>5. l \in Nat /\ l > 0 /\ l \in 1 .. Len(data) /\ Len(msg.body) \in Nat
  BY MessageFacts
<1>6. /\ p = [mode |-> mode, ok |-> TRUE, buf |-> << >>, read |-> Len(body),
              expected |-> e, state |-> p.state,
              msg |-> MessageBefore(mode, msg, W, body)]
      /\ p.ok = TRUE /\ p.mode = mode /\ p.read = Len(body) /\ p.expected = e
  <2> DEFINE m == MessageBefore(mode, msg, W, body)
  <2>1. Behind(mode, msg, p.state, body) =
          [mode |-> mode, ok |-> TRUE, buf |-> << >>, read |-> Len(body),
           expected |-> e, state |-> p.state, msg |-> m]
    BY DEF Behind
  <2>2. p = Behind(mode, msg, p.state, body)
    BY <1>4
  <2> HIDE DEF m, body, e
  <2>3. p = [mode |-> mode, ok |-> TRUE, buf |-> << >>, read |-> Len(body),
             expected |-> e, state |-> p.state, msg |-> m]
    BY ONLY <2>1, <2>2
  <2>4. /\ p.ok = TRUE /\ p.mode = mode /\ p.read = Len(body)
        /\ p.expected = e
    BY ONLY <2>3
  <2> QED
    BY ONLY <2>3, <2>4 DEF m
<1>7. Continues(data, text, n)
  OBVIOUS
<1>8. round.parser = p /\ round.data = data
  OBVIOUS
<1>9. \/ e = Unlimited /\ mode = "response"
      \/ e \in Nat /\ e >= Len(msg.body)
  BY <1>4, BodyExpected
<1> HIDE DEF text, begin, e, round
<1>10. /\ body \o data = SubSeq(text, begin + 1, n + l)
       /\ body \in Seq(Symbol) /\ Len(body) = n - begin
  BY ONLY <1>2, <1>3, <1>4, <1>7, n \in Nat, data \in Seq(Symbol), BodyGrows
<1>11. n + l <= Len(text)
  BY <1>7 DEF Continues
<1> HIDE DEF r, l, body
<1>12. CASE p.state = "S_DONE" /\ mode = "request"
  <2>1. r = [round EXCEPT !.parser = Fail(p)]
    BY <1>6, <1>8, <1>12 DEF ParseRound, r
  <2>2. ~ r.parser.ok
    BY <1>6, <2>1 DEF Fail, round
  <2> QED
    BY <2>2 DEF Advances, r, round
<1>13. CASE p.state = "S_DONE" /\ mode # "request"
  <2>1. mode = "response" /\ Len(extra) = 0
    BY <1>13 DEF Mode
  <2>2. n - begin = e
    BY <1>4, <1>6, <1>10, <1>13
  <2>3. Unlimited >= Len(msg.body)
    BY MessageFacts DEF Unlimited
  <2>4. e >= Len(msg.body)
    BY <1>9, <2>3
  <2> QED
    BY <1>2, <1>3, <1>5, <1>11, <2>1, <2>2, <2>4
<1>14. CASE p.state = "S_BODY"
  <2> DEFINE q == ReadBody(p, data)
             m == MessageBefore(mode, msg, W, body)
             m2 == MessageBefore(mode, msg, W, body \o data)
             s == IF p.read + l = p.expected THEN "S_DONE" ELSE "S_BODY"
             next == Behind(mode, msg, s, body \o data)
  <2>1. r = [parser |-> q, data |-> << >>]
    BY <1>6, <1>8, <1>14 DEF ParseRound, r
  <2>2. Len(body \o data) = Len(body) + l /\ body \o data \in Seq(Symbol)
    <3>1. body \in Seq(Symbol)
      BY <1>10
    <3>2. Len(body \o data) = Len(body) + Len(data) /\ body \o data \in Seq(Symbol)
      BY ONLY <3>1, data \in Seq(Symbol), Joined
    <3> QED
      BY <3>2 DEF l
  <2>3. m2 = [m EXCEPT !.body = @ \o data]
    <3> DEFINE m3 == [m EXCEPT !.body = @ \o data]
    <3>1. m = [method |-> m.method, uri |-> m.uri, version |-> m.version,
               status |-> m.status, headers |-> m.headers, body |-> body]
      BY DEF MessageBefore
    <3>2. m2 = [method |-> m.method, uri |-> m.uri, version |-> m.version,
                status |-> m.status, headers |-> m.headers,
                body |-> body \o data]
      BY DEF MessageBefore
    <3> DEFINE b == body \o data
    <3>3. m3 = [m EXCEPT !.body = b]
      <4>1. m.body = body
        BY DEF MessageBefore
      <4> HIDE DEF m
      <4> QED
        BY <4>1
    <3> HIDE DEF m, m2, m3, b
    <3>4. m3 = [method |-> m.method, uri |-> m.uri, version |-> m.version,
                status |-> m.status, headers |-> m.headers,
                body |-> b]
      BY ONLY <3>1, <3>3
    <3>5. m3 = m2
      BY <3>2, <3>4 DEF b
    <3> QED
      BY <3>5 DEF m3
  <2>4. q = next
    <3>1. p = [mode |-> mode, ok |-> TRUE, buf |-> << >>, read |-> Len(body),
               expected |-> e, state |-> "S_BODY", msg |-> m]
      BY <1>6, <1>14
    <3>2. next = [mode |-> mode, ok |-> TRUE, buf |-> << >>,
                  read |-> Len(body) + l, expected |-> e, state |-> s,
                  msg |-> m2]
      BY <2>2 DEF Behind, e
    <3>3. q = [p EXCEPT !.read = @ + l, !.state = s, !.msg = m2]
      <4>1. q = [p EXCEPT !.read = @ + l, !.state = s, !.msg.body = @ \o data]
        BY <1>14 DEF ReadBody, l
      <4>2. p.msg = m
        BY <3>1
      <4> HIDE DEF q, s, m, m2
      <4> QED
        BY <2>3, <3>1, <4>1, <4>2
    <3> HIDE DEF q, s, m, m2, next
    <3>4. q = [mode |-> mode, ok |-> TRUE, buf |-> << >>,
               read |-> Len(body) + l, expected |-> e, state |-> s,
               msg |-> m2]
      BY ONLY <3>1, <3>3
    <3> QED
      BY ONLY <3>2, <3>4
  <2>5. q = Behind(mode, msg, q.state, SubSeq(text, begin + 1, n + l))
        /\ q.state \in {"S_BODY", "S_DONE"}
    <3>1. q.state = s
      BY <2>4 DEF Behind
    <3> HIDE DEF q
    <3> QED
      BY <1>10, <2>4, <3>1
  <2>6. q.state = "S_DONE" => q.read = q.expected
    <3>1. q.state = s /\ q.read = Len(body) + l /\ q.expected = e
      BY <2>2, <2>4 DEF Behind, e
    <3> HIDE DEF q
    <3> QED
      BY <1>6, <3>1
  <2> HIDE DEF q
  <2>7. InBody(q, mode, msg, text, n + l)
    <3>1. begin <= n + l
      BY <1>2, <1>4, <1>5
    <3> QED
      BY <1>4, <1>11, <2>5, <2>6, <3>1 DEF InBody, begin
  <2>8. SubSeq(data, l + 1, Len(data)) = << >>
    BY DEF l
  <2>9. r.parser = q /\ r = [parser |-> r.parser, data |-> << >>]
    BY <2>1
  <2>10. Advances(r, data, mode, msg, text, n)
    BY <1>5, <2>7, <2>8, <2>9 DEF Advances, Reads
  <2> QED
    BY <2>10 DEF r, round, text
<1> QED
  BY <1>4, <1>12, <1>13, <1>14

\* A round takes a symbol or more, and leaves the parser where the text puts it.
LEMMA RoundKeeps ==
    ASSUME NEW msg, WellFormed(msg), NEW mode \in Mode, NEW extra \in Seq(Symbol),
           mode = "response" => extra = << >>,
           NEW n \in Nat, NEW data \in Seq(Symbol), data # << >>,
           Continues(data, Text(mode, msg, extra), n),
           NEW p, Reads(p, mode, msg, Text(mode, msg, extra), n)
    PROVE  Advances(ParseRound([parser |-> p, data |-> data]), data, mode, msg,
                    Text(mode, msg, extra), n)
<1>1. CASE \E k \in 1 .. Words(msg) : InWord(p, mode, msg, k, n)
  BY <1>1, RoundInWord
<1>2. CASE InBody(p, mode, msg, Text(mode, msg, extra), n)
  BY <1>2, RoundInBody
<1> QED
  BY <1>1, <1>2 DEF Reads

\* The rounds of Parse.
Rounds(p, data) ==
    CHOOSE f : f = [k \in 0 .. Len(data) |->
                      IF k = 0 THEN [parser |-> p, data |-> data]
                      ELSE ParseRound(f[k - 1])]

\* The recursion of Parse is well defined.
LEMMA RoundSteps ==
    ASSUME NEW p, NEW data, Len(data) \in Nat
    PROVE  /\ Rounds(p, data)[0] = [parser |-> p, data |-> data]
           /\ \A k \in 1 .. Len(data) :
                 Rounds(p, data)[k] = ParseRound(Rounds(p, data)[k - 1])
           /\ Parse(p, data) = Rounds(p, data)[Len(data)].parser
<1> DEFINE x == [parser |-> p, data |-> data]
           N == Len(data)
           D(f, n) == [k \in 0 .. n |-> IF k = 0 THEN x ELSE ParseRound(f[k - 1])]
           good == {n \in Nat : \E f : f = D(f, n)}
<1> HIDE DEF x, N
<1>1. 0 \in good
  <2> DEFINE f == [k \in 0 .. 0 |-> x]
  <2>1. f = D(f, 0)
    OBVIOUS
  <2> QED
    BY <2>1
<1>2. ASSUME NEW n \in Nat, n \in good PROVE n + 1 \in good
  <2>1. PICK f : f = D(f, n)
    BY <1>2
  <2> DEFINE g == [k \in 0 .. n + 1 |-> IF k <= n THEN f[k] ELSE ParseRound(f[n])]
  <2>2. ASSUME NEW k \in 0 .. n + 1
        PROVE  g[k] = IF k = 0 THEN x ELSE ParseRound(g[k - 1])
    <3>1. CASE k = 0
      <4>1. g[0] = f[0] /\ f[0] = x
        BY <2>1
      <4> QED
        BY <3>1, <4>1
    <3>2. CASE k # 0 /\ k <= n
      <4>1. k \in 0 .. n /\ k - 1 \in 0 .. n + 1 /\ k - 1 <= n
        BY <3>2
      <4>2. g[k] = f[k] /\ g[k - 1] = f[k - 1]
        BY <3>2, <4>1
      <4>3. f[k] = ParseRound(f[k - 1])
        BY <2>1, <3>2, <4>1
      <4> QED
        BY <3>2, <4>2, <4>3
    <3>3. CASE k = n + 1
      <4>1. k # 0 /\ k - 1 = n /\ n \in 0 .. n + 1 /\ ~ (k <= n)
        BY <3>3
      <4>2. g[n] = f[n] /\ g[k] = ParseRound(f[n])
        BY <3>3, <4>1
      <4> QED
        BY <4>1, <4>2
    <3> QED
      BY <3>1, <3>2, <3>3
  <2>3. g = D(g, n + 1)
    <3>1. g = [k \in 0 .. n + 1 |-> g[k]]
      OBVIOUS
    <3> HIDE DEF g
    <3> QED
      BY <2>2, <3>1
  <2>4. \E h : h = D(h, n + 1)
    <3> HIDE DEF g, D
    <3> QED
      BY <2>3
  <2> QED
    BY <2>4
<1>3. N \in good
  <2> HIDE DEF good
  <2>1. Nat \subseteq good
    BY <1>1, <1>2, InductionNat
  <2> QED
    BY <2>1 DEF N
<1>4. \E f : f = D(f, N)
  BY <1>3
<1> DEFINE R == Rounds(p, data)
<1>5. R = CHOOSE f : f = D(f, N)
  BY DEF Rounds, x, N
<1>6. R = D(R, N)
  <2> HIDE DEF D, R
  <2> QED
    BY <1>4, <1>5
<1>7. Parse(p, data) = R[N].parser
  BY DEF Parse, Rounds, N
<1> HIDE DEF R
<1>8. R[0] = x
  <2>1. 0 \in 0 .. N
    BY DEF N
  <2> QED
    BY <1>6, <2>1
<1>9. ASSUME NEW k \in 1 .. N PROVE R[k] = ParseRound(R[k - 1])
  <2>1. k \in 0 .. N /\ k # 0
    OBVIOUS
  <2> QED
    BY <1>6, <2>1
<1> QED
  BY <1>7, <1>8, <1>9 DEF R, x, N

\* What is left of what was left.
LEMMA PartOfPart ==
    ASSUME NEW s \in Seq(Symbol), NEW a \in 0 .. Len(s), NEW b \in 0 .. Len(s) - a
    PROVE  SubSeq(SubSeq(s, a + 1, Len(s)), b + 1, Len(s) - a)
              = SubSeq(s, (a + b) + 1, Len(s))
<1> DEFINE n == Len(s)
           u == SubSeq(s, a + 1, n)
           l == n - a
           v == SubSeq(u, b + 1, l)
           c == a + b
           w == SubSeq(s, c + 1, n)
<1>1. /\ n \in Nat /\ a \in Nat /\ a <= n /\ n <= Len(s) /\ l \in Nat
      /\ b \in Nat /\ b <= l /\ c \in Nat /\ c <= n /\ l - b = n - c
      /\ l = n - a /\ c = a + b
  OBVIOUS
<1> HIDE DEF n, l, c
<1>2. u \in Seq(Symbol) /\ Len(u) = n - a /\ \A i \in 1 .. n - a : u[i] = s[a + i]
  BY ONLY s \in Seq(Symbol), <1>1, Part
<1> HIDE DEF u
<1>3. v \in Seq(Symbol) /\ Len(v) = l - b /\ \A i \in 1 .. l - b : v[i] = u[b + i]
  <2>1. u \in Seq(Symbol) /\ l <= Len(u)
    BY <1>1, <1>2
  <2>2. b \in Nat /\ l \in Nat /\ b <= l
    BY <1>1
  <2> QED
    BY ONLY <2>1, <2>2, Part
<1>4. w \in Seq(Symbol) /\ Len(w) = n - c /\ \A i \in 1 .. n - c : w[i] = s[c + i]
  BY ONLY s \in Seq(Symbol), <1>1, Part
<1> HIDE DEF v, w
<1>5. ASSUME NEW i \in 1 .. Len(v) PROVE v[i] = w[i]
  <2>1. /\ i \in 1 .. l - b /\ i \in 1 .. n - c /\ b + i \in 1 .. n - a
        /\ a + (b + i) = c + i
    BY <1>1, <1>3
  <2> QED
    BY <1>2, <1>3, <1>4, <2>1
<1>6. Len(v) = Len(w)
  BY <1>1, <1>3, <1>4
<1>7. v = w
  BY ONLY <1>3, <1>4, <1>5, <1>6, SameSeq
<1> QED
  BY <1>7 DEF v, w, u, n, l, c

\* Wherever a text is cut, a parser that has read it up to a cut, and reads
\* the piece that follows, is where the text puts it, or has stopped.
LEMMA ParseKeeps ==
    ASSUME NEW msg, WellFormed(msg), NEW mode \in Mode, NEW extra \in Seq(Symbol),
           mode = "response" => extra = << >>,
           NEW n \in Nat, NEW data \in Seq(Symbol),
           Continues(data, Text(mode, msg, extra), n),
           NEW p, Reads(p, mode, msg, Text(mode, msg, extra), n)
    PROVE  LET q == Parse(p, data) IN
           ~ q.ok \/ Reads(q, mode, msg, Text(mode, msg, extra), n + Len(data))
<1> DEFINE text == Text(mode, msg, extra)
           N == Len(data)
           R == Rounds(p, data)
           G(k) == \/ ~ R[k].parser.ok
                   \/ \E m \in k .. N :
                         /\ R[k] = [parser |-> R[k].parser,
                                    data |-> SubSeq(data, m + 1, N)]
                         /\ Reads(R[k].parser, mode, msg, text, n + m)
           good == {k \in Nat : k <= N => G(k)}
<1>1. N \in Nat
  OBVIOUS
<1>2. /\ R[0] = [parser |-> p, data |-> data]
      /\ \A k \in 1 .. N : R[k] = ParseRound(R[k - 1])
      /\ Parse(p, data) = R[N].parser
  BY <1>1, RoundSteps
<1> HIDE DEF R, G
<1>3. 0 \in good
  <2>1. /\ 0 \in 0 .. N /\ SubSeq(data, 0 + 1, N) = data /\ n + 0 = n
        /\ R[0] = [parser |-> R[0].parser, data |-> data] /\ R[0].parser = p
    BY <1>1, <1>2
  <2>2. /\ R[0] = [parser |-> R[0].parser, data |-> SubSeq(data, 0 + 1, N)]
        /\ Reads(R[0].parser, mode, msg, text, n + 0)
    BY <2>1
  <2>3. G(0)
    <3> HIDE DEF text, N
    <3> QED
      BY <2>1, <2>2 DEF G
  <2> QED
    BY <2>3
<1>4. ASSUME NEW k \in Nat, k \in good PROVE k + 1 \in good
  <2>1. SUFFICES ASSUME k + 1 <= N PROVE G(k + 1)
    OBVIOUS
  <2> DEFINE r == R[k]
             s == R[k + 1]
  <2>2. s = ParseRound(r)
    <3>1. k + 1 \in 1 .. N /\ (k + 1) - 1 = k
      BY <1>1, <2>1
    <3> QED
      BY <1>2, <3>1
  <2>3. G(k)
    BY <1>1, <1>4, <2>1
  <2>4. CASE ~ r.parser.ok
    <3>1. s = r
      BY <2>2, <2>4 DEF ParseRound
    <3> QED
      BY <2>4, <3>1 DEF G
  <2>5. CASE \E m \in k .. N :
               /\ r = [parser |-> r.parser, data |-> SubSeq(data, m + 1, N)]
               /\ Reads(r.parser, mode, msg, text, n + m)
    <3>1. PICK m \in k .. N :
            /\ r = [parser |-> r.parser, data |-> SubSeq(data, m + 1, N)]
            /\ Reads(r.parser, mode, msg, text, n + m)
      BY <2>5
    <3> DEFINE d == SubSeq(data, m + 1, N)
    <3>2. /\ m \in 0 .. Len(data) /\ m \in Nat /\ m <= N /\ n + m \in Nat
      BY <1>1, <3>1
    <3>3. /\ d \in Seq(Symbol) /\ Len(d) = N - m /\ Continues(d, text, n + m)
      <4>1. text \in Seq(Symbol)
        BY TextLaid
      <4>2. Continues(data, text, n)
        OBVIOUS
      <4> HIDE DEF text
      <4> QED
        BY ONLY <4>1, <4>2, <3>2, n \in Nat, data \in Seq(Symbol), ContinuesParts
    <3>4. r.data = d
      BY <3>1
    <3>5. CASE m = N
      <4>1. d = << >>
        BY <3>3, <3>5
      <4>2. s = r
        <5> HIDE DEF r, d
        <5> QED
          BY <2>2, <3>4, <4>1 DEF ParseRound
      <4>3. m \in k + 1 .. N
        BY <1>1, <2>1, <3>5
      <4> HIDE DEF text, N
      <4> QED
        BY <3>1, <4>2, <4>3 DEF G
    <3>6. CASE m < N
      <4> HIDE DEF d
      <4>1. d # << >>
        BY <1>1, <3>2, <3>3, <3>6
      <4>2. Advances(ParseRound([parser |-> r.parser, data |-> d]), d, mode, msg,
                     text, n + m)
        BY <3>1, <3>2, <3>3, <4>1, RoundKeeps
      <4>3. Advances(s, d, mode, msg, text, n + m)
        <5>1. r = [parser |-> r.parser, data |-> d]
          BY <3>1 DEF d
        <5> HIDE DEF r, s, text
        <5> QED
          BY <2>2, <4>2, <5>1
      <4> HIDE DEF text
      <4>4. CASE ~ s.parser.ok
        BY <4>4 DEF G
      <4>5. CASE \E i \in 1 .. Len(d) :
                   /\ s = [parser |-> s.parser, data |-> SubSeq(d, i + 1, Len(d))]
                   /\ Reads(s.parser, mode, msg, text, (n + m) + i)
        <5>1. PICK i \in 1 .. Len(d) :
                /\ s = [parser |-> s.parser, data |-> SubSeq(d, i + 1, Len(d))]
                /\ Reads(s.parser, mode, msg, text, (n + m) + i)
          BY <4>5
        <5>2. /\ i \in 0 .. Len(data) - m /\ m + i \in k + 1 .. N
              /\ (n + m) + i = n + (m + i) /\ Len(d) = Len(data) - m
          BY <1>1, <3>2, <3>3
        <5>3. SubSeq(d, i + 1, Len(d)) = SubSeq(data, (m + i) + 1, N)
          BY <3>2, <5>2, PartOfPart DEF d
        <5>4. /\ s = [parser |-> s.parser, data |-> SubSeq(data, (m + i) + 1, N)]
              /\ Reads(s.parser, mode, msg, text, n + (m + i))
          BY <5>1, <5>2, <5>3
        <5> HIDE DEF N
        <5> QED
          BY <5>2, <5>4 DEF G
      <4> QED
        BY <4>3, <4>4, <4>5 DEF Advances
    <3> QED
      BY <1>1, <3>2, <3>5, <3>6
  <2> QED
    BY <2>3, <2>4, <2>5 DEF G
<1>5. G(N)
  <2> HIDE DEF good
  <2>1. Nat \subseteq good
    BY <1>3, <1>4, InductionNat
  <2>2. N \in good
    BY <1>1, <2>1
  <2> QED
    BY <1>1, <2>2 DEF good
<1>6. ~ R[N].parser.ok \/ Reads(R[N].parser, mode, msg, text, n + N)
  <2>1. \A m \in N .. N : m = N
    BY <1>1
  <2> QED
    BY <1>5, <2>1 DEF G
<1> QED
  BY <1>2, <1>6

-----------------------------------------------------------------------------
(* The whole message has been read                                         *)

\* Behind the words, the parser has what it read of the body; when that is as
\* long as the body, it has the message.
LEMMA BodyRead ==
    ASSUME NEW msg, WellFormed(msg), NEW mode \in Mode, NEW extra \in Seq(Symbol),
           NEW n \in Nat, NEW p, InBody(p, mode, msg, Text(mode, msg, extra), n)
    PROVE  LET begin == EndsAt(mode, msg)[Words(msg)] IN
           /\ begin \in Nat /\ begin <= n
           /\ n <= begin + Len(msg.body) + Len(extra)
           /\ p.read = n - begin
           /\ p.expected = ExpectedBefore(mode, msg, Words(msg))
           /\ Numbers(msg, Words(msg) - 4)
           /\ n - begin = Len(msg.body) =>
                 p.msg = MessageBefore(mode, msg, Words(msg), msg.body)
<1> DEFINE W == Words(msg)
           begin == EndsAt(mode, msg)[W]
           text == Text(mode, msg, extra)
           body == SubSeq(text, begin + 1, n)
<1>1. W \in Nat /\ W \in 0 .. W
  BY WordsAre
<1>2. begin \in Nat
  BY <1>1, EndsSteps
<1>3. /\ text \in Seq(Symbol) /\ Len(text) \in Nat
      /\ Len(text) = begin + Len(msg.body) + Len(extra)
      /\ \A i \in 1 .. Len(msg.body) : text[begin + i] = msg.body[i]
  BY TextLaid
<1>4. /\ begin <= n /\ n <= Len(text) /\ Numbers(msg, W - 4)
      /\ p = Behind(mode, msg, p.state, body)
  BY DEF InBody
<1>5. /\ p.read = Len(body) /\ p.expected = ExpectedBefore(mode, msg, W)
      /\ p.msg = MessageBefore(mode, msg, W, body)
  <2> HIDE DEF body, W
  <2> QED
    BY <1>4 DEF Behind, W
<1> HIDE DEF text, begin
<1>6. /\ body \in Seq(Symbol) /\ Len(body) = n - begin
      /\ \A i \in 1 .. n - begin : body[i] = text[begin + i]
  <2>1. text \in Seq(Symbol) /\ begin <= n /\ n <= Len(text)
    BY <1>3, <1>4
  <2> QED
    BY ONLY <1>2, <2>1, n \in Nat, Part
<1> HIDE DEF body
<1>7. ASSUME n - begin = Len(msg.body) PROVE body = msg.body
  <2>1. msg.body \in Seq(Symbol)
    BY MessageFacts
  <2>2. Len(body) = Len(msg.body) /\ \A i \in 1 .. Len(body) : body[i] = msg.body[i]
    BY <1>3, <1>6, <1>7
  <2> QED
    BY ONLY <1>6, <2>1, <2>2, SameSeq
<1> QED
  BY <1>2, <1>3, <1>4, <1>5, <1>6, <1>7 DEF begin, W

\* A parser that is done is behind the words.
LEMMA DoneIsBehind ==
    ASSUME NEW msg, WellFormed(msg), NEW mode \in Mode, NEW text, NEW n,
           NEW p, Reads(p, mode, msg, text, n), p.state = "S_DONE"
    PROVE  InBody(p, mode, msg, text, n) /\ p.read = p.expected
<1>1. ASSUME NEW k \in 1 .. Words(msg) PROVE ~ InWord(p, mode, msg, k, n)
  <2>1. k \in Nat \ {0}
    BY WordsAre
  <2>2. StateBefore(mode, k) # "S_DONE"
    BY <2>1, DelimiterIs
  <2> QED
    BY <2>2 DEF InWord, Before
<1>2. InBody(p, mode, msg, text, n)
  BY <1>1 DEF Reads
<1> QED
  BY <1>2 DEF InBody

\* A request that the parser takes for complete is the one that was sent, and
\* its body is as long as announced.
LEMMA RequestDone ==
    ASSUME NEW msg, WellFormed(msg), msg.status = NoStatus,
           NEW extra \in Seq(Symbol),
           extra = << >> \/ Lengths(msg) \subseteq {Len(msg.body)},
           NEW n \in Nat,
           NEW p, Reads(p, "request", msg, Text("request", msg, extra), n),
           p.state = "S_DONE"
    PROVE  p.msg = Received(msg) /\ Announced(msg) = Len(msg.body)
<1> DEFINE mode == "request"
           text == Text(mode, msg, extra)
           W == Words(msg)
           begin == EndsAt(mode, msg)[W]
           e == ExpectedBefore(mode, msg, W)
           all == AllHeaders(msg)
<1>1. mode \in Mode
  BY DEF Mode
<1>2. InBody(p, mode, msg, text, n) /\ p.read = p.expected
  <2> HIDE DEF mode, text
  <2>1. Reads(p, mode, msg, text, n)
    BY DEF mode, text
  <2> QED
    BY <1>1, <2>1, DoneIsBehind
<1>3. /\ begin \in Nat /\ begin <= n /\ n <= begin + Len(msg.body) + Len(extra)
      /\ p.read = n - begin /\ p.expected = e /\ Numbers(msg, W - 4)
      /\ (n - begin = Len(msg.body) => p.msg = MessageBefore(mode, msg, W, msg.body))
  <2> HIDE DEF mode
  <2> QED
    BY <1>1, <1>2, BodyRead
<1>4. /\ e \in Nat /\ e >= Len(msg.body) /\ e \in Lengths(msg) \cup {Len(msg.body)}
      /\ Announced(msg) = e
  BY <1>1, <1>3, BodyExpected
<1>5. Len(msg.body) \in Nat /\ Len(extra) \in Nat
  BY MessageFacts
<1> HIDE DEF begin, e
<1>6. e = Len(msg.body)
  <2>1. CASE extra = << >>
    <3>1. Len(extra) = 0 /\ n - begin = e
      BY <1>2, <1>3, <2>1
    <3> QED
      BY <1>3, <1>4, <1>5, <3>1
  <2>2. CASE Lengths(msg) \subseteq {Len(msg.body)}
    BY <1>4, <2>2
  <2> QED
    BY <2>1, <2>2
<1>7. p.msg = MessageBefore(mode, msg, W, msg.body)
  BY <1>2, <1>3, <1>6
<1>8. /\ W >= 4 /\ W \in Nat /\ W - 4 = Len(all) /\ all \in Seq(Header)
      /\ Len(all) \in Nat
  BY WordsAre, HeadersFine
<1>9. (IF W > 4 THEN SubSeq(all, 1, W - 4) ELSE << >>) = all
  <2> HIDE DEF all
  <2>1. CASE W > 4
    BY <1>8, <2>1
  <2>2. CASE ~ (W > 4)
    <3>1. Len(all) = 0
      BY <1>8, <2>2
    <3> QED
      BY <1>8, <2>2, <3>1
  <2> QED
    BY <2>1, <2>2
<1>10. MessageBefore(mode, msg, W, msg.body) =
         [method |-> msg.method, uri |-> msg.uri, version |-> msg.version,
          status |-> NoStatus, headers |-> all, body |-> msg.body]
  <2>1. W > 1 /\ W > 2 /\ W > 3
    BY <1>8
  <2> HIDE DEF W, all
  <2> QED
    BY <1>9, <2>1 DEF MessageBefore, W, all
<1>11. Received(msg) =
         [method |-> msg.method, uri |-> msg.uri, version |-> msg.version,
          status |-> NoStatus, headers |-> all, body |-> msg.body]
  <2> DEFINE q == Received(msg)
  <2>1. msg = [method |-> msg.method, uri |-> msg.uri,
               version |-> msg.version, status |-> NoStatus,
               headers |-> msg.headers, body |-> msg.body]
    BY MessageFacts
  <2>2. q = [msg EXCEPT !.headers = all]
    BY DEF Received
  <2> HIDE DEF q, all
  <2>3. q = [method |-> msg.method, uri |-> msg.uri, version |-> msg.version,
             status |-> NoStatus, headers |-> all, body |-> msg.body]
    BY ONLY <2>1, <2>2
  <2> QED
    BY <2>3 DEF q
<1> QED
  BY <1>4, <1>6, <1>7, <1>10, <1>11

\* What a response is about.
Same(res, msg) ==
    \A f \in {"version", "status", "body"} : res[f] = msg[f]

LEMMA SameResponse ==
    ASSUME NEW msg, WellFormed(msg), NEW res,
           res = MessageBefore("response", msg, Words(msg), msg.body)
    PROVE  Same(res, msg)
<1>1. Words(msg) \in Nat /\ Words(msg) >= 4
  BY WordsAre
<1>2. Words(msg) > 1 /\ Words(msg) > 2
  BY <1>1
<1>3. res.version = msg.version /\ res.status = msg.status /\ res.body = msg.body
  BY <1>2 DEF MessageBefore
<1> QED
  BY <1>3 DEF Same

\* A response that the parser takes for complete is the one that was sent.
LEMMA ResponseDone ==
    ASSUME NEW msg, WellFormed(msg), NEW n \in Nat,
           NEW p, Reads(p, "response", msg, Text("response", msg, << >>), n),
           p.state = "S_DONE"
    PROVE  Same(p.msg, msg)
<1> DEFINE mode == "response"
           text == Text(mode, msg, << >>)
           W == Words(msg)
           begin == EndsAt(mode, msg)[W]
           e == ExpectedBefore(mode, msg, W)
<1>1. mode \in Mode /\ << >> \in Seq(Symbol) /\ Len(<< >>) = 0
  BY DEF Mode
<1>2. InBody(p, mode, msg, text, n) /\ p.read = p.expected
  <2> HIDE DEF mode, text
  <2>1. Reads(p, mode, msg, text, n)
    BY DEF mode, text
  <2> QED
    BY <1>1, <2>1, DoneIsBehind
<1>3. /\ begin \in Nat /\ begin <= n /\ n <= begin + Len(msg.body) + 0
      /\ p.read = n - begin /\ p.expected = e /\ Numbers(msg, W - 4)
      /\ (n - begin = Len(msg.body) => p.msg = MessageBefore(mode, msg, W, msg.body))
  <2> DEFINE extra == << >>
  <2>1. /\ InBody(p, mode, msg, Text(mode, msg, extra), n)
        /\ extra \in Seq(Symbol) /\ Len(extra) = 0
    BY <1>1, <1>2
  <2>2. WellFormed(msg) /\ mode \in Mode /\ n \in Nat
    BY <1>1
  <2> HIDE DEF mode, extra
  <2>3. /\ begin \in Nat /\ begin <= n
        /\ n <= begin + Len(msg.body) + Len(extra)
        /\ p.read = n - begin /\ p.expected = e /\ Numbers(msg, W - 4)
        /\ (n - begin = Len(msg.body) =>
               p.msg = MessageBefore(mode, msg, W, msg.body))
    BY ONLY <2>1, <2>2, BodyRead
  <2> QED
    BY <2>1, <2>3
<1>4. e = Unlimited \/ (e \in Nat /\ e >= Len(msg.body))
  BY <1>1, <1>3, BodyExpected
<1>5. Len(msg.body) \in Nat
  BY MessageFacts
<1> HIDE DEF begin, e
<1>6. n - begin = Len(msg.body)
  <2>1. n - begin = e
    BY <1>2, <1>3
  <2>2. n - begin \in Nat /\ n - begin <= Len(msg.body)
    BY <1>3, <1>5
  <2>3. Unlimited >= Len(msg.body) /\ Unlimited \in Nat
    BY MessageFacts, HttpParserAssumption DEF Unlimited
  <2> QED
    BY <1>4, <1>5, <2>1, <2>2, <2>3
<1>7. p.msg = MessageBefore(mode, msg, W, msg.body)
  BY <1>3, <1>6
<1> QED
  BY <1>7, SameResponse

\* The end of the connection completes the response when all of it was read.
LEMMA ResponseEnds ==
    ASSUME NEW msg, WellFormed(msg), NEW n \in Nat,
           n = Len(Text("response", msg, << >>)),
           NEW p, Reads(p, "response", msg, Text("response", msg, << >>), n)
    PROVE  Same(Eof(p).msg, msg)
<1> DEFINE mode == "response"
           text == Text(mode, msg, << >>)
           W == Words(msg)
           E == EndsAt(mode, msg)
<1>1. mode \in Mode /\ << >> \in Seq(Symbol) /\ Len(<< >>) = 0
  BY DEF Mode
<1>2. Len(text) = E[W] + Len(msg.body) + 0
  <2> HIDE DEF mode
  <2> QED
    BY <1>1, TextLaid
<1>3. W \in Nat /\ W \in 0 .. W /\ \A k \in 0 .. W : E[k] \in Nat
  <2> HIDE DEF mode
  <2> QED
    BY <1>1, WordsAre, EndsSteps
<1>4. Len(msg.body) \in Nat
  BY MessageFacts
<1>5. ASSUME NEW k \in 1 .. W PROVE ~ InWord(p, mode, msg, k, n)
  <2>1. k \in 0 .. W /\ W \in 0 .. W
    BY <1>3
  <2>2. E[k] <= E[W]
    <3> HIDE DEF mode
    <3> QED
      BY <1>1, <2>1, EndsMonotone
  <2>3. E[k] \in Nat /\ E[W] \in Nat
    BY <1>3, <2>1
  <2>4. n >= E[k]
    <3> HIDE DEF E, W
    <3> QED
      BY <1>2, <1>4, <2>2, <2>3
  <2> HIDE DEF mode
  <2> QED
    BY <2>3, <2>4 DEF InWord
<1>6. InBody(p, mode, msg, text, n)
  BY <1>5 DEF Reads
<1>7. n - E[W] = Len(msg.body) => p.msg = MessageBefore(mode, msg, W, msg.body)
  <2> HIDE DEF mode
  <2> QED
    BY <1>1, <1>6, BodyRead
<1>8. n - E[W] = Len(msg.body)
  <2>1. n = Len(text)
    OBVIOUS
  <2>2. E[W] \in Nat
    BY <1>3
  <2> HIDE DEF text, E, W
  <2> QED
    BY <1>2, <1>4, <2>1, <2>2
<1>9. Same(p.msg, msg)
  BY <1>7, <1>8, SameResponse
<1>10. Eof(p).msg = p.msg
  BY <1>6 DEF Eof, Fail, InBody, Behind
<1> QED
  BY <1>9, <1>10

-----------------------------------------------------------------------------
(* The invariant of the connections                                        *)

\* What a client may send, and what it may be answered.
LEMMA Conversation ==
    ASSUME NEW c \in Client, TypeOK
    PROVE  /\ WellFormed(Asked(c)) /\ Asked(c).status = NoStatus
           /\ request[c].extra \in Seq(Symbol)
           /\ \/ request[c].extra = << >>
              \/ Lengths(Asked(c)) \subseteq {Len(Asked(c).body)}
           /\ WellFormed(Given(c))
           /\ Asking(c) \in Seq(Symbol) /\ Len(Asking(c)) \in Nat
           /\ Giving(c) \in Seq(Symbol) /\ Len(Giving(c)) \in Nat
<1>1. request[c] \in Requests(c)
  BY DEF TypeOK
<1>2. /\ WellFormed(Asked(c)) /\ Asked(c).status = NoStatus
      /\ request[c].extra \in Seq(Symbol)
      /\ \/ request[c].extra = << >>
         \/ Lengths(Asked(c)) \subseteq {Len(Asked(c).body)}
      /\ WellFormed(Given(c))
  BY <1>1, ConnectionAssumption DEF Asked, Given
<1>3. Asking(c) \in Seq(Symbol)
  <2>1. "request" \in Mode
    BY DEF Mode
  <2> QED
    BY <1>2, <2>1, TextLaid DEF Asking
<1>4. Giving(c) \in Seq(Symbol)
  <2>1. "response" \in Mode /\ << >> \in Seq(Symbol)
    BY DEF Mode
  <2> QED
    BY <1>2, <2>1, TextLaid DEF Giving
<1> QED
  BY <1>2, <1>3, <1>4

\* A new parser is before the first word.
LEMMA StartReads ==
    ASSUME NEW msg, WellFormed(msg), NEW mode \in Mode, NEW text
    PROVE  Reads(Parser(mode), mode, msg, text, 0) /\ Parser(mode).state # "S_DONE"
<1> DEFINE w == WordAt(mode, msg, 1)
           E == EndsAt(mode, msg)
<1>1. 1 \in 1 .. Words(msg) /\ 0 \in 0 .. Words(msg)
  BY WordsAre
<1>2. w \in Seq(Symbol) /\ Len(w) \in Nat
  BY <1>1, WordTypes
<1>3. E[0] = 0 /\ E[1] = E[0] + Len(w) + 1
  <2>1. E[0] = 0
    BY EndsSteps
  <2>2. E[1] = E[1 - 1] + Len(w) + 1
    BY <1>1, EndsSteps
  <2>3. 1 - 1 = 0
    OBVIOUS
  <2> HIDE DEF E, w
  <2> QED
    BY <2>1, <2>2, <2>3
<1> HIDE DEF w, E
<1>4. SubSeq(w, 1, 0) = << >>
  <2>1. 0 \in Nat /\ 0 <= Len(w)
    BY <1>2
  <2>2. SubSeq(w, 1, 0) \in Seq(Symbol) /\ Len(SubSeq(w, 1, 0)) = 0
    BY ONLY <1>2, <2>1, Prefix
  <2> QED
    BY <2>2
<1>5. Parser(mode) = Before(mode, msg, 1, << >>)
  <2>1. /\ ExpectedBefore(mode, msg, 1) = 0
        /\ StateBefore(mode, 1) = IF mode = "request" THEN "S_REQ_METHOD"
                                  ELSE "S_RES_VERSION"
    BY DEF ExpectedBefore, StateBefore
  <2>2. MessageBefore(mode, msg, 1, << >>) = NoMessage
    BY DEF MessageBefore, NoMessage
  <2> QED
    BY <2>1, <2>2 DEF Parser, Before
<1>6. InWord(Parser(mode), mode, msg, 1, 0)
  <2> DEFINE begin == E[1 - 1]
  <2>1. begin = 0 /\ 0 < E[1] /\ ~ (1 > 4)
    BY <1>2, <1>3
  <2> HIDE DEF begin
  <2>2. 0 - begin = 0 /\ begin <= 0
    BY <2>1
  <2>3. Parser(mode) = Before(mode, msg, 1, SubSeq(w, 1, 0 - begin))
    BY <1>4, <1>5, <2>2
  <2> QED
    BY <2>1, <2>2, <2>3 DEF InWord, E, w, begin
<1>7. Parser(mode).state # "S_DONE"
  BY DEF Parser
<1> QED
  BY <1>1, <1>6, <1>7 DEF Reads

LEMMA ContinuesNothing ==
    ASSUME NEW text \in Seq(Symbol), NEW n \in Nat, n <= Len(text)
    PROVE  Continues(<< >>, text, n)
<1>1. << >> \in Seq(Symbol) /\ Len(<< >>) = 0 /\ Len(text) \in Nat
  OBVIOUS
<1>2. /\ n + Len(<< >>) <= Len(text)
      /\ \A i \in 1 .. Len(<< >>) : << >>[i] = text[n + i]
  BY <1>1
<1> QED
  BY ONLY text \in Seq(Symbol), n \in Nat, <1>1, <1>2, ContinuesAt

LEMMA ContinuesWhole ==
    ASSUME NEW text \in Seq(Symbol)
    PROVE  Continues(text, text, 0)
<1>1. Len(text) \in Nat /\ 0 \in Nat
  OBVIOUS
<1>2. /\ 0 + Len(text) <= Len(text)
      /\ \A i \in 1 .. Len(text) : text[i] = text[0 + i]
  BY <1>1
<1> QED
  BY ONLY text \in Seq(Symbol), <1>1, <1>2, ContinuesAt

\* A connection that a step leaves alone.
LEMMA Untouched ==
    ASSUME NEW d \in Client, request' = request,
           client'[d] = client[d], wire'[d] = wire[d], handled'[d] = handled[d],
           d \in answered' <=> d \in answered,
           d \in Range(backlog') <=> d \in Range(backlog),
           server' = server \/ (d \notin server.conn /\ d \notin server'.conn),
           server.step = "killed" => server'.step = "killed",
           RequestArrives(d), ResponseArrives(d), ClosedIsOver(d)
    PROVE  RequestArrives(d)' /\ ResponseArrives(d)' /\ ClosedIsOver(d)'
<1>1. \A steps : Serving(d, steps)' => server' = server /\ Serving(d, steps)
  BY DEF Serving
<1>2. Serving(d, {"receive"})' => server' = server /\ Serving(d, {"receive"})
  BY <1>1
<1>3. Serving(d, {"handle"})' => server' = server /\ Serving(d, {"handle"})
  BY <1>1
<1>4. Serving(d, {"send"})' => server' = server /\ Serving(d, {"send"})
  BY <1>1
<1>5. Serving(d, {"receive", "handle"})' =>
         server' = server /\ Serving(d, {"receive", "handle"})
  BY <1>1
<1>6. Unanswered(d)' => Unanswered(d)
  BY <1>5 DEF Unanswered
<1>7. RequestArrives(d)'
  BY <1>2, <1>3, <1>4 DEF RequestArrives, Asked, Asking
<1>8. ResponseArrives(d)'
  BY <1>4, <1>6 DEF ResponseArrives, Given, Giving, Asked
<1>9. ClosedIsOver(d)'
  BY DEF ClosedIsOver
<1> QED
  BY <1>7, <1>8, <1>9

LEMMA Shapes ==
    ASSUME ShapeOK, NEW c \in Client
    PROVE  /\ client[c] = [step |-> client[c].step, out |-> client[c].out,
                           parser |-> client[c].parser]
           /\ client[c].out \in Seq(Symbol)
           /\ wire[c] = [up |-> wire[c].up, down |-> wire[c].down,
                         up_closed |-> wire[c].up_closed,
                         down_closed |-> wire[c].down_closed]
           /\ wire[c].up \in Seq(Symbol) /\ wire[c].down \in Seq(Symbol)
           /\ wire[c].up_closed \in BOOLEAN /\ wire[c].down_closed \in BOOLEAN
<1>1. client[c] = [step |-> client[c].step, out |-> client[c].out,
                   parser |-> client[c].parser]
  BY DEF ShapeOK
<1>2. client[c].out \in Seq(Symbol)
  BY DEF ShapeOK
<1>3. wire[c] \in [up : Seq(Symbol), down : Seq(Symbol),
                   up_closed : BOOLEAN, down_closed : BOOLEAN]
  BY DEF ShapeOK
<1> QED
  BY <1>1, <1>2, <1>3

\* The step of a client's end, and what becomes of the two directions.
ClientMoves(c, s, o, p) ==
    client' = [d \in Client |->
                 IF d = c THEN [step |-> s, out |-> o, parser |-> p]
                 ELSE client[d]]

WireMoves(c, u, d, uc, dc) ==
    wire' = [e \in Client |->
               IF e = c THEN [up |-> u, down |-> d, up_closed |-> uc,
                              down_closed |-> dc]
               ELSE wire[e]]

LEMMA ClientMovesIs ==
    ASSUME ShapeOK, NEW c \in Client, NEW s, NEW o, NEW p,
           client' = [d \in Client |-> client'[d]],
           \A d \in Client : d # c => client'[d] = client[d],
           client'[c] = [step |-> s, out |-> o, parser |-> p]
    PROVE  ClientMoves(c, s, o, p)
<1> DEFINE r == [step |-> s, out |-> o, parser |-> p]
<1>1. client'[c] = r
  OBVIOUS
<1> HIDE DEF r
<1>2. client' = [d \in Client |-> IF d = c THEN r ELSE client[d]]
  BY <1>1
<1> QED
  BY <1>2 DEF ClientMoves, r

LEMMA WireMovesIs ==
    ASSUME ShapeOK, NEW c \in Client, NEW u, NEW d, NEW uc, NEW dc,
           wire' = [e \in Client |-> wire'[e]],
           \A e \in Client : e # c => wire'[e] = wire[e],
           wire'[c] = [up |-> u, down |-> d, up_closed |-> uc, down_closed |-> dc]
    PROVE  WireMoves(c, u, d, uc, dc)
<1> DEFINE r == [up |-> u, down |-> d, up_closed |-> uc, down_closed |-> dc]
<1>1. wire'[c] = r
  OBVIOUS
<1> HIDE DEF r
<1>2. wire' = [e \in Client |-> IF e = c THEN r ELSE wire[e]]
  BY <1>1
<1> QED
  BY <1>2 DEF WireMoves, r

LEMMA ClientChanged ==
    ASSUME ShapeOK, NEW c \in Client, NEW s, NEW o \in Seq(Symbol), NEW p,
           ClientMoves(c, s, o, p)
    PROVE  /\ client'[c] = [step |-> s, out |-> o, parser |-> p]
           /\ \A d \in Client : d # c => client'[d] = client[d]
           /\ client' = [d \in Client |-> [step |-> client'[d].step,
                                           out |-> client'[d].out,
                                           parser |-> client'[d].parser]]
           /\ \A d \in Client : client'[d].out \in Seq(Symbol)
<1>1. \A d \in Client : /\ client[d].out \in Seq(Symbol)
                        /\ client[d] = [step |-> client[d].step,
                                        out |-> client[d].out,
                                        parser |-> client[d].parser]
  BY Shapes
<1>2. client'[c] = [step |-> s, out |-> o, parser |-> p]
  BY DEF ClientMoves
<1>3. \A d \in Client : d # c => client'[d] = client[d]
  BY DEF ClientMoves
<1>4. \A d \in Client : client'[d] = [step |-> client'[d].step,
                                      out |-> client'[d].out,
                                      parser |-> client'[d].parser]
  BY <1>1, <1>2, <1>3
<1>5. client' = [d \in Client |-> client'[d]]
  BY DEF ClientMoves
<1>6. client' = [d \in Client |-> [step |-> client'[d].step,
                                   out |-> client'[d].out,
                                   parser |-> client'[d].parser]]
  BY <1>4, <1>5
<1>7. \A d \in Client : client'[d].out \in Seq(Symbol)
  <2>1. client'[c].out = o
    BY <1>2
  <2>2. \A d \in Client : d # c => client'[d].out = client[d].out
    BY <1>3
  <2> QED
    BY <1>1, <2>1, <2>2
<1> QED
  BY <1>2, <1>3, <1>6, <1>7

LEMMA WireChanged ==
    ASSUME ShapeOK, NEW c \in Client, NEW u \in Seq(Symbol), NEW d \in Seq(Symbol),
           NEW uc \in BOOLEAN, NEW dc \in BOOLEAN, WireMoves(c, u, d, uc, dc)
    PROVE  /\ wire'[c] = [up |-> u, down |-> d, up_closed |-> uc,
                          down_closed |-> dc]
           /\ \A e \in Client : e # c => wire'[e] = wire[e]
           /\ wire' \in [Client -> [up : Seq(Symbol), down : Seq(Symbol),
                                    up_closed : BOOLEAN, down_closed : BOOLEAN]]
<1>1. wire \in [Client -> [up : Seq(Symbol), down : Seq(Symbol),
                           up_closed : BOOLEAN, down_closed : BOOLEAN]]
  BY DEF ShapeOK
<1>2. wire'[c] = [up |-> u, down |-> d, up_closed |-> uc, down_closed |-> dc]
  BY DEF WireMoves
<1>3. \A e \in Client : e # c => wire'[e] = wire[e]
  BY DEF WireMoves
<1>4. \A e \in Client : wire'[e] \in [up : Seq(Symbol), down : Seq(Symbol),
                                      up_closed : BOOLEAN, down_closed : BOOLEAN]
  <2>1. wire'[c] \in [up : Seq(Symbol), down : Seq(Symbol),
                      up_closed : BOOLEAN, down_closed : BOOLEAN]
    BY <1>2
  <2>2. \A e \in Client : e # c =>
           wire'[e] \in [up : Seq(Symbol), down : Seq(Symbol),
                         up_closed : BOOLEAN, down_closed : BOOLEAN]
    BY <1>1, <1>3
  <2> QED
    BY <2>1, <2>2
<1>5. wire' = [e \in Client |-> wire'[e]]
  BY DEF WireMoves
<1> QED
  BY <1>2, <1>3, <1>4, <1>5

\* What a step of one client leaves as it is.
LEMMA OthersUntouched ==
    ASSUME ConnectionInv, NEW c \in Client, request' = request,
           \A d \in Client : d # c =>
              /\ client'[d] = client[d] /\ wire'[d] = wire[d]
              /\ handled'[d] = handled[d] /\ (d \in answered' <=> d \in answered)
              /\ d \in Range(backlog') <=> d \in Range(backlog),
           \/ server' = server
           \/ server.conn \subseteq {c} /\ server'.conn \subseteq {c}
                 /\ (server.step = "killed" => server'.step = "killed"),
           RequestArrives(c)', ResponseArrives(c)', ClosedIsOver(c)'
    PROVE  \A d \in Client :
              RequestArrives(d)' /\ ResponseArrives(d)' /\ ClosedIsOver(d)'
<1>1. ASSUME NEW d \in Client, d # c
      PROVE  RequestArrives(d)' /\ ResponseArrives(d)' /\ ClosedIsOver(d)'
  <2>1. RequestArrives(d) /\ ResponseArrives(d) /\ ClosedIsOver(d)
    BY DEF ConnectionInv
  <2>2. /\ client'[d] = client[d] /\ wire'[d] = wire[d]
        /\ handled'[d] = handled[d] /\ (d \in answered' <=> d \in answered)
        /\ d \in Range(backlog') <=> d \in Range(backlog)
    BY <1>1
  <2>3. server' = server \/ (d \notin server.conn /\ d \notin server'.conn)
    BY <1>1
  <2>4. server.step = "killed" => server'.step = "killed"
    OBVIOUS
  <2> QED
    BY <2>1, <2>2, <2>3, <2>4, Untouched
<1> QED
  BY <1>1

LEMMA InvInit ==
    ASSUME Init
    PROVE  ConnectionInv
<1>1. request \in [Client -> UNION {Requests(c) : c \in Client}]
      /\ \A c \in Client : request[c] \in Requests(c)
  BY DEF Init
<1>2. \A c \in Client :
         client[c] = [step |-> "idle", out |-> << >>, parser |-> Parser("response")]
  BY DEF Init
<1>3. \A c \in Client :
         wire[c] = [up |-> << >>, down |-> << >>, up_closed |-> FALSE,
                    down_closed |-> FALSE]
  BY DEF Init, NoWire
<1>4. /\ backlog = << >> /\ answered = {} /\ Range(backlog) = {}
      /\ trickled \in BOOLEAN
  <2>1. trickled = FALSE
    BY DEF Init
  <2>2. trickled \in BOOLEAN
    BY <2>1
  <2> QED
    BY <2>2 DEF Init, Range
<1>5. server = [step |-> "accept", conn |-> {}, out |-> << >>,
                parser |-> Parser("request")]
  BY DEF Init, Accepting
<1>6. << >> \in Seq(Symbol) /\ Len(<< >>) = 0
  OBVIOUS
<1>7. ShapeOK
  <2>1. client = [c \in Client |-> [step |-> client[c].step,
                                    out |-> client[c].out,
                                    parser |-> client[c].parser]]
    <3>1. client = [c \in Client |-> client[c]]
      BY DEF Init
    <3>2. \A c \in Client : client[c] = [step |-> client[c].step,
                                         out |-> client[c].out,
                                         parser |-> client[c].parser]
      BY <1>2
    <3> QED
      BY <3>1, <3>2
  <2>2. \A c \in Client : client[c].out \in Seq(Symbol)
    <3>1. \A c \in Client : client[c].out = << >>
      BY <1>2
    <3> QED
      BY <1>6, <3>1
  <2>3. wire \in [Client -> [up : Seq(Symbol), down : Seq(Symbol),
                             up_closed : BOOLEAN, down_closed : BOOLEAN]]
    BY <1>6 DEF Init, NoWire
  <2>4. backlog \in Seq(Client) /\ DOMAIN backlog = {}
    BY <1>4
  <2>5. server = [step |-> server.step, conn |-> server.conn,
                  out |-> server.out, parser |-> server.parser]
        /\ server.conn \subseteq Client /\ server.out \in Seq(Symbol)
    BY <1>5, <1>6
  <2>6. handled = [c \in Client |-> handled[c]]
    BY DEF Init
  <2> QED
    BY <2>1, <2>2, <2>3, <2>4, <2>5, <2>6 DEF ShapeOK
<1>8. TypeOK
  BY <1>1, <1>2, <1>4, <1>5 DEF TypeOK, ClientStep, ServerStep
<1>9. ASSUME NEW c \in Client
      PROVE  RequestArrives(c) /\ ResponseArrives(c) /\ ClosedIsOver(c)
  <2>1. handled[c] = NotHandled
    BY DEF Init
  <2>2. \A steps : ~ Serving(c, steps)
    BY <1>5 DEF Serving
  <2>3. ~ Serving(c, {"receive"}) /\ ~ Serving(c, {"handle"})
        /\ ~ Serving(c, {"send"})
    BY <2>2
  <2>4. client[c].step = "idle" /\ client[c].out = << >> /\ wire[c].up = << >>
        /\ client[c].parser = Parser("response") /\ wire[c].down = << >>
        /\ wire[c].down_closed = FALSE
    BY <1>2, <1>3
  <2>5. RequestArrives(c)
    BY <1>4, <2>1, <2>3, <2>4 DEF RequestArrives
  <2>6. ResponseArrives(c)
    <3>1. /\ WellFormed(Given(c)) /\ "response" \in Mode
          /\ Giving(c) \in Seq(Symbol) /\ Len(Giving(c)) \in Nat
      BY <1>8, Conversation DEF Mode
    <3>2. /\ Reads(Parser("response"), "response", Given(c), Giving(c), 0)
          /\ Parser("response").state # "S_DONE"
      BY <3>1, StartReads
    <3>3. 0 \in Nat /\ 0 <= Len(Giving(c)) /\ 0 \in 0 .. Len(Giving(c))
      BY <3>1
    <3>4. Continues(<< >>, Giving(c), 0)
      BY <3>1, <3>3, ContinuesNothing
    <3>5. 0 + Len(<< >>) = 0
      BY <1>6
    <3> QED
      BY <1>4, <2>3, <2>4, <3>2, <3>3, <3>4, <3>5 DEF ResponseArrives
  <2>7. ClosedIsOver(c)
    BY <2>4 DEF ClosedIsOver
  <2> QED
    BY <2>5, <2>6, <2>7
<1> QED
  BY <1>7, <1>8, <1>9 DEF ConnectionInv

\* A step of a client that has connected keeps the invariant when what arrives
\* at the two ends of its connection is right.
LEMMA ClientStepKeeps ==
    ASSUME ConnectionInv, NEW c \in Client, client[c].step # "idle",
           NEW s \in ClientStep \ {"idle"}, NEW o \in Seq(Symbol), NEW p,
           NEW u \in Seq(Symbol), NEW d \in Seq(Symbol), NEW uc \in BOOLEAN,
           ClientMoves(c, s, o, p),
           WireMoves(c, u, d, uc, wire[c].down_closed),
           s \in {"done", "failed"} => uc = TRUE,
           UNCHANGED <<request, backlog, server, handled, answered, trickled>>,
           RequestArrives(c)', ResponseArrives(c)'
    PROVE  ConnectionInv'
<1>1. ShapeOK /\ TypeOK
  BY DEF ConnectionInv
<1>2. /\ client'[c] = [step |-> s, out |-> o, parser |-> p]
      /\ \A e \in Client : e # c => client'[e] = client[e]
      /\ client' = [e \in Client |-> [step |-> client'[e].step,
                                      out |-> client'[e].out,
                                      parser |-> client'[e].parser]]
      /\ \A e \in Client : client'[e].out \in Seq(Symbol)
  BY <1>1, ClientChanged
<1>3. /\ wire'[c] = [up |-> u, down |-> d, up_closed |-> uc,
                     down_closed |-> wire[c].down_closed]
      /\ \A e \in Client : e # c => wire'[e] = wire[e]
      /\ wire' \in [Client -> [up : Seq(Symbol), down : Seq(Symbol),
                               up_closed : BOOLEAN, down_closed : BOOLEAN]]
  <2>1. wire[c].down_closed \in BOOLEAN
    BY <1>1, Shapes
  <2> QED
    BY <1>1, <2>1, WireChanged
<1>4. client'[c].step = s /\ wire'[c].up_closed = uc
      /\ wire'[c].down_closed = wire[c].down_closed
  BY <1>2, <1>3
<1>5. ShapeOK'
  <2>1. /\ backlog' \in Seq(Client)
        /\ \A i, j \in DOMAIN backlog' : backlog'[i] = backlog'[j] => i = j
        /\ server' = [step |-> server'.step, conn |-> server'.conn,
                      out |-> server'.out, parser |-> server'.parser]
        /\ server'.conn \subseteq Client /\ server'.out \in Seq(Symbol)
        /\ handled' = [e \in Client |-> handled'[e]]
    BY <1>1 DEF ShapeOK
  <2> QED
    BY <1>2, <1>3, <2>1 DEF ShapeOK
<1>6. TypeOK'
  <2>1. ASSUME NEW e \in Client
        PROVE  /\ request'[e] \in Requests(e) /\ client'[e].step \in ClientStep
               /\ client'[e].step \in {"done", "failed"} => wire'[e].up_closed
    <3>1. CASE e = c
      BY <1>1, <1>4, <3>1 DEF TypeOK
    <3>2. CASE e # c
      BY <1>1, <1>2, <1>3, <3>2 DEF TypeOK
    <3> QED
      BY <3>1, <3>2
  <2>2. \A e \in server.conn \cup Range(backlog) : client'[e].step # "idle"
    <3>1. server.conn \cup Range(backlog) \subseteq Client
      BY <1>1 DEF ShapeOK, Range
    <3>2. \A e \in server.conn \cup Range(backlog) : client[e].step # "idle"
      BY <1>1 DEF TypeOK
    <3> QED
      BY <1>2, <1>4, <3>1, <3>2
  <2>3. /\ server.step \in ServerStep
        /\ server.conn = {} <=> server.step \in {"accept", "killed"}
        /\ server.conn \cap Range(backlog) = {}
        /\ answered \subseteq Client /\ trickled \in BOOLEAN
    BY <1>1 DEF TypeOK
  <2>4. Range(backlog') = Range(backlog)
    OBVIOUS
  <2> QED
    BY <2>1, <2>2, <2>3, <2>4 DEF TypeOK
<1>7. ClosedIsOver(c)'
  <2>1. ClosedIsOver(c)
    BY DEF ConnectionInv
  <2>2. Range(backlog') = Range(backlog)
    OBVIOUS
  <2> QED
    BY <1>4, <2>1, <2>2 DEF ClosedIsOver
<1>8. \A e \in Client :
         RequestArrives(e)' /\ ResponseArrives(e)' /\ ClosedIsOver(e)'
  <2>1. Range(backlog') = Range(backlog)
    OBVIOUS
  <2>2. \A e \in Client : e # c =>
           /\ client'[e] = client[e] /\ wire'[e] = wire[e]
           /\ handled'[e] = handled[e] /\ (e \in answered' <=> e \in answered)
           /\ e \in Range(backlog') <=> e \in Range(backlog)
    BY <1>2, <1>3, <2>1
  <2> QED
    BY <1>7, <2>2, OthersUntouched
<1> QED
  BY <1>5, <1>6, <1>8 DEF ConnectionInv

\* What is moved and what is left are the whole.
LEMMA PrefixWithRest ==
    ASSUME NEW s \in Seq(Symbol), NEW n \in 1 .. Len(s)
    PROVE  SubSeq(s, 1, n) \o SubSeq(s, n + 1, Len(s)) = s
<1>1. Len(s) \in Nat /\ 1 \in 1 .. Len(s) + 1 /\ n \in 1 - 1 .. Len(s)
  OBVIOUS
<1>2. SubSeq(s, 1, n) \o SubSeq(s, n + 1, Len(s)) = SubSeq(s, 1, Len(s))
  BY <1>1, ConcatAdjacentSubSeq
<1>3. SubSeq(s, 1, Len(s)) = s
  OBVIOUS
<1> QED
  BY <1>2, <1>3

\* What the client still has to send stays, or ends earlier.
LEMMA RequestSide ==
    ASSUME ConnectionInv, NEW c \in Client, client[c].step # "idle",
           client'[c].step # "idle",
           UNCHANGED <<request, backlog, server, handled, answered, trickled>>,
           \A n \in Nat : Continues(wire[c].up \o client[c].out, Asking(c), n) =>
              Continues(wire'[c].up \o client'[c].out, Asking(c), n)
    PROVE  RequestArrives(c)'
<1>1. RequestArrives(c)
  BY DEF ConnectionInv
<1>2. Asking(c)' = Asking(c) /\ Asked(c)' = Asked(c)
  BY DEF Asking, Asked
<1>3. Range(backlog') = Range(backlog)
  OBVIOUS
<1>4. \A steps : Serving(c, steps)' <=> Serving(c, steps)
  BY DEF Serving
<1>5. c \in Range(backlog') =>
         Continues(wire'[c].up \o client'[c].out, Asking(c), 0)
  BY <1>1, <1>3 DEF RequestArrives
<1>6. Serving(c, {"receive"})' =>
         /\ server'.parser.state # "S_DONE"
         /\ \E n \in 0 .. Len(Asking(c)) :
               /\ Reads(server'.parser, "request", Asked(c), Asking(c), n)
               /\ Continues(wire'[c].up \o client'[c].out, Asking(c), n)
  <2>1. SUFFICES ASSUME Serving(c, {"receive"})'
                 PROVE  /\ server'.parser.state # "S_DONE"
                        /\ \E n \in 0 .. Len(Asking(c)) :
                              /\ Reads(server'.parser, "request", Asked(c),
                                       Asking(c), n)
                              /\ Continues(wire'[c].up \o client'[c].out,
                                           Asking(c), n)
    OBVIOUS
  <2>2. /\ server.parser.state # "S_DONE"
        /\ \E n \in 0 .. Len(Asking(c)) :
              /\ Reads(server.parser, "request", Asked(c), Asking(c), n)
              /\ Continues(wire[c].up \o client[c].out, Asking(c), n)
    BY <1>1, <1>4, <2>1 DEF RequestArrives
  <2>3. PICK n \in 0 .. Len(Asking(c)) :
              /\ Reads(server.parser, "request", Asked(c), Asking(c), n)
              /\ Continues(wire[c].up \o client[c].out, Asking(c), n)
    BY <2>2
  <2>4. n \in Nat
    OBVIOUS
  <2>5. Continues(wire'[c].up \o client'[c].out, Asking(c), n)
    BY <2>3, <2>4
  <2> QED
    BY <2>2, <2>3, <2>5
<1>7. Serving(c, {"handle"})' =>
         /\ server'.parser.state = "S_DONE"
         /\ \E n \in 0 .. Len(Asking(c)) :
               Reads(server'.parser, "request", Asked(c), Asking(c), n)
  BY <1>1, <1>4 DEF RequestArrives
<1>8. /\ handled'[c] # NotHandled =>
           handled'[c] = Received(Asked(c))
              /\ Announced(Asked(c)) = Len(Asked(c).body)
      /\ c \in answered' \/ Serving(c, {"send"})' =>
           handled'[c] = Received(Asked(c))
  BY <1>1, <1>4 DEF RequestArrives
<1> QED
  BY <1>2, <1>5, <1>6, <1>7, <1>8 DEF RequestArrives

\* What the server sends is not touched.
LEMMA ResponseSide ==
    ASSUME ConnectionInv, NEW c \in Client, client[c].step \in {"send", "receive"},
           client'[c].step \in {"send", "receive", "failed"},
           client'[c].parser = client[c].parser, wire'[c].down = wire[c].down,
           UNCHANGED <<request, backlog, server, handled, answered, trickled>>
    PROVE  ResponseArrives(c)'
<1>1. ResponseArrives(c)
  BY DEF ConnectionInv
<1>2. Range(backlog') = Range(backlog)
  OBVIOUS
<1>3. Given(c)' = Given(c) /\ Giving(c)' = Giving(c)
  BY DEF Given, Giving, Asked
<1>4. \A steps : Serving(c, steps)' <=> Serving(c, steps)
  BY DEF Serving
<1>5. Unanswered(c)' => Unanswered(c)
  BY <1>2, <1>4 DEF Unanswered
<1> QED
  BY <1>1, <1>3, <1>4, <1>5 DEF ResponseArrives

LEMMA ClientWriteKeeps ==
    ASSUME ConnectionInv, NEW c \in Client, ClientWrite(c)
    PROVE  ConnectionInv'
<1>1. ShapeOK /\ TypeOK
  BY DEF ConnectionInv
<1> DEFINE out == client[c].out
           up == wire[c].up
<1>2. PICK n \in Pieces(c, out) :
         /\ wire' = [wire EXCEPT ![c].up = @ \o SubSeq(out, 1, n)]
         /\ client' = [client EXCEPT
                         ![c].out = SubSeq(@, n + 1, Len(@)),
                         ![c].step = IF n = Len(out) THEN "receive" ELSE @]
  BY DEF ClientWrite
<1>3. /\ client[c].step = "send"
      /\ UNCHANGED <<request, backlog, server, handled, answered, trickled>>
  BY DEF ClientWrite
<1>4. /\ client[c] = [step |-> client[c].step, out |-> out,
                      parser |-> client[c].parser]
      /\ out \in Seq(Symbol) /\ up \in Seq(Symbol)
      /\ wire[c] = [up |-> up, down |-> wire[c].down,
                    up_closed |-> wire[c].up_closed,
                    down_closed |-> wire[c].down_closed]
      /\ wire[c].down \in Seq(Symbol)
      /\ wire[c].up_closed \in BOOLEAN /\ wire[c].down_closed \in BOOLEAN
  BY <1>1, Shapes
<1>5. n \in 1 .. Len(out) /\ n \in Nat /\ n <= Len(out) /\ Len(out) \in Nat
  BY <1>4 DEF Pieces
<1> DEFINE a == SubSeq(out, 1, n)
           b == SubSeq(out, n + 1, Len(out))
           s == IF n = Len(out) THEN "receive" ELSE "send"
<1>6. a \in Seq(Symbol)
  <2> HIDE DEF out
  <2> QED
    BY ONLY <1>4, <1>5, Prefix
<1>7. b \in Seq(Symbol)
  <2>1. out \in Seq(Symbol) /\ Len(out) <= Len(out)
    BY <1>4, <1>5
  <2> HIDE DEF out
  <2> QED
    BY ONLY <2>1, <1>5, Part
<1>8. a \o b = out
  <2> HIDE DEF out
  <2> QED
    BY ONLY <1>4, <1>5, PrefixWithRest
<1>9. up \o a \in Seq(Symbol) /\ (up \o a) \o b = up \o out
  <2>1. up \in Seq(Symbol)
    BY <1>4
  <2> HIDE DEF a, b, out, up
  <2>2. up \o a \in Seq(Symbol) /\ (up \o a) \o b = up \o (a \o b)
    BY ONLY <1>6, <1>7, <2>1, ConcatAssociative, Joined
  <2> QED
    BY <1>8, <2>2
<1>10. ClientMoves(c, s, b, client[c].parser)
  <2>1. client' = [client EXCEPT ![c].out = b, ![c].step = s]
    BY <1>2, <1>3
  <2>2. DOMAIN client = Client
    BY <1>1 DEF ShapeOK
  <2> HIDE DEF b, s
  <2>3. /\ client' = [d \in Client |-> client'[d]]
        /\ \A d \in Client : d # c => client'[d] = client[d]
        /\ client'[c] = [client[c] EXCEPT !.out = b, !.step = s]
    BY <2>1, <2>2
  <2>4. client'[c] = [step |-> s, out |-> b, parser |-> client[c].parser]
    BY <1>4, <2>3
  <2> QED
    BY <1>1, <2>3, <2>4, ClientMovesIs
<1>11. WireMoves(c, up \o a, wire[c].down, wire[c].up_closed, wire[c].down_closed)
  <2>1. wire' = [wire EXCEPT ![c].up = up \o a]
    BY <1>2
  <2>2. DOMAIN wire = Client
    BY <1>1 DEF ShapeOK
  <2> DEFINE u == up \o a
  <2> HIDE DEF u
  <2>3. /\ wire' = [d \in Client |-> wire'[d]]
        /\ \A d \in Client : d # c => wire'[d] = wire[d]
        /\ wire'[c] = [wire[c] EXCEPT !.up = u]
    BY <2>1, <2>2 DEF u
  <2>4. wire'[c] = [up |-> u, down |-> wire[c].down,
                    up_closed |-> wire[c].up_closed,
                    down_closed |-> wire[c].down_closed]
    BY <1>4, <2>3
  <2>5. WireMoves(c, u, wire[c].down, wire[c].up_closed, wire[c].down_closed)
    BY <1>1, <2>3, <2>4, WireMovesIs
  <2> QED
    BY <2>5 DEF u
<1>12. s \in ClientStep \ {"idle"} /\ s \in {"send", "receive"}
  BY DEF ClientStep
<1> HIDE DEF out, up, a, b, s
<1>13. client'[c] = [step |-> s, out |-> b, parser |-> client[c].parser]
  BY <1>10 DEF ClientMoves
<1>14. wire'[c] = [up |-> up \o a, down |-> wire[c].down,
                   up_closed |-> wire[c].up_closed,
                   down_closed |-> wire[c].down_closed]
  BY <1>11 DEF WireMoves
<1>15. RequestArrives(c)'
  <2>1. wire'[c].up \o client'[c].out = wire[c].up \o client[c].out
    <3>1. wire'[c].up = up \o a /\ client'[c].out = b
      BY <1>13, <1>14
    <3> QED
      BY <1>9, <3>1 DEF up, out
  <2>2. client'[c].step # "idle"
    BY <1>12, <1>13
  <2> QED
    BY <1>3, <2>1, <2>2, RequestSide
<1>16. ResponseArrives(c)'
  <2>1. /\ client'[c].step \in {"send", "receive", "failed"}
        /\ client'[c].parser = client[c].parser /\ wire'[c].down = wire[c].down
    BY <1>12, <1>13, <1>14
  <2> QED
    BY <1>3, <2>1, ResponseSide
<1>17. client[c].step # "idle" /\ (s \in {"done", "failed"} => wire[c].up_closed = TRUE)
  BY <1>3, <1>12
<1> QED
  BY ONLY ConnectionInv, c \in Client, <1>3, <1>4, <1>7, <1>9, <1>10, <1>11,
          <1>12, <1>15, <1>16, <1>17, ClientStepKeeps

LEMMA ClientGivesUpKeeps ==
    ASSUME ConnectionInv, NEW c \in Client, ClientGivesUp(c)
    PROVE  ConnectionInv'
<1>1. ShapeOK /\ TypeOK
  BY DEF ConnectionInv
<1>2. /\ client' = [client EXCEPT ![c].step = "failed", ![c].out = << >>]
      /\ wire' = [wire EXCEPT ![c].up_closed = TRUE]
      /\ client[c].step \in {"send", "receive"}
      /\ UNCHANGED <<request, backlog, server, handled, answered, trickled>>
  BY DEF ClientGivesUp, ClientEnds
<1>3. /\ client[c] = [step |-> client[c].step, out |-> client[c].out,
                      parser |-> client[c].parser]
      /\ client[c].out \in Seq(Symbol) /\ wire[c].up \in Seq(Symbol)
      /\ wire[c] = [up |-> wire[c].up, down |-> wire[c].down,
                    up_closed |-> wire[c].up_closed,
                    down_closed |-> wire[c].down_closed]
      /\ wire[c].down \in Seq(Symbol)
  BY <1>1, Shapes
<1>4. /\ DOMAIN client = Client /\ DOMAIN wire = Client
      /\ << >> \in Seq(Symbol) /\ TRUE \in BOOLEAN
      /\ "failed" \in ClientStep \ {"idle"}
  BY <1>1 DEF ShapeOK, ClientStep
<1>5. client'[c] = [step |-> "failed", out |-> << >>, parser |-> client[c].parser]
  <2>1. client'[c] = [client[c] EXCEPT !.step = "failed", !.out = << >>]
    BY <1>2, <1>4
  <2> QED
    BY <1>3, <2>1
<1>6. wire'[c] = [up |-> wire[c].up, down |-> wire[c].down, up_closed |-> TRUE,
                  down_closed |-> wire[c].down_closed]
  <2>1. wire'[c] = [wire[c] EXCEPT !.up_closed = TRUE]
    BY <1>2, <1>4
  <2> QED
    BY <1>3, <2>1
<1>7. ClientMoves(c, "failed", << >>, client[c].parser)
  <2>1. /\ client' = [d \in Client |-> client'[d]]
        /\ \A d \in Client : d # c => client'[d] = client[d]
    BY <1>2, <1>4
  <2> QED
    BY <1>1, <1>5, <2>1, ClientMovesIs
<1>8. WireMoves(c, wire[c].up, wire[c].down, TRUE, wire[c].down_closed)
  <2>1. /\ wire' = [d \in Client |-> wire'[d]]
        /\ \A d \in Client : d # c => wire'[d] = wire[d]
    BY <1>2, <1>4
  <2> QED
    BY <1>1, <1>6, <2>1, WireMovesIs
<1>9. RequestArrives(c)'
  <2>1. ASSUME NEW n \in Nat,
               Continues(wire[c].up \o client[c].out, Asking(c), n)
        PROVE  Continues(wire'[c].up \o client'[c].out, Asking(c), n)
    <3> DEFINE up == wire[c].up
               out == client[c].out
               text == Asking(c)
    <3>1. up \in Seq(Symbol) /\ out \in Seq(Symbol) /\ text \in Seq(Symbol)
      BY <1>1, <1>3, Conversation
    <3>2. Continues(up \o out, text, n)
      BY <2>1
    <3>3. wire'[c].up = up /\ client'[c].out = << >>
      BY <1>5, <1>6
    <3> HIDE DEF up, out, text
    <3>4. Continues(up, text, n)
      BY ONLY <3>1, <3>2, n \in Nat, ContinuesJoined
    <3>5. up \o << >> = up
      BY <3>1
    <3>6. wire'[c].up \o client'[c].out = up
      BY <3>3, <3>5
    <3> QED
      BY <3>4, <3>6 DEF text
  <2>2. client'[c].step # "idle" /\ client[c].step # "idle"
    BY <1>2, <1>5
  <2> QED
    BY <1>2, <2>1, <2>2, RequestSide
<1>10. ResponseArrives(c)'
  <2>1. /\ client'[c].step = "failed"
        /\ client'[c].parser = client[c].parser /\ wire'[c].down = wire[c].down
    BY <1>5, <1>6
  <2> QED
    BY <1>2, <2>1, ResponseSide
<1>11. client[c].step # "idle" /\ ("failed" \in {"done", "failed"} => TRUE = TRUE)
  BY <1>2
<1> QED
  BY ONLY ConnectionInv, c \in Client, <1>2, <1>3, <1>4, <1>7, <1>8, <1>9,
          <1>10, <1>11, ClientStepKeeps

\* The answer that the client has read so far: the common part of the two
\* ways in which it goes on.
LEMMA Answering ==
    ASSUME ConnectionInv, NEW c \in Client, client[c].step = "receive"
    PROVE  \E n \in 0 .. Len(Giving(c)) :
              /\ Reads(client[c].parser, "response", Given(c), Giving(c), n)
              /\ Continues(wire[c].down, Giving(c), n)
              /\ Unanswered(c) => n + Len(wire[c].down) = 0
              /\ Serving(c, {"send"}) =>
                    server.out = SubSeq(Giving(c), n + Len(wire[c].down) + 1,
                                        Len(Giving(c)))
              /\ c \in answered => n + Len(wire[c].down) = Len(Giving(c))
<1>1. ResponseArrives(c)
  BY DEF ConnectionInv
<1> QED
  BY <1>1 DEF ResponseArrives

LEMMA ClientReadEndKeeps ==
    ASSUME ConnectionInv, NEW c \in Client, ClientReadEnd(c)
    PROVE  ConnectionInv'
<1> DEFINE p == Eof(client[c].parser)
           s == IF p.ok THEN "done" ELSE "failed"
<1>1. ShapeOK /\ TypeOK
  BY DEF ConnectionInv
<1>2. /\ client[c].step = "receive"
      /\ wire[c].down = << >> /\ wire[c].down_closed
      /\ client' = [client EXCEPT ![c].parser = p, ![c].step = s]
      /\ wire' = [wire EXCEPT ![c].up_closed = TRUE]
      /\ UNCHANGED <<request, backlog, server, handled, answered, trickled>>
  BY DEF ClientReadEnd
<1>3. /\ client[c] = [step |-> client[c].step, out |-> client[c].out,
                      parser |-> client[c].parser]
      /\ client[c].out \in Seq(Symbol) /\ wire[c].up \in Seq(Symbol)
      /\ wire[c] = [up |-> wire[c].up, down |-> wire[c].down,
                    up_closed |-> wire[c].up_closed,
                    down_closed |-> wire[c].down_closed]
      /\ wire[c].down \in Seq(Symbol)
  BY <1>1, Shapes
<1>4. /\ DOMAIN client = Client /\ DOMAIN wire = Client
      /\ TRUE \in BOOLEAN /\ s \in ClientStep \ {"idle"}
  BY <1>1 DEF ShapeOK, ClientStep
<1>5. s = "done" => c \notin answered \/ Same(p.msg, Given(c))
  <2>1. SUFFICES ASSUME c \in answered PROVE Same(p.msg, Given(c))
    OBVIOUS
  <2>2. PICK n \in 0 .. Len(Giving(c)) :
           /\ Reads(client[c].parser, "response", Given(c), Giving(c), n)
           /\ n + Len(wire[c].down) = Len(Giving(c))
    BY <1>2, <2>1, Answering
  <2>3. n \in Nat /\ n = Len(Text("response", Given(c), << >>))
    <3>1. Len(wire[c].down) = 0
      BY <1>2
    <3> QED
      BY <2>2, <3>1 DEF Giving
  <2> QED
    BY <1>1, <2>2, <2>3, Conversation, ResponseEnds DEF Giving
<1> HIDE DEF p, s
<1>6. client'[c] = [step |-> s, out |-> client[c].out, parser |-> p]
  <2>1. client'[c] = [client[c] EXCEPT !.parser = p, !.step = s]
    BY <1>2, <1>4
  <2> QED
    BY <1>3, <2>1
<1>7. wire'[c] = [up |-> wire[c].up, down |-> wire[c].down, up_closed |-> TRUE,
                  down_closed |-> wire[c].down_closed]
  <2>1. wire'[c] = [wire[c] EXCEPT !.up_closed = TRUE]
    BY <1>2, <1>4
  <2> QED
    BY <1>3, <2>1
<1>8. ClientMoves(c, s, client[c].out, p)
  <2>1. /\ client' = [d \in Client |-> client'[d]]
        /\ \A d \in Client : d # c => client'[d] = client[d]
    BY <1>2, <1>4
  <2> QED
    BY <1>1, <1>6, <2>1, ClientMovesIs
<1>9. WireMoves(c, wire[c].up, wire[c].down, TRUE, wire[c].down_closed)
  <2>1. /\ wire' = [d \in Client |-> wire'[d]]
        /\ \A d \in Client : d # c => wire'[d] = wire[d]
    BY <1>2, <1>4
  <2> QED
    BY <1>1, <1>7, <2>1, WireMovesIs
<1>10. RequestArrives(c)'
  <2>1. /\ wire'[c].up = wire[c].up /\ client'[c].out = client[c].out
        /\ client'[c].step # "idle" /\ client[c].step # "idle"
    BY <1>2, <1>4, <1>6, <1>7
  <2> QED
    BY <1>2, <2>1, RequestSide
<1>11. ResponseArrives(c)'
  <2>1. client'[c].step = s /\ client'[c].parser = p
        /\ wire'[c].down_closed = wire[c].down_closed
    BY <1>6, <1>7
  <2>2. s \in {"done", "failed"}
    BY DEF s
  <2>3. Given(c)' = Given(c)
    BY <1>2 DEF Given, Asked
  <2>4. s = "done" =>
           \/ \A f \in {"version", "status", "body"} : p.msg[f] = Given(c)[f]
           \/ c \notin answered' /\ wire'[c].down_closed
    BY <1>2, <1>5, <2>1 DEF Same
  <2> QED
    BY <2>1, <2>2, <2>3, <2>4 DEF ResponseArrives
<1>12. client[c].step # "idle" /\ (s \in {"done", "failed"} => TRUE = TRUE)
  BY <1>2
<1> QED
  BY ONLY ConnectionInv, c \in Client, <1>2, <1>3, <1>4, <1>8, <1>9, <1>10,
          <1>11, <1>12, ClientStepKeeps

LEMMA ClientReadKeeps ==
    ASSUME ConnectionInv, NEW c \in Client, ClientRead(c)
    PROVE  ConnectionInv'
<1> DEFINE down == wire[c].down
<1>1. ShapeOK /\ TypeOK
  BY DEF ConnectionInv
<1>2. /\ client[c].step = "receive"
      /\ UNCHANGED <<request, backlog, server, handled, answered, trickled>>
  BY DEF ClientRead
<1>3. PICK n \in Pieces(c, down) : \E p \in {Parse(client[c].parser, SubSeq(down, 1, n))} :
          /\ client' = [client EXCEPT
                          ![c].parser = p,
                          ![c].step = IF ~p.ok THEN "failed"
                                      ELSE IF p.state = "S_DONE" THEN "done"
                                      ELSE @]
          /\ wire' = [wire EXCEPT
                        ![c].down = SubSeq(@, n + 1, Len(@)),
                        ![c].up_closed = ~p.ok \/ p.state = "S_DONE"]
  BY DEF ClientRead
<1> DEFINE piece == SubSeq(down, 1, n)
           rest == SubSeq(down, n + 1, Len(down))
           p == Parse(client[c].parser, piece)
           s == IF ~p.ok THEN "failed"
                ELSE IF p.state = "S_DONE" THEN "done" ELSE "receive"
           closed == ~p.ok \/ p.state = "S_DONE"
<1>4. /\ client' = [client EXCEPT ![c].parser = p, ![c].step = s]
      /\ wire' = [wire EXCEPT ![c].down = rest, ![c].up_closed = closed]
  <2> HIDE DEF p
  <2> QED
    BY <1>2, <1>3 DEF p
<1>5. /\ client[c] = [step |-> client[c].step, out |-> client[c].out,
                      parser |-> client[c].parser]
      /\ client[c].out \in Seq(Symbol) /\ wire[c].up \in Seq(Symbol)
      /\ wire[c] = [up |-> wire[c].up, down |-> wire[c].down,
                    up_closed |-> wire[c].up_closed,
                    down_closed |-> wire[c].down_closed]
      /\ down \in Seq(Symbol)
  BY <1>1, Shapes
<1>6. n \in 0 .. Len(down) /\ n \in Nat /\ Len(down) \in Nat
  BY <1>5 DEF Pieces
<1>7. /\ DOMAIN client = Client /\ DOMAIN wire = Client
      /\ closed \in BOOLEAN /\ s \in ClientStep \ {"idle"}
      /\ s \in {"done", "failed"} => closed = TRUE
  BY <1>1 DEF ShapeOK, ClientStep
<1>8. PICK m \in 0 .. Len(Giving(c)) :
              /\ Reads(client[c].parser, "response", Given(c), Giving(c), m)
              /\ Continues(wire[c].down, Giving(c), m)
              /\ Unanswered(c) => m + Len(wire[c].down) = 0
              /\ Serving(c, {"send"}) =>
                    server.out = SubSeq(Giving(c), m + Len(wire[c].down) + 1,
                                        Len(Giving(c)))
              /\ c \in answered => m + Len(wire[c].down) = Len(Giving(c))
  BY <1>2, Answering
<1>9. /\ m \in Nat /\ Giving(c) \in Seq(Symbol) /\ Len(Giving(c)) \in Nat
      /\ WellFormed(Given(c)) /\ m + n \in Nat
  BY <1>1, <1>6, Conversation
<1>10. /\ piece \in Seq(Symbol) /\ Len(piece) = n
       /\ Continues(piece, Giving(c), m)
       /\ rest \in Seq(Symbol) /\ Len(rest) = Len(down) - n
       /\ Continues(rest, Giving(c), m + n)
  <2> DEFINE text == Giving(c)
  <2>1. text \in Seq(Symbol) /\ m \in Nat /\ down \in Seq(Symbol)
    BY <1>5, <1>9
  <2>2. Continues(down, text, m)
    BY <1>8
  <2>3. n \in 0 .. Len(down)
    BY <1>6
  <2> HIDE DEF text, down
  <2> QED
    BY ONLY <2>1, <2>2, <2>3, ContinuesParts DEF text
<1>11. ~ p.ok \/ Reads(p, "response", Given(c), Giving(c), m + n)
  <2> DEFINE mode == "response"
             extra == << >>
  <2>1. /\ mode \in Mode /\ extra \in Seq(Symbol)
        /\ (mode = "response" => extra = << >>)
        /\ Giving(c) = Text(mode, Given(c), extra)
    BY DEF Mode, Giving
  <2>2. /\ Continues(piece, Text(mode, Given(c), extra), m)
        /\ Reads(client[c].parser, mode, Given(c), Text(mode, Given(c), extra), m)
    BY <1>8, <1>10, <2>1
  <2> HIDE DEF mode, extra, piece
  <2>3. \/ ~ Parse(client[c].parser, piece).ok
        \/ Reads(Parse(client[c].parser, piece), mode, Given(c),
                 Text(mode, Given(c), extra), m + Len(piece))
    BY <1>9, <1>10, <2>1, <2>2, ParseKeeps
  <2> QED
    BY <1>10, <2>1, <2>3 DEF mode
<1>12. s = "done" => Same(p.msg, Given(c))
  <2>1. SUFFICES ASSUME s = "done" PROVE Same(p.msg, Given(c))
    OBVIOUS
  <2> HIDE DEF p
  <2>2. p.ok /\ p.state = "S_DONE"
    BY <2>1
  <2>3. Reads(p, "response", Given(c), Text("response", Given(c), << >>), m + n)
    BY <1>11, <2>2 DEF Giving
  <2> QED
    BY <1>9, <2>2, <2>3, ResponseDone
<1>13. s = "receive" =>
          p.state # "S_DONE" /\ Reads(p, "response", Given(c), Giving(c), m + n)
  <2> HIDE DEF p
  <2> QED
    BY <1>11
<1> HIDE DEF p, s, rest, piece, closed
<1>14. client'[c] = [step |-> s, out |-> client[c].out, parser |-> p]
  <2>1. client'[c] = [client[c] EXCEPT !.parser = p, !.step = s]
    BY <1>4, <1>7
  <2> QED
    BY <1>5, <2>1
<1>15. wire'[c] = [up |-> wire[c].up, down |-> rest, up_closed |-> closed,
                   down_closed |-> wire[c].down_closed]
  <2>1. wire'[c] = [wire[c] EXCEPT !.down = rest, !.up_closed = closed]
    BY <1>4, <1>7
  <2>2. wire[c] = [up |-> wire[c].up, down |-> wire[c].down,
                   up_closed |-> wire[c].up_closed,
                   down_closed |-> wire[c].down_closed]
    BY <1>5
  <2> QED
    BY <2>1, <2>2
<1>16. ClientMoves(c, s, client[c].out, p)
  <2>1. /\ client' = [d \in Client |-> client'[d]]
        /\ \A d \in Client : d # c => client'[d] = client[d]
    BY <1>4, <1>7
  <2> QED
    BY <1>1, <1>14, <2>1, ClientMovesIs
<1>17. WireMoves(c, wire[c].up, rest, closed, wire[c].down_closed)
  <2>1. /\ wire' = [d \in Client |-> wire'[d]]
        /\ \A d \in Client : d # c => wire'[d] = wire[d]
    BY <1>4, <1>7
  <2> QED
    BY <1>1, <1>15, <2>1, WireMovesIs
<1>18. RequestArrives(c)'
  <2>1. /\ wire'[c].up = wire[c].up /\ client'[c].out = client[c].out
        /\ client'[c].step # "idle" /\ client[c].step # "idle"
    BY <1>2, <1>7, <1>14, <1>15
  <2> QED
    BY <1>2, <2>1, RequestSide
<1>19. ResponseArrives(c)'
  <2>1. client'[c].step = s /\ client'[c].parser = p /\ wire'[c].down = rest
    BY <1>14, <1>15
  <2>2. s \in {"done", "failed", "receive"}
    BY DEF s
  <2>3. Given(c)' = Given(c) /\ Giving(c)' = Giving(c)
    BY <1>2 DEF Given, Giving, Asked
  <2>4. s = "done" => \A f \in {"version", "status", "body"} : p.msg[f] = Given(c)[f]
    BY <1>12 DEF Same
  <2>5. m + n \in 0 .. Len(Giving(c)) /\ (m + n) + Len(rest) = m + Len(wire[c].down)
    <3>1. (m + n) + Len(rest) <= Len(Giving(c))
      BY <1>10 DEF Continues
    <3>2. Len(rest) = Len(down) - n /\ n <= Len(down)
      BY <1>6, <1>10
    <3>3. m \in Nat /\ n \in Nat /\ Len(down) \in Nat /\ Len(Giving(c)) \in Nat
      BY <1>6, <1>9
    <3> DEFINE x == Len(rest)
               y == Len(down)
               z == Len(Giving(c))
    <3>4. (m + n) + x <= z /\ x = y - n /\ n <= y /\ y \in Nat /\ z \in Nat
      BY ONLY <3>1, <3>2, <3>3
    <3> HIDE DEF x, y, z
    <3>5. m + n \in 0 .. z /\ (m + n) + x = m + y
      BY ONLY <3>3, <3>4
    <3> QED
      BY ONLY <3>5 DEF x, y, z
  <2>6. \A steps : Serving(c, steps)' <=> Serving(c, steps)
    BY <1>2 DEF Serving
  <2>7. Unanswered(c)' => Unanswered(c)
    <3>1. Range(backlog') = Range(backlog)
      BY <1>2
    <3>2. client'[c].step # "idle"
      BY <2>1, <2>2
    <3> QED
      BY <2>6, <3>1, <3>2 DEF Unanswered
  <2> DEFINE k == m + n
  <2>8. Unanswered(c)' => k + Len(rest) = 0
    BY <1>8, <2>5, <2>7
  <2>9. Serving(c, {"send"})' =>
           server'.out = SubSeq(Giving(c), k + Len(rest) + 1, Len(Giving(c)))
    BY <1>2, <1>8, <2>5, <2>6
  <2>10. c \in answered' => k + Len(rest) = Len(Giving(c))
    BY <1>2, <1>8, <2>5
  <2>11. s = "receive" =>
            /\ p.state # "S_DONE" /\ k \in 0 .. Len(Giving(c))
            /\ Reads(p, "response", Given(c), Giving(c), k)
            /\ Continues(rest, Giving(c), k)
    BY <1>10, <1>13, <2>5
  <2> HIDE DEF k
  <2> QED
    BY <2>1, <2>2, <2>3, <2>4, <2>8, <2>9, <2>10, <2>11 DEF ResponseArrives
<1>20. client[c].step # "idle"
  BY <1>2
<1>21. rest \in Seq(Symbol)
  BY <1>10
<1> QED
  BY ONLY ConnectionInv, c \in Client, <1>2, <1>5, <1>7, <1>16, <1>17, <1>18,
          <1>19, <1>20, <1>21, ClientStepKeeps

ServerMoves(s, k, o, p) ==
    server' = [step |-> s, conn |-> k, out |-> o, parser |-> p]

\* A step of the server on a connection keeps the invariant when what arrives
\* at its two ends is right.
LEMMA ServerStepKeeps ==
    ASSUME ConnectionInv, NEW c \in Client, server.conn = {c},
           UNCHANGED <<request, client, backlog>>, trickled' \in BOOLEAN,
           NEW s \in ServerStep \ {"killed"}, NEW k \in {{}, {c}},
           NEW o \in Seq(Symbol), NEW p,
           ServerMoves(s, k, o, p), k = {} <=> s = "accept",
           NEW u \in Seq(Symbol), NEW d \in Seq(Symbol), NEW dc \in BOOLEAN,
           WireMoves(c, u, d, wire[c].up_closed, dc), dc = TRUE => k = {},
           handled' = [e \in Client |-> handled'[e]],
           \A e \in Client : e # c => handled'[e] = handled[e],
           answered' \subseteq Client,
           \A e \in Client : e # c => (e \in answered' <=> e \in answered),
           RequestArrives(c)', ResponseArrives(c)'
    PROVE  ConnectionInv'
<1>1. ShapeOK /\ TypeOK
  BY DEF ConnectionInv
<1>2. server'.step = s /\ server'.conn = k /\ server'.out = o
      /\ server' = [step |-> server'.step, conn |-> server'.conn,
                    out |-> server'.out, parser |-> server'.parser]
  BY DEF ServerMoves
<1>3. /\ wire'[c] = [up |-> u, down |-> d, up_closed |-> wire[c].up_closed,
                     down_closed |-> dc]
      /\ \A e \in Client : e # c => wire'[e] = wire[e]
      /\ wire' \in [Client -> [up : Seq(Symbol), down : Seq(Symbol),
                               up_closed : BOOLEAN, down_closed : BOOLEAN]]
  <2>1. wire[c].up_closed \in BOOLEAN
    BY <1>1, Shapes
  <2> QED
    BY <1>1, <2>1, WireChanged
<1>4. wire'[c].up_closed = wire[c].up_closed /\ wire'[c].down_closed = dc
  BY <1>3
<1>5. /\ c \notin Range(backlog) /\ client[c].step # "idle"
      /\ server.step # "killed" /\ Range(backlog') = Range(backlog)
  BY <1>1 DEF TypeOK
<1>6. ShapeOK'
  <2>1. /\ client' = [e \in Client |-> [step |-> client'[e].step,
                                        out |-> client'[e].out,
                                        parser |-> client'[e].parser]]
        /\ \A e \in Client : client'[e].out \in Seq(Symbol)
    BY <1>1 DEF ShapeOK
  <2>2. /\ backlog' \in Seq(Client)
        /\ \A i, j \in DOMAIN backlog' : backlog'[i] = backlog'[j] => i = j
    BY <1>1 DEF ShapeOK
  <2>3. server'.conn \subseteq Client /\ server'.out \in Seq(Symbol)
    BY <1>2
  <2> QED
    BY <1>2, <1>3, <2>1, <2>2, <2>3 DEF ShapeOK
<1>7. TypeOK'
  <2>1. ASSUME NEW e \in Client
        PROVE  /\ request'[e] \in Requests(e) /\ client'[e].step \in ClientStep
               /\ client'[e].step \in {"done", "failed"} => wire'[e].up_closed
    <3>1. wire'[e].up_closed = wire[e].up_closed
      BY <1>3, <1>4
    <3> QED
      BY <1>1, <3>1 DEF TypeOK
  <2>2. /\ server'.step \in ServerStep
        /\ server'.conn = {} <=> server'.step \in {"accept", "killed"}
    BY <1>2
  <2>3. server'.conn \subseteq server.conn
    BY <1>2
  <2>4. /\ server'.conn \cap Range(backlog') = {}
        /\ \A e \in server'.conn \cup Range(backlog') : client'[e].step # "idle"
    BY <1>1, <1>5, <2>3 DEF TypeOK
  <2> QED
    BY <2>1, <2>2, <2>4 DEF TypeOK
<1>8. ClosedIsOver(c)'
  BY <1>2, <1>4, <1>5 DEF ClosedIsOver
<1>9. \A e \in Client :
         RequestArrives(e)' /\ ResponseArrives(e)' /\ ClosedIsOver(e)'
  <2>1. \A e \in Client : e # c =>
           /\ client'[e] = client[e] /\ wire'[e] = wire[e]
           /\ handled'[e] = handled[e] /\ (e \in answered' <=> e \in answered)
           /\ e \in Range(backlog') <=> e \in Range(backlog)
    BY <1>3, <1>5
  <2>2. server.conn \subseteq {c} /\ server'.conn \subseteq {c}
    BY <1>2
  <2> QED
    BY <1>5, <1>8, <2>1, <2>2, OthersUntouched
<1> QED
  BY <1>6, <1>7, <1>9 DEF ConnectionInv

\* The server closes the connection, whatever it was doing.
LEMMA CloseKeeps ==
    ASSUME ConnectionInv, NEW c \in Client, server.conn = {c},
           CloseConnection(c), UNCHANGED <<request, client, backlog, answered>>,
           trickled' \in BOOLEAN,
           handled' = [e \in Client |-> handled'[e]],
           \A e \in Client : e # c => handled'[e] = handled[e],
           \/ handled'[c] = handled[c]
           \/ /\ handled'[c] = Received(Asked(c))
              /\ Announced(Asked(c)) = Len(Asked(c).body)
    PROVE  ConnectionInv'
<1>1. ShapeOK /\ TypeOK /\ RequestArrives(c) /\ ResponseArrives(c)
  BY DEF ConnectionInv
<1>2. server' = [step |-> "accept", conn |-> {}, out |-> << >>,
                 parser |-> Parser("request")]
  BY DEF CloseConnection, Accepting
<1>3. wire' = [wire EXCEPT ![c].down_closed = TRUE]
  BY DEF CloseConnection
<1>4. /\ wire[c] = [up |-> wire[c].up, down |-> wire[c].down,
                    up_closed |-> wire[c].up_closed,
                    down_closed |-> wire[c].down_closed]
      /\ wire[c].up \in Seq(Symbol) /\ wire[c].down \in Seq(Symbol)
      /\ DOMAIN wire = Client
  BY <1>1, Shapes DEF ShapeOK
<1>5. wire'[c] = [up |-> wire[c].up, down |-> wire[c].down,
                  up_closed |-> wire[c].up_closed, down_closed |-> TRUE]
  <2>1. wire'[c] = [wire[c] EXCEPT !.down_closed = TRUE]
    BY <1>3, <1>4
  <2> QED
    BY <1>4, <2>1
<1>6. WireMoves(c, wire[c].up, wire[c].down, wire[c].up_closed, TRUE)
  <2>1. /\ wire' = [d \in Client |-> wire'[d]]
        /\ \A d \in Client : d # c => wire'[d] = wire[d]
    BY <1>3, <1>4
  <2> QED
    BY <1>1, <1>5, <2>1, WireMovesIs
<1>7. /\ c \notin Range(backlog') /\ client'[c].step # "idle"
      /\ \A steps : ~ Serving(c, steps)'
  <2>1. Range(backlog') = Range(backlog) /\ server'.conn = {}
    BY <1>2
  <2> QED
    BY <1>1, <2>1 DEF TypeOK, Serving
<1>8. /\ ~ Serving(c, {"receive"})' /\ ~ Serving(c, {"handle"})'
      /\ ~ Serving(c, {"send"})' /\ ~ Unanswered(c)'
  BY <1>7 DEF Unanswered
<1>9. RequestArrives(c)'
  <2>1. Asked(c)' = Asked(c)
    BY DEF Asked
  <2>2. /\ handled[c] # NotHandled =>
             handled[c] = Received(Asked(c))
                /\ Announced(Asked(c)) = Len(Asked(c).body)
        /\ c \in answered => handled[c] = Received(Asked(c))
    BY <1>1 DEF RequestArrives
  <2> QED
    BY <1>7, <1>8, <2>1, <2>2 DEF RequestArrives
<1>10. ResponseArrives(c)'
  <2>1. Given(c)' = Given(c) /\ Giving(c)' = Giving(c)
    BY DEF Given, Giving, Asked
  <2>2. wire'[c].down = wire[c].down /\ wire'[c].down_closed = TRUE
    BY <1>5
  <2> QED
    BY <1>1, <1>8, <2>1, <2>2 DEF ResponseArrives
<1>11. "accept" \in ServerStep \ {"killed"} /\ << >> \in Seq(Symbol)
       /\ answered' \subseteq Client
  BY <1>1 DEF ServerStep, TypeOK
<1>12. /\ {} \in {{}, {c}} /\ TRUE \in BOOLEAN
       /\ {} = {} <=> "accept" = "accept"
       /\ TRUE = TRUE => {} = {}
       /\ \A e \in Client : e # c => (e \in answered' <=> e \in answered)
  OBVIOUS
<1>13. ServerMoves("accept", {}, << >>, Parser("request"))
  BY <1>2 DEF ServerMoves
<1> QED
  BY <1>4, <1>6, <1>9, <1>10, <1>11, <1>12, <1>13, ServerStepKeeps

LEMMA ServerReadKeeps ==
    ASSUME ConnectionInv, NEW c \in Client, ServerRead(c)
    PROVE  ConnectionInv'
<1> DEFINE up == wire[c].up
           out == client[c].out
<1>1. ShapeOK /\ TypeOK /\ RequestArrives(c) /\ ResponseArrives(c)
  BY DEF ConnectionInv
<1>2. /\ server.conn = {c} /\ server.step = "receive" /\ Serving(c, {"receive"})
      /\ UNCHANGED <<request, client, backlog, handled, answered>>
      /\ trickled' \in BOOLEAN
  BY DEF ServerRead, Serving
<1>3. PICK n \in Pieces(c, up) : \E p \in {Parse(server.parser, SubSeq(up, 1, n))} :
          \/ /\ p.ok
             /\ server' = [server EXCEPT
                             !.parser = p,
                             !.step = IF p.state = "S_DONE" THEN "handle"
                                      ELSE @]
             /\ wire' = [wire EXCEPT ![c].up = SubSeq(@, n + 1, Len(@))]
          \/ /\ ~p.ok
             /\ CloseConnection(c)
  BY DEF ServerRead
<1> DEFINE piece == SubSeq(up, 1, n)
           rest == SubSeq(up, n + 1, Len(up))
           p == Parse(server.parser, piece)
           s == IF p.state = "S_DONE" THEN "handle" ELSE "receive"
<1>4. \/ /\ p.ok
         /\ server' = [server EXCEPT !.parser = p, !.step = s]
         /\ wire' = [wire EXCEPT ![c].up = rest]
      \/ CloseConnection(c)
  <2> HIDE DEF p
  <2> QED
    BY <1>2, <1>3 DEF p
<1>5. handled' = [e \in Client |-> handled'[e]]
      /\ \A e \in Client : handled'[e] = handled[e]
  BY <1>1, <1>2 DEF ShapeOK
<1>6. CASE CloseConnection(c)
  BY <1>2, <1>5, <1>6, CloseKeeps
<1>7. CASE /\ p.ok
           /\ server' = [server EXCEPT !.parser = p, !.step = s]
           /\ wire' = [wire EXCEPT ![c].up = rest]
  <2>1. /\ out \in Seq(Symbol) /\ up \in Seq(Symbol)
        /\ wire[c] = [up |-> wire[c].up, down |-> wire[c].down,
                      up_closed |-> wire[c].up_closed,
                      down_closed |-> wire[c].down_closed]
        /\ wire[c].down \in Seq(Symbol) /\ wire[c].down_closed \in BOOLEAN
        /\ wire[c].up_closed \in BOOLEAN /\ DOMAIN wire = Client
    BY <1>1, Shapes DEF ShapeOK
  <2>2. n \in 0 .. Len(up) /\ n \in Nat /\ Len(up) \in Nat
    BY <2>1 DEF Pieces
  <2>3. PICK m \in 0 .. Len(Asking(c)) :
              /\ Reads(server.parser, "request", Asked(c), Asking(c), m)
              /\ Continues(up \o out, Asking(c), m)
    BY <1>1, <1>2 DEF RequestArrives
  <2>4. /\ m \in Nat /\ Asking(c) \in Seq(Symbol) /\ Len(Asking(c)) \in Nat
        /\ WellFormed(Asked(c)) /\ request[c].extra \in Seq(Symbol)
        /\ m + n \in Nat
    BY <1>1, <2>2, Conversation
  <2> DEFINE text == Asking(c)
             k == m + n
  <2>5. Continues(up, text, m) /\ Continues(out, text, m + Len(up))
    <3>1. /\ text \in Seq(Symbol) /\ up \in Seq(Symbol) /\ out \in Seq(Symbol)
          /\ m \in Nat /\ Continues(up \o out, text, m)
      BY <2>1, <2>3, <2>4
    <3> HIDE DEF text, up, out
    <3> QED
      BY ONLY <3>1, ContinuesJoined
  <2>6. /\ piece \in Seq(Symbol) /\ Len(piece) = n /\ Continues(piece, text, m)
        /\ rest \in Seq(Symbol) /\ Len(rest) = Len(up) - n
        /\ Continues(rest, text, k)
    <3>1. /\ text \in Seq(Symbol) /\ up \in Seq(Symbol) /\ m \in Nat
          /\ n \in 0 .. Len(up) /\ Continues(up, text, m)
      BY <2>1, <2>2, <2>4, <2>5
    <3> HIDE DEF text, up
    <3> QED
      BY ONLY <3>1, ContinuesParts
  <2>7. Continues(rest \o out, text, k)
    <3>1. k + Len(rest) = m + Len(up)
      <4> DEFINE x == Len(rest)
                 y == Len(up)
      <4>1. x = y - n /\ y \in Nat /\ n \in Nat /\ m \in Nat
        BY <2>2, <2>4, <2>6
      <4> HIDE DEF x, y
      <4>2. (m + n) + x = m + y
        BY ONLY <4>1
      <4> QED
        BY <4>2 DEF x, y
    <3>2. /\ text \in Seq(Symbol) /\ rest \in Seq(Symbol) /\ out \in Seq(Symbol)
          /\ k \in Nat /\ Continues(rest, text, k)
          /\ Continues(out, text, k + Len(rest))
      BY <2>1, <2>4, <2>5, <2>6, <3>1
    <3> HIDE DEF text, rest, out, k
    <3> QED
      BY ONLY <3>2, ContinuesJoined
  <2>8. Reads(p, "request", Asked(c), text, k)
    <3> DEFINE mode == "request"
               extra == request[c].extra
    <3>1. /\ mode \in Mode /\ extra \in Seq(Symbol)
          /\ (mode = "response" => extra = << >>)
          /\ text = Text(mode, Asked(c), extra)
      BY <2>4 DEF Mode, Asking
    <3>2. /\ Continues(piece, Text(mode, Asked(c), extra), m)
          /\ Reads(server.parser, mode, Asked(c), Text(mode, Asked(c), extra), m)
      BY <2>3, <2>6, <3>1
    <3> HIDE DEF mode, extra, piece, text
    <3>3. \/ ~ Parse(server.parser, piece).ok
          \/ Reads(Parse(server.parser, piece), mode, Asked(c),
                   Text(mode, Asked(c), extra), m + Len(piece))
      BY <2>4, <2>6, <3>1, <3>2, ParseKeeps
    <3> QED
      BY <1>7, <2>6, <3>1, <3>3 DEF mode
  <2>9. k \in 0 .. Len(Asking(c))
    <3>1. k + Len(rest) <= Len(text)
      BY <2>6 DEF Continues
    <3>2. Len(rest) \in Nat /\ k \in Nat /\ Len(text) \in Nat
      BY <2>4, <2>6
    <3> HIDE DEF k, rest
    <3> QED
      BY <3>1, <3>2
  <2> HIDE DEF p, k, piece, rest
  <2>10. s \in ServerStep \ {"killed"} /\ s \in {"handle", "receive"} /\ s # "accept"
    BY DEF ServerStep
  <2>11. server' = [step |-> s, conn |-> {c}, out |-> server.out, parser |-> p]
    <3>1. server = [step |-> server.step, conn |-> server.conn,
                    out |-> server.out, parser |-> server.parser]
      BY <1>1 DEF ShapeOK
    <3> HIDE DEF s
    <3> QED
      BY <1>2, <1>7, <3>1
  <2>12. wire'[c] = [up |-> rest, down |-> wire[c].down,
                     up_closed |-> wire[c].up_closed,
                     down_closed |-> wire[c].down_closed]
    <3>1. wire'[c] = [wire[c] EXCEPT !.up = rest]
      BY <1>7, <2>1
    <3> QED
      BY <2>1, <3>1
  <2>13. WireMoves(c, rest, wire[c].down, wire[c].up_closed, wire[c].down_closed)
    <3>1. /\ wire' = [d \in Client |-> wire'[d]]
          /\ \A d \in Client : d # c => wire'[d] = wire[d]
      BY <1>7, <2>1
    <3> QED
      BY <1>1, <2>12, <3>1, WireMovesIs
  <2>14. /\ wire'[c].up = rest /\ wire'[c].down = wire[c].down
         /\ wire'[c].down_closed = wire[c].down_closed
    BY <2>12
  <2>15. server'.step = s /\ server'.conn = {c} /\ server'.parser = p
    BY <2>11
  <2>16. c \notin Range(backlog) /\ client[c].step # "idle"
         /\ Range(backlog') = Range(backlog)
    BY <1>1, <1>2 DEF TypeOK
  <2>17. ~ Serving(c, {"send"})'
    BY <2>10, <2>15 DEF Serving
  <2>18. RequestArrives(c)'
    <3>1. Asked(c)' = Asked(c) /\ Asking(c)' = Asking(c)
      BY <1>2 DEF Asked, Asking
    <3>2. Serving(c, {"receive"})' => p.state # "S_DONE"
      BY <2>15 DEF Serving, s
    <3>3. Serving(c, {"handle"})' => p.state = "S_DONE"
      BY <2>15 DEF Serving, s
    <3>4. /\ handled'[c] # NotHandled =>
               handled'[c] = Received(Asked(c))
                  /\ Announced(Asked(c)) = Len(Asked(c).body)
          /\ c \in answered' => handled'[c] = Received(Asked(c))
      BY <1>1, <1>2 DEF RequestArrives
    <3>5. /\ Reads(p, "request", Asked(c), Asking(c), k)
          /\ Continues(wire'[c].up \o client'[c].out, Asking(c), k)
      BY <1>2, <2>7, <2>8, <2>14
    <3> HIDE DEF s
    <3> QED
      BY <1>2, <2>9, <2>15, <2>16, <2>17, <3>1, <3>2, <3>3, <3>4, <3>5
         DEF RequestArrives
  <2>19. ResponseArrives(c)'
    <3>1. Given(c)' = Given(c) /\ Giving(c)' = Giving(c)
      BY <1>2 DEF Given, Giving, Asked
    <3>2. Unanswered(c)
      BY <1>2 DEF Unanswered, Serving
    <3> QED
      BY <1>1, <1>2, <2>14, <2>17, <3>1, <3>2 DEF ResponseArrives
  <2>20. /\ {c} \in {{}, {c}} /\ ({c} = {} <=> s = "accept")
         /\ wire[c].down_closed # TRUE
    <3>1. ClosedIsOver(c) /\ server.step # "killed"
      BY <1>2 DEF ConnectionInv
    <3> QED
      BY <1>2, <2>10, <3>1 DEF ClosedIsOver
  <2>21. server.out \in Seq(Symbol) /\ answered' \subseteq Client
         /\ \A e \in Client : e # c => (e \in answered' <=> e \in answered)
    BY <1>1, <1>2 DEF ShapeOK, TypeOK
  <2> HIDE DEF s
  <2>22. rest \in Seq(Symbol)
    BY <2>6
  <2>23. UNCHANGED <<request, client, backlog>> /\ server.conn = {c}
    BY <1>2
  <2>24. s \in ServerStep \ {"killed"}
    BY <2>10
  <2> DEFINE served == {c}
             left == server.out
             down == wire[c].down
  <2>25. /\ served \in {{}, {c}} /\ (served = {} <=> s = "accept")
         /\ FALSE = TRUE => served = {}
         /\ ServerMoves(s, served, left, p) /\ left \in Seq(Symbol)
    BY <2>11, <2>20, <2>21 DEF ServerMoves
  <2>26. /\ down \in Seq(Symbol) /\ FALSE \in BOOLEAN
         /\ WireMoves(c, rest, down, wire[c].up_closed, FALSE)
    <3>1. wire[c].down_closed = FALSE
      BY <2>1, <2>20
    <3> QED
      BY <2>1, <2>13, <3>1
  <2> HIDE DEF served, left, down
  <2> QED
    <3>1. /\ rest \in Seq(Symbol) /\ answered' \subseteq Client
          /\ \A e \in Client : e # c => (e \in answered' <=> e \in answered)
          /\ \A e \in Client : e # c => handled'[e] = handled[e]
          /\ handled' = [e \in Client |-> handled'[e]]
      BY <1>5, <2>21, <2>22
    <3>2. /\ RequestArrives(c)' /\ ResponseArrives(c)'
          /\ server.conn = {c} /\ UNCHANGED <<request, client, backlog>>
          /\ trickled' \in BOOLEAN
      BY <1>2, <2>18, <2>19, <2>23
    <3> QED
      BY ONLY ConnectionInv, c \in Client, <2>24, <2>25, <2>26, <3>1, <3>2,
              ServerStepKeeps
<1> QED
  BY <1>4, <1>6, <1>7

LEMMA ServerClosesKeeps ==
    ASSUME ConnectionInv, NEW c \in Client, ServerReadEnd(c) \/ ServerTimeout(c)
    PROVE  ConnectionInv'
<1>1. /\ server.conn = {c} /\ CloseConnection(c)
      /\ UNCHANGED <<request, client, backlog, handled, answered>>
      /\ trickled' \in BOOLEAN
  BY DEF ServerReadEnd, ServerTimeout, Serving
<1>2. handled' = [e \in Client |-> handled'[e]]
      /\ \A e \in Client : handled'[e] = handled[e]
  BY <1>1 DEF ConnectionInv, ShapeOK
<1> QED
  BY <1>1, <1>2, CloseKeeps

LEMMA HandleKeeps ==
    ASSUME ConnectionInv, NEW c \in Client, Handle(c)
    PROVE  ConnectionInv'
<1> DEFINE req == server.parser.msg
           res == Reply(req)
           given == Given(c)
           text == Giving(c)
<1>1. ShapeOK /\ TypeOK /\ RequestArrives(c) /\ ResponseArrives(c)
  BY DEF ConnectionInv
<1>2. /\ server.conn = {c} /\ server.step = "handle" /\ Serving(c, {"handle"})
      /\ UNCHANGED <<request, client, backlog, answered, trickled>>
      /\ handled' = [handled EXCEPT ![c] = req]
      /\ \/ /\ GenerateResponse(res) # << >>
            /\ server' = [server EXCEPT !.step = "send",
                                        !.out = GenerateResponse(res)]
            /\ UNCHANGED wire
         \/ CloseConnection(c)
  BY DEF Handle, Serving
<1>3. /\ WellFormed(Asked(c)) /\ Asked(c).status = NoStatus
      /\ request[c].extra \in Seq(Symbol)
      /\ \/ request[c].extra = << >>
         \/ Lengths(Asked(c)) \subseteq {Len(Asked(c).body)}
      /\ WellFormed(given) /\ text \in Seq(Symbol) /\ Len(text) \in Nat
  BY <1>1, Conversation
<1>4. req = Received(Asked(c)) /\ Announced(Asked(c)) = Len(Asked(c).body)
  <2>1. PICK n \in 0 .. Len(Asking(c)) :
           Reads(server.parser, "request", Asked(c), Asking(c), n)
    BY <1>1, <1>2 DEF RequestArrives
  <2>2. server.parser.state = "S_DONE"
    BY <1>1, <1>2 DEF RequestArrives
  <2>3. n \in Nat
    BY <1>1, Conversation
  <2> QED
    BY <1>3, <2>1, <2>2, <2>3, RequestDone DEF Asking
<1>5. res = given
  BY <1>4 DEF Given
<1>6. /\ handled' = [e \in Client |-> handled'[e]]
      /\ \A e \in Client : e # c => handled'[e] = handled[e]
      /\ handled'[c] = Received(Asked(c))
  <2>1. handled = [e \in Client |-> handled[e]]
    BY <1>1 DEF ShapeOK
  <2> QED
    BY <1>2, <1>4, <2>1
<1>7. CASE CloseConnection(c)
  <2>1. trickled' \in BOOLEAN
    BY <1>1, <1>2 DEF TypeOK
  <2> QED
    BY <1>2, <1>4, <1>6, <1>7, <2>1, CloseKeeps
<1>8. CASE /\ GenerateResponse(res) # << >>
           /\ server' = [server EXCEPT !.step = "send",
                                       !.out = GenerateResponse(res)]
           /\ UNCHANGED wire
  <2>1. GenerateResponse(res) = text
    <3>1. given.version # << >>
      BY <1>5, <1>8 DEF GenerateResponse
    <3>2. GenerateResponse(given)
            = Generate(given.version, ToNumeral(given.status), StatusName, given)
      BY <3>1 DEF GenerateResponse
    <3> DEFINE mode == "response"
               extra == << >>
    <3>3. /\ FirstWord(mode, given) = given.version
          /\ SecondWord(mode, given) = ToNumeral(given.status)
          /\ ThirdWord(mode, given) = StatusName
      BY DEF FirstWord, SecondWord, ThirdWord
    <3>4. Text(mode, given, extra)
            = Generate(FirstWord(mode, given), SecondWord(mode, given),
                       ThirdWord(mode, given), given)
      <4>1. mode \in Mode /\ extra \in Seq(Symbol) /\ extra = << >>
        BY DEF Mode
      <4> HIDE DEF mode, extra, given
      <4> QED
        BY <1>3, <4>1, TextLaid
    <3>5. text = Text(mode, given, extra)
      BY DEF Giving
    <3> HIDE DEF mode, extra, given, text
    <3> QED
      BY <1>5, <3>2, <3>3, <3>4, <3>5
  <2> DEFINE served == {c}
             p == server.parser
             up == wire[c].up
             down == wire[c].down
  <2>2. ServerMoves("send", served, text, p)
    <3>1. server = [step |-> server.step, conn |-> server.conn,
                    out |-> server.out, parser |-> server.parser]
      BY <1>1 DEF ShapeOK
    <3> HIDE DEF text
    <3> QED
      BY <1>2, <1>8, <2>1, <3>1 DEF ServerMoves
  <2>3. /\ up \in Seq(Symbol) /\ down \in Seq(Symbol)
        /\ wire[c] = [up |-> wire[c].up, down |-> wire[c].down,
                      up_closed |-> wire[c].up_closed,
                      down_closed |-> wire[c].down_closed]
        /\ wire[c].down_closed \in BOOLEAN /\ DOMAIN wire = Client
    BY <1>1, Shapes DEF ShapeOK
  <2>4. wire[c].down_closed = FALSE
    <3>1. ClosedIsOver(c) /\ server.step # "killed"
      BY <1>2 DEF ConnectionInv
    <3> QED
      BY <1>2, <2>3, <3>1 DEF ClosedIsOver
  <2>5. WireMoves(c, up, down, wire[c].up_closed, FALSE)
    <3>1. /\ wire' = [d \in Client |-> wire'[d]]
          /\ \A d \in Client : d # c => wire'[d] = wire[d]
      BY <1>1, <1>8 DEF ShapeOK
    <3>2. wire'[c] = [up |-> up, down |-> down, up_closed |-> wire[c].up_closed,
                      down_closed |-> FALSE]
      BY <1>8, <2>3, <2>4
    <3> QED
      BY <1>1, <3>1, <3>2, WireMovesIs
  <2>6. /\ server'.step = "send" /\ server'.conn = {c} /\ server'.out = text
    BY <2>2 DEF ServerMoves
  <2>7. c \notin Range(backlog') /\ client[c].step # "idle"
    BY <1>1, <1>2 DEF TypeOK
  <2>8. /\ ~ Serving(c, {"receive"})' /\ ~ Serving(c, {"handle"})'
        /\ ~ Unanswered(c)'
    BY <1>2, <2>6, <2>7 DEF Serving, Unanswered
  <2>9. RequestArrives(c)'
    <3>1. Asked(c)' = Asked(c)
      BY <1>2 DEF Asked
    <3> QED
      BY <1>2, <1>4, <1>6, <2>7, <2>8, <3>1 DEF RequestArrives
  <2>10. ResponseArrives(c)'
    <3>1. Given(c)' = given /\ Giving(c)' = text
      BY <1>2 DEF Given, Giving, Asked
    <3>2. Unanswered(c)
      BY <1>2 DEF Unanswered, Serving
    <3>3. ASSUME client[c].step \in {"idle", "send", "receive"}
          PROVE  /\ client[c].parser.state # "S_DONE"
                 /\ \E n \in 0 .. Len(text) :
                       /\ Reads(client[c].parser, "response", given, text, n)
                       /\ Continues(down, text, n)
                       /\ text = SubSeq(text, n + Len(down) + 1, Len(text))
                       /\ c \in answered => n + Len(down) = Len(text)
      <4>1. /\ client[c].parser.state # "S_DONE"
            /\ \E n \in 0 .. Len(text) :
                  /\ Reads(client[c].parser, "response", given, text, n)
                  /\ Continues(down, text, n)
                  /\ n + Len(down) = 0
                  /\ c \in answered => n + Len(down) = Len(text)
        BY <1>1, <3>2, <3>3 DEF ResponseArrives
      <4>2. PICK n \in 0 .. Len(text) :
                  /\ Reads(client[c].parser, "response", given, text, n)
                  /\ Continues(down, text, n)
                  /\ n + Len(down) = 0
                  /\ c \in answered => n + Len(down) = Len(text)
        BY <4>1
      <4>3. SubSeq(text, 0 + 1, Len(text)) = text
        BY <1>3
      <4>4. text = SubSeq(text, n + Len(down) + 1, Len(text))
        BY <4>2, <4>3
      <4> QED
        BY <4>1, <4>2, <4>4
    <3>4. client[c].step = "done" =>
            \/ \A f \in {"version", "status", "body"} :
                  client[c].parser.msg[f] = given[f]
            \/ c \notin answered /\ wire[c].down_closed
      BY <1>1 DEF ResponseArrives
    <3> HIDE DEF given, text
    <3> QED
      BY <1>2, <1>8, <2>6, <2>8, <3>1, <3>3, <3>4 DEF ResponseArrives
  <2>11. /\ "send" \in ServerStep \ {"killed"} /\ answered' \subseteq Client
         /\ \A e \in Client : e # c => (e \in answered' <=> e \in answered)
    BY <1>1, <1>2 DEF ServerStep, TypeOK
  <2>12. /\ served \in {{}, {c}} /\ (served = {} <=> "send" = "accept")
         /\ FALSE = TRUE => served = {}
         /\ FALSE \in BOOLEAN
    OBVIOUS
  <2>13. /\ text \in Seq(Symbol)
         /\ handled' = [e \in Client |-> handled'[e]]
         /\ \A e \in Client : e # c => handled'[e] = handled[e]
         /\ UNCHANGED <<request, client, backlog>> /\ server.conn = {c}
         /\ trickled' \in BOOLEAN
    BY <1>1, <1>2, <1>3, <1>6 DEF TypeOK
  <2>14. up \in Seq(Symbol) /\ down \in Seq(Symbol)
    BY <2>3
  <2> HIDE DEF served, p, up, down, text
  <2> QED
    BY ONLY ConnectionInv, c \in Client, <2>2, <2>5, <2>9, <2>10, <2>11, <2>12,
            <2>13, <2>14, ServerStepKeeps
<1> QED
  BY <1>2, <1>7, <1>8

LEMMA ServerWriteKeeps ==
    ASSUME ConnectionInv, NEW c \in Client, ServerWrite(c)
    PROVE  ConnectionInv'
<1> DEFINE out == server.out
           down == wire[c].down
           up == wire[c].up
           given == Given(c)
           text == Giving(c)
<1>1. ShapeOK /\ TypeOK /\ RequestArrives(c) /\ ResponseArrives(c)
  BY DEF ConnectionInv
<1>2. /\ server.conn = {c} /\ server.step = "send" /\ Serving(c, {"send"})
      /\ UNCHANGED <<request, client, backlog, handled>>
      /\ trickled' \in BOOLEAN
  BY <1>1 DEF ServerWrite, Serving, TypeOK
<1>3. PICK n \in Pieces(c, out) :
         /\ wire' = [wire EXCEPT ![c].down = @ \o SubSeq(out, 1, n),
                                 ![c].down_closed = (n = Len(out))]
         /\ server' = IF n = Len(out) THEN Accepting
                      ELSE [server EXCEPT !.out = SubSeq(@, n + 1, Len(@))]
         /\ answered' = IF n = Len(out) THEN answered \cup {c} ELSE answered
  BY DEF ServerWrite
<1> DEFINE a == SubSeq(out, 1, n)
           b == SubSeq(out, n + 1, Len(out))
           whole == n = Len(out)
<1>4. /\ up \in Seq(Symbol) /\ down \in Seq(Symbol) /\ out \in Seq(Symbol)
      /\ wire[c] = [up |-> wire[c].up, down |-> wire[c].down,
                    up_closed |-> wire[c].up_closed,
                    down_closed |-> wire[c].down_closed]
      /\ DOMAIN wire = Client
      /\ server = [step |-> server.step, conn |-> server.conn,
                   out |-> server.out, parser |-> server.parser]
  BY <1>1, Shapes DEF ShapeOK
<1>5. n \in 1 .. Len(out) /\ n \in Nat /\ n <= Len(out) /\ Len(out) \in Nat
      /\ n \in 0 .. Len(out)
  BY <1>4 DEF Pieces
<1>6. WellFormed(given) /\ text \in Seq(Symbol) /\ Len(text) \in Nat
  BY <1>1, Conversation
<1>7. a \in Seq(Symbol) /\ Len(a) = n /\ \A i \in 1 .. n : a[i] = out[i]
  <2> HIDE DEF out
  <2> QED
    BY ONLY <1>4, <1>5, Prefix
<1>8. b \in Seq(Symbol) /\ Len(b) = Len(out) - n
  <2>1. out \in Seq(Symbol) /\ Len(out) <= Len(out)
    BY <1>4, <1>5
  <2> HIDE DEF out
  <2> QED
    BY ONLY <2>1, <1>5, Part
<1> DEFINE full == down \o a
<1>9. full \in Seq(Symbol) /\ Len(full) = Len(down) + n
  <2>1. down \in Seq(Symbol) /\ a \in Seq(Symbol)
    BY <1>4, <1>7
  <2> HIDE DEF down, a
  <2>2. full \in Seq(Symbol) /\ Len(full) = Len(down) + Len(a)
    BY ONLY <2>1, Joined
  <2> QED
    BY <1>7, <2>2
<1>10. /\ c \notin Range(backlog) /\ client[c].step # "idle"
       /\ Range(backlog') = Range(backlog)
       /\ handled'[c] = Received(Asked(c)) /\ wire[c].down_closed = FALSE
  <2>1. handled[c] = Received(Asked(c))
    BY <1>1, <1>2 DEF RequestArrives
  <2>2. ClosedIsOver(c) /\ wire[c].down_closed \in BOOLEAN
    BY <1>1, Shapes DEF ConnectionInv
  <2> QED
    BY <1>1, <1>2, <2>1, <2>2 DEF TypeOK, ClosedIsOver
\* What the client has read, and what the server still has.
<1>11. ASSUME client[c].step \in {"idle", "send", "receive"}
       PROVE  /\ client[c].parser.state # "S_DONE"
              /\ c \notin answered
              /\ \E m \in 0 .. Len(text) :
                    /\ Reads(client[c].parser, "response", given, text, m)
                    /\ Continues(full, text, m)
                    /\ b = SubSeq(text, m + Len(full) + 1, Len(text))
                    /\ whole => m + Len(full) = Len(text)
  <2>1. client[c].parser.state # "S_DONE"
        /\ \E m \in 0 .. Len(text) :
              /\ Reads(client[c].parser, "response", given, text, m)
              /\ Continues(down, text, m)
              /\ out = SubSeq(text, m + Len(down) + 1, Len(text))
              /\ c \in answered => m + Len(down) = Len(text)
    BY <1>1, <1>2, <1>11 DEF ResponseArrives
  <2>2. PICK m \in 0 .. Len(text) :
              /\ Reads(client[c].parser, "response", given, text, m)
              /\ Continues(down, text, m)
              /\ out = SubSeq(text, m + Len(down) + 1, Len(text))
              /\ c \in answered => m + Len(down) = Len(text)
    BY <2>1
  <2> DEFINE k == m + Len(down)
             l == Len(text)
  <2>3. m \in Nat /\ Len(down) \in Nat /\ k <= Len(text) /\ k \in Nat
    <3>1. m \in Nat /\ Len(down) \in Nat
      BY <1>4, <1>6
    <3> QED
      BY <2>2, <3>1 DEF Continues
  <2> HIDE DEF k, out, text, down, a, b, full
  <2>4. out = SubSeq(text, k + 1, l)
    BY <2>2 DEF k
  <2>5. Len(out) = l - k /\ \A i \in 1 .. l - k : out[i] = text[k + i]
    <3>1. /\ text \in Seq(Symbol) /\ k \in Nat /\ l \in Nat /\ k <= l
          /\ l <= Len(text)
      BY <1>6, <2>3
    <3> HIDE DEF l
    <3>2. /\ Len(SubSeq(text, k + 1, l)) = l - k
          /\ \A i \in 1 .. l - k : SubSeq(text, k + 1, l)[i] = text[k + i]
      BY ONLY <3>1, Part
    <3> QED
      BY <2>4, <3>2
  <2>6. Continues(a, text, k)
    <3>1. k + Len(a) <= Len(text)
      BY <1>5, <1>6, <1>7, <2>3, <2>5
    <3>2. \A i \in 1 .. Len(a) : a[i] = text[k + i]
      <4>1. \A i \in 1 .. n : i \in 1 .. l - k
        BY <1>5, <1>6, <2>3, <2>5
      <4> QED
        BY <1>7, <2>5, <4>1
    <3>3. text \in Seq(Symbol) /\ k \in Nat /\ a \in Seq(Symbol)
      BY <1>6, <1>7, <2>3
    <3> QED
      BY ONLY <3>1, <3>2, <3>3, ContinuesAt
  <2>7. Continues(full, text, m)
    <3>1. /\ text \in Seq(Symbol) /\ m \in Nat /\ down \in Seq(Symbol)
          /\ a \in Seq(Symbol) /\ Continues(down, text, m)
          /\ Continues(a, text, m + Len(down))
      BY <1>4, <1>6, <1>7, <2>2, <2>3, <2>6 DEF k
    <3>2. Continues(down \o a, text, m)
      BY ONLY <3>1, ContinuesJoined
    <3> QED
      BY <3>2 DEF full
  <2>8. m + Len(full) = k + n
    BY <1>5, <1>9, <2>3 DEF k
  <2>9. b = SubSeq(text, m + Len(full) + 1, l)
    <3>1. /\ text \in Seq(Symbol) /\ k \in 0 .. Len(text)
          /\ n \in 0 .. Len(text) - k
      BY <1>5, <1>6, <2>3, <2>5
    <3>2. SubSeq(SubSeq(text, k + 1, Len(text)), n + 1, Len(text) - k)
            = SubSeq(text, (k + n) + 1, Len(text))
      BY ONLY <3>1, PartOfPart
    <3>3. b = SubSeq(out, n + 1, l - k)
      BY <2>5 DEF b
    <3> QED
      BY <2>4, <2>8, <3>2, <3>3
  <2>10. whole => m + Len(full) = l
    <3> DEFINE x == Len(out)
               y == m + Len(full)
    <3>1. x = l - k /\ y = k + n /\ l \in Nat /\ k \in Nat
          /\ (whole => n = x)
      BY <1>6, <2>3, <2>5, <2>8 DEF out
    <3> HIDE DEF x, y, l, whole
    <3>2. whole => y = l
      BY ONLY <3>1
    <3> QED
      BY <3>2 DEF y
  <2>11. c \notin answered
    <3>1. c \in answered => k = l
      BY <2>2 DEF k
    <3> DEFINE x == Len(out)
    <3>2. x = l - k /\ n \in 1 .. x /\ k \in Nat /\ l \in Nat
      BY <1>5, <1>6, <2>3, <2>5 DEF out
    <3> HIDE DEF x, l
    <3> QED
      BY ONLY <3>1, <3>2
  <2> QED
    BY <2>1, <2>2, <2>7, <2>9, <2>10, <2>11
<1>12. Asked(c)' = Asked(c) /\ Given(c)' = given /\ Giving(c)' = text
  BY <1>2 DEF Given, Giving, Asked
<1>13. wire'[c] = [up |-> up, down |-> full, up_closed |-> wire[c].up_closed,
                   down_closed |-> whole]
  <2>1. wire'[c] = [wire[c] EXCEPT !.down = full, !.down_closed = whole]
    BY <1>3, <1>4
  <2> HIDE DEF full, whole
  <2> QED
    BY <1>4, <2>1
<1>14. /\ wire' = [d \in Client |-> wire'[d]]
       /\ \A d \in Client : d # c => wire'[d] = wire[d]
  BY <1>3, <1>4
<1>15. wire'[c].down = full
  <2> HIDE DEF full, whole, up
  <2> QED
    BY <1>13
<1>16. client[c].step = "done" =>
          \A f \in {"version", "status", "body"} :
             client[c].parser.msg[f] = given[f]
  BY <1>1, <1>10 DEF ResponseArrives
<1>17. /\ handled' = [e \in Client |-> handled'[e]]
       /\ \A e \in Client : handled'[e] = handled[e]
  BY <1>1, <1>2 DEF ShapeOK
<1>18. /\ handled'[c] # NotHandled =>
            handled'[c] = Received(Asked(c))
               /\ Announced(Asked(c)) = Len(Asked(c).body)
       /\ handled'[c] = Received(Asked(c))
  BY <1>1, <1>2, <1>10 DEF RequestArrives
<1>19. /\ answered' \subseteq Client
       /\ \A e \in Client : e # c => (e \in answered' <=> e \in answered)
       /\ c \in answered' => c \in answered \/ whole
  BY <1>1, <1>3 DEF TypeOK
<1> HIDE DEF full, a, b, out, down, up, given, text
<1>20. CASE whole
  <2>1. ServerMoves("accept", {}, << >>, Parser("request"))
    BY <1>3, <1>20 DEF Accepting, ServerMoves, out
  <2>2. WireMoves(c, up, full, wire[c].up_closed, TRUE)
    <3>1. wire'[c] = [up |-> up, down |-> full, up_closed |-> wire[c].up_closed,
                      down_closed |-> TRUE]
      <4> HIDE DEF whole
      <4> QED
        BY <1>13, <1>20
    <3> QED
      BY <1>1, <1>14, <3>1, WireMovesIs
  <2>3. /\ ~ Serving(c, {"receive"})' /\ ~ Serving(c, {"handle"})'
        /\ ~ Serving(c, {"send"})' /\ ~ Unanswered(c)'
    <3>1. server'.conn = {}
      BY <2>1 DEF ServerMoves
    <3> QED
      BY <1>2, <1>10, <3>1 DEF Serving, Unanswered
  <2>4. RequestArrives(c)'
    BY <1>2, <1>10, <1>12, <1>18, <2>3 DEF RequestArrives
  <2>5. ResponseArrives(c)'
    <3>1. ASSUME client'[c].step \in {"idle", "send", "receive"}
          PROVE  /\ client'[c].parser.state # "S_DONE"
                 /\ \E m \in 0 .. Len(text) :
                       /\ Reads(client'[c].parser, "response", given, text, m)
                       /\ Continues(wire'[c].down, text, m)
                       /\ m + Len(wire'[c].down) = Len(text)
      BY <1>2, <1>11, <1>15, <1>20, <3>1
    <3>2. client'[c].step = "done" =>
            \A f \in {"version", "status", "body"} :
               client'[c].parser.msg[f] = given[f]
      BY <1>2, <1>16
    <3> QED
      BY <1>12, <2>3, <3>1, <3>2 DEF ResponseArrives
  <2>6. /\ "accept" \in ServerStep \ {"killed"} /\ << >> \in Seq(Symbol)
        /\ {} \in {{}, {c}} /\ TRUE \in BOOLEAN
        /\ {} = {} <=> "accept" = "accept"
        /\ TRUE = TRUE => {} = {}
        /\ up \in Seq(Symbol) /\ full \in Seq(Symbol)
    BY <1>4, <1>9 DEF ServerStep, up
  <2> QED
    BY <1>2, <1>17, <1>19, <2>1, <2>2, <2>4, <2>5, <2>6, ServerStepKeeps
<1>21. CASE ~ whole
  <2> DEFINE served == {c}
             p == server.parser
  <2>1. ServerMoves("send", served, b, p)
    <3>1. server' = [server EXCEPT !.out = b]
      BY <1>3, <1>21 DEF b, out
    <3> QED
      BY <1>2, <1>4, <3>1 DEF ServerMoves
  <2>2. WireMoves(c, up, full, wire[c].up_closed, FALSE)
    <3>1. wire'[c] = [up |-> up, down |-> full, up_closed |-> wire[c].up_closed,
                      down_closed |-> FALSE]
      <4>1. whole = FALSE
        BY <1>21
      <4> HIDE DEF whole
      <4> QED
        BY <1>13, <4>1
    <3> QED
      BY <1>1, <1>14, <3>1, WireMovesIs
  <2>3. server'.conn = {c} /\ server'.step = "send" /\ server'.out = b
    BY <2>1 DEF ServerMoves
  <2>4. /\ ~ Serving(c, {"receive"})' /\ ~ Serving(c, {"handle"})'
        /\ ~ Unanswered(c)'
    BY <1>2, <1>10, <2>3 DEF Serving, Unanswered
  <2>5. RequestArrives(c)'
    BY <1>2, <1>10, <1>12, <1>18, <2>4 DEF RequestArrives
  <2>6. ResponseArrives(c)'
    <3>1. ASSUME client'[c].step \in {"idle", "send", "receive"}
          PROVE  /\ client'[c].parser.state # "S_DONE"
                 /\ \E m \in 0 .. Len(text) :
                       /\ Reads(client'[c].parser, "response", given, text, m)
                       /\ Continues(wire'[c].down, text, m)
                       /\ server'.out = SubSeq(text, m + Len(wire'[c].down) + 1,
                                               Len(text))
      BY <1>2, <1>11, <1>15, <2>3, <3>1
    <3>2. client'[c].step \in {"idle", "send", "receive"} => c \notin answered
      BY <1>2, <1>11
    <3>3. client'[c].step = "done" =>
            \A f \in {"version", "status", "body"} :
               client'[c].parser.msg[f] = given[f]
      BY <1>2, <1>16
    <3> QED
      BY <1>12, <1>19, <1>21, <2>4, <3>1, <3>2, <3>3 DEF ResponseArrives
  <2>7. /\ "send" \in ServerStep \ {"killed"} /\ b \in Seq(Symbol)
        /\ served \in {{}, {c}} /\ FALSE \in BOOLEAN
        /\ served = {} <=> "send" = "accept"
        /\ FALSE = TRUE => served = {}
        /\ up \in Seq(Symbol) /\ full \in Seq(Symbol)
    BY <1>4, <1>8, <1>9 DEF ServerStep, up
  <2> HIDE DEF served, p
  <2> QED
    BY <1>2, <1>17, <1>19, <2>1, <2>2, <2>5, <2>6, <2>7, ServerStepKeeps
<1> QED
  BY <1>20, <1>21

\* Where a sequence puts its elements.
LEMMA Queued ==
    ASSUME NEW S, NEW q \in Seq(S), NEW x \in S,
           \A i, j \in DOMAIN q : q[i] = q[j] => i = j, x \notin Range(q)
    PROVE  /\ Append(q, x) \in Seq(S)
           /\ Range(Append(q, x)) = Range(q) \cup {x}
           /\ \A i, j \in DOMAIN Append(q, x) :
                 Append(q, x)[i] = Append(q, x)[j] => i = j
<1> DEFINE r == Append(q, x)
           n == Len(q)
<1>1. /\ r \in Seq(S) /\ Len(r) = n + 1 /\ n \in Nat
      /\ \A i \in 1 .. n : r[i] = q[i]
      /\ r[n + 1] = x
      /\ DOMAIN r = 1 .. n + 1 /\ DOMAIN q = 1 .. n
  OBVIOUS
<1>2. \A i \in 1 .. n : q[i] # x
  BY <1>1 DEF Range
<1> HIDE DEF r, n
<1>3. \A i \in 1 .. n + 1 : i \in 1 .. n \/ i = n + 1
  BY <1>1
<1>4. 1 .. n \subseteq 1 .. n + 1 /\ n + 1 \in 1 .. n + 1
  BY <1>1
<1>5. Range(r) = Range(q) \cup {x}
  BY <1>1, <1>3, <1>4 DEF Range
<1>6. \A i, j \in 1 .. n + 1 : r[i] = r[j] => i = j
  BY <1>1, <1>2, <1>3
<1> QED
  BY <1>1, <1>5, <1>6 DEF r

LEMMA Dequeued ==
    ASSUME NEW S, NEW q \in Seq(S), q # << >>,
           \A i, j \in DOMAIN q : q[i] = q[j] => i = j
    PROVE  /\ Tail(q) \in Seq(S) /\ Head(q) \in S
           /\ Head(q) \in Range(q) /\ Head(q) \notin Range(Tail(q))
           /\ Range(q) = Range(Tail(q)) \cup {Head(q)}
           /\ \A i, j \in DOMAIN Tail(q) : Tail(q)[i] = Tail(q)[j] => i = j
<1> DEFINE r == Tail(q)
           x == Head(q)
           n == Len(q)
<1>1. /\ r \in Seq(S) /\ x \in S /\ n \in Nat /\ n >= 1
      /\ \A i \in 1 .. n - 1 : r[i] = q[i + 1]
      /\ x = q[1]
      /\ DOMAIN r = 1 .. n - 1 /\ DOMAIN q = 1 .. n
  OBVIOUS
<1> HIDE DEF r, x, n
<1>2. \A i \in 1 .. n - 1 : i + 1 \in 1 .. n /\ i + 1 # 1
  BY <1>1
<1>3. \A i \in 1 .. n : i = 1 \/ (i - 1 \in 1 .. n - 1 /\ (i - 1) + 1 = i)
  BY <1>1
<1>4. 1 \in 1 .. n
  BY <1>1
<1>5. x \in Range(q) /\ x \notin Range(r)
  BY <1>1, <1>2, <1>4 DEF Range
<1>6. Range(q) = Range(r) \cup {x}
  <2>1. \A i \in 1 .. n : q[i] = x \/ q[i] \in Range(r)
    <3>1. ASSUME NEW i \in 1 .. n, i # 1
          PROVE  i - 1 \in DOMAIN r /\ q[i] = r[i - 1]
      BY <1>1, <1>3, <3>1
    <3> QED
      BY <1>1, <3>1 DEF Range
  <2>2. \A i \in 1 .. n - 1 : r[i] \in Range(q)
    BY <1>1, <1>2 DEF Range
  <2> QED
    BY <1>1, <1>5, <2>1, <2>2 DEF Range
<1>7. \A i, j \in 1 .. n - 1 : r[i] = r[j] => i = j
  <2>1. ASSUME NEW i \in 1 .. n - 1, NEW j \in 1 .. n - 1, r[i] = r[j]
        PROVE  i = j
    <3>1. i + 1 = j + 1
      BY <1>1, <1>2, <2>1
    <3> QED
      BY <3>1
  <2> QED
    BY <2>1
<1> QED
  BY <1>1, <1>5, <1>6, <1>7 DEF r, x

\* The client's whole request is before it when it has connected.
LEMMA ConnectKeeps ==
    ASSUME ConnectionInv, NEW c \in Client, Connect(c)
    PROVE  ConnectionInv'
<1> DEFINE text == Asking(c)
<1>1. ShapeOK /\ TypeOK /\ RequestArrives(c) /\ ResponseArrives(c)
      /\ ClosedIsOver(c)
  BY DEF ConnectionInv
<1>2. /\ client[c].step = "idle" /\ backlog' = Append(backlog, c)
      /\ UNCHANGED <<request, wire, server, handled, answered, trickled>>
  BY DEF Connect
<1>3. text \in Seq(Symbol) /\ Len(text) \in Nat
  BY <1>1, Conversation
<1>4. client' = [client EXCEPT ![c].step = "send", ![c].out = text]
  <2>1. text = GenerateRequest(request[c].msg) \o request[c].extra
    BY DEF GenerateRequest, Asking, Asked, Text, FirstWord, SecondWord, ThirdWord
  <2> HIDE DEF text
  <2> QED
    BY <2>1 DEF Connect
<1> HIDE DEF text
<1>5. ClientMoves(c, "send", text, client[c].parser)
  <2>1. /\ client = [d \in Client |-> [step |-> client[d].step,
                                       out |-> client[d].out,
                                       parser |-> client[d].parser]]
        /\ DOMAIN client = Client
    BY <1>1 DEF ShapeOK
  <2>2. /\ client' = [d \in Client |-> client'[d]]
        /\ \A d \in Client : d # c => client'[d] = client[d]
    BY <1>4, <2>1
  <2>3. client'[c] = [client[c] EXCEPT !.step = "send", !.out = text]
    BY <1>4, <2>1
  <2>4. client[c] = [step |-> client[c].step, out |-> client[c].out,
                     parser |-> client[c].parser]
    BY <1>1, Shapes
  <2>5. client'[c] = [step |-> "send", out |-> text, parser |-> client[c].parser]
    BY <2>3, <2>4
  <2> QED
    BY <1>1, <2>2, <2>5, ClientMovesIs
<1>6. /\ client'[c] = [step |-> "send", out |-> text, parser |-> client[c].parser]
      /\ \A d \in Client : d # c => client'[d] = client[d]
      /\ client' = [d \in Client |-> [step |-> client'[d].step,
                                      out |-> client'[d].out,
                                      parser |-> client'[d].parser]]
      /\ \A d \in Client : client'[d].out \in Seq(Symbol)
  BY <1>1, <1>3, <1>5, ClientChanged
<1>7. c \notin server.conn /\ c \notin Range(backlog)
  BY <1>1, <1>2 DEF TypeOK
<1>8. /\ backlog' \in Seq(Client) /\ Range(backlog') = Range(backlog) \cup {c}
      /\ \A i, j \in DOMAIN backlog' : backlog'[i] = backlog'[j] => i = j
  <2>1. /\ backlog \in Seq(Client)
        /\ \A i, j \in DOMAIN backlog : backlog[i] = backlog[j] => i = j
    BY <1>1 DEF ShapeOK
  <2> QED
    BY <1>2, <1>7, <2>1, Queued
<1>9. client'[c].step = "send" /\ client'[c].out = text
      /\ client'[c].parser = client[c].parser
  BY <1>6
<1>10. \A steps : ~ Serving(c, steps)' /\ ~ Serving(c, steps)
  BY <1>2, <1>7 DEF Serving
<1>11. /\ ~ Serving(c, {"receive"})' /\ ~ Serving(c, {"handle"})'
       /\ ~ Serving(c, {"send"})'
  BY <1>10
<1>12. ShapeOK'
  <2>1. /\ wire' \in [Client -> [up : Seq(Symbol), down : Seq(Symbol),
                                 up_closed : BOOLEAN, down_closed : BOOLEAN]]
        /\ server' = [step |-> server'.step, conn |-> server'.conn,
                      out |-> server'.out, parser |-> server'.parser]
        /\ server'.conn \subseteq Client /\ server'.out \in Seq(Symbol)
        /\ handled' = [e \in Client |-> handled'[e]]
    BY <1>1, <1>2 DEF ShapeOK
  <2> QED
    BY <1>6, <1>8, <2>1 DEF ShapeOK
<1>13. TypeOK'
  <2>1. ASSUME NEW e \in Client
        PROVE  /\ request'[e] \in Requests(e) /\ client'[e].step \in ClientStep
               /\ client'[e].step \in {"done", "failed"} => wire'[e].up_closed
    <3>1. CASE e = c
      <4>1. "send" \in ClientStep /\ "send" \notin {"done", "failed"}
        BY DEF ClientStep
      <4> QED
        BY <1>1, <1>2, <1>9, <3>1, <4>1 DEF TypeOK
    <3>2. CASE e # c
      BY <1>1, <1>2, <1>6, <3>2 DEF TypeOK
    <3> QED
      BY <3>1, <3>2
  <2>2. \A e \in server.conn \cup Range(backlog') : client'[e].step # "idle"
    <3>1. server.conn \cup Range(backlog) \subseteq Client
      BY <1>1 DEF ShapeOK, Range
    <3>2. \A e \in server.conn \cup Range(backlog) : client[e].step # "idle"
      BY <1>1 DEF TypeOK
    <3> QED
      BY <1>6, <1>8, <1>9, <3>1, <3>2
  <2>3. /\ server.step \in ServerStep
        /\ server.conn = {} <=> server.step \in {"accept", "killed"}
        /\ server.conn \cap Range(backlog') = {}
        /\ answered \subseteq Client /\ trickled \in BOOLEAN
    BY <1>1, <1>7, <1>8 DEF TypeOK
  <2> QED
    BY <1>2, <2>1, <2>2, <2>3 DEF TypeOK
<1>14. RequestArrives(c)'
  <2>1. Asked(c)' = Asked(c) /\ Asking(c)' = text
    BY <1>2 DEF Asked, Asking, text
  <2>2. Continues(wire'[c].up \o client'[c].out, text, 0)
    <3>1. wire'[c].up = << >>
      BY <1>1, <1>2 DEF RequestArrives
    <3>2. << >> \o text = text
      BY <1>3
    <3>3. Continues(text, text, 0)
      BY <1>3, ContinuesWhole
    <3> QED
      BY <1>9, <3>1, <3>2, <3>3
  <2>3. /\ handled'[c] # NotHandled =>
             handled'[c] = Received(Asked(c))
                /\ Announced(Asked(c)) = Len(Asked(c).body)
        /\ c \in answered' => handled'[c] = Received(Asked(c))
    BY <1>1, <1>2 DEF RequestArrives
  <2> QED
    BY <1>9, <1>11, <2>1, <2>2, <2>3 DEF RequestArrives
<1>15. ResponseArrives(c)'
  <2>1. Given(c)' = Given(c) /\ Giving(c)' = Giving(c)
    BY <1>2 DEF Given, Giving, Asked
  <2>2. Unanswered(c)
    BY <1>2 DEF Unanswered
  <2>3. /\ client[c].parser.state # "S_DONE"
        /\ \E n \in 0 .. Len(Giving(c)) :
              /\ Reads(client[c].parser, "response", Given(c), Giving(c), n)
              /\ Continues(wire[c].down, Giving(c), n)
              /\ n + Len(wire[c].down) = 0
              /\ c \in answered => n + Len(wire[c].down) = Len(Giving(c))
    BY <1>1, <1>2, <2>2 DEF ResponseArrives
  <2> QED
    BY <1>2, <1>9, <1>11, <2>1, <2>3 DEF ResponseArrives
<1>16. ClosedIsOver(c)'
  BY <1>1, <1>2 DEF ClosedIsOver
<1>17. \A e \in Client :
          RequestArrives(e)' /\ ResponseArrives(e)' /\ ClosedIsOver(e)'
  <2>1. \A e \in Client : e # c =>
           /\ client'[e] = client[e] /\ wire'[e] = wire[e]
           /\ handled'[e] = handled[e] /\ (e \in answered' <=> e \in answered)
           /\ e \in Range(backlog') <=> e \in Range(backlog)
    BY <1>2, <1>6, <1>8
  <2> QED
    BY <1>2, <1>14, <1>15, <1>16, <2>1, OthersUntouched
<1> QED
  BY <1>12, <1>13, <1>17 DEF ConnectionInv

\* When the process is gone, nothing is sent any more.
LEMMA ServerKilledKeeps ==
    ASSUME ConnectionInv, NEW c \in Client, ServerKilled(c)
    PROVE  ConnectionInv'
<1>1. ShapeOK /\ TypeOK
  BY DEF ConnectionInv
<1>2. /\ server.conn = {c} /\ server.step = "send"
      /\ server' = [step |-> "killed", conn |-> {}, out |-> << >>,
                    parser |-> Parser("request")]
      /\ wire' = [d \in Client |-> [wire[d] EXCEPT !.down_closed = TRUE]]
      /\ backlog' = << >>
      /\ UNCHANGED <<request, client, handled, answered, trickled>>
  BY DEF ServerKilled, Serving, Accepting
<1>3. /\ server'.step = "killed" /\ server'.conn = {} /\ server'.out = << >>
      /\ server' = [step |-> server'.step, conn |-> server'.conn,
                    out |-> server'.out, parser |-> server'.parser]
  BY <1>2
<1>4. Range(backlog') = {}
  BY <1>2 DEF Range
<1>5. ASSUME NEW d \in Client
      PROVE  /\ wire'[d].up = wire[d].up /\ wire'[d].down = wire[d].down
             /\ wire'[d].up_closed = wire[d].up_closed
             /\ wire'[d].down_closed = TRUE
             /\ wire'[d] \in [up : Seq(Symbol), down : Seq(Symbol),
                              up_closed : BOOLEAN, down_closed : BOOLEAN]
  <2>1. wire[d] = [up |-> wire[d].up, down |-> wire[d].down,
                   up_closed |-> wire[d].up_closed,
                   down_closed |-> wire[d].down_closed]
    BY <1>1, Shapes
  <2>2. wire'[d] = [wire[d] EXCEPT !.down_closed = TRUE]
    BY <1>2
  <2>3. wire'[d] = [up |-> wire[d].up, down |-> wire[d].down,
                    up_closed |-> wire[d].up_closed, down_closed |-> TRUE]
    BY <2>1, <2>2
  <2>4. /\ wire[d].up \in Seq(Symbol) /\ wire[d].down \in Seq(Symbol)
        /\ wire[d].up_closed \in BOOLEAN /\ TRUE \in BOOLEAN
    BY <1>1, Shapes
  <2> QED
    BY <2>3, <2>4
<1>6. ShapeOK'
  <2>1. wire' \in [Client -> [up : Seq(Symbol), down : Seq(Symbol),
                              up_closed : BOOLEAN, down_closed : BOOLEAN]]
    <3>1. \A d \in Client : wire'[d] \in
             [up : Seq(Symbol), down : Seq(Symbol),
              up_closed : BOOLEAN, down_closed : BOOLEAN]
      BY <1>5
    <3>2. wire' = [d \in Client |-> wire'[d]]
      BY <1>2
    <3> QED
      BY <3>1, <3>2
  <2>2. /\ client' = [e \in Client |-> [step |-> client'[e].step,
                                        out |-> client'[e].out,
                                        parser |-> client'[e].parser]]
        /\ \A e \in Client : client'[e].out \in Seq(Symbol)
        /\ handled' = [e \in Client |-> handled'[e]]
    BY <1>1, <1>2 DEF ShapeOK
  <2>3. /\ backlog' \in Seq(Client)
        /\ \A i, j \in DOMAIN backlog' : backlog'[i] = backlog'[j] => i = j
        /\ server'.conn \subseteq Client /\ server'.out \in Seq(Symbol)
    BY <1>2, <1>3
  <2> QED
    BY <1>3, <2>1, <2>2, <2>3 DEF ShapeOK
<1>7. TypeOK'
  <2>1. ASSUME NEW e \in Client
        PROVE  /\ request'[e] \in Requests(e) /\ client'[e].step \in ClientStep
               /\ client'[e].step \in {"done", "failed"} => wire'[e].up_closed
    <3>1. wire'[e].up_closed = wire[e].up_closed
      BY <1>5
    <3> QED
      BY <1>1, <1>2, <3>1 DEF TypeOK
  <2>2. /\ server'.step \in ServerStep
        /\ server'.conn = {} <=> server'.step \in {"accept", "killed"}
        /\ answered' \subseteq Client /\ trickled' \in BOOLEAN
    BY <1>1, <1>2, <1>3 DEF TypeOK, ServerStep
  <2> QED
    BY <1>3, <1>4, <2>1, <2>2 DEF TypeOK
<1>8. ASSUME NEW d \in Client
      PROVE  RequestArrives(d)' /\ ResponseArrives(d)' /\ ClosedIsOver(d)'
  <2>1. RequestArrives(d) /\ ResponseArrives(d)
    BY DEF ConnectionInv
  <2>2. /\ wire'[d].up = wire[d].up /\ wire'[d].down = wire[d].down
        /\ wire'[d].down_closed = TRUE
    BY <1>5
  <2>3. /\ ~ Serving(d, {"receive"})' /\ ~ Serving(d, {"handle"})'
        /\ ~ Serving(d, {"send"})' /\ ~ Serving(d, {"receive", "handle"})'
        /\ d \notin Range(backlog')
    BY <1>3, <1>4 DEF Serving
  <2>4. Unanswered(d)' => Unanswered(d)
    BY <1>2, <2>3 DEF Unanswered
  <2>5. /\ Given(d)' = Given(d) /\ Giving(d)' = Giving(d)
        /\ Asked(d)' = Asked(d)
    BY <1>2 DEF Given, Giving, Asked
  <2>6. RequestArrives(d)'
    BY <1>2, <2>1, <2>2, <2>3, <2>5 DEF RequestArrives
  <2>7. ResponseArrives(d)'
    BY <1>2, <2>1, <2>2, <2>3, <2>4, <2>5 DEF ResponseArrives
  <2>8. ClosedIsOver(d)'
    BY <1>3 DEF ClosedIsOver
  <2> QED
    BY <2>6, <2>7, <2>8
<1> QED
  BY <1>6, <1>7, <1>8 DEF ConnectionInv

\* The first connection of the queue is served from its first symbol.
LEMMA AcceptKeeps ==
    ASSUME ConnectionInv, Accept, NEW c, c = Head(backlog)
    PROVE  ConnectionInv'
<1>1. ShapeOK /\ TypeOK
  BY DEF ConnectionInv
<1>2. /\ server.step = "accept" /\ backlog # << >> /\ backlog' = Tail(backlog)
      /\ server' = [step |-> "receive", conn |-> {c}, out |-> << >>,
                    parser |-> Parser("request")]
      /\ UNCHANGED <<request, client, wire, handled, answered, trickled>>
  BY DEF Accept, Accepting
<1>3. /\ backlog' \in Seq(Client) /\ c \in Client
      /\ c \in Range(backlog) /\ c \notin Range(backlog')
      /\ Range(backlog) = Range(backlog') \cup {c}
      /\ \A i, j \in DOMAIN backlog' : backlog'[i] = backlog'[j] => i = j
  <2>1. /\ backlog \in Seq(Client)
        /\ \A i, j \in DOMAIN backlog : backlog[i] = backlog[j] => i = j
    BY <1>1 DEF ShapeOK
  <2> QED
    BY <1>2, <2>1, Dequeued
<1>4. /\ server'.step = "receive" /\ server'.conn = {c} /\ server'.out = << >>
      /\ server'.parser = Parser("request")
      /\ server' = [step |-> server'.step, conn |-> server'.conn,
                    out |-> server'.out, parser |-> server'.parser]
  BY <1>2
<1>5. /\ RequestArrives(c) /\ ResponseArrives(c) /\ ClosedIsOver(c)
      /\ server.conn = {} /\ client[c].step # "idle"
  BY <1>1, <1>2, <1>3 DEF ConnectionInv, TypeOK
<1>6. ShapeOK'
  <2>1. /\ client' = [e \in Client |-> [step |-> client'[e].step,
                                        out |-> client'[e].out,
                                        parser |-> client'[e].parser]]
        /\ \A e \in Client : client'[e].out \in Seq(Symbol)
        /\ wire' \in [Client -> [up : Seq(Symbol), down : Seq(Symbol),
                                 up_closed : BOOLEAN, down_closed : BOOLEAN]]
        /\ handled' = [e \in Client |-> handled'[e]]
    BY <1>1, <1>2 DEF ShapeOK
  <2>2. server'.conn \subseteq Client /\ server'.out \in Seq(Symbol)
    BY <1>3, <1>4
  <2> QED
    BY <1>3, <1>4, <2>1, <2>2 DEF ShapeOK
<1>7. TypeOK'
  <2>1. \A e \in Client :
           /\ request'[e] \in Requests(e) /\ client'[e].step \in ClientStep
           /\ client'[e].step \in {"done", "failed"} => wire'[e].up_closed
    BY <1>1, <1>2 DEF TypeOK
  <2>2. /\ server'.step \in ServerStep
        /\ server'.conn = {} <=> server'.step \in {"accept", "killed"}
        /\ answered' \subseteq Client /\ trickled' \in BOOLEAN
    BY <1>1, <1>2, <1>4 DEF TypeOK, ServerStep
  <2>3. /\ server'.conn \cap Range(backlog') = {}
        /\ \A e \in server'.conn \cup Range(backlog') : client'[e].step # "idle"
    BY <1>1, <1>2, <1>3, <1>4, <1>5 DEF TypeOK
  <2> QED
    BY <2>1, <2>2, <2>3 DEF TypeOK
<1>8. /\ ~ Serving(c, {"handle"})' /\ ~ Serving(c, {"send"})'
  BY <1>4 DEF Serving
<1>9. RequestArrives(c)'
  <2>1. Asked(c)' = Asked(c) /\ Asking(c)' = Asking(c)
    BY <1>2 DEF Asked, Asking
  <2>2. Continues(wire'[c].up \o client'[c].out, Asking(c), 0)
    BY <1>2, <1>3, <1>5 DEF RequestArrives
  <2>3. /\ Reads(Parser("request"), "request", Asked(c), Asking(c), 0)
        /\ Parser("request").state # "S_DONE"
    <3>1. WellFormed(Asked(c)) /\ "request" \in Mode
      BY <1>1, <1>3, Conversation DEF Mode
    <3> QED
      BY <3>1, StartReads
  <2>4. 0 \in 0 .. Len(Asking(c))
    BY <1>1, <1>3, Conversation
  <2>5. /\ handled'[c] # NotHandled =>
             handled'[c] = Received(Asked(c))
                /\ Announced(Asked(c)) = Len(Asked(c).body)
        /\ c \in answered' => handled'[c] = Received(Asked(c))
    BY <1>2, <1>5 DEF RequestArrives
  <2> QED
    BY <1>2, <1>3, <1>4, <1>5, <1>8, <2>1, <2>2, <2>3, <2>4, <2>5
       DEF RequestArrives
<1>10. ResponseArrives(c)'
  <2>1. Given(c)' = Given(c) /\ Giving(c)' = Giving(c)
    BY <1>2 DEF Given, Giving, Asked
  <2>2. Unanswered(c)
    BY <1>3 DEF Unanswered
  <2> QED
    BY <1>2, <1>5, <1>8, <2>1, <2>2 DEF ResponseArrives
<1>11. ClosedIsOver(c)'
  BY <1>2, <1>3, <1>5 DEF ClosedIsOver
<1>12. \A e \in Client :
          RequestArrives(e)' /\ ResponseArrives(e)' /\ ClosedIsOver(e)'
  <2>1. \A e \in Client : e # c =>
           /\ client'[e] = client[e] /\ wire'[e] = wire[e]
           /\ handled'[e] = handled[e] /\ (e \in answered' <=> e \in answered)
           /\ e \in Range(backlog') <=> e \in Range(backlog)
    BY <1>2, <1>3
  <2>2. /\ server.conn \subseteq {c} /\ server'.conn \subseteq {c}
        /\ server.step # "killed" /\ request' = request
    BY <1>2, <1>4, <1>5
  <2> QED
    BY <1>3, <1>9, <1>10, <1>11, <2>1, <2>2, OthersUntouched
<1> QED
  BY <1>6, <1>7, <1>12 DEF ConnectionInv

LEMMA InvNext ==
    ASSUME ConnectionInv, [Next]_vars
    PROVE  ConnectionInv'
<1>1. ASSUME NEW c \in Client, Connect(c)
      PROVE  ConnectionInv'
  BY <1>1, ConnectKeeps
<1>2. ASSUME NEW c \in Client, ClientWrite(c)
      PROVE  ConnectionInv'
  BY <1>2, ClientWriteKeeps
<1>3. ASSUME NEW c \in Client, ClientRead(c)
      PROVE  ConnectionInv'
  BY <1>3, ClientReadKeeps
<1>4. ASSUME NEW c \in Client, ClientReadEnd(c)
      PROVE  ConnectionInv'
  BY <1>4, ClientReadEndKeeps
<1>5. ASSUME NEW c \in Client, ClientGivesUp(c)
      PROVE  ConnectionInv'
  BY <1>5, ClientGivesUpKeeps
<1>6. ASSUME NEW c \in Client, ServerRead(c)
      PROVE  ConnectionInv'
  BY <1>6, ServerReadKeeps
<1>7. ASSUME NEW c \in Client, ServerReadEnd(c) \/ ServerTimeout(c)
      PROVE  ConnectionInv'
  BY <1>7, ServerClosesKeeps
<1>8. ASSUME NEW c \in Client, Handle(c)
      PROVE  ConnectionInv'
  BY <1>8, HandleKeeps
<1>9. ASSUME NEW c \in Client, ServerWrite(c)
      PROVE  ConnectionInv'
  BY <1>9, ServerWriteKeeps
<1>10. ASSUME NEW c \in Client, ServerKilled(c)
       PROVE  ConnectionInv'
  BY <1>10, ServerKilledKeeps
<1>11. CASE Accept
  <2>1. PICK c : c = Head(backlog)
    OBVIOUS
  <2> QED
    BY <1>11, <2>1, AcceptKeeps
<1>12. CASE \/ UNCHANGED vars
             \/ \E c \in Client : Trickle(c)
  <2>1. /\ UNCHANGED <<request, client, wire, backlog, server, handled, answered>>
        /\ trickled' \in {trickled, ~trickled}
    BY <1>12 DEF vars, Trickle
  <2>2. ShapeOK'
    BY <2>1 DEF ConnectionInv, ShapeOK
  <2>3. TypeOK'
    <3>1. TypeOK
      BY DEF ConnectionInv
    <3>2. trickled' \in BOOLEAN
      BY <2>1, <3>1 DEF TypeOK
    <3> QED
      BY <2>1, <3>1, <3>2 DEF TypeOK
  <2>4. ASSUME NEW c \in Client
        PROVE  RequestArrives(c)' /\ ResponseArrives(c)' /\ ClosedIsOver(c)'
    <3>1. RequestArrives(c) /\ ResponseArrives(c) /\ ClosedIsOver(c)
      BY DEF ConnectionInv
    <3>2. c \in Range(backlog') <=> c \in Range(backlog)
      BY <2>1
    <3> QED
      BY <2>1, <3>1, <3>2, Untouched
  <2> QED
    BY <2>2, <2>3, <2>4 DEF ConnectionInv
<1>13. CASE Next
  BY <1>1, <1>2, <1>3, <1>4, <1>5, <1>6, <1>7, <1>8, <1>9, <1>10, <1>11, <1>12,
     <1>13
     DEF Next
<1> QED
  BY <1>12, <1>13

-----------------------------------------------------------------------------
(* What the connections promise                                            *)

\* However the texts are cut, and whoever gives up, times out or is killed,
\* the parsers of both ends are where the text puts them that has arrived.
THEOREM ParsersFollow == Spec => []ConnectionInv
<1>1. Init => ConnectionInv
  BY InvInit
<1>2. ConnectionInv /\ [Next]_vars => ConnectionInv'
  BY InvNext
<1> QED
  BY <1>1, <1>2, PTL DEF Spec

\* The steps of the server, of the clients and of the queue fit together: the
\* server serves nobody who still waits, and nobody who has not connected.
THEOREM TypeCorrect == Spec => []TypeOK
<1>1. ConnectionInv => TypeOK
  BY DEF ConnectionInv
<1> QED
  BY <1>1, ParsersFollow, PTL

\* The request handler is called with the message that the client meant, or
\* not at all: no cut, close or timeout makes it another one, or a shorter one.
THEOREM RequestsArrive == Spec => []HandledIsSent
<1>1. ASSUME ConnectionInv
      PROVE  HandledIsSent
  <2>1. ASSUME NEW c \in Client, handled[c] # NotHandled
        PROVE  LET sent == request[c].msg IN
               /\ \A f \in {"method", "uri", "version", "body"} :
                     handled[c][f] = sent[f]
               /\ Announced(sent) = Len(sent.body)
    <3> DEFINE sent == request[c].msg
    <3>1. RequestArrives(c) /\ TypeOK
      BY <1>1 DEF ConnectionInv
    <3>2. handled[c] = Received(sent) /\ Announced(sent) = Len(sent.body)
      BY <2>1, <3>1 DEF RequestArrives, Asked
    <3>3. WellFormed(sent)
      BY <3>1, Conversation DEF Asked
    <3>4. sent \in [method : Word({SP}), uri : Word({SP}),
                    version : Word({SP, CR, LF}), status : 0 .. IntMax,
                    body : Word({}),
                    headers : Seq([key : Word({COLON, CR, LF}),
                                   val : Word({CR, LF})])]
      BY <3>3 DEF WellFormed, Message
    <3> HIDE DEF sent
    <3>5. \A f \in {"method", "uri", "version", "body"} :
             Received(sent)[f] = sent[f]
      BY <3>4 DEF Received
    <3> QED
      BY <3>2, <3>5 DEF sent
  <2> QED
    BY <2>1 DEF HandledIsSent
<1>2. ConnectionInv => HandledIsSent
  BY <1>1
<1> QED
  BY <1>2, ParsersFollow, PTL

\* A client that reports success has the handler's response to the request it
\* sent, when the server wrote it as a whole.
THEOREM AnswersArrive == Spec => []AnswerArrives
<1>1. ASSUME ConnectionInv
      PROVE  AnswerArrives
  <2>1. ASSUME NEW c \in answered, client[c].step = "done"
        PROVE  \A f \in {"version", "status", "body"} :
                  client[c].parser.msg[f] = Reply(handled[c])[f]
    <3>1. c \in Client
      BY <1>1 DEF ConnectionInv, TypeOK
    <3>2. RequestArrives(c) /\ ResponseArrives(c)
      BY <1>1, <3>1 DEF ConnectionInv
    <3>3. handled[c] = Received(Asked(c))
      BY <3>2 DEF RequestArrives
    <3>4. \A f \in {"version", "status", "body"} :
             client[c].parser.msg[f] = Given(c)[f]
      BY <2>1, <3>2 DEF ResponseArrives
    <3> QED
      BY <3>3, <3>4 DEF Given
  <2> QED
    BY <2>1 DEF AnswerArrives
<1>2. ConnectionInv => AnswerArrives
  BY <1>1
<1> QED
  BY <1>2, ParsersFollow, PTL

=============================================================================
