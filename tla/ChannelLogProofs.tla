-------------------------- MODULE ChannelLogProofs --------------------------
(***************************************************************************)
(* Proofs that the channel implements the log it promises: the files hold  *)
(* whole envelopes up to their headers (FramedInv of ChannelInv), so that  *)
(* decoding them gives the messages and the offsets that were written, and *)
(* every step commits whole messages to that log or leaves it alone.       *)
(***************************************************************************)
EXTENDS ChannelProofs, ChannelLog

\* The length of every message can be written: it is less than the base to
\* the power MaxVarUIntLen, which the code's uint64 lengths always are.
MessagesFit == \A m \in Message : Fits(Len(m))

-----------------------------------------------------------------------------
(* Envelopes                                                               *)

\* A sequence over a set is one over every larger set.
LEMMA SeqWider ==
    ASSUME NEW S, NEW T, S \subseteq T, NEW s \in Seq(S)
    PROVE  s \in Seq(T) /\ Len(s) \in Nat
<1>1. Len(s) \in Nat /\ s \in [1 .. Len(s) -> T]
  OBVIOUS
<1> QED
  BY <1>1

\* A file is a sequence of numbers, so that integers can be read in it.
LEMMA FileNat ==
    FileByte \subseteq Nat /\ Seq(FileByte) \subseteq Seq(Nat)
<1>1. ASSUME NEW m \in Message, NEW x \in Range(Frame(m)) PROVE x \in Nat
  <2>1. m \in Seq(Byte) /\ Byte \subseteq Nat
    BY ChannelAssumption, VarintBaseAssumption DEF Byte
  <2>2. Len(m) \in Nat /\ m \in Seq(Nat)
    BY <2>1, SeqWider
  <2>3. VarUIntLen(Len(m)) \in Nat
    BY <2>2, VarUIntLenBounds DEF MaxVarUIntLen
  <2>4. WriteVarUInt(Len(m)) \in Seq(Nat)
    <3> DEFINE n == VarUIntLen(Len(m))
               s == Shifted(Len(m))
    <3>1. \A i \in 1 .. n : s[i - 1] \in Nat
      <4>1. n \in 1 .. MaxVarUIntLen
        BY <2>2, VarUIntLenBounds
      <4>2. \A i \in 1 .. n : i - 1 \in 0 .. MaxVarUIntLen
        BY <4>1 DEF MaxVarUIntLen
      <4> QED
        BY <2>2, <4>2, ShiftedSteps
    <3> HIDE DEF s
    <3>2. \A i \in 1 .. n : Digit(s[i - 1]) \in Nat
      BY <3>1, DigitType
    <3>3. \A i \in 1 .. n :
             Digit(s[i - 1]) + (IF s[i] # 0 THEN VarintBase ELSE 0) \in Nat
      BY <3>2, VarintBaseAssumption
    <3>4. WriteVarUInt(Len(m)) \in [1 .. n -> Nat]
      BY <3>3 DEF WriteVarUInt, s
    <3> QED
      BY <2>3, <3>4
  <2>5. Frame(m) \in Seq(Nat)
    BY <2>2, <2>4 DEF Frame
  <2> QED
    BY <2>5 DEF Range
<1>2. FileByte \subseteq Nat
  BY <1>1 DEF FileByte
<1>3. \A s \in Seq(FileByte) : s \in Seq(Nat)
  BY <1>2, SeqWider
<1> QED
  BY <1>2, <1>3

\* The parts of an envelope.
LEMMA FrameParts ==
    ASSUME NEW m \in Message, MessagesFit
    PROVE  LET n == VarUIntLen(Len(m)) IN
           /\ n \in Nat /\ n >= 1
           /\ Len(m) \in Nat /\ m \in Seq(Nat) /\ Fits(Len(m))
           /\ Frame(m) \in Seq(Nat) /\ Len(Frame(m)) = n + Len(m)
           /\ \A i \in 1 .. n : Frame(m)[i] = WriteVarUInt(Len(m))[i]
           /\ \A i \in 1 .. Len(m) : Frame(m)[n + i] = m[i]
<1> DEFINE n == VarUIntLen(Len(m))
           w == WriteVarUInt(Len(m))
<1>1. m \in Seq(Nat) /\ Len(m) \in Nat
  <2>1. m \in Seq(Byte) /\ Byte \subseteq Nat
    BY ChannelAssumption, VarintBaseAssumption DEF Byte
  <2> QED
    BY <2>1, SeqWider
<1>2. Fits(Len(m))
  BY DEF MessagesFit
<1>3. n \in Nat /\ n >= 1
  BY <1>1, VarUIntLenBounds DEF MaxVarUIntLen
<1>4. w \in Seq(Nat) /\ Len(w) = n
  BY <1>1, <1>2, WriteVarUIntBytes
<1> HIDE DEF n, w
<1>5. Frame(m) = w \o m
  BY DEF Frame, w
<1>6. /\ w \o m \in Seq(Nat) /\ Len(w \o m) = n + Len(m)
      /\ \A i \in 1 .. n : (w \o m)[i] = w[i]
      /\ \A i \in 1 .. Len(m) : (w \o m)[n + i] = m[i]
  <2>1. /\ w \o m \in Seq(Nat) /\ Len(w \o m) = Len(w) + Len(m)
        /\ \A i \in 1 .. Len(w) + Len(m) :
              (w \o m)[i] = IF i <= Len(w) THEN w[i] ELSE m[i - Len(w)]
    BY <1>1, <1>4, ConcatProperties
  <2>2. \A i \in 1 .. n : i \in 1 .. n + Len(m)
    BY <1>1, <1>3
  <2>3. \A i \in 1 .. Len(m) :
           n + i \in 1 .. n + Len(m) /\ ~ (n + i <= n) /\ n + i - n = i
    BY <1>1, <1>3
  <2> QED
    BY <1>4, <2>1, <2>2, <2>3
<1> QED
  BY <1>1, <1>2, <1>3, <1>5, <1>6 DEF n, w

\* The part of a buffer behind its first a bytes and up to b.
LEMMA PartOf ==
    ASSUME NEW s \in Seq(Nat), NEW a \in Nat, NEW b \in Nat, a <= b,
           b <= Len(s)
    PROVE  /\ SubSeq(s, a + 1, b) \in Seq(Nat)
           /\ Len(SubSeq(s, a + 1, b)) = b - a
           /\ \A i \in 1 .. b - a : SubSeq(s, a + 1, b)[i] = s[a + i]
<1>1. a + 1 \in Int /\ b \in Int
  OBVIOUS
<1>2. \A i \in a + 1 .. b : s[i] \in Nat
  OBVIOUS
<1>3. /\ SubSeq(s, a + 1, b) \in Seq(Nat)
      /\ Len(SubSeq(s, a + 1, b)) = IF a + 1 <= b THEN b - (a + 1) + 1 ELSE 0
      /\ \A i \in 1 .. b - (a + 1) + 1 :
            SubSeq(s, a + 1, b)[i] = s[(a + 1) + i - 1]
  BY <1>1, <1>2, SubSeqProperties
<1>4. /\ (IF a + 1 <= b THEN b - (a + 1) + 1 ELSE 0) = b - a
      /\ b - (a + 1) + 1 = b - a
      /\ \A i \in 1 .. b - a : (a + 1) + i - 1 = a + i
  OBVIOUS
<1> QED
  BY <1>3, <1>4

\* readVarUInt and the payload behind it give back the message that stands at
\* p (messageWrite against segmentRead).
LEMMA HoldsRead ==
    ASSUME NEW d \in Seq(Nat), NEW p \in Nat, NEW m \in Message, MessagesFit,
           Holds(d, p, m)
    PROVE  LET n == VarUIntLen(Len(m)) IN
           /\ ReadVarUInt(d, p) = [ok |-> TRUE, cur |-> p + n, value |-> Len(m)]
           /\ SubSeq(d, p + n + 1, p + n + Len(m)) = m
           /\ Len(Frame(m)) = n + Len(m) /\ n \in Nat /\ n >= 1
           /\ Len(m) \in Nat
<1> DEFINE n == VarUIntLen(Len(m))
<1>1. /\ n \in Nat /\ n >= 1
      /\ Len(m) \in Nat /\ m \in Seq(Nat) /\ Fits(Len(m))
      /\ Len(Frame(m)) = n + Len(m)
      /\ \A i \in 1 .. n : Frame(m)[i] = WriteVarUInt(Len(m))[i]
      /\ \A i \in 1 .. Len(m) : Frame(m)[n + i] = m[i]
  BY FrameParts
<1> HIDE DEF n
<1>2. p + n + Len(m) <= Len(d) /\ \A i \in 1 .. n + Len(m) : d[p + i] = Frame(m)[i]
  BY <1>1 DEF Holds
<1>3. Encoded(d, p, Len(m))
  <2>1. \A i \in 1 .. n : i \in 1 .. n + Len(m)
    BY <1>1
  <2>2. \A i \in 1 .. n : d[p + i] = WriteVarUInt(Len(m))[i]
    BY <1>1, <1>2, <2>1
  <2> QED
    BY <2>2 DEF Encoded, n
<1>4. ReadVarUInt(d, p) = [ok |-> TRUE, cur |-> p + n, value |-> Len(m)]
  <2>1. p + VarUIntLen(Len(m)) <= Len(d)
    BY <1>1, <1>2 DEF n
  <2> QED
    BY <1>1, <1>3, <2>1, VarUIntReadBack DEF n
<1>5. SubSeq(d, p + n + 1, p + n + Len(m)) = m
  <2> DEFINE s == SubSeq(d, p + n + 1, p + n + Len(m))
  <2>1. s \in Seq(Nat) /\ Len(s) = Len(m)
        /\ \A i \in 1 .. Len(m) : s[i] = d[p + n + i]
    <3> DEFINE a == p + n
               z == a + Len(m)
    <3>1. a \in Nat /\ z \in Nat /\ a <= z /\ z <= Len(d) /\ z - a = Len(m)
      BY <1>1, <1>2
    <3> HIDE DEF a, z
    <3>2. /\ SubSeq(d, a + 1, z) \in Seq(Nat)
          /\ Len(SubSeq(d, a + 1, z)) = z - a
          /\ \A i \in 1 .. z - a : SubSeq(d, a + 1, z)[i] = d[a + i]
      BY <3>1, PartOf
    <3> QED
      BY <3>1, <3>2 DEF a, z
  <2>2. \A i \in 1 .. Len(m) : n + i \in 1 .. n + Len(m)
                               /\ p + (n + i) = p + n + i
    BY <1>1
  <2>3. \A i \in 1 .. Len(m) : s[i] = m[i]
    BY <1>1, <1>2, <2>1, <2>2
  <2> HIDE DEF s
  <2> QED
    BY <1>1, <2>1, <2>3, SeqEqual DEF s
<1> QED
  BY <1>1, <1>4, <1>5 DEF n

\* Only one message can stand at a place.
LEMMA FrameUnique ==
    ASSUME NEW d \in Seq(Nat), NEW p \in Nat, MessagesFit,
           NEW m \in Message, NEW k \in Message, Holds(d, p, m), Holds(d, p, k)
    PROVE  m = k
<1> DEFINE r == ReadVarUInt(d, p)
<1>1. m = SubSeq(d, r.cur + 1, r.cur + r.value)
  <2>1. /\ r = [ok |-> TRUE, cur |-> p + VarUIntLen(Len(m)), value |-> Len(m)]
        /\ SubSeq(d, p + VarUIntLen(Len(m)) + 1,
                   p + VarUIntLen(Len(m)) + Len(m)) = m
    BY HoldsRead
  <2> HIDE DEF r
  <2> QED
    BY <2>1
<1>2. k = SubSeq(d, r.cur + 1, r.cur + r.value)
  <2>1. /\ r = [ok |-> TRUE, cur |-> p + VarUIntLen(Len(k)), value |-> Len(k)]
        /\ SubSeq(d, p + VarUIntLen(Len(k)) + 1,
                   p + VarUIntLen(Len(k)) + Len(k)) = k
    BY HoldsRead
  <2> HIDE DEF r
  <2> QED
    BY <2>1
<1> QED
  BY <1>1, <1>2


-----------------------------------------------------------------------------
(* Runs of whole envelopes                                                 *)

LEMMA FrameLen ==
    ASSUME NEW m \in Message
    PROVE  Len(Frame(m)) \in Nat /\ Len(Frame(m)) >= 1
BY FrameType

\* A message stands where it stood as long as its bytes do.
LEMMA HoldsSame ==
    ASSUME NEW d, NEW e, NEW n \in Nat, NEW p \in Nat, NEW m \in Message,
           Holds(d, p, m), p + Len(Frame(m)) <= n, n <= Len(e),
           Len(e) \in Nat, \A i \in 1 .. n : e[i] = d[i]
    PROVE  Holds(e, p, m)
<1> DEFINE k == Len(Frame(m))
<1>1. k \in Nat
  BY FrameLen
<1> HIDE DEF k
<1>2. \A i \in 1 .. k : p + i \in 1 .. n
  BY <1>1 DEF k
<1>3. p + k <= Len(e) /\ \A i \in 1 .. k : e[p + i] = Frame(m)[i]
  BY <1>1, <1>2 DEF Holds, k
<1> QED
  BY <1>3 DEF Holds, k

LEMMA StartsSame ==
    ASSUME NEW d, NEW e, NEW n \in Nat, NEW p \in Nat, NEW starts,
           Starts(d, p, n, starts),
           n <= Len(e), Len(e) \in Nat, \A i \in 1 .. n : e[i] = d[i]
    PROVE  Starts(e, p, n, starts)
<1>1. ASSUME NEW s \in starts \ {n}
      PROVE  \E m \in Message : Holds(e, s, m) /\ s + Len(Frame(m)) \in starts
  <2>1. PICK m \in Message : Holds(d, s, m) /\ s + Len(Frame(m)) \in starts
    BY DEF Starts
  <2>2. s \in Nat /\ s + Len(Frame(m)) <= n
    BY <2>1 DEF Starts
  <2>3. Holds(e, s, m)
    BY <2>1, <2>2, HoldsSame
  <2> QED
    BY <2>1, <2>3
<1> QED
  BY <1>1 DEF Starts

LEMMA FramedSame ==
    ASSUME NEW d, NEW e, NEW n \in Nat, NEW p \in Nat, Framed(d, p, n),
           n <= Len(e), Len(e) \in Nat, \A i \in 1 .. n : e[i] = d[i]
    PROVE  Framed(e, p, n)
BY StartsSame DEF Framed

\* No envelope at all, and one envelope.
LEMMA FramedEmpty ==
    ASSUME NEW d, NEW n \in Nat
    PROVE  Framed(d, n, n)
<1>1. Starts(d, n, n, {n})
  BY DEF Starts
<1> QED
  BY <1>1 DEF Framed

LEMMA FramedOne ==
    ASSUME NEW d, NEW p \in Nat, NEW m \in Message, Holds(d, p, m)
    PROVE  Framed(d, p, p + Len(Frame(m)))
<1> DEFINE n == p + Len(Frame(m))
<1>1. n \in Nat /\ p \in p .. n /\ n \in p .. n
  BY FrameLen
<1>2. Starts(d, p, n, {p, n})
  BY <1>1 DEF Starts
<1> QED
  BY <1>1, <1>2 DEF Framed

\* Two runs of envelopes that meet are one, and the place where they meet is
\* the beginning of an envelope in it.
LEMMA FramedCompose ==
    ASSUME NEW d, NEW p \in Nat, NEW q \in Nat, NEW n \in Nat,
           Framed(d, p, q), Framed(d, q, n)
    PROVE  /\ \E starts \in SUBSET (p .. n) :
                 Starts(d, p, n, starts) /\ q \in starts
           /\ Framed(d, p, n)
<1>1. PICK A \in SUBSET (p .. q) : Starts(d, p, q, A)
  BY DEF Framed
<1>2. PICK B \in SUBSET (q .. n) : Starts(d, q, n, B)
  BY DEF Framed
<1>3. p <= q /\ q <= n
  <2>1. p \in p .. q /\ q \in q .. n
    BY <1>1, <1>2 DEF Starts
  <2> QED
    BY <2>1
<1>4. A \cup B \in SUBSET (p .. n)
  BY <1>3
<1>5. Starts(d, p, n, A \cup B)
  <2>1. {p, n} \subseteq A \cup B
    BY <1>1, <1>2 DEF Starts
  <2>2. ASSUME NEW s \in (A \cup B) \ {n}
        PROVE  \E m \in Message :
                  Holds(d, s, m) /\ s + Len(Frame(m)) \in A \cup B
    <3>1. s \in A \ {q} \/ s \in B \ {n}
      <4>1. q \in B
        BY <1>2 DEF Starts
      <4> QED
        BY <2>2, <4>1
    <3> QED
      BY <1>1, <1>2, <3>1 DEF Starts
  <2> QED
    BY <1>4, <2>1, <2>2 DEF Starts
<1>6. q \in A \cup B
  BY <1>2 DEF Starts
<1> QED
  BY <1>4, <1>5, <1>6 DEF Framed

-----------------------------------------------------------------------------
(* Whole envelopes on disk                                                 *)

\* The numbers of bytes in the files.
LEMMA FileFacts ==
    ASSUME DiskInv, NEW b \in DOMAIN segs
    PROVE  /\ b \in Nat /\ segs[b].head \in Nat /\ segs[b].head - b \in Nat
           /\ segs[b].data \in Seq(FileByte) /\ Len(segs[b].data) \in Nat
           /\ segs[b].head - b <= Len(segs[b].data)
<1>1. /\ b \in Nat /\ segs[b].head \in Nat /\ b <= segs[b].head
      /\ segs[b].data \in Seq(FileByte) /\ Len(segs[b].data) \in Nat
  BY TypeFacts DEF DiskInv, HeadersOrdered
<1>2. segs[b].head - b <= Len(segs[b].data)
  <2> DEFINE n == segs[b].head - b
  <2>1. n \in Nat
    BY <1>1
  <2>2. \A i \in 1 .. n : i <= Len(segs[b].data)
    BY DEF DiskInv, CommittedBytesStable
  <2> HIDE DEF n
  <2>3. n = 0 \/ n \in 1 .. n
    BY <2>1
  <2>4. n <= Len(segs[b].data)
    BY <1>1, <2>1, <2>2, <2>3
  <2> QED
    BY <2>4 DEF n
<1> QED
  BY <1>1, <1>2

FilesSized ==
    DiskInv => \A b \in DOMAIN segs :
        /\ b \in Nat /\ segs[b].head \in Nat /\ segs[b].head - b \in Nat
        /\ segs[b].data \in Seq(FileByte) /\ Len(segs[b].data) \in Nat
        /\ segs[b].head - b <= Len(segs[b].data)

LEMMA FilesSizedCorrect == FilesSized
BY FileFacts DEF FilesSized

\* The numbers that describe the open segment.
LEMMA OpenFacts ==
    ASSUME ReplyInv, pc # "down"
    PROVE  /\ Current \in DOMAIN segs /\ Current \in Nat
           /\ handle.offset_head \in Nat /\ pos \in Nat
           /\ pos = handle.offset_head - Current
           /\ segs[Current].head - Current <= pos
           /\ pos <= Len(segs[Current].data)
           /\ segs[Current].head - Current \in Nat
           /\ handle = [offset_begin |-> Current,
                        offset_head |-> handle.offset_head]
<1>1. DiskInv /\ PositionMatchesHead /\ TypeOK /\ OpenSegment
  BY DEF ReplyInv, LayoutInv, DiskInv
<1>2. /\ Current \in DOMAIN segs /\ Current \in Nat
      /\ handle.offset_head \in Nat /\ pos \in Nat
      /\ handle = [offset_begin |-> Current,
                   offset_head |-> handle.offset_head]
  BY <1>1, TypeFacts
<1>3. segs[Current].head - Current \in Nat /\ segs[Current].head \in Nat
  BY <1>1, <1>2, FileFacts
<1> QED
  BY <1>1, <1>2, <1>3 DEF PositionMatchesHead, OpenSegment

\* What a successful segmentAppend does to the open segment: the bytes up to
\* the descriptor stay, and the message stands behind them.
LEMMA AppendedFrame ==
    ASSUME ReplyInv, SegmentAppend, pos' # pos, NoShortWrite
    PROVE  /\ pc = "write" /\ pc' = "sync" /\ call.msg \in Message
           /\ DOMAIN segs' = DOMAIN segs /\ Current' = Current
           /\ \A b \in DOMAIN segs : segs'[b].head = segs[b].head
           /\ \A i \in 1 .. pos :
                 segs'[Current].data[i] = segs[Current].data[i]
           /\ Len(segs'[Current].data) \in Nat
           /\ pos <= Len(segs'[Current].data)
           /\ Holds(segs'[Current].data, pos, call.msg)
           /\ handle'.offset_head = handle.offset_head + Len(Frame(call.msg))
           /\ call' = [call EXCEPT !.offset = handle.offset_head]
<1> DEFINE f == Frame(call.msg)
<1>1. /\ pc = "write"
      /\ segs' = [segs EXCEPT ![Current].data = WriteAt(@, pos, f)]
      /\ handle' = [handle EXCEPT !.offset_head = @ + Len(f)]
      /\ call' = [call EXCEPT !.offset = handle.offset_head]
      /\ pc' = "sync"
  BY SegmentAppendCases DEF NoShortWrite
<1>2. call.msg \in Message
  BY <1>1 DEF ReplyInv, LayoutInv, DiskInv, TypeOK, CallType
<1>3. f \in Seq(FileByte) /\ Len(f) \in Nat
  BY <1>2, FrameType
<1>4. DiskInv /\ pc # "down"
  BY <1>1 DEF ReplyInv, LayoutInv
<1>5. /\ Current \in DOMAIN segs /\ Current \in Nat
      /\ handle.offset_head \in Nat /\ pos \in Nat
      /\ handle = [offset_begin |-> Current,
                   offset_head |-> handle.offset_head]
  BY <1>4, OpenFacts
<1> HIDE DEF f
<1>6. /\ DOMAIN segs' = DOMAIN segs
      /\ \A b \in DOMAIN segs : segs'[b].head = segs[b].head
      /\ Len(segs'[Current].data) \in Nat
      /\ Len(segs'[Current].data) >= pos + Len(f)
      /\ \A i \in 1 .. pos :
            segs'[Current].data[i] = segs[Current].data[i]
      /\ \A i \in 1 .. Len(f) : segs'[Current].data[pos + i] = f[i]
  BY <1>1, <1>3, <1>4, <1>5, WriteBehindCommitted
<1>7. Holds(segs'[Current].data, pos, call.msg)
  BY <1>5, <1>6 DEF Holds, f
<1>8. Current' = Current /\ handle'.offset_head = handle.offset_head + Len(f)
  BY <1>1, <1>5 DEF Current
<1>9. pos <= Len(segs'[Current].data)
  BY <1>3, <1>5, <1>6
<1> QED
  BY <1>1, <1>2, <1>6, <1>7, <1>8, <1>9 DEF f

\* A new channel holds no message.
LEMMA FramedInit == Init => FramedInv
<1> SUFFICES ASSUME Init PROVE FramedInv
  OBVIOUS
<1>1. ReplyInv
  BY ReplyInit
<1>2. /\ DOMAIN segs = {0} /\ segs[0].head = 0 /\ pc = "idle"
      /\ handle = [offset_begin |-> 0, offset_head |-> 0] /\ acked = << >>
  BY DEF Init, File
<1>3. FilesFramed
  <2>1. IsLast(0)
    BY <1>2 DEF IsLast
  <2>2. Framed(segs[0].data, 0, 0)
    BY FramedEmpty
  <2> QED
    BY <1>2, <2>1, <2>2 DEF FilesFramed
<1>4. OpenFramed
  <2>1. Framed(segs[0].data, 0, 0)
    BY FramedEmpty
  <2> QED
    BY <1>2, <2>1 DEF OpenFramed, Current
<1>5. AckedFramed
  BY <1>2 DEF AckedFramed
<1> QED
  BY <1>1, <1>3, <1>4, <1>5 DEF FramedInv

\* Only segmentCommit moves a header, and only that of the open segment.
LEMMA HeaderMoves ==
    ASSUME NoPowerLoss, NoShortWrite, ReplyInv, [Next]_vars,
           NEW b \in DOMAIN segs
    PROVE  /\ b \in DOMAIN segs'
           /\ \/ segs'[b].head = segs[b].head
              \/ /\ WriteHeader /\ b = Current
                 /\ segs' = [segs EXCEPT ![Current].head = handle.offset_head]
                 /\ segs'[b].head = handle.offset_head
                 /\ segs'[b].data = segs[b].data
<1>1. CASE UNCHANGED segs
  BY <1>1
<1>2. CASE Rotate /\ ~UNCHANGED segs
  <2> DEFINE head == handle.offset_head
  <2>1. segs' = With(segs, head, File(head)) /\ pc = "rotate"
    BY <1>2 DEF Rotate
  <2>2. Current < head /\ IsLast(Current) /\ Current \in Nat /\ head \in Nat
    <3>1. Rotating /\ pc # "down" /\ DiskInv
      BY <2>1 DEF Rotating, ReplyInv, LayoutInv
    <3> QED
      BY <3>1, OpenFacts DEF DiskInv, OpenSegment
  <2>3. b \in Nat /\ b # head
    BY <2>2, FileFacts DEF ReplyInv, LayoutInv, IsLast
  <2> QED
    BY <2>1, <2>3 DEF With
<1>3. CASE SegmentAppend /\ ~UNCHANGED segs
  <2>1. pos' # pos
    <3>1. pc = "write" /\ pos' = pos + Len(Frame(call.msg))
      BY <1>3, SegmentAppendCases DEF NoShortWrite
    <3>2. call.msg \in Message /\ pos \in Nat
      BY <3>1 DEF ReplyInv, LayoutInv, DiskInv, TypeOK, CallType, MemoryType
    <3> QED
      BY <3>1, <3>2, FrameLen
  <2> QED
    BY <1>3, <2>1, AppendedFrame
<1>4. CASE WriteHeader /\ ~UNCHANGED segs
  <2>1. segs' = [segs EXCEPT ![Current].head = handle.offset_head]
    BY <1>4 DEF WriteHeader
  <2>2. /\ \A c \in DOMAIN segs :
              segs[c] = [head |-> segs[c].head, data |-> segs[c].data]
    BY TypeFacts DEF ReplyInv, LayoutInv, DiskInv
  <2> QED
    BY <1>4, <2>1, <2>2
<1> QED
  BY <1>1, <1>2, <1>3, <1>4
     DEF Next, vars, AppendMessage, Commit, SyncData, Crash, PowerLoss,
         NoPowerLoss, OpenChannel, Resume, ReadHeader

\* What a header begins to commit is whole envelopes.
LEMMA HeaderFramed ==
    ASSUME NoPowerLoss, NoShortWrite, FramedInv, [Next]_vars, DiskInv',
           NEW b \in DOMAIN segs
    PROVE  LET data == segs'[b].data
               old == segs[b].head - b
               new == segs'[b].head - b
           IN  /\ b \in DOMAIN segs'
               /\ old \in Nat /\ new \in Nat /\ old <= new
               /\ new <= Len(data) /\ Len(data) \in Nat
               /\ \A i \in 1 .. old : data[i] = segs[b].data[i]
               /\ Framed(data, old, new)
<1>1. ReplyInv /\ LayoutInv /\ DiskInv
  BY DEF FramedInv, ReplyInv, LayoutInv
<1>2. /\ b \in DOMAIN segs' /\ segs[b].head <= segs'[b].head
      /\ \A i \in 1 .. segs[b].head - b : segs'[b].data[i] = segs[b].data[i]
  BY <1>1, CommittedStep DEF CommittedKept
<1>3. b \in Nat /\ segs[b].head \in Nat /\ segs[b].head - b \in Nat
  BY <1>1, FileFacts
<1>4. /\ segs'[b].head \in Nat /\ segs'[b].head - b \in Nat
      /\ Len(segs'[b].data) \in Nat
      /\ segs'[b].head - b <= Len(segs'[b].data)
  <2>1. \A c \in DOMAIN segs' :
           /\ segs'[c].head \in Nat /\ segs'[c].head - c \in Nat
           /\ Len(segs'[c].data) \in Nat
           /\ segs'[c].head - c <= Len(segs'[c].data)
    <3>1. FilesSized'
      BY FilesSizedCorrect, PTL
    <3> QED
      BY <3>1 DEF FilesSized
  <2> QED
    BY <1>2, <2>1
<1>5. Framed(segs'[b].data, segs[b].head - b, segs'[b].head - b)
  <2>1. CASE segs'[b].head = segs[b].head
    BY <1>3, <2>1, FramedEmpty
  <2>2. CASE segs'[b].head # segs[b].head
    <3>1. /\ WriteHeader /\ b = Current
          /\ segs'[b].head = handle.offset_head
          /\ segs'[b].data = segs[b].data
      BY <1>1, <2>2, HeaderMoves
    <3>2. pc # "down"
      BY <3>1 DEF WriteHeader
    <3> QED
      BY <3>1, <3>2 DEF FramedInv, OpenFramed
  <2> QED
    BY <2>1, <2>2
<1> QED
  BY <1>2, <1>3, <1>4, <1>5

\* Envelopes up to a header stay so, up to the new header.
LEMMA FramedKept ==
    ASSUME NoPowerLoss, NoShortWrite, FramedInv, [Next]_vars, DiskInv',
           NEW b \in DOMAIN segs, NEW p \in Nat,
           Framed(segs[b].data, p, segs[b].head - b)
    PROVE  Framed(segs'[b].data, p, segs'[b].head - b)
<1> DEFINE old == segs[b].head - b
           new == segs'[b].head - b
<1>1. /\ old \in Nat /\ new \in Nat /\ old <= new
      /\ new <= Len(segs'[b].data) /\ Len(segs'[b].data) \in Nat
      /\ \A i \in 1 .. old : segs'[b].data[i] = segs[b].data[i]
      /\ Framed(segs'[b].data, old, new)
  BY HeaderFramed
<1>2. Framed(segs[b].data, p, old)
  OBVIOUS
<1> HIDE DEF old, new
<1>3. Framed(segs'[b].data, p, old)
  <2>1. old <= Len(segs'[b].data)
    BY <1>1
  <2> QED
    BY <1>1, <1>2, <2>1, FramedSame
<1>4. Framed(segs'[b].data, p, new)
  BY <1>1, <1>3, FramedCompose
<1> QED
  BY <1>4 DEF new

\* A rotation adds an empty file behind all others; nothing else adds one.
LEMMA NewFile ==
    ASSUME NoPowerLoss, NoShortWrite, ReplyInv, [Next]_vars
    PROVE  \/ DOMAIN segs' = DOMAIN segs
           \/ LET head == handle.offset_head IN
              /\ pc = "rotate" /\ pc' = "write" /\ head \in Nat
              /\ DOMAIN segs' = DOMAIN segs \cup {head}
              /\ segs'[head] = [head |-> head, data |-> << >>]
              /\ \A b \in DOMAIN segs : segs'[b] = segs[b] /\ b < head
              /\ segs[Current].head = head /\ IsLast(Current)
              /\ Current \in DOMAIN segs
              /\ handle' = [offset_begin |-> head, offset_head |-> head]
              /\ Rotate
<1> DEFINE head == handle.offset_head
<1>1. CASE UNCHANGED segs
  BY <1>1
<1>2. CASE Rotate /\ ~UNCHANGED segs
  <2>1. /\ segs' = With(segs, head, File(head)) /\ pc = "rotate"
        /\ pc' = "write"
        /\ handle' = [offset_begin |-> head, offset_head |-> head]
    BY <1>2 DEF Rotate
  <2>2. /\ Current < head /\ IsLast(Current) /\ Current \in Nat
        /\ head \in Nat /\ Current \in DOMAIN segs
    <3>1. Rotating /\ pc # "down" /\ DiskInv
      BY <2>1 DEF Rotating, ReplyInv, LayoutInv
    <3> QED
      BY <3>1, OpenFacts DEF DiskInv, OpenSegment
  <2>3. \A b \in DOMAIN segs : b \in Nat /\ b < head /\ b # head
    BY <2>2, FileFacts DEF ReplyInv, LayoutInv, IsLast
  <2>4. segs[Current].head = head
    BY <2>1 DEF ReplyInv, LayoutInv, CommitNotForgotten
  <2> QED
    BY <1>2, <2>1, <2>2, <2>3, <2>4 DEF With, File
<1>3. CASE SegmentAppend /\ ~UNCHANGED segs
  BY <1>3, SegmentAppendCases DEF NoShortWrite
<1>4. CASE WriteHeader /\ ~UNCHANGED segs
  BY <1>4 DEF WriteHeader
<1> QED
  BY <1>1, <1>2, <1>3, <1>4
     DEF Next, vars, AppendMessage, Commit, SyncData, Crash, PowerLoss,
         NoPowerLoss, OpenChannel, Resume, ReadHeader

LEMMA FilesFramedStep ==
    ASSUME NoPowerLoss, NoShortWrite, FramedInv, [Next]_vars, DiskInv'
    PROVE  FilesFramed'
<1>1. ASSUME NEW b \in DOMAIN segs
      PROVE  Framed(segs'[b].data, 0, segs'[b].head - b)
  <2>1. Framed(segs[b].data, 0, segs[b].head - b)
    BY DEF FramedInv, FilesFramed
  <2> QED
    BY <2>1, FramedKept
<1>2. ReplyInv
  BY DEF FramedInv
<1>3. CASE DOMAIN segs' = DOMAIN segs
  BY <1>1, <1>3 DEF FramedInv, FilesFramed, IsLast
<1>4. CASE DOMAIN segs' # DOMAIN segs
  <2> DEFINE head == handle.offset_head
  <2>1. /\ head \in Nat
        /\ DOMAIN segs' = DOMAIN segs \cup {head}
        /\ segs'[head] = [head |-> head, data |-> << >>]
        /\ \A b \in DOMAIN segs : b < head
    BY <1>2, <1>4, NewFile
  <2> HIDE DEF head
  <2>2. head \in DOMAIN segs' /\ \A c \in DOMAIN segs' : c <= head
    BY <2>1, <1>2, FileFacts DEF ReplyInv, LayoutInv
  <2>3. Framed(segs'[head].data, 0, segs'[head].head - head)
    <3>1. Framed(segs'[head].data, 0, 0) /\ head - head = 0
      BY <2>1, FramedEmpty
    <3> QED
      BY <2>1, <3>1
  <2> QED
    BY <1>1, <2>1, <2>2, <2>3 DEF FilesFramed, IsLast
<1> QED
  BY <1>3, <1>4

\* A message stays an envelope of its file.
LEMMA FramedForEver ==
    ASSUME NoPowerLoss, NoShortWrite, FramedInv, [Next]_vars, DiskInv',
           NEW e \in [offset : Nat, msg : Message], FramedIn(segs, e)
    PROVE  FramedIn(segs', e)
<1>1. PICK b \in DOMAIN segs :
        /\ Framed(segs[b].data, 0, e.offset - b)
        /\ Holds(segs[b].data, e.offset - b, e.msg)
        /\ Framed(segs[b].data, End(e) - b, segs[b].head - b)
  BY DEF FramedIn
<1> DEFINE p == e.offset - b
           q == End(e) - b
           old == segs[b].head - b
           new == segs'[b].head - b
<1>2. /\ b \in DOMAIN segs' /\ old \in Nat /\ new \in Nat
      /\ old <= new /\ new <= Len(segs'[b].data) /\ Len(segs'[b].data) \in Nat
      /\ \A i \in 1 .. old : segs'[b].data[i] = segs[b].data[i]
  BY HeaderFramed
<1>3. /\ p \in Nat /\ q \in Nat /\ q = p + Len(Frame(e.msg))
      /\ Len(Frame(e.msg)) \in Nat /\ e.msg \in Message
  <2>1. b \in Nat /\ e.offset \in Nat /\ e.msg \in Message
    BY FileFacts DEF FramedInv, ReplyInv, LayoutInv
  <2> QED
    BY <1>1, <2>1, FrameLen DEF Holds, End
<1>4. q <= old
  <2> HIDE DEF q, old
  <2>1. Framed(segs[b].data, q, old)
    BY <1>1 DEF q, old
  <2>2. q \in q .. old
    BY <2>1 DEF Framed, Starts
  <2> QED
    BY <1>2, <1>3, <2>2
<1>5. /\ Framed(segs[b].data, 0, p) /\ Holds(segs[b].data, p, e.msg)
      /\ Framed(segs[b].data, q, old)
  BY <1>1
<1>6. Framed(segs'[b].data, q, new)
  <2> HIDE DEF q
  <2> QED
    BY <1>3, <1>5, FramedKept
<1> HIDE DEF p, q, old, new
<1>7. Framed(segs'[b].data, 0, p)
  <2>1. p <= Len(segs'[b].data) /\ \A i \in 1 .. p : i \in 1 .. old
    BY <1>2, <1>3, <1>4
  <2>2. 0 \in Nat /\ \A i \in 1 .. p : segs'[b].data[i] = segs[b].data[i]
    BY <1>2, <2>1
  <2> QED
    BY <1>2, <1>3, <1>5, <2>1, <2>2, FramedSame
<1>8. Holds(segs'[b].data, p, e.msg)
  <2>1. old <= Len(segs'[b].data)
    BY <1>2
  <2> QED
    BY <1>2, <1>3, <1>4, <1>5, <2>1, HoldsSame
<1> QED
  BY <1>2, <1>6, <1>7, <1>8 DEF FramedIn, p, q, new

\* What commits the message of an append, and acknowledges it.
LEMMA AckedBy ==
    ASSUME [Next]_vars, acked' # acked
    PROVE  /\ WriteHeader /\ pc = "header" /\ call.kind = "append"
           /\ segs' = [segs EXCEPT ![Current].head = handle.offset_head]
           /\ acked' = Append(acked, [offset |-> call.offset,
                                      msg |-> call.msg])
BY SegmentAppendCases DEF Next, vars, AppendMessage, Commit, Rotate, SyncData,
   WriteHeader, Crash, PowerLoss, Forget, OpenChannel, Resume, ReadHeader

LEMMA AckedFramedStep ==
    ASSUME NoPowerLoss, NoShortWrite, FramedInv, [Next]_vars, DiskInv'
    PROVE  AckedFramed'
<1> DEFINE R == [offset : Nat, msg : Message]
<1>1. acked \in Seq(R) /\ ReplyInv /\ LayoutInv /\ DiskInv
  BY DEF FramedInv, ReplyInv, LayoutInv, DiskInv, TypeOK, CallType
<1>2. \A i \in 1 .. Len(acked) : FramedIn(segs', acked[i])
  <2> SUFFICES ASSUME NEW i \in 1 .. Len(acked)
               PROVE  FramedIn(segs', acked[i])
    OBVIOUS
  <2> HIDE DEF R
  <2>1. acked[i] \in R /\ FramedIn(segs, acked[i])
    BY <1>1 DEF FramedInv, AckedFramed
  <2> QED
    BY <2>1, FramedForEver DEF R
<1>3. CASE acked' = acked
  BY <1>2, <1>3 DEF AckedFramed
<1>4. CASE acked' # acked
  <2> DEFINE e == [offset |-> call.offset, msg |-> call.msg]
             data == segs[Current].data
             begin == segs[Current].head - Current
             p == call.offset - Current
  <2>1. /\ pc = "header" /\ call.kind = "append"
        /\ segs' = [segs EXCEPT ![Current].head = handle.offset_head]
        /\ acked' = Append(acked, e)
    BY <1>4, AckedBy
  <2>2. /\ Current \in DOMAIN segs /\ Current \in Nat
        /\ handle.offset_head \in Nat /\ begin \in Nat
        /\ segs[Current] = [head |-> segs[Current].head, data |-> data]
    BY <1>1, <2>1, OpenFacts, TypeFacts DEF DiskInv
  <2>3. /\ segs[Current].head <= call.offset /\ End(e) = handle.offset_head
        /\ Holds(data, p, call.msg) /\ segs[Current].head \in Nat
        /\ call.offset \in Nat
    BY <1>1, <2>1, <2>2, FileFacts
       DEF LayoutInv, ReplyBehindCommitted, ReplyInv, OffsetIsWhereWritten,
           End, DiskInv, TypeOK, CallType
  <2>4. Framed(data, 0, begin) /\ Framed(data, begin, p)
    BY <2>1, <2>2 DEF FramedInv, FilesFramed, OpenFramed
  <2>5. p \in Nat
    BY <2>2, <2>3
  <2>6. Framed(data, 0, p)
    <3> HIDE DEF p, begin, data
    <3> QED
      BY <2>2, <2>4, <2>5, FramedCompose
  <2>7. /\ Current \in DOMAIN segs' /\ segs'[Current].data = data
        /\ segs'[Current].head = handle.offset_head
    BY <2>1, <2>2
  <2>8. Framed(data, End(e) - Current, segs'[Current].head - Current)
    <3> DEFINE n == handle.offset_head - Current
    <3>1. n \in Nat
      BY <1>1, <2>1, OpenFacts
    <3> HIDE DEF n, e
    <3>2. Framed(data, n, n)
      BY <3>1, FramedEmpty
    <3> QED
      BY <2>3, <2>7, <3>2 DEF n
  <2> HIDE DEF data
  <2>9. FramedIn(segs', e)
    <3>1. e.offset - Current = p /\ e.msg = call.msg
      OBVIOUS
    <3> HIDE DEF e, p
    <3> QED
      BY <2>3, <2>6, <2>7, <2>8, <3>1 DEF FramedIn
  <2> HIDE DEF e, R
  <2>10. /\ Len(acked) \in Nat
         /\ Len(acked') = Len(acked) + 1
         /\ acked'[Len(acked) + 1] = e
         /\ \A i \in 1 .. Len(acked) : acked'[i] = acked[i]
    <3>1. e \in R
      BY <2>1, <2>3, <1>1 DEF e, R, DiskInv, TypeOK, CallType
    <3> QED
      BY <1>1, <2>1, <3>1
  <2>11. \A i \in 1 .. Len(acked') :
           i = Len(acked) + 1 \/ i \in 1 .. Len(acked)
    BY <2>10
  <2>12. \A i \in 1 .. Len(acked') : FramedIn(segs', acked'[i])
    BY <1>2, <2>9, <2>10, <2>11
  <2> QED
    BY <2>12 DEF AckedFramed
<1> QED
  BY <1>3, <1>4

LEMMA OpenFramedStep ==
    ASSUME NoPowerLoss, NoShortWrite, FramedInv, [Next]_vars, ReplyInv'
    PROVE  OpenFramed'
<1>1. ReplyInv /\ LayoutInv /\ DiskInv /\ OpenFramed
  BY DEF FramedInv, ReplyInv, LayoutInv
<1>2. CASE /\ UNCHANGED <<segs, handle>> /\ (pc' # "down" => pc # "down")
           /\ \/ ~ (pc' \in {"sync", "header"} /\ call'.kind = "append")
              \/ pc \in {"sync", "header"} /\ UNCHANGED call
  BY <1>1, <1>2 DEF OpenFramed, Current
<1>3. CASE pc' = "down"
  BY <1>3 DEF OpenFramed
<1>4. CASE Rotate
  <2>1. CASE UNCHANGED <<segs, handle>> /\ Return
    BY <1>2, <1>4, <2>1 DEF Rotate, Return
  <2>2. CASE pc' = "write"
    <3> DEFINE head == handle.offset_head
    <3>1. /\ segs' = With(segs, head, File(head)) /\ pc' = "write"
          /\ handle' = [offset_begin |-> head, offset_head |-> head]
      BY <1>4, <2>2 DEF Rotate, Return
    <3>2. head \in Nat /\ Current' = head /\ handle'.offset_head = head
      BY <1>1, <3>1, TypeFacts DEF DiskInv, Current
    <3>3. segs'[head].head = head
      BY <3>1 DEF With, File
    <3>4. Framed(segs'[head].data, head - head, head - head)
      BY <3>2, FramedEmpty
    <3> QED
      BY <3>1, <3>2, <3>3, <3>4 DEF OpenFramed
  <2> QED
    BY <1>4, <2>1, <2>2 DEF Rotate, Return
<1>5. CASE SegmentAppend
  <2>1. CASE UNCHANGED <<segs, handle>> /\ Return
    BY <1>2, <1>5, <2>1, SegmentAppendCases DEF Return
  <2>2. CASE pc' = "sync"
    <3> DEFINE begin == segs[Current].head - Current
               data == segs'[Current].data
               len == Len(Frame(call.msg))
    <3>1. pc = "write" /\ pos' = pos + Len(Frame(call.msg))
      BY <1>5, <2>2, SegmentAppendCases DEF NoShortWrite, Return
    <3>2. call.msg \in Message /\ len \in Nat /\ pos' # pos
      <4>1. call.msg \in Message /\ pos \in Nat
        BY <1>1, <3>1 DEF DiskInv, TypeOK, CallType, MemoryType
      <4> QED
        BY <3>1, <4>1, FrameLen
    <3>3. /\ Current \in DOMAIN segs /\ Current \in Nat
          /\ handle.offset_head \in Nat /\ pos \in Nat
          /\ pos = handle.offset_head - Current
          /\ begin \in Nat
      BY <1>1, <3>1, OpenFacts
    <3>4. Framed(segs[Current].data, begin, pos)
      BY <1>1, <3>1, <3>3 DEF OpenFramed
    <3>5. /\ Current' = Current
          /\ segs'[Current].head = segs[Current].head
          /\ \A i \in 1 .. pos : data[i] = segs[Current].data[i]
          /\ Len(data) \in Nat /\ pos <= Len(data)
          /\ Holds(data, pos, call.msg)
          /\ handle'.offset_head = handle.offset_head + len
          /\ call' = [call EXCEPT !.offset = handle.offset_head]
          /\ pc' = "sync"
      BY <1>1, <1>5, <3>2, <3>3, AppendedFrame
    <3>6. call'.offset = handle.offset_head
      BY <1>1, <3>5 DEF DiskInv, TypeOK, CallType
    <3> HIDE DEF begin, data, len
    <3>7. Framed(data, begin, pos)
      BY <3>3, <3>4, <3>5, FramedSame
    <3>8. Framed(data, begin, pos + len)
      <4> DEFINE n == pos + len
      <4>1. Framed(data, pos, n)
        BY <3>2, <3>3, <3>5, FramedOne DEF len
      <4>2. n \in Nat
        BY <3>2, <3>3
      <4> HIDE DEF n
      <4> QED
        BY <3>3, <3>7, <4>1, <4>2, FramedCompose DEF n
    <3>9. handle'.offset_head - Current = pos + len
      BY <3>2, <3>3, <3>5
    <3> QED
      BY <3>3, <3>5, <3>6, <3>7, <3>8, <3>9 DEF OpenFramed, begin, data
  <2> QED
    BY <1>5, <2>1, <2>2, SegmentAppendCases DEF NoShortWrite, Return
<1>6. CASE WriteHeader
  <2>1. CASE UNCHANGED segs /\ Return
    BY <1>2, <1>6, <2>1 DEF WriteHeader, Return
  <2>2. CASE segs' = [segs EXCEPT ![Current].head = handle.offset_head]
             /\ pc' \in {"rotate", "idle"}
    <3>1. pc # "down" /\ Current' = Current /\ UNCHANGED handle
      BY <1>6 DEF WriteHeader, Current
    <3>2. /\ Current \in DOMAIN segs /\ handle.offset_head - Current \in Nat
          /\ segs[Current] = [head |-> segs[Current].head,
                              data |-> segs[Current].data]
      BY <1>1, <3>1, OpenFacts, TypeFacts DEF DiskInv
    <3>3. segs'[Current].head = handle.offset_head
      BY <2>2, <3>2
    <3> DEFINE n == handle.offset_head - Current
    <3>4. Framed(segs'[Current].data, n, n)
      BY <3>2, FramedEmpty
    <3> QED
      BY <2>2, <3>1, <3>3, <3>4 DEF OpenFramed
  <2> QED
    BY <1>6, <2>1, <2>2 DEF WriteHeader, Return
<1>7. CASE OpenChannel
  <2>1. PICK last \in DOMAIN segs :
           /\ handle' = [offset_begin |-> last, offset_head |-> segs[last].head]
           /\ UNCHANGED segs /\ pc' = "idle"
    BY <1>7 DEF OpenChannel, Resume, ReadHeader
  <2> DEFINE n == segs[last].head - last
  <2>2. n \in Nat
    BY <1>1, FileFacts
  <2>3. Framed(segs[last].data, n, n)
    BY <2>2, FramedEmpty
  <2> QED
    BY <2>1, <2>3 DEF OpenFramed, Current
<1>8. CASE SyncData
  BY <1>1, <1>2, <1>8 DEF SyncData, memory, Return
<1>9. CASE UNCHANGED vars
  BY <1>2, <1>9 DEF vars
<1>10. ASSUME NEW m \in Message, AppendMessage(m) PROVE OpenFramed'
  BY <1>2, <1>10 DEF AppendMessage, memory
<1>11. CASE Commit
  BY <1>2, <1>11 DEF Commit, memory, NoCall
<1> QED
  BY <1>3, <1>4, <1>5, <1>6, <1>7, <1>8, <1>9, <1>10, <1>11
     DEF Next, Crash, PowerLoss, Forget

\* Whatever calls fail and wherever the process crashes, the files hold whole
\* envelopes up to their headers, among them every acknowledged message.
LEMMA FramedInvariant ==
    ASSUME NoPowerLoss, NoShortWrite
    PROVE  Spec => []FramedInv
<1>1. FramedInv /\ [Next]_vars => FramedInv'
  <2> SUFFICES ASSUME FramedInv, [Next]_vars PROVE FramedInv'
    OBVIOUS
  <2>1. ReplyInv
    BY DEF FramedInv
  <2>2. LayoutInv'
    BY <2>1, LayoutStep DEF ReplyInv
  <2>3. ReplyInv'
    BY <2>1, <2>2, PositionStep, OffsetStep, AckedStep DEF ReplyInv
  <2>4. DiskInv'
    BY <2>2 DEF LayoutInv
  <2> QED
    BY <2>3, <2>4, FilesFramedStep, AckedFramedStep, OpenFramedStep
       DEF FramedInv
<1> QED
  BY FramedInit, <1>1, PTL DEF Spec

-----------------------------------------------------------------------------
(* Decoding                                                                *)

\* The recursive function f over D, which goes on from c to next[c] as long as
\* c is in go.
Unrolls(f, D, go, next, item, rest) ==
    f = [c \in D |-> IF c \in go THEN item[c] \o f[next[c]] ELSE rest[c]]

\* The recursion goes to greater numbers, and not beyond n.
Upward(n, D, go, next) ==
    /\ n \in Nat /\ D \subseteq 0 .. n
    /\ \A c \in D : c \in go => next[c] \in D /\ c < next[c]

\* Such a recursion is well defined: that of DecodeFrom, and that of LogFrom.
LEMMA UpwardRecursion ==
    ASSUME NEW n, NEW D, NEW go, NEW next, NEW item, NEW rest,
           Upward(n, D, go, next)
    PROVE  \E f : Unrolls(f, D, go, next, item, rest)
<1> DEFINE Body(f, c) == IF c \in go THEN item[c] \o f[next[c]] ELSE rest[c]
           Good(f, k) == /\ f = [c \in D |-> f[c]]
                         /\ \A c \in D : c + k >= n => f[c] = Body(f, c)
           S == {k \in Nat : \E f : Good(f, k)}
<1> HIDE DEF Body
<1> n \in Nat
  BY DEF Upward
<1>0. ASSUME NEW c \in D
      PROVE  /\ c \in Nat /\ c <= n
             /\ c \in go => next[c] \in D /\ c < next[c] /\ next[c] \in Nat
                           /\ next[c] <= n
  <2>1. \A x \in D : x \in Nat /\ x <= n
    BY DEF Upward
  <2> QED
    BY <2>1 DEF Upward
<1>1. 0 \in S
  <2> DEFINE f == [c \in D |-> rest[c]]
             g == [c \in D |-> Body(f, c)]
  <2>1. ASSUME NEW c \in D, c + 0 >= n PROVE g[c] = Body(g, c)
    <3>1. c \notin go
      BY <1>0, <2>1
    <3> HIDE DEF g
    <3>2. Body(g, c) = Body(f, c)
      BY <3>1 DEF Body
    <3> QED
      BY <3>2 DEF g
  <2>2. g = [c \in D |-> g[c]]
    OBVIOUS
  <2> HIDE DEF g
  <2>3. Good(g, 0)
    BY <2>1, <2>2
  <2> QED
    BY <2>3
<1>2. ASSUME NEW k \in Nat, k \in S PROVE k + 1 \in S
  <2>1. PICK f : Good(f, k)
    BY <1>2
  <2> DEFINE g == [c \in D |-> IF c + k >= n THEN f[c] ELSE Body(f, c)]
  <2>2. ASSUME NEW c \in D, c + (k + 1) >= n PROVE g[c] = Body(g, c)
    <3>1. c \in go => g[next[c]] = f[next[c]]
      <4> SUFFICES ASSUME c \in go PROVE g[next[c]] = f[next[c]]
        OBVIOUS
      <4>1. next[c] \in D /\ next[c] \in Nat /\ c \in Nat /\ c < next[c]
        BY <1>0
      <4> QED
        BY <2>2, <4>1
    <3>2. Body(g, c) = Body(f, c)
      <4> HIDE DEF g
      <4> QED
        BY <3>1 DEF Body
    <3>3. g[c] = Body(f, c)
      BY <2>1
    <3> QED
      BY <3>2, <3>3
  <2>3. g = [c \in D |-> g[c]]
    OBVIOUS
  <2> HIDE DEF g
  <2>4. Good(g, k + 1)
    BY <2>2, <2>3
  <2> QED
    BY <2>4
<1>3. n \in S
  <2> HIDE DEF S
  <2> QED
    BY <1>1, <1>2, InductionNat DEF Upward
<1>4. PICK f : Good(f, n)
  BY <1>3
<1>5. \A c \in D : f[c] = Body(f, c)
  BY <1>0, <1>4
<1>6. f = [c \in D |-> Body(f, c)]
  BY <1>4, <1>5
<1> QED
  BY <1>6 DEF Body, Unrolls

\* The recursion of DecodeFrom is well defined.
LEMMA DecodeSteps ==
    ASSUME NEW d \in Seq(Nat), NEW b, NEW cur \in 0 .. Len(d)
    PROVE  LET len == ReadVarUInt(d, cur)
               end == len.cur + len.value
           IN  DecodeFrom(b, d)[cur] =
                  IF ~len.ok \/ end > Len(d) THEN << >>
                  ELSE <<[offset |-> b + cur,
                          msg |-> SubSeq(d, len.cur + 1, end)]>>
                          \o DecodeFrom(b, d)[end]
<1> DEFINE D == 0 .. Len(d)
           len(c) == ReadVarUInt(d, c)
           end(c) == len(c).cur + len(c).value
           entry(c) == <<[offset |-> b + c,
                          msg |-> SubSeq(d, len(c).cur + 1, end(c))]>>
           step(f, c) == IF ~len(c).ok \/ end(c) > Len(d) THEN << >>
                         ELSE entry(c) \o f[end(c)]
           F(f) == [c \in D |-> step(f, c)]
<1>1. DecodeFrom(b, d) = CHOOSE f : f = F(f)
  BY DEF DecodeFrom
<1>2. ASSUME NEW c \in D, len(c).ok
      PROVE  end(c) \in Nat /\ c < end(c)
  <2>1. c # Len(d)
    <3> SUFFICES ASSUME c = Len(d) PROVE FALSE
      OBVIOUS
    <3>1. {i \in c + 1 .. Len(d) : d[i] < VarintBase} = {}
      OBVIOUS
    <3>2. ~len(c).ok
      BY <3>1 DEF ReadVarUInt
    <3> QED
      BY <1>2, <3>2
  <2>2. len(c).cur \in c + 1 .. Len(d) /\ len(c).value \in Nat
    <3>1. c \in Nat /\ c < Len(d)
      BY <2>1
    <3> QED
      BY <3>1, ReadVarUIntType
  <2> QED
    BY <2>2
<1> DEFINE go == {c \in D : len(c).ok /\ ~ (end(c) > Len(d))}
           next == [c \in D |-> end(c)]
           item == [c \in D |-> entry(c)]
           rest == [c \in D |-> << >>]
<1> HIDE DEF len, entry
<1>3. \A c \in D : c \in go => next[c] \in D /\ c < next[c]
  BY <1>2
<1>4. \A c \in D : next[c] = end(c) /\ item[c] = entry(c) /\ rest[c] = << >>
  OBVIOUS
<1>5. \A c \in D : c \in go <=> ~ (~len(c).ok \/ end(c) > Len(d))
  OBVIOUS
<1> HIDE DEF go, next, item, rest
<1>6. PICK f : Unrolls(f, D, go, next, item, rest)
  <2>1. Upward(Len(d), D, go, next)
    BY <1>3 DEF Upward
  <2> QED
    BY <2>1, UpwardRecursion, Zenon
<1> HIDE DEF end, D
<1>8. f = F(f)
  BY <1>4, <1>5, <1>6 DEF Unrolls
<1> HIDE DEF F
<1>9. DecodeFrom(b, d) = F(DecodeFrom(b, d))
  BY <1>1, <1>8
<1> QED
  BY <1>9 DEF F, D, len, end, entry

\* The messages e lie one behind the other from offset p to offset n.
Tiles(e, p, n) ==
    /\ e \in Seq([offset : Nat, msg : Message])
    /\ n = IF Len(e) = 0 THEN p ELSE End(e[Len(e)])
    /\ \A i \in 1 .. Len(e) :
          e[i].offset = IF i = 1 THEN p ELSE End(e[i - 1])

LEMMA TilesNone ==
    ASSUME NEW p
    PROVE  Tiles(<< >>, p, p)
BY DEF Tiles

LEMMA TilesOne ==
    ASSUME NEW x \in [offset : Nat, msg : Message]
    PROVE  Tiles(<<x>>, x.offset, End(x))
<1> DEFINE R == [offset : Nat, msg : Message]
<1>1. x \in R
  OBVIOUS
<1> HIDE DEF R
<1>2. /\ <<x>> \in Seq(R) /\ Len(<<x>>) = 1 /\ <<x>>[1] = x
      /\ \A i \in 1 .. 1 : i = 1
  BY <1>1
<1> QED
  BY <1>2 DEF Tiles, R

LEMMA TilesConcat ==
    ASSUME NEW a, NEW b, NEW p, NEW q, NEW n, Tiles(a, p, q), Tiles(b, q, n)
    PROVE  Tiles(a \o b, p, n)
<1> DEFINE R == [offset : Nat, msg : Message]
           c == a \o b
<1> HIDE DEF R
<1>1. a \in Seq(R) /\ b \in Seq(R) /\ Len(a) \in Nat /\ Len(b) \in Nat
  BY DEF Tiles, R
<1>2. /\ c \in Seq(R) /\ Len(c) = Len(a) + Len(b)
      /\ \A i \in 1 .. Len(a) + Len(b) :
            c[i] = IF i <= Len(a) THEN a[i] ELSE b[i - Len(a)]
  BY <1>1, ConcatProperties
<1> HIDE DEF c
<1>3. n = IF Len(c) = 0 THEN p ELSE End(c[Len(c)])
  <2>1. CASE Len(b) = 0
    BY <1>1, <1>2, <2>1 DEF Tiles
  <2>2. CASE Len(b) # 0
    <3>1. c[Len(c)] = b[Len(b)]
      BY <1>1, <1>2, <2>2
    <3> QED
      BY <1>1, <1>2, <2>2, <3>1 DEF Tiles
  <2> QED
    BY <2>1, <2>2
<1>4. ASSUME NEW i \in 1 .. Len(c)
      PROVE  c[i].offset = IF i = 1 THEN p ELSE End(c[i - 1])
  <2>1. CASE i <= Len(a)
    <3>1. i \in 1 .. Len(a) /\ c[i] = a[i]
          /\ (i # 1 => i - 1 \in 1 .. Len(a) + Len(b) /\ c[i - 1] = a[i - 1])
      BY <1>1, <1>2, <2>1
    <3> QED
      BY <3>1 DEF Tiles
  <2>2. CASE i > Len(a)
    <3> DEFINE j == i - Len(a)
    <3>1. j \in 1 .. Len(b) /\ c[i] = b[j]
      BY <1>1, <1>2, <2>2
    <3>2. CASE j = 1
      <4>1. i - 1 = Len(a) /\ (Len(a) # 0 => c[i - 1] = a[Len(a)])
        BY <1>1, <1>2, <3>2
      <4>2. b[j].offset = q
        BY <3>1, <3>2 DEF Tiles
      <4> QED
        BY <1>1, <3>1, <4>1, <4>2 DEF Tiles
    <3>3. CASE j # 1
      <4>0. /\ i # 1 /\ i - 1 \in 1 .. Len(a) + Len(b)
            /\ ~ (i - 1 <= Len(a)) /\ i - 1 - Len(a) = j - 1
        BY <1>1, <1>2, <2>2, <3>1, <3>3
      <4>1. i # 1 /\ c[i - 1] = b[j - 1]
        BY <1>2, <4>0
      <4> HIDE DEF j
      <4>2. b[j].offset = End(b[j - 1])
        BY <3>1, <3>3 DEF Tiles
      <4> QED
        BY <3>1, <4>1, <4>2
    <3> QED
      BY <3>2, <3>3
  <2> QED
    BY <1>1, <1>2, <2>1, <2>2
<1> QED
  BY <1>2, <1>3, <1>4 DEF Tiles, R, c

\* The messages e, which lie behind the first s bytes of the segment b, are
\* the envelopes in its bytes d.
Decoded(e, d, b, s) ==
    /\ Tiles(e, b + s, b + Len(d))
    /\ \A i \in 1 .. Len(e) :
          /\ Holds(d, e[i].offset - b, e[i].msg)
          /\ End(e[i]) <= b + Len(d)

\* The entry of the log for the message m behind p bytes of the segment b.
EntryAt(b, p, m) == [offset |-> b + p, msg |-> m]

LEMMA EntryAtFields ==
    ASSUME NEW b \in Nat, NEW p \in Nat, NEW m \in Message
    PROVE  LET x == EntryAt(b, p, m) IN
           /\ x \in [offset : Nat, msg : Message]
           /\ x.offset = b + p /\ x.msg = m /\ x.offset - b = p
           /\ End(x) = b + (p + Len(Frame(m)))
<1>1. Len(Frame(m)) \in Nat
  BY FrameLen
<1>2. b + p \in Nat /\ b + p - b = p
      /\ b + p + Len(Frame(m)) = b + (p + Len(Frame(m)))
  BY <1>1
<1> QED
  BY <1>2 DEF EntryAt, End

\* At the beginning of an envelope the decoder takes it, and goes on behind it.
LEMMA DecodeHolds ==
    ASSUME MessagesFit, NEW d \in Seq(Nat), NEW b \in Nat, NEW p \in Nat,
           NEW m \in Message, Holds(d, p, m)
    PROVE  LET q == p + Len(Frame(m)) IN
           /\ DecodeFrom(b, d)[p] = <<EntryAt(b, p, m)>> \o DecodeFrom(b, d)[q]
           /\ q \in Nat /\ p < q /\ q <= Len(d)
<1> DEFINE k == VarUIntLen(Len(m))
           q == p + Len(Frame(m))
           r == ReadVarUInt(d, p)
<1>1. /\ r = [ok |-> TRUE, cur |-> p + k, value |-> Len(m)]
      /\ SubSeq(d, p + k + 1, p + k + Len(m)) = m
      /\ Len(Frame(m)) = k + Len(m) /\ k \in Nat /\ k >= 1
      /\ Len(m) \in Nat
  BY HoldsRead
<1> HIDE DEF r, k
<1>2. q \in Nat /\ p < q /\ q <= Len(d) /\ q = p + k + Len(m)
  BY <1>1 DEF Holds
<1> HIDE DEF q
<1>3. r.ok /\ r.cur + r.value = q /\ SubSeq(d, r.cur + 1, q) = m
      /\ ~ (q > Len(d)) /\ p \in 0 .. Len(d)
  BY <1>1, <1>2
<1>4. DecodeFrom(b, d)[p] = <<EntryAt(b, p, m)>> \o DecodeFrom(b, d)[q]
  BY <1>3, DecodeSteps DEF r, EntryAt
<1> QED
  BY <1>2, <1>4 DEF q

\* Decoding whole envelopes gives them and nothing else.
LEMMA DecodeFramed ==
    ASSUME MessagesFit, NEW d \in Seq(Nat), NEW b \in Nat, NEW starts,
           Starts(d, 0, Len(d), starts), NEW s \in starts
    PROVE  Decoded(DecodeFrom(b, d)[s], d, b, s)
<1> DEFINE F == DecodeFrom(b, d)
           n == Len(d)
           bad == {t \in starts : ~Decoded(F[t], d, b, t)}
<1>0. n \in Nat /\ starts \subseteq 0 .. n
  BY DEF Starts
<1>1. SUFFICES ASSUME bad # {} PROVE FALSE
  OBVIOUS
<1>2. PICK g \in bad : \A t \in bad : t <= g
  <2>1. bad \subseteq 0 .. n
    BY <1>0
  <2> HIDE DEF bad, n
  <2> QED
    BY <1>0, <1>1, <2>1, GreatestNat
<1>3. g \in starts /\ g \in 0 .. n /\ g \in Nat /\ ~Decoded(F[g], d, b, g)
  BY <1>0
<1>4. ASSUME NEW t \in starts, t > g PROVE Decoded(F[t], d, b, t)
  <2>1. t \notin bad
    BY <1>0, <1>2, <1>3, <1>4
  <2> QED
    BY <2>1
<1> HIDE DEF bad
<1>5. CASE g = n
  <2>1. {i \in g + 1 .. Len(d) : d[i] < VarintBase} = {}
    BY <1>5
  <2>2. ~ReadVarUInt(d, g).ok
    BY <2>1 DEF ReadVarUInt
  <2>3. F[g] = << >>
    BY <1>3, <2>2, DecodeSteps
  <2>4. Tiles(<< >>, b + g, b + n) /\ Len(<< >>) = 0
    BY <1>5, TilesNone
  <2>5. \A i \in 1 .. Len(<< >>) : FALSE
    BY <2>4
  <2> HIDE DEF F
  <2>6. Decoded(<< >>, d, b, g)
    BY <2>4, <2>5 DEF Decoded
  <2> QED
    BY <1>3, <2>3, <2>6
<1>6. CASE g # n
  <2>1. PICK m \in Message : Holds(d, g, m) /\ g + Len(Frame(m)) \in starts
    BY <1>3, <1>6 DEF Starts
  <2> DEFINE x == EntryAt(b, g, m)
             h == g + Len(Frame(m))
             e == F[h]
  <2>2. /\ F[g] = <<x>> \o e
        /\ x \in [offset : Nat, msg : Message] /\ End(x) = b + h
        /\ h \in Nat /\ g < h /\ h <= n
    <3>1. F[g] = <<x>> \o e /\ h \in Nat /\ g < h /\ h <= n
      BY <1>3, <2>1, DecodeHolds
    <3>2. x \in [offset : Nat, msg : Message] /\ End(x) = b + h
      BY <1>3, EntryAtFields
    <3> QED
      BY <3>1, <3>2
  <2>3. Decoded(e, d, b, h)
    BY <1>3, <1>4, <2>1, <2>2
  <2>4. Holds(d, x.offset - b, x.msg) /\ x.offset = b + g
    <3>1. x.offset - b = g /\ x.offset = b + g /\ x.msg = m
      BY <1>3, EntryAtFields
    <3> QED
      BY <2>1, <3>1
  <2> HIDE DEF F, h, x, e, n
  <2>5. Tiles(<<x>> \o e, b + g, b + n)
    <3>1. Tiles(<<x>>, b + g, b + h)
      BY <2>2, <2>4, TilesOne
    <3>2. Tiles(e, b + h, b + n)
      BY <2>3 DEF Decoded, n
    <3> QED
      BY <3>1, <3>2, TilesConcat
  <2>6. /\ Len(e) \in Nat /\ Len(<<x>> \o e) = Len(e) + 1
        /\ (<<x>> \o e)[1] = x
        /\ \A i \in 1 .. Len(e) : (<<x>> \o e)[i + 1] = e[i]
        /\ \A i \in 1 .. Len(e) + 1 : i = 1 \/ i - 1 \in 1 .. Len(e)
    <3> DEFINE R == [offset : Nat, msg : Message]
    <3>1. e \in Seq(R) /\ x \in R
      BY <2>2, <2>3 DEF Decoded, Tiles
    <3> HIDE DEF R
    <3> QED
      BY <3>1
  <2>7. ASSUME NEW i \in 1 .. Len(<<x>> \o e)
        PROVE  LET y == (<<x>> \o e)[i] IN
               Holds(d, y.offset - b, y.msg) /\ End(y) <= b + n
    <3>1. CASE i = 1
      BY <1>0, <2>2, <2>4, <2>6, <3>1
    <3>2. CASE i # 1
      <4>1. i - 1 \in 1 .. Len(e) /\ (i - 1) + 1 = i
        BY <2>6, <3>2
      <4>2. (<<x>> \o e)[i] = e[i - 1]
        BY <2>6, <4>1
      <4> QED
        BY <2>3, <4>1, <4>2 DEF Decoded, n
    <3> QED
      BY <3>1, <3>2
  <2>8. Decoded(<<x>> \o e, d, b, g)
    BY <2>5, <2>7 DEF Decoded, n
  <2> QED
    BY <1>3, <2>2, <2>8
<1> QED
  BY <1>5, <1>6

\* The decoder comes to every place up to which and behind which the bytes
\* are whole envelopes.
LEMMA DecodeReaches ==
    ASSUME MessagesFit, NEW d \in Seq(Nat), NEW b \in Nat, NEW p \in Nat,
           p < Len(d), Framed(d, 0, p), Framed(d, p, Len(d))
    PROVE  LET e == DecodeFrom(b, d)[0] IN
           \E i \in 1 .. Len(e) : e[i].offset = b + p
<1> DEFINE F == DecodeFrom(b, d)
           n == Len(d)
           There(e) == \E i \in 1 .. Len(e) : e[i].offset = b + p
<1>1. PICK A \in SUBSET (0 .. p) : Starts(d, 0, p, A)
  BY DEF Framed
<1>2. PICK B \in SUBSET (p .. n) : Starts(d, p, n, B)
  BY DEF Framed
<1> DEFINE bad == {t \in A : ~There(F[t])}
<1> HIDE DEF There
<1>3. Starts(d, 0, n, A \cup B)
  <2>1. p \in B /\ 0 \in A /\ n \in B /\ n \in Nat
    BY <1>1, <1>2 DEF Starts
  <2>2. ASSUME NEW s \in (A \cup B) \ {n}
        PROVE  \E m \in Message :
                  Holds(d, s, m) /\ s + Len(Frame(m)) \in A \cup B
    <3>1. s \in A \ {p} \/ s \in B \ {n}
      BY <2>1, <2>2
    <3> QED
      BY <1>1, <1>2, <3>1 DEF Starts
  <2> HIDE DEF n
  <2>3. A \cup B \subseteq 0 .. n
    BY <2>1
  <2> QED
    BY <2>1, <2>2, <2>3 DEF Starts
<1>4. SUFFICES ASSUME bad # {} PROVE FALSE
  <2>1. 0 \in A
    BY <1>1 DEF Starts
  <2>2. bad = {} => There(F[0])
    BY <2>1
  <2> QED
    BY <2>2 DEF There
<1>5. PICK g \in bad : \A t \in bad : t <= g
  <2>1. bad \subseteq 0 .. p
    OBVIOUS
  <2> HIDE DEF bad
  <2> QED
    BY <1>4, <2>1, GreatestNat
<1>6. g \in A /\ g \in Nat /\ g <= p /\ ~There(F[g])
  BY <1>5
<1>7. \A t \in A : t > g => There(F[t])
  <2>1. ASSUME NEW t \in A, t > g PROVE t \notin bad
    BY <1>5, <1>6, <2>1
  <2> QED
    BY <2>1
<1> HIDE DEF bad
<1>8. PICK m \in Message : /\ Holds(d, g, m)
                           /\ g = p \/ g + Len(Frame(m)) \in A
                           /\ g + Len(Frame(m)) \in A \cup B
  <2>1. CASE g = p
    <3>1. p \in B \ {n}
      BY <1>2 DEF Starts
    <3> QED
      BY <1>2, <2>1, <3>1 DEF Starts
  <2>2. CASE g # p
    BY <1>1, <1>6, <2>2 DEF Starts
  <2> QED
    BY <2>1, <2>2
<1> DEFINE x == EntryAt(b, g, m)
           h == g + Len(Frame(m))
           e == F[h]
<1>9. /\ F[g] = <<x>> \o e
      /\ x \in [offset : Nat, msg : Message]
      /\ h \in Nat /\ g < h
  <2>1. Holds(d, g, m) /\ g \in Nat
    BY <1>6, <1>8
  <2>2. F[g] = <<x>> \o e /\ h \in Nat /\ g < h
    BY <2>1, DecodeHolds
  <2>3. x \in [offset : Nat, msg : Message]
    BY <2>1, EntryAtFields
  <2> QED
    BY <2>1, <2>2, <2>3
<1>10. Decoded(e, d, b, h)
  BY <1>3, <1>8, DecodeFramed
<1>11. x.offset = b + g
  BY <1>6, EntryAtFields
<1>12. g = p \/ h \in A
  BY <1>8
<1> HIDE DEF F, h, x, e, n
<1>13. /\ Len(e) \in Nat /\ Len(<<x>> \o e) = Len(e) + 1
       /\ (<<x>> \o e)[1] = x
       /\ \A i \in 1 .. Len(e) : (<<x>> \o e)[i + 1] = e[i]
  <2> DEFINE R == [offset : Nat, msg : Message]
  <2>1. e \in Seq(R) /\ x \in R
    BY <1>9, <1>10 DEF Decoded, Tiles
  <2> HIDE DEF R
  <2> QED
    BY <2>1
<1>14. CASE g = p
  <2>1. 1 \in 1 .. Len(<<x>> \o e) /\ (<<x>> \o e)[1].offset = b + p
    BY <1>11, <1>13, <1>14
  <2> QED
    BY <1>6, <1>9, <2>1 DEF There
<1>15. CASE g # p
  <2>1. PICK i \in 1 .. Len(e) : e[i].offset = b + p
    BY <1>7, <1>9, <1>12, <1>15 DEF There, e
  <2>2. i + 1 \in 1 .. Len(<<x>> \o e) /\ (<<x>> \o e)[i + 1].offset = b + p
    BY <1>13, <2>1
  <2> QED
    BY <1>6, <1>9, <2>2 DEF There
<1> QED
  BY <1>14, <1>15

\* The committed bytes of a segment.
LEMMA CommittedBytes ==
    ASSUME FramedInv, NEW b \in DOMAIN segs
    PROVE  LET d == Committed(segs, b)
               n == segs[b].head - b
           IN  /\ d \in Seq(Nat) /\ Len(d) = n /\ n \in Nat /\ b \in Nat
               /\ b + n = segs[b].head
               /\ n <= Len(segs[b].data) /\ Len(segs[b].data) \in Nat
               /\ \A i \in 1 .. n : d[i] = segs[b].data[i]
<1> DEFINE n == segs[b].head - b
           data == segs[b].data
<1>1. /\ n \in Nat /\ b \in Nat /\ segs[b].head \in Nat
      /\ data \in Seq(FileByte) /\ Len(data) \in Nat /\ n <= Len(data)
  BY FileFacts DEF FramedInv, ReplyInv, LayoutInv
<1>2. b + n = segs[b].head
  BY <1>1
<1>3. data \in Seq(Nat)
  BY <1>1, FileNat
<1> HIDE DEF n, data
<1>4. /\ SubSeq(data, 1, n) \in Seq(Nat) /\ Len(SubSeq(data, 1, n)) = n
      /\ \A i \in 1 .. n : SubSeq(data, 1, n)[i] = data[i]
  BY <1>1, <1>3
<1> QED
  BY <1>1, <1>2, <1>4 DEF Committed, n, data

\* The messages of one segment.
OfSegment(b) == DecodeFrom(b, Committed(segs, b))[0]

LEMMA SegmentDecoded ==
    ASSUME MessagesFit, FramedInv, NEW b \in DOMAIN segs
    PROVE  /\ Tiles(OfSegment(b), b, segs[b].head)
           /\ \A i \in 1 .. Len(OfSegment(b)) :
                 StoredIn(segs, OfSegment(b)[i])
<1> DEFINE d == Committed(segs, b)
           n == segs[b].head - b
           data == segs[b].data
           e == OfSegment(b)
<1>1. /\ d \in Seq(Nat) /\ Len(d) = n /\ n \in Nat /\ b \in Nat
      /\ b + n = segs[b].head
      /\ n <= Len(data) /\ Len(data) \in Nat
      /\ \A i \in 1 .. n : d[i] = data[i]
  BY CommittedBytes
<1>2. Framed(data, 0, n)
  BY DEF FramedInv, FilesFramed
<1>3. e = DecodeFrom(b, d)[0]
  BY DEF OfSegment
<1> HIDE DEF d, n, data, e
<1>4. PICK starts \in SUBSET (0 .. n) : Starts(d, 0, n, starts)
  <2>1. n <= Len(d) /\ Len(d) \in Nat /\ 0 \in Nat
    BY <1>1
  <2>2. Framed(d, 0, n)
    BY <1>1, <1>2, <2>1, FramedSame
  <2> QED
    BY <2>2 DEF Framed
<1>5. Decoded(e, d, b, 0)
  <2>1. 0 \in starts /\ Starts(d, 0, Len(d), starts)
    BY <1>1, <1>4 DEF Starts
  <2> QED
    BY <1>1, <1>3, <2>1, DecodeFramed
<1>6. Tiles(e, b, b + n)
  BY <1>1, <1>5 DEF Decoded
<1>7. ASSUME NEW i \in 1 .. Len(e) PROVE StoredIn(segs, e[i])
  <2> DEFINE x == e[i]
             p == x.offset - b
             k == Len(Frame(x.msg))
  <2>1. x \in [offset : Nat, msg : Message]
    <3> DEFINE R == [offset : Nat, msg : Message]
    <3>1. e \in Seq(R)
      BY <1>6 DEF Tiles
    <3> HIDE DEF R
    <3>2. e[i] \in R
      BY <3>1
    <3> QED
      BY <3>2 DEF R
  <2>2. Holds(d, p, x.msg) /\ End(x) <= b + n
    BY <1>1, <1>5 DEF Decoded
  <2> HIDE DEF x
  <2>3. p \in Nat /\ k \in Nat /\ x.msg \in Message /\ End(x) = b + p + k
    <3>1. x.offset \in Nat /\ x.msg \in Message
      BY <2>1
    <3> QED
      BY <1>1, <2>2, <3>1, FrameLen DEF Holds, End
  <2> HIDE DEF p
  <2>4. Holds(data, p, x.msg)
    <3>1. p + Len(Frame(x.msg)) <= n /\ \A j \in 1 .. n : data[j] = d[j]
      BY <1>1, <2>2 DEF Holds
    <3> QED
      BY <1>1, <2>2, <2>3, <3>1, HoldsSame
  <2> QED
    BY <1>1, <2>2, <2>4 DEF StoredIn, x, p, data
<1> QED
  BY <1>1, <1>6, <1>7 DEF e

\* The recursion of LogFrom is well defined, and goes where the header says.
LEMMA LogSteps ==
    ASSUME FramedInv, NEW b \in DOMAIN segs
    PROVE  LogFrom(segs)[b] =
              OfSegment(b) \o (IF IsLast(b) THEN << >>
                               ELSE LogFrom(segs)[segs[b].head])
<1> DEFINE D == DOMAIN segs
           later(c) == {x \in D : x > c}
           step(f, c) == OfSegment(c)
                            \o (IF later(c) = {} THEN << >>
                                ELSE f[Min(later(c))])
           F(f) == [c \in D |-> step(f, c)]
<1>1. LogFrom(segs) = CHOOSE f : f = F(f)
  BY DEF LogFrom, OfSegment
<1>2. PICK last \in D : IsLast(last)
  BY DEF FramedInv, FilesFramed
<1>3. D \subseteq Nat /\ D \subseteq 0 .. last /\ last \in Nat
  <2>1. \A c \in D : c \in Nat /\ c <= last
    BY <1>2, FileFacts DEF FramedInv, ReplyInv, LayoutInv, IsLast
  <2> QED
    BY <2>1
<1>4. ASSUME NEW c \in D, later(c) # {}
      PROVE  Min(later(c)) \in D /\ c < Min(later(c))
             /\ Min(later(c)) = segs[c].head
  <2> DEFINE T == later(c)
  <2>1. T \subseteq Nat /\ T # {}
    BY <1>3, <1>4
  <2>2. Min(T) \in T /\ \A x \in T : Min(T) <= x
    <3> HIDE DEF T
    <3> QED
      BY <2>1, MinNat
  <2>3. ~IsLast(c)
    BY <1>3, <1>4 DEF IsLast
  <2>4. /\ segs[c].head \in DOMAIN segs /\ c < segs[c].head
        /\ \A x \in DOMAIN segs : x > c => x >= segs[c].head
    BY <2>3 DEF FramedInv, ReplyInv, LayoutInv, Contiguous
  <2>5. segs[c].head \in T
    BY <1>3, <2>4
  <2>6. Min(T) = segs[c].head
    <3>1. Min(T) \in Nat /\ segs[c].head \in Nat
      BY <2>1, <2>2, <2>5
    <3>2. Min(T) >= segs[c].head /\ Min(T) <= segs[c].head
      BY <2>2, <2>4, <2>5
    <3> QED
      BY <3>1, <3>2
  <2> QED
    BY <2>4, <2>6
<1>5. IsLast(b) <=> later(b) = {}
  BY <1>3 DEF IsLast
<1> DEFINE go == {c \in D : later(c) # {}}
           next == [c \in D |-> Min(later(c))]
           item == [c \in D |-> OfSegment(c)]
           rest == [c \in D |-> OfSegment(c) \o << >>]
<1> HIDE DEF later
<1>6. \A c \in D : /\ next[c] = Min(later(c)) /\ item[c] = OfSegment(c)
                   /\ rest[c] = OfSegment(c) \o << >>
                   /\ c \in go <=> later(c) # {}
  OBVIOUS
<1> HIDE DEF go, next, item, rest
<1>7. Upward(last, D, go, next)
  BY <1>3, <1>4, <1>6 DEF Upward
<1>8. PICK f : Unrolls(f, D, go, next, item, rest)
  BY <1>7, UpwardRecursion, Zenon
<1>9. f = F(f)
  <2> HIDE DEF D
  <2>1. ASSUME NEW c \in D
        PROVE  (IF c \in go THEN item[c] \o f[next[c]] ELSE rest[c]) = step(f, c)
    BY <1>6
  <2> HIDE DEF step
  <2> QED
    BY <1>8, <2>1 DEF Unrolls
<1> HIDE DEF F
<1>10. LogFrom(segs) = F(LogFrom(segs))
  BY <1>1, <1>9
<1>11. LogFrom(segs)[b] = step(LogFrom(segs), b)
  BY <1>10 DEF F
<1> QED
  BY <1>4, <1>5, <1>11

\* The messages e are those of the segments from b on.
LogFor(e, b) ==
    /\ \E last \in DOMAIN segs :
          IsLast(last) /\ Tiles(e, b, segs[last].head)
    /\ \A i \in 1 .. Len(e) : StoredIn(segs, e[i])
    /\ \A c \in DOMAIN segs : c >= b =>
          \A i \in 1 .. Len(OfSegment(c)) :
             \E j \in 1 .. Len(e) : e[j] = OfSegment(c)[i]

LEMMA LogDecodedFrom ==
    ASSUME MessagesFit, FramedInv, NEW b \in DOMAIN segs
    PROVE  LogFor(LogFrom(segs)[b], b)
<1> DEFINE D == DOMAIN segs
           L == LogFrom(segs)
           bad == {c \in D : ~LogFor(L[c], c)}
<1>1. PICK last \in D : IsLast(last)
  BY DEF FramedInv, FilesFramed
<1>2. D \subseteq Nat /\ D \subseteq 0 .. last /\ last \in Nat
  <2>1. \A c \in D : c \in Nat /\ c <= last
    BY <1>1, FileFacts DEF FramedInv, ReplyInv, LayoutInv, IsLast
  <2> QED
    BY <2>1
<1>3. SUFFICES ASSUME bad # {} PROVE FALSE
  OBVIOUS
<1>4. PICK g \in bad : \A c \in bad : c <= g
  <2>1. bad \subseteq 0 .. last
    BY <1>2
  <2> HIDE DEF bad
  <2> QED
    BY <1>2, <1>3, <2>1, GreatestNat
<1>5. g \in D /\ g \in Nat /\ ~LogFor(L[g], g)
  BY <1>2, <1>4
<1>6. \A c \in D : c > g => LogFor(L[c], c)
  <2>1. ASSUME NEW c \in D, c > g PROVE c \notin bad
    BY <1>2, <1>4, <1>5, <2>1
  <2> QED
    BY <2>1
<1> HIDE DEF bad
<1> DEFINE o == OfSegment(g)
           rest == IF IsLast(g) THEN << >> ELSE L[segs[g].head]
           e == o \o rest
           R == [offset : Nat, msg : Message]
<1>7. L[g] = e
  BY <1>5, LogSteps
<1>8. Tiles(o, g, segs[g].head) /\ \A i \in 1 .. Len(o) : StoredIn(segs, o[i])
  BY <1>5, SegmentDecoded
<1>9. o \in Seq(R)
  BY <1>8 DEF Tiles
<1> HIDE DEF L, o
<1>10. /\ Tiles(rest, segs[g].head, segs[last].head)
       /\ \A i \in 1 .. Len(rest) : StoredIn(segs, rest[i])
       /\ \A c \in D : c > g =>
             \A i \in 1 .. Len(OfSegment(c)) :
                \E j \in 1 .. Len(rest) : rest[j] = OfSegment(c)[i]
  <2>1. CASE IsLast(g)
    <3>1. g = last
      BY <1>1, <1>2, <1>5, <2>1 DEF IsLast
    <3>2. rest = << >> /\ Len(rest) = 0
      BY <2>1
    <3>3. Tiles(rest, segs[g].head, segs[last].head)
      BY <3>1, <3>2, TilesNone
    <3>4. \A c \in D : ~ (c > g)
      BY <1>2, <1>5, <2>1 DEF IsLast
    <3> QED
      BY <3>2, <3>3, <3>4
  <2>2. CASE ~IsLast(g)
    <3> DEFINE h == segs[g].head
    <3>1. h \in D /\ g < h /\ \A c \in D : c > g => c >= h
      BY <1>5, <2>2 DEF FramedInv, ReplyInv, LayoutInv, Contiguous
    <3>2. LogFor(L[h], h) /\ rest = L[h]
      BY <1>2, <1>5, <1>6, <2>2, <3>1
    <3> HIDE DEF rest, h
    <3>3. PICK k \in D : IsLast(k) /\ Tiles(rest, h, segs[k].head)
      BY <3>2 DEF LogFor
    <3>4. k = last
      BY <1>1, <1>2, <3>3 DEF IsLast
    <3> QED
      BY <3>1, <3>2, <3>3, <3>4 DEF LogFor, h
  <2> QED
    BY <2>1, <2>2
<1>11. rest \in Seq(R)
  BY <1>10 DEF Tiles
<1> HIDE DEF rest, R
<1>12. /\ Len(o) \in Nat /\ Len(rest) \in Nat
       /\ Len(e) = Len(o) + Len(rest)
       /\ \A i \in 1 .. Len(o) + Len(rest) :
             e[i] = IF i <= Len(o) THEN o[i] ELSE rest[i - Len(o)]
  BY <1>9, <1>11, ConcatProperties
<1>13. Tiles(e, g, segs[last].head)
  BY <1>8, <1>10, TilesConcat
<1> HIDE DEF e
<1>14. \A i \in 1 .. Len(e) : StoredIn(segs, e[i])
  <2>1. \A i \in 1 .. Len(o) + Len(rest) :
           i \in 1 .. Len(o) \/ (~ (i <= Len(o)) /\ i - Len(o) \in 1 .. Len(rest))
    BY <1>12
  <2> QED
    BY <1>8, <1>10, <1>12, <2>1
<1>15. ASSUME NEW c \in D, c >= g, NEW i \in 1 .. Len(OfSegment(c))
       PROVE  \E j \in 1 .. Len(e) : e[j] = OfSegment(c)[i]
  <2>1. CASE c = g
    <3>1. i \in 1 .. Len(e) /\ e[i] = o[i]
      BY <1>12, <1>15, <2>1 DEF o
    <3> QED
      BY <2>1, <3>1 DEF o
  <2>2. CASE c # g
    <3>1. PICK j \in 1 .. Len(rest) : rest[j] = OfSegment(c)[i]
      BY <1>2, <1>5, <1>10, <1>15, <2>2
    <3>2. /\ Len(o) + j \in 1 .. Len(e) /\ ~ (Len(o) + j <= Len(o))
          /\ Len(o) + j - Len(o) = j
      BY <1>12
    <3>3. e[Len(o) + j] = rest[j]
      BY <1>12, <3>2
    <3> QED
      BY <3>1, <3>2, <3>3
  <2> QED
    BY <2>1, <2>2
<1>16. LogFor(e, g)
  BY <1>1, <1>13, <1>14, <1>15 DEF LogFor
<1> QED
  BY <1>5, <1>7, <1>16

\* The log begins with the first segment, at offset 0.
LEMMA LogDecoded ==
    ASSUME MessagesFit, FramedInv
    PROVE  LogFor(DecodedLog, 0)
<1>1. 0 \in DOMAIN segs /\ DOMAIN segs \subseteq Nat
  BY DEF FramedInv, ReplyInv, LayoutInv, DiskInv, TypeOK, FilesType
<1>2. Min(DOMAIN segs) = 0
  <2> DEFINE D == DOMAIN segs
  <2>1. D \subseteq Nat /\ 0 \in D
    BY <1>1
  <2> HIDE DEF D
  <2>2. Min(D) \in D /\ Min(D) <= 0
    BY <2>1, MinNat
  <2>3. \A x \in D : x <= 0 => x = 0
    BY <2>1
  <2>4. Min(D) = 0
    BY <2>2, <2>3
  <2> QED
    BY <2>4 DEF D
<1> QED
  BY <1>1, <1>2, LogDecodedFrom DEF DecodedLog

-----------------------------------------------------------------------------
(* How the log grows                                                       *)

\* Messages that tile an interval end before the next begins, and before the
\* end of the interval.
LEMMA TilesOrder ==
    ASSUME NEW e, NEW p \in Nat, NEW n \in Nat, Tiles(e, p, n)
    PROVE  /\ Len(e) \in Nat
           /\ \A i \in 1 .. Len(e) :
                 /\ e[i] \in [offset : Nat, msg : Message]
                 /\ e[i].offset \in Nat /\ End(e[i]) \in Nat
                 /\ e[i].offset < End(e[i]) /\ End(e[i]) <= n
           /\ \A j \in 1 .. Len(e) : \A i \in 1 .. j - 1 :
                 End(e[i]) <= e[j].offset
<1> DEFINE R == [offset : Nat, msg : Message]
<1>1. Len(e) \in Nat /\ \A i \in 1 .. Len(e) : e[i] \in R
  <2>1. e \in Seq(R)
    BY DEF Tiles
  <2> HIDE DEF R
  <2> QED
    BY <2>1
<1>2. ASSUME NEW i \in 1 .. Len(e)
      PROVE  /\ e[i].offset \in Nat /\ End(e[i]) \in Nat
             /\ e[i].offset < End(e[i])
  <2>1. e[i].offset \in Nat /\ e[i].msg \in Message
    BY <1>1
  <2>2. Len(Frame(e[i].msg)) \in Nat /\ Len(Frame(e[i].msg)) >= 1
    BY <2>1, FrameLen
  <2> QED
    BY <2>1, <2>2 DEF End
<1>3. ASSUME NEW i \in 1 .. Len(e), NEW j \in 1 .. Len(e), i < j
      PROVE  End(e[i]) <= e[j].offset
  <2> DEFINE bad == {k \in 1 .. Len(e) : i < k /\ ~ (End(e[i]) <= e[k].offset)}
  <2>1. SUFFICES ASSUME bad # {} PROVE FALSE
    BY <1>3
  <2>2. PICK k \in bad : \A x \in bad : k <= x
    <3>1. bad \subseteq Nat
      BY <1>1
    <3> HIDE DEF bad
    <3> QED
      BY <2>1, <3>1, LeastNat
  <2>3. k \in 1 .. Len(e) /\ i < k /\ ~ (End(e[i]) <= e[k].offset)
    OBVIOUS
  <2>4. e[k].offset = End(e[k - 1]) /\ k - 1 \in 1 .. Len(e)
    <3>1. k \in 2 .. Len(e) /\ k - 1 \in 1 .. Len(e)
      BY <1>1, <2>3
    <3> QED
      BY <3>1 DEF Tiles
  <2>5. CASE k - 1 = i
    BY <1>2, <2>3, <2>4, <2>5
  <2>6. CASE k - 1 # i
    <3> DEFINE x == k - 1
    <3>1. k \in Nat /\ i \in Nat /\ i < k
      BY <1>1, <2>3
    <3>2. i < x /\ ~(k <= x)
      BY <2>6, <3>1
    <3>3. x \notin bad
      BY <2>2, <3>2
    <3> HIDE DEF bad
    <3>4. k - 1 \notin bad /\ i < k - 1
      BY <3>2, <3>3
    <3> USE DEF bad
    <3>5. End(e[i]) <= e[k - 1].offset
      BY <2>4, <3>4
    <3>6. /\ End(e[i]) \in Nat /\ e[k].offset \in Nat
          /\ End(e[k - 1]) \in Nat /\ e[k - 1].offset \in Nat
          /\ e[k - 1].offset < End(e[k - 1])
      BY <1>2, <2>3, <2>4
    <3> QED
      BY <2>3, <2>4, <3>5, <3>6
  <2> QED
    BY <2>5, <2>6
<1>4. ASSUME NEW i \in 1 .. Len(e) PROVE End(e[i]) <= n
  <2>1. n = End(e[Len(e)]) /\ Len(e) \in 1 .. Len(e)
    BY <1>1 DEF Tiles
  <2>2. CASE i = Len(e)
    BY <1>2, <2>1, <2>2
  <2>3. CASE i # Len(e)
    <3>1. End(e[i]) <= e[Len(e)].offset
      BY <1>1, <1>3, <2>1, <2>3
    <3> QED
      BY <1>2, <2>1, <3>1
  <2> QED
    BY <2>2, <2>3
<1>5. \A j \in 1 .. Len(e) : \A i \in 1 .. j - 1 : i \in 1 .. Len(e) /\ i < j
  BY <1>1
<1> QED
  BY <1>1, <1>2, <1>3, <1>4, <1>5

\* Two logs that begin at the same offset and in which an offset names the
\* same message: the one that ends first is a prefix of the other.
LEMMA TilesPrefix ==
    ASSUME NEW a, NEW c, NEW p \in Nat, NEW n \in Nat, NEW k \in Nat,
           Tiles(a, p, n), Tiles(c, p, k), n <= k,
           \A i \in 1 .. Len(a) : \A j \in 1 .. Len(c) :
              a[i].offset = c[j].offset => a[i] = c[j]
    PROVE  /\ Len(a) <= Len(c) /\ \A i \in 1 .. Len(a) : c[i] = a[i]
           /\ n = k => a = c
           /\ n < k => Len(a) < Len(c)
<1>1. /\ Len(a) \in Nat /\ Len(c) \in Nat
      /\ \A i \in 1 .. Len(a) : /\ a[i].offset \in Nat /\ End(a[i]) \in Nat
                               /\ a[i].offset < End(a[i]) /\ End(a[i]) <= n
      /\ \A i \in 1 .. Len(c) : /\ c[i].offset \in Nat /\ End(c[i]) \in Nat
                               /\ c[i].offset < End(c[i]) /\ End(c[i]) <= k
  BY TilesOrder
<1>2. ASSUME NEW i \in 1 .. Len(a) PROVE i <= Len(c) /\ c[i] = a[i]
  <2> DEFINE bad == {x \in 1 .. Len(a) : ~ (x <= Len(c) /\ c[x] = a[x])}
  <2>1. SUFFICES ASSUME bad # {} PROVE FALSE
    OBVIOUS
  <2>2. PICK x \in bad : \A y \in bad : x <= y
    <3>1. bad \subseteq Nat
      BY <1>1
    <3> HIDE DEF bad
    <3> QED
      BY <2>1, <3>1, LeastNat
  <2>3. x \in 1 .. Len(a) /\ ~ (x <= Len(c) /\ c[x] = a[x])
    OBVIOUS
  <2>4. x # 1 => x - 1 \in 1 .. Len(a) /\ x - 1 <= Len(c) /\ c[x - 1] = a[x - 1]
    <3> SUFFICES ASSUME x # 1
                 PROVE  /\ x - 1 \in 1 .. Len(a) /\ x - 1 <= Len(c)
                        /\ c[x - 1] = a[x - 1]
      OBVIOUS
    <3>1. x - 1 \in 1 .. Len(a) /\ ~ (x <= x - 1)
      BY <1>1, <2>3
    <3>2. x - 1 \notin bad
      <4> HIDE DEF bad
      <4> QED
        BY <2>2, <3>1
    <3> QED
      BY <3>1, <3>2
  <2> HIDE DEF bad
  <2>5. a[x].offset = IF x = 1 THEN p ELSE End(a[x - 1])
    BY <2>3 DEF Tiles
  <2>6. x <= Len(c)
    <3> SUFFICES ASSUME ~ (x <= Len(c)) PROVE FALSE
      OBVIOUS
    <3>1. Len(c) = x - 1
      BY <1>1, <2>3, <2>4
    <3>2. k = IF x = 1 THEN p ELSE End(c[x - 1])
      BY <1>1, <2>3, <3>1 DEF Tiles
    <3>3. k = a[x].offset
      BY <2>4, <2>5, <3>2
    <3> QED
      BY <1>1, <2>3, <3>3
  <2>7. c[x].offset = a[x].offset
    <3>1. c[x].offset = IF x = 1 THEN p ELSE End(c[x - 1])
      BY <1>1, <2>3, <2>6 DEF Tiles
    <3> QED
      BY <2>4, <2>5, <3>1
  <2>8. x \in 1 .. Len(c)
    BY <1>1, <2>3, <2>6
  <2> QED
    BY <2>3, <2>6, <2>7, <2>8
<1>3. Len(a) <= Len(c)
  <2>1. Len(a) = 0 \/ Len(a) \in 1 .. Len(a)
    BY <1>1
  <2> QED
    BY <1>1, <1>2, <2>1
<1>4. Len(a) = Len(c) => a = c /\ n = k
  <2> SUFFICES ASSUME Len(a) = Len(c) PROVE a = c /\ n = k
    OBVIOUS
  <2> DEFINE R == [offset : Nat, msg : Message]
  <2>1. a \in Seq(R) /\ c \in Seq(R)
    BY DEF Tiles
  <2> HIDE DEF R
  <2>2. a = c
    BY <1>2, <2>1, SeqEqual
  <2>3. n = k
    BY <2>2 DEF Tiles
  <2> QED
    BY <2>2, <2>3
<1>5. ASSUME n = k PROVE Len(a) = Len(c)
  <2> SUFFICES ASSUME Len(a) # Len(c) PROVE FALSE
    OBVIOUS
  <2> DEFINE y == Len(a) + 1
  <2>1. y \in 1 .. Len(c)
    BY <1>1, <1>3
  <2>2. c[y].offset = n
    <3>1. CASE Len(a) = 0
      BY <2>1, <3>1 DEF Tiles
    <3>2. CASE Len(a) # 0
      <4>1. Len(a) \in 1 .. Len(a) /\ y - 1 = Len(a) /\ y # 1
        BY <1>1, <3>2
      <4>2. c[y].offset = End(c[y - 1])
        BY <2>1, <4>1 DEF Tiles
      <4>3. n = End(a[Len(a)])
        BY <3>2 DEF Tiles
      <4> QED
        BY <1>2, <4>1, <4>2, <4>3
    <3> QED
      BY <3>1, <3>2
  <2> QED
    BY <1>1, <1>5, <2>1, <2>2
<1> QED
  BY <1>1, <1>2, <1>3, <1>4, <1>5

\* An offset below the headers names one message.
LEMMA StoredUnique ==
    ASSUME MessagesFit, FramedInv,
           NEW x \in [offset : Nat, msg : Message],
           NEW y \in [offset : Nat, msg : Message],
           StoredIn(segs, x), StoredIn(segs, y), x.offset = y.offset
    PROVE  x = y
<1>1. PICK b \in DOMAIN segs : /\ Holds(segs[b].data, x.offset - b, x.msg)
                               /\ End(x) <= segs[b].head
  BY DEF StoredIn
<1>2. PICK c \in DOMAIN segs : /\ Holds(segs[c].data, y.offset - c, y.msg)
                               /\ End(y) <= segs[c].head
  BY DEF StoredIn
<1>3. x.offset \in Nat /\ x.msg \in Message /\ y.msg \in Message
  OBVIOUS
<1>4. ASSUME NEW a \in DOMAIN segs, NEW z \in {x, y},
             Holds(segs[a].data, z.offset - a, z.msg), End(z) <= segs[a].head
      PROVE  a \in Nat /\ segs[a].head \in Nat
             /\ a <= x.offset /\ x.offset < segs[a].head
  <2>1. a \in Nat /\ segs[a].head \in Nat
    BY FileFacts DEF FramedInv, ReplyInv, LayoutInv
  <2>2. z.msg \in Message /\ z.offset = x.offset
    BY <1>3
  <2>3. Len(Frame(z.msg)) \in Nat /\ Len(Frame(z.msg)) >= 1
    BY <2>2, FrameLen
  <2> QED
    BY <1>3, <1>4, <2>1, <2>2, <2>3 DEF Holds, End
<1>5. /\ b \in Nat /\ segs[b].head \in Nat
      /\ b <= x.offset /\ x.offset < segs[b].head
  BY <1>1, <1>4
<1>6. /\ c \in Nat /\ segs[c].head \in Nat
      /\ c <= x.offset /\ x.offset < segs[c].head
  BY <1>2, <1>4
<1>7. b = c
  <2>1. ASSUME NEW u \in DOMAIN segs, NEW w \in DOMAIN segs, u < w,
               u \in Nat, w \in Nat, segs[u].head \in Nat
        PROVE  segs[u].head <= w
    <3>1. ~IsLast(u)
      BY <2>1 DEF IsLast
    <3> QED
      BY <2>1, <3>1 DEF FramedInv, ReplyInv, LayoutInv, Contiguous
  <2>2. ~ (b < c)
    <3> SUFFICES ASSUME b < c PROVE FALSE
      OBVIOUS
    <3>1. segs[b].head <= c
      BY <1>5, <1>6, <2>1
    <3> QED
      BY <1>3, <1>5, <1>6, <3>1
  <2>3. ~ (c < b)
    <3> SUFFICES ASSUME c < b PROVE FALSE
      OBVIOUS
    <3>1. segs[c].head <= b
      BY <1>5, <1>6, <2>1
    <3> QED
      BY <1>3, <1>5, <1>6, <3>1
  <2> QED
    BY <1>5, <1>6, <2>2, <2>3
<1>8. x.msg = y.msg
  <2> DEFINE p == x.offset - b
             data == segs[b].data
  <2>1. p \in Nat /\ data \in Seq(Nat)
    <3>1. data \in Seq(FileByte)
      BY FileFacts DEF FramedInv, ReplyInv, LayoutInv
    <3> QED
      BY <1>3, <1>5, <3>1, FileNat
  <2>2. Holds(data, p, x.msg) /\ Holds(data, p, y.msg)
    BY <1>1, <1>2, <1>7
  <2> HIDE DEF p, data
  <2> QED
    BY <1>3, <2>1, <2>2, FrameUnique
<1> QED
  BY <1>8

\* An envelope of a file, below its header, is a message of the log.
LEMMA FramedInLog ==
    ASSUME MessagesFit, FramedInv,
           NEW e \in [offset : Nat, msg : Message], FramedIn(segs, e)
    PROVE  \E j \in 1 .. Len(DecodedLog) : DecodedLog[j] = e
<1>1. PICK b \in DOMAIN segs :
        /\ Framed(segs[b].data, 0, e.offset - b)
        /\ Holds(segs[b].data, e.offset - b, e.msg)
        /\ Framed(segs[b].data, End(e) - b, segs[b].head - b)
  BY DEF FramedIn
<1> DEFINE data == segs[b].data
           d == Committed(segs, b)
           n == segs[b].head - b
           p == e.offset - b
           q == End(e) - b
<1>2. /\ d \in Seq(Nat) /\ Len(d) = n /\ n \in Nat /\ b \in Nat
      /\ b + n = segs[b].head
      /\ n <= Len(data) /\ Len(data) \in Nat
      /\ \A i \in 1 .. n : d[i] = data[i]
  BY CommittedBytes
<1>3. e.offset \in Nat /\ e.msg \in Message
  OBVIOUS
<1>4. /\ p \in Nat /\ q \in Nat /\ q = p + Len(Frame(e.msg)) /\ p < q
      /\ e.offset = b + p /\ End(e) = b + q
  <2>1. Len(Frame(e.msg)) \in Nat /\ Len(Frame(e.msg)) >= 1
    BY <1>3, FrameLen
  <2> QED
    BY <1>1, <1>2, <1>3, <2>1 DEF Holds, End
<1>5. Framed(data, 0, p) /\ Holds(data, p, e.msg) /\ Framed(data, q, n)
  BY <1>1
<1> HIDE DEF data, d, n, p, q
<1>6. q <= n
  <2>1. q \in q .. n
    BY <1>5 DEF Framed, Starts
  <2> QED
    BY <1>2, <1>4, <2>1
<1>7. Framed(data, p, q)
  BY <1>3, <1>4, <1>5, FramedOne
<1>8. Framed(data, p, n)
  BY <1>2, <1>4, <1>5, <1>7, FramedCompose
<1>9. Framed(d, 0, p) /\ Framed(d, p, n)
  <2>1. /\ n <= Len(d) /\ p <= Len(d) /\ Len(d) \in Nat /\ 0 \in Nat
        /\ \A i \in 1 .. p : d[i] = data[i]
    BY <1>2, <1>4, <1>6
  <2>2. Framed(d, 0, p)
    BY <1>4, <1>5, <2>1, FramedSame
  <2>3. Framed(d, p, n)
    BY <1>2, <1>4, <1>8, <2>1, FramedSame
  <2> QED
    BY <2>2, <2>3
<1>10. PICK i \in 1 .. Len(OfSegment(b)) : OfSegment(b)[i].offset = b + p
  <2>1. p < Len(d)
    BY <1>2, <1>4, <1>6
  <2> QED
    BY <1>2, <1>4, <1>9, <2>1, DecodeReaches DEF OfSegment, d
<1>11. /\ OfSegment(b)[i] \in [offset : Nat, msg : Message]
       /\ StoredIn(segs, OfSegment(b)[i])
  <2>1. Tiles(OfSegment(b), b, segs[b].head) /\ segs[b].head \in Nat
    BY <1>2, SegmentDecoded
  <2>2. OfSegment(b)[i] \in [offset : Nat, msg : Message]
    BY <1>2, <2>1, TilesOrder
  <2> QED
    BY <2>2, SegmentDecoded
<1>12. StoredIn(segs, e)
  <2>1. End(e) <= segs[b].head
    BY <1>2, <1>4, <1>6
  <2> QED
    BY <1>1, <2>1 DEF StoredIn
<1>13. OfSegment(b)[i] = e
  BY <1>4, <1>10, <1>11, <1>12, StoredUnique
<1>14. b >= 0
  BY <1>2
<1> QED
  BY <1>13, <1>14, LogDecoded DEF LogFor

\* What the files of a state say of the log, stated so that it can be used in
\* the next state too.
LogFacts ==
    FramedInv =>
        /\ LogFor(DecodedLog, 0)
        /\ \A x, y \in [offset : Nat, msg : Message] :
              StoredIn(segs, x) /\ StoredIn(segs, y) /\ x.offset = y.offset =>
                 x = y
        /\ \A e \in [offset : Nat, msg : Message] :
              FramedIn(segs, e) =>
                 \E j \in 1 .. Len(DecodedLog) : DecodedLog[j] = e

LEMMA LogFactsCorrect ==
    ASSUME MessagesFit
    PROVE  LogFacts
<1> SUFFICES ASSUME FramedInv
             PROVE  /\ LogFor(DecodedLog, 0)
                    /\ \A x, y \in [offset : Nat, msg : Message] :
                          StoredIn(segs, x) /\ StoredIn(segs, y)
                             /\ x.offset = y.offset => x = y
                    /\ \A e \in [offset : Nat, msg : Message] :
                          FramedIn(segs, e) =>
                             \E j \in 1 .. Len(DecodedLog) : DecodedLog[j] = e
  BY DEF LogFacts
<1>1. LogFor(DecodedLog, 0)
  BY LogDecoded
<1>2. ASSUME NEW x \in [offset : Nat, msg : Message],
             NEW y \in [offset : Nat, msg : Message],
             StoredIn(segs, x), StoredIn(segs, y), x.offset = y.offset
      PROVE  x = y
  BY <1>2, StoredUnique
<1>3. ASSUME NEW e \in [offset : Nat, msg : Message], FramedIn(segs, e)
      PROVE  \E j \in 1 .. Len(DecodedLog) : DecodedLog[j] = e
  BY <1>3, FramedInLog
<1> QED
  BY <1>1, <1>2, <1>3

\* The last header before and after a step.
LEMMA LastHeader ==
    ASSUME NoPowerLoss, NoShortWrite, FramedInv, FramedInv', [Next]_vars,
           NEW last \in DOMAIN segs, IsLast(last)
    PROVE  /\ segs[last].head \in Nat
           /\ \E new \in DOMAIN segs' :
                 /\ IsLast(new)' /\ segs'[new].head \in Nat
                 /\ segs[last].head <= segs'[new].head
                 /\ acked' # acked => /\ new = Current
                                     /\ segs[last].head < segs'[new].head
<1>1. ReplyInv /\ DiskInv /\ DiskInv'
  BY DEF FramedInv, ReplyInv, LayoutInv
<1>2. /\ last \in DOMAIN segs' /\ last \in Nat /\ segs[last].head \in Nat
      /\ segs[last].head <= segs'[last].head /\ segs'[last].head - last \in Nat
      /\ segs'[last].head \in Nat
  <2>1. last \in Nat /\ segs[last].head \in Nat
    BY <1>1, FileFacts
  <2>2. last \in DOMAIN segs' /\ segs[last].head <= segs'[last].head
    BY <1>1, CommittedStep DEF CommittedKept
  <2>3. FilesSized'
    BY FilesSizedCorrect, PTL
  <2> QED
    BY <1>1, <2>1, <2>2, <2>3 DEF FilesSized
<1>3. CASE acked' # acked
  <2>1. /\ WriteHeader /\ pc = "header" /\ call.kind = "append"
        /\ segs' = [segs EXCEPT ![Current].head = handle.offset_head]
    BY <1>3, AckedBy
  <2>2. /\ IsLast(Current) /\ Current \in DOMAIN segs
        /\ handle.offset_head \in Nat /\ Current \in Nat
    BY <1>1, <2>1, OpenFacts DEF DiskInv, OpenSegment
  <2>3. Current = last
    BY <1>2, <2>2 DEF IsLast
  <2>4. segs[Current].head < handle.offset_head
    <3>1. /\ segs[Current].head <= call.offset
          /\ call.offset + Len(Frame(call.msg)) = handle.offset_head
      BY <1>1, <2>1 DEF ReplyInv, LayoutInv, ReplyBehindCommitted
    <3>2. call.msg \in Message /\ call.offset \in Nat
      BY <1>1, <2>1 DEF DiskInv, TypeOK, CallType
    <3>3. Len(Frame(call.msg)) \in Nat /\ Len(Frame(call.msg)) >= 1
      BY <3>2, FrameLen
    <3> QED
      BY <1>2, <2>2, <2>3, <3>1, <3>2, <3>3
  <2>5. DOMAIN segs' = DOMAIN segs
    BY <2>1
  <2>6. segs'[Current].head = handle.offset_head
    <3>1. segs[Current] = [head |-> segs[Current].head,
                           data |-> segs[Current].data]
      BY <1>1, <2>2, TypeFacts DEF DiskInv
    <3> QED
      BY <2>1, <2>2, <3>1
  <2>7. \A c \in DOMAIN segs' : c <= Current
    BY <2>2, <2>5 DEF IsLast
  <2> QED
    BY <1>2, <2>2, <2>3, <2>4, <2>5, <2>6, <2>7 DEF IsLast
<1>4. CASE acked' = acked /\ DOMAIN segs' = DOMAIN segs
  <2>1. \A c \in DOMAIN segs' : c <= last
    BY <1>4 DEF IsLast
  <2> QED
    BY <1>2, <1>4, <2>1 DEF IsLast
<1>5. CASE acked' = acked /\ DOMAIN segs' # DOMAIN segs
  <2> DEFINE head == handle.offset_head
  <2>1. /\ head \in Nat
        /\ DOMAIN segs' = DOMAIN segs \cup {head}
        /\ segs'[head] = [head |-> head, data |-> << >>]
        /\ \A b \in DOMAIN segs : b < head
        /\ segs[Current].head = head /\ IsLast(Current)
        /\ Current \in DOMAIN segs
    BY <1>1, <1>5, NewFile
  <2> HIDE DEF head
  <2>2. Current = last
    <3>1. Current \in Nat
      BY <1>1, <2>1, FileFacts
    <3> QED
      BY <1>2, <2>1, <3>1 DEF IsLast
  <2>3. head \in DOMAIN segs' /\ \A c \in DOMAIN segs' : c <= head
    BY <1>1, <2>1, FileFacts
  <2>4. segs'[head].head = head
    BY <2>1
  <2> QED
    BY <1>2, <1>5, <2>1, <2>2, <2>3, <2>4 DEF IsLast
<1> QED
  BY <1>3, <1>4, <1>5

\* A longer log with the same beginning is what MessageLog calls an extension.
LEMMA LogExtends ==
    ASSUME NEW a, NEW c, NEW p \in Nat, NEW n \in Nat, NEW k \in Nat,
           Tiles(a, p, n), Tiles(c, p, k),
           Len(a) < Len(c), \A i \in 1 .. Len(a) : c[i] = a[i]
    PROVE  Log!Extends(a, c)
<1> DEFINE R == [offset : Nat, msg : Message]
<1>1. a \in Seq(R) /\ c \in Seq(R)
  BY DEF Tiles
<1>2. Len(c) \in Nat
      /\ (\A i \in 1 .. Len(c) :
            /\ c[i].offset \in Nat /\ End(c[i]) \in Nat
            /\ c[i].offset < End(c[i]))
      /\ \A j \in 1 .. Len(c) : \A i \in 1 .. j - 1 :
            End(c[i]) <= c[j].offset
  BY TilesOrder
<1>3. Log!OffsetsIncrease(c)
  <2>1. ASSUME NEW i \in 1 .. Len(c), NEW j \in 1 .. Len(c), i < j
        PROVE  c[i].offset < c[j].offset
    <3>1. i \in 1 .. j - 1
      BY <1>2, <2>1
    <3>2. End(c[i]) <= c[j].offset
      BY <1>2, <3>1
    <3> QED
      BY <1>2, <3>2
  <2> QED
    BY <2>1 DEF Log!OffsetsIncrease
<1>4. c \in Seq(Log!Entry)
  BY <1>1 DEF Log!Entry
<1> HIDE DEF R
<1>5. Log!IsStrictPrefix(a, c)
  <2>1. /\ Len(a) \in Nat /\ Len(a) <= Len(c)
        /\ SubSeq(a, 1, Len(a)) \in Seq(R) /\ SubSeq(c, 1, Len(a)) \in Seq(R)
        /\ Len(SubSeq(a, 1, Len(a))) = Len(a)
        /\ Len(SubSeq(c, 1, Len(a))) = Len(a)
        /\ \A i \in 1 .. Len(a) : SubSeq(a, 1, Len(a))[i] = a[i]
                                /\ SubSeq(c, 1, Len(a))[i] = c[i]
    BY <1>1, <1>2
  <2>2. SubSeq(a, 1, Len(a)) = SubSeq(c, 1, Len(a))
    BY <2>1, SeqEqual
  <2>3. a # c
    BY <1>2, <2>1
  <2> QED
    BY <2>1, <2>2, <2>3 DEF Log!IsStrictPrefix, Log!IsPrefix
<1> QED
  BY <1>3, <1>4, <1>5 DEF Log!Extends

\* Every step of the channel is a commit to the log or leaves it alone.
LEMMA LogStep ==
    ASSUME NoPowerLoss, NoShortWrite, MessagesFit,
           FramedInv, FramedInv', [Next]_vars
    PROVE  [Log!Commit]_Log!logVars
<1> DEFINE a == DecodedLog
           R == [offset : Nat, msg : Message]
<1>1. ReplyInv /\ LayoutInv /\ DiskInv /\ DiskInv' /\ CommittedKept
  BY CommittedStep DEF FramedInv, ReplyInv, LayoutInv
<1>2. /\ LogFor(a, 0)
      /\ LogFor(a, 0)'
      /\ \A x, y \in R :
            StoredIn(segs', x) /\ StoredIn(segs', y) /\ x.offset = y.offset =>
               x = y
      /\ \A e \in R :
            FramedIn(segs', e) => \E j \in 1 .. Len(a') : a'[j] = e
  <2>1. LogFacts /\ LogFacts'
    BY LogFactsCorrect, PTL
  <2> QED
    BY <2>1 DEF LogFacts
<1>3. PICK last \in DOMAIN segs : IsLast(last) /\ Tiles(a, 0, segs[last].head)
  BY <1>2 DEF LogFor
<1>4. PICK new \in DOMAIN segs' :
        /\ segs[last].head \in Nat
        /\ IsLast(new)' /\ segs'[new].head \in Nat
        /\ segs[last].head <= segs'[new].head
        /\ acked' # acked => /\ new = Current
                            /\ segs[last].head < segs'[new].head
  BY <1>3, LastHeader
<1> DEFINE n == segs[last].head
           k == segs'[new].head
<1>5. Tiles(a', 0, k)
  <2>1. PICK other \in DOMAIN segs' :
           IsLast(other)' /\ Tiles(a', 0, segs'[other].head)
    BY <1>2 DEF LogFor
  <2>2. DOMAIN segs' \subseteq Nat
    BY <1>1 DEF DiskInv, TypeOK, FilesType
  <2>3. other = new
    BY <1>4, <2>1, <2>2 DEF IsLast
  <2> QED
    BY <2>1, <2>3
<1>6. /\ \A i \in 1 .. Len(a) : a[i] \in R /\ StoredIn(segs', a[i])
      /\ \A j \in 1 .. Len(a') : a'[j] \in R /\ StoredIn(segs', a'[j])
  <2>1. ASSUME NEW i \in 1 .. Len(a) PROVE a[i] \in R /\ StoredIn(segs', a[i])
    <3>1. a[i] \in R
      BY <1>3, <1>4, TilesOrder
    <3>2. StoredIn(segs, a[i])
      BY <1>2 DEF LogFor
    <3> HIDE DEF a
    <3> QED
      BY <1>1, <3>1, <3>2, StoredForEver
  <2>2. ASSUME NEW j \in 1 .. Len(a') PROVE a'[j] \in R /\ StoredIn(segs', a'[j])
    <3>1. a'[j] \in R
      BY <1>4, <1>5, TilesOrder
    <3> QED
      BY <1>2, <3>1 DEF LogFor
  <2> QED
    BY <2>1, <2>2
<1>7. /\ Len(a) <= Len(a') /\ \A i \in 1 .. Len(a) : a'[i] = a[i]
      /\ n = k => a = a'
      /\ n < k => Len(a) < Len(a')
  <2>1. \A i \in 1 .. Len(a) : \A j \in 1 .. Len(a') :
           a[i].offset = a'[j].offset => a[i] = a'[j]
    <3> HIDE DEF a
    <3> QED
      BY <1>2, <1>6
  <2>2. n \in Nat /\ k \in Nat /\ n <= k /\ Tiles(a, 0, n) /\ Tiles(a', 0, k)
    BY <1>3, <1>4, <1>5
  <2> HIDE DEF n, k, a
  <2> QED
    BY <2>1, <2>2, TilesPrefix
<1>8. n < k => Log!Extends(a, a')
  BY <1>3, <1>4, <1>5, <1>7, LogExtends
<1>9. CASE acked' = acked
  <2>1. CASE n = k
    BY <1>7, <1>9, <2>1 DEF Log!logVars
  <2>2. CASE n # k
    <3>1. Log!Extends(a, a')
      BY <1>4, <1>8, <2>2
    <3> QED
      BY <1>9, <3>1 DEF Log!Commit
  <2> QED
    BY <2>1, <2>2
<1>10. CASE acked' # acked
  <2> DEFINE e == [offset |-> call.offset, msg |-> call.msg]
  <2>1. /\ pc = "header" /\ call.kind = "append"
        /\ segs' = [segs EXCEPT ![Current].head = handle.offset_head]
        /\ acked' = Append(acked, e)
    BY <1>10, AckedBy
  <2>2. e \in R /\ End(e) = handle.offset_head
    BY <1>1, <2>1 DEF DiskInv, TypeOK, CallType, LayoutInv,
       ReplyBehindCommitted, End
  <2>3. k = End(e)
    <3>1. /\ Current \in DOMAIN segs
          /\ segs[Current] = [head |-> segs[Current].head,
                              data |-> segs[Current].data]
      BY <1>1, <2>1, TypeFacts DEF DiskInv
    <3> QED
      BY <1>4, <1>10, <2>1, <2>2, <3>1
  <2>4. FramedIn(segs', e)
    <3> DEFINE i == Len(acked) + 1
    <3> HIDE DEF e
    <3>1. i \in 1 .. Len(acked') /\ acked'[i] = e
      <4> HIDE DEF R
      <4>1. acked \in Seq(R)
        BY <1>1 DEF DiskInv, TypeOK, CallType, R
      <4> QED
        BY <2>1, <2>2, <4>1
    <3> QED
      BY <3>1 DEF FramedInv, AckedFramed
  <2> HIDE DEF e, k
  <2>5. PICK j \in 1 .. Len(a') : a'[j] = e
    <3> HIDE DEF a
    <3> QED
      BY <1>2, <2>2, <2>4
  <2>6. j = Len(a')
    <3> SUFFICES ASSUME j # Len(a') PROVE FALSE
      OBVIOUS
    <3>1. k \in Nat /\ Tiles(a', 0, k)
      BY <1>4, <1>5 DEF k
    <3> HIDE DEF a
    <3>2. /\ Len(a') \in Nat
          /\ \A i \in 1 .. Len(a') :
                /\ a'[i].offset \in Nat /\ End(a'[i]) \in Nat
                /\ a'[i].offset < End(a'[i]) /\ End(a'[i]) <= k
          /\ \A y \in 1 .. Len(a') : \A x \in 1 .. y - 1 :
                End(a'[x]) <= a'[y].offset
      BY <3>1, TilesOrder
    <3>3. j \in 1 .. Len(a') - 1 /\ Len(a') \in 1 .. Len(a')
      BY <3>2
    <3>4. k <= a'[Len(a')].offset
      BY <2>3, <2>5, <3>2, <3>3
    <3> QED
      BY <3>1, <3>2, <3>3, <3>4
  <2>7. Log!Extends(a, a')
    BY <1>4, <1>8, <1>10 DEF k
  <2>8. acked' = Append(acked, a'[Len(a')])
    BY <2>1, <2>5, <2>6
  <2> QED
    BY <2>7, <2>8 DEF Log!Commit
<1> QED
  BY <1>9, <1>10

\* A new channel is an empty log.
LEMMA LogInit ==
    ASSUME MessagesFit, Init
    PROVE  Log!Init
<1>1. FramedInv
  BY FramedInit
<1>2. LogFor(DecodedLog, 0)
  BY <1>1, LogDecoded
<1>3. PICK last \in DOMAIN segs : Tiles(DecodedLog, 0, segs[last].head)
  BY <1>2 DEF LogFor
<1>4. segs[last].head = 0
  BY DEF Init, File
<1>5. DecodedLog = << >>
  <2> DEFINE e == DecodedLog
  <2>1. Tiles(e, 0, 0)
    BY <1>3, <1>4
  <2> HIDE DEF e
  <2>2. /\ Len(e) \in Nat
        /\ \A i \in 1 .. Len(e) : /\ e[i].offset \in Nat /\ End(e[i]) \in Nat
                                 /\ e[i].offset < End(e[i]) /\ End(e[i]) <= 0
    BY <2>1, TilesOrder
  <2>3. e = << >>
    <3> DEFINE R == [offset : Nat, msg : Message]
    <3>1. e \in Seq(R)
      BY <2>1 DEF Tiles
    <3>2. ~ (1 \in 1 .. Len(e))
      BY <2>2
    <3>3. Len(e) = 0
      BY <2>2, <3>2
    <3> HIDE DEF R
    <3> QED
      BY <3>1, <3>3
  <2> QED
    BY <2>3 DEF e
<1> QED
  BY <1>5 DEF Init, Log!Init

\* Calls may fail and processes crash at any step: as long as power is not
\* lost and no write is short, what the segment files say, decoded as readers
\* decode them, is a log that only grows by whole messages, in which a message
\* keeps its offset, and success is reported only for its last message.
THEOREM ChannelImplementsLog ==
    ASSUME NoPowerLoss, NoShortWrite, MessagesFit
    PROVE  Spec => ImplementsMessageLog
<1>1. Init => Log!Init
  BY LogInit
<1>2. FramedInv /\ FramedInv' /\ [Next]_vars => [Log!Commit]_Log!logVars
  BY LogStep
<1>3. Spec => []FramedInv
  BY FramedInvariant
<1> QED
  BY <1>1, <1>2, <1>3, PTL DEF Spec, ImplementsMessageLog, Log!Spec

\* Under the same assumptions a reader who decodes the files from the start
\* comes across every acknowledged message: none is hidden behind bytes that
\* are read as something else.
THEOREM AckedMessagesDecoded ==
    ASSUME NoPowerLoss, NoShortWrite, MessagesFit
    PROVE  Spec => []AckedInLog
<1>1. FramedInv => AckedInLog
  <2> SUFFICES ASSUME FramedInv, NEW i \in 1 .. Len(acked)
               PROVE  \E j \in 1 .. Len(DecodedLog) : DecodedLog[j] = acked[i]
    BY DEF AckedInLog
  <2> DEFINE R == [offset : Nat, msg : Message]
  <2>1. acked \in Seq(R)
    BY DEF FramedInv, ReplyInv, LayoutInv, DiskInv, TypeOK, CallType
  <2> HIDE DEF R
  <2>2. acked[i] \in R
    BY <2>1
  <2> QED
    BY <2>2, FramedInLog DEF R, FramedInv, AckedFramed
<1> QED
  BY <1>1, FramedInvariant, PTL

=============================================================================
