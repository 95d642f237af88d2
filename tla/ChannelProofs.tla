--------------------------- MODULE ChannelProofs ---------------------------
(***************************************************************************)
(* Proofs about Channel, for every set of messages, every segment size and *)
(* every bound.                                                            *)
(***************************************************************************)
EXTENDS ChannelInv, WireFormatProofs

-----------------------------------------------------------------------------
(* Lemmas about the wire format and about writing at a file position       *)

\* The length prefix of an envelope has at least one byte (varint.cc).
LEMMA VarUIntLenPositive ==
    ASSUME NEW v \in Nat
    PROVE  VarUIntLen(v) \in Nat \ {0}
BY VarUIntLenBounds DEF MaxVarUIntLen

\* An envelope is a non-empty sequence of bytes that a file can hold
\* (messageWrite of message.cc).
LEMMA FrameType ==
    ASSUME NEW m \in Message
    PROVE  Frame(m) \in Seq(FileByte) /\ Len(Frame(m)) \in Nat \ {0}
<1> DEFINE w == WriteVarUInt(Len(m))
           n == VarUIntLen(Len(m))
           T == {w[i] : i \in 1 .. n} \cup Byte
<1>1. m \in Seq(Byte)
  BY ChannelAssumption
<1>2. n \in Nat \ {0}
  BY <1>1, VarUIntLenPositive
<1>3. w \in Seq(T) /\ Len(w) = n
  <2>1. w \in [1 .. n -> T]
    BY <1>2 DEF WriteVarUInt
  <2> QED
    BY <2>1, <1>2, SeqDef
<1>4. Frame(m) \in Seq(T) /\ Len(Frame(m)) = n + Len(m)
  BY <1>1, <1>3 DEF Frame
<1>5. Len(Frame(m)) \in Nat \ {0}
  BY <1>1, <1>2, <1>4
<1>6. \A i \in 1 .. Len(Frame(m)) : Frame(m)[i] \in FileByte
  <2>1. Range(Frame(m)) \subseteq FileByte
    BY DEF FileByte
  <2>2. DOMAIN Frame(m) = 1 .. Len(Frame(m))
    BY <1>4
  <2> QED
    BY <2>1, <2>2 DEF Range
<1> QED
  BY <1>4, <1>5, <1>6

\* A write leaves a sequence of bytes, whatever the position.
LEMMA WriteAtType ==
    ASSUME NEW d \in Seq(FileByte), NEW f \in Seq(FileByte), NEW p \in Nat
    PROVE  WriteAt(d, p, f) \in Seq(FileByte)
<1> DEFINE n == IF p + Len(f) > Len(d) THEN p + Len(f) ELSE Len(d)
<1>1. n \in Nat
  OBVIOUS
<1>2. WriteAt(d, p, f) \in [1 .. n -> FileByte]
  BY <1>1 DEF WriteAt, FileByte
<1> QED
  BY <1>1, <1>2

\* What a file holds after a write at a position within it: the bytes up to
\* the position are the old ones, then come the written ones, and no byte of
\* the file is lost.
LEMMA WriteAtEffect ==
    ASSUME NEW d \in Seq(FileByte), NEW f \in Seq(FileByte),
           NEW p \in Nat, p <= Len(d)
    PROVE  LET w == WriteAt(d, p, f) IN
           /\ w \in Seq(FileByte)
           /\ Len(w) >= Len(d)
           /\ Len(w) >= p + Len(f)
           /\ \A i \in 1 .. p : w[i] = d[i]
           /\ \A i \in 1 .. Len(f) : w[p + i] = f[i]
<1> DEFINE w == WriteAt(d, p, f)
           n == IF p + Len(f) > Len(d) THEN p + Len(f) ELSE Len(d)
<1>1. n \in Nat
  OBVIOUS
<1>2. w \in [1 .. n -> FileByte]
  BY <1>1 DEF WriteAt, FileByte
<1>3. w \in Seq(FileByte) /\ Len(w) = n
  BY <1>1, <1>2
<1> QED
  BY <1>3, <1>1 DEF WriteAt

-----------------------------------------------------------------------------
(* Type correctness                                                        *)

\* A channel that createChannel has just made is well typed.
LEMMA TypeInit == Init => TypeOK
<1> SUFFICES ASSUME Init PROVE TypeOK
  OBVIOUS
<1>1. File(0) \in SegmentFile
  BY DEF File, SegmentFile
<1>2. segs \in [{0} -> SegmentFile] /\ stable = segs
  BY <1>1 DEF Init
<1>3. FilesType
  BY <1>2 DEF FilesType
<1>4. MemoryType
  BY <1>2 DEF Init, MemoryType, Current
<1>5. CallType
  BY DEF Init, CallType, NoCall
<1> QED
  BY <1>3, <1>4, <1>5 DEF TypeOK

\* Rotation: the new segment and the archive entry are well typed, and so is
\* a segmentCreate that fails.
LEMMA RotateType == TypeOK /\ Rotate => TypeOK'
<1> SUFFICES ASSUME TypeOK, Rotate PROVE TypeOK'
  OBVIOUS
<1> USE DEF TypeOK
<1> DEFINE head == handle.offset_head
<1>1. head \in Nat /\ Current \in Nat
  BY DEF FilesType, MemoryType
<1>2. CASE UNCHANGED <<segs, archive, handle, pos>> /\ Return
  <2>1. FilesType' /\ MemoryType'
    BY <1>2 DEF Rotate, FilesType, MemoryType, Current
  <2>2. CallType'
    BY <1>2 DEF Rotate, CallType, Return, NoCall
  <2> QED
    BY <2>1, <2>2
<1>3. CASE /\ segs' = With(segs, head, File(head))
           /\ archive' = With(archive, Current, head)
           /\ handle' = [offset_begin |-> head, offset_head |-> head]
           /\ pos' = 0 /\ pc' = "write" /\ UNCHANGED call
  <2>1. File(head) \in SegmentFile
    BY <1>1 DEF File, SegmentFile
  <2>2. /\ DOMAIN segs' = {head} \cup DOMAIN segs
        /\ segs' \in [DOMAIN segs' -> SegmentFile]
    BY <1>3, <2>1 DEF FilesType, With
  <2>3. FilesType'
    BY <1>1, <2>2 DEF Rotate, FilesType
  <2>4. /\ DOMAIN archive' = {Current} \cup DOMAIN archive
        /\ archive' \in [DOMAIN archive' -> Nat]
    BY <1>1, <1>3 DEF MemoryType, With
  <2>5. MemoryType'
    BY <1>1, <1>3, <2>2, <2>4 DEF Rotate, MemoryType, Current
  <2>6. CallType'
    BY <1>3 DEF Rotate, CallType
  <2> QED
    BY <2>3, <2>5, <2>6
<1> QED
  BY <1>2, <1>3 DEF Rotate

\* What segmentAppend may do, in one formula.
LEMMA SegmentAppendCases ==
    ASSUME SegmentAppend
    PROVE  LET frame == Frame(call.msg)
               Put(f) ==
                  segs' = [segs EXCEPT ![Current].data = WriteAt(@, pos, f)]
           IN
           /\ pc = "write" /\ UNCHANGED <<stable, archive, acked>>
           /\ \/ /\ Put(frame)
                 /\ pos' = pos + Len(frame)
                 /\ handle' = [handle EXCEPT !.offset_head = @ + Len(frame)]
                 /\ call' = [call EXCEPT !.offset = handle.offset_head]
                 /\ needs_commit' = TRUE
                 /\ pc' = "sync"
              \/ Return /\ UNCHANGED <<segs, pos, handle, needs_commit>>
              \/ /\ "short_write" \in Faults
                 /\ \E k \in 1 .. Len(frame) - 1 :
                       LET f == SubSeq(frame, 1, k)
                       IN  Put(f) /\ pos' = pos + Len(f)
                 /\ Return /\ UNCHANGED <<handle, needs_commit>>
  BY DEF SegmentAppend, WriteFrame, WriteShort, WriteFails, WriteBytes, memory

\* messageWrite leaves a file of bytes and a descriptor in the file, whether
\* it writes the envelope, a part of it or nothing.
LEMMA SegmentAppendType == TypeOK /\ SegmentAppend => TypeOK'
<1> SUFFICES ASSUME TypeOK, SegmentAppend PROVE TypeOK'
  OBVIOUS
<1> USE DEF TypeOK
<1> DEFINE frame == Frame(call.msg)
           Put(f) == segs' = [segs EXCEPT ![Current].data = WriteAt(@, pos, f)]
<1>1. frame \in Seq(FileByte) /\ Len(frame) \in Nat \ {0}
  BY FrameType, SegmentAppendCases DEF CallType
<1>2. ASSUME NEW f \in Seq(FileByte), Put(f)
      PROVE  FilesType' /\ DOMAIN segs' = DOMAIN segs
  <2>1. segs[Current] \in SegmentFile
    BY DEF FilesType, MemoryType
  <2>2. WriteAt(segs[Current].data, pos, f) \in Seq(FileByte)
    BY <2>1, WriteAtType DEF MemoryType, SegmentFile
  <2> QED
    BY <1>2, <2>1, <2>2, SegmentAppendCases DEF FilesType, SegmentFile
<1>3. CASE /\ Put(frame)
           /\ pos' = pos + Len(frame)
           /\ handle' = [handle EXCEPT !.offset_head = @ + Len(frame)]
           /\ call' = [call EXCEPT !.offset = handle.offset_head]
           /\ needs_commit' = TRUE
           /\ pc' = "sync"
  <2>1. FilesType' /\ DOMAIN segs' = DOMAIN segs
    BY <1>1, <1>2, <1>3
  <2> HIDE DEF Put
  <2>2. /\ handle' \in [offset_begin : Nat, offset_head : Nat]
        /\ handle'.offset_begin = Current
        /\ pos' \in Nat
    BY <1>1, <1>3 DEF MemoryType, Current
  <2>3. MemoryType'
    BY <1>3, <2>1, <2>2, SegmentAppendCases DEF MemoryType, Current
  <2>4. CallType'
    BY <1>3, SegmentAppendCases DEF CallType, MemoryType
  <2> QED
    BY <2>1, <2>3, <2>4
<1>4. CASE Return /\ UNCHANGED <<segs, pos, handle, needs_commit>>
  <2>1. FilesType' /\ MemoryType'
    BY <1>4, SegmentAppendCases DEF FilesType, MemoryType, Current
  <2>2. CallType'
    BY <1>4, SegmentAppendCases DEF CallType, Return, NoCall
  <2> QED
    BY <2>1, <2>2
<1>5. CASE /\ \E k \in 1 .. Len(frame) - 1 :
                 LET f == SubSeq(frame, 1, k)
                 IN  Put(f) /\ pos' = pos + Len(f)
           /\ Return /\ UNCHANGED <<handle, needs_commit>>
  <2>1. PICK k \in 1 .. Len(frame) - 1 :
           Put(SubSeq(frame, 1, k)) /\ pos' = pos + Len(SubSeq(frame, 1, k))
    BY <1>5
  <2>2. /\ SubSeq(frame, 1, k) \in Seq(FileByte)
        /\ Len(SubSeq(frame, 1, k)) \in Nat
    BY <1>1
  <2>3. FilesType' /\ DOMAIN segs' = DOMAIN segs
    BY <1>2, <2>1, <2>2
  <2>4. MemoryType'
    BY <1>5, <2>1, <2>2, <2>3, SegmentAppendCases DEF MemoryType, Current
  <2>5. CallType'
    BY <1>5, SegmentAppendCases DEF CallType, Return, NoCall
  <2> QED
    BY <2>3, <2>4, <2>5
<1> QED
  BY <1>3, <1>4, <1>5, SegmentAppendCases

\* Every step keeps the types.  openChannel needs HeadersOrdered: it subtracts
\* offset_begin from the offset_head in the header.
LEMMA TypeStep == TypeOK /\ HeadersOrdered /\ [Next]_vars => TypeOK'
<1> SUFFICES ASSUME TypeOK, HeadersOrdered, [Next]_vars PROVE TypeOK'
  OBVIOUS
<1> USE DEF TypeOK, Return, NoCall, memory
<1>1. ASSUME NEW m \in Message, AppendMessage(m) PROVE TypeOK'
  <2>1. FilesType' /\ MemoryType'
    BY <1>1 DEF AppendMessage, FilesType, MemoryType, Current
  <2>2. CallType'
    BY <1>1 DEF AppendMessage, CallType
  <2> QED
    BY <2>1, <2>2
<1>2. CASE Commit
  <2>1. FilesType' /\ MemoryType'
    BY <1>2 DEF Commit, FilesType, MemoryType, Current
  <2>2. CallType'
    BY <1>2 DEF Commit, CallType
  <2> QED
    BY <2>1, <2>2
<1>3. CASE Rotate
  BY <1>3, RotateType
<1>4. CASE SegmentAppend
  BY <1>4, SegmentAppendType
<1>5. CASE SyncData
  <2>1. /\ stable' \in [DOMAIN stable' -> SegmentFile]
        /\ DOMAIN stable' \in {DOMAIN stable, DOMAIN stable \cup {Current}}
    BY <1>5 DEF SyncData, FilesType, MemoryType, With
  <2>2. FilesType'
    BY <1>5, <2>1 DEF SyncData, FilesType, MemoryType
  <2>3. MemoryType'
    BY <1>5 DEF SyncData, MemoryType, Current
  <2>4. CallType'
    BY <1>5 DEF SyncData, CallType
  <2> QED
    BY <2>2, <2>3, <2>4
<1>6. CASE WriteHeader
  <2>1. segs' \in [DOMAIN segs -> SegmentFile] /\ DOMAIN segs' = DOMAIN segs
    BY <1>6 DEF WriteHeader, FilesType, MemoryType, SegmentFile
  <2>2. FilesType' /\ MemoryType'
    BY <1>6, <2>1 DEF WriteHeader, FilesType, MemoryType, Current
  <2>3. acked' \in Seq([offset : Nat, msg : Message])
    <3> DEFINE R == [offset : Nat, msg : Message]
               e == [offset |-> call.offset, msg |-> call.msg]
    <3>1. call.kind = "append" => e \in R
      BY DEF CallType
    <3>2. \/ acked' = acked
          \/ call.kind = "append" /\ acked' = Append(acked, e)
      BY <1>6 DEF WriteHeader
    <3>3. acked \in Seq(R)
      BY DEF CallType
    <3> HIDE DEF R, e
    <3>4. acked' \in Seq(R)
      BY <3>1, <3>2, <3>3
    <3> QED
      BY <3>4 DEF R
  <2>4. CallType'
    BY <1>6, <2>3 DEF WriteHeader, CallType
  <2> QED
    BY <2>2, <2>4
<1>7. ASSUME FilesType', Forget PROVE TypeOK'
  <2>1. handle' \in [offset_begin : Nat, offset_head : Nat]
        /\ Current' = 0 /\ Current' \in DOMAIN segs'
    BY <1>7 DEF Forget, FilesType, Current
  <2>2. archive' \in [DOMAIN archive' -> Nat] /\ DOMAIN archive' = {}
    BY <1>7 DEF Forget
  <2>3. MemoryType'
    BY <1>7, <2>1, <2>2 DEF Forget, MemoryType
  <2>4. CallType'
    BY <1>7 DEF Forget, CallType
  <2> QED
    BY <1>7, <2>3, <2>4
<1>8. CASE Crash
  BY <1>7, <1>8 DEF Crash, FilesType
<1>9. CASE PowerLoss
  <2>1. PICK files, heads, bodies \in SUBSET DOMAIN segs :
          segs' = [b \in DOMAIN stable \cup files |->
                     [head |-> IF b \in heads THEN segs[b].head
                               ELSE Durable(b).head,
                      data |-> IF b \in bodies THEN segs[b].data
                               ELSE Durable(b).data]]
    BY <1>9 DEF PowerLoss
  <2>2. \A b \in DOMAIN stable \cup files :
           segs[b] \in SegmentFile /\ Durable(b) \in SegmentFile
    BY DEF FilesType, Durable, File, SegmentFile
  <2>3. /\ DOMAIN segs' = DOMAIN stable \cup files
        /\ segs' \in [DOMAIN segs' -> SegmentFile]
    BY <2>1, <2>2 DEF SegmentFile
  <2>4. FilesType'
    BY <1>9, <2>3 DEF PowerLoss, FilesType
  <2> QED
    BY <1>7, <1>9, <2>4 DEF PowerLoss
<1>10. CASE OpenChannel
  <2>1. PICK last \in DOMAIN segs :
          /\ archive' = [b \in DOMAIN segs \ {last} |-> segs[b].head]
          /\ handle' = [offset_begin |-> last, offset_head |-> segs[last].head]
          /\ pos' = segs[last].head - last
    BY <1>10 DEF OpenChannel, Resume, ReadHeader
  <2>2. \A b \in DOMAIN segs : segs[b].head \in Nat /\ b \in Nat
    BY DEF FilesType, SegmentFile
  <2>3. pos' \in Nat
    BY <2>1, <2>2 DEF HeadersOrdered
  <2>4. MemoryType'
    BY <1>10, <2>1, <2>2, <2>3
       DEF OpenChannel, Resume, ReadHeader, MemoryType, Current
  <2>5. FilesType' /\ CallType'
    BY <1>10 DEF OpenChannel, Resume, ReadHeader, FilesType, CallType
  <2> QED
    BY <2>4, <2>5
<1>11. CASE UNCHANGED vars
  BY <1>11 DEF vars, FilesType, MemoryType, CallType, Current
<1> QED
  BY <1>1, <1>2, <1>3, <1>4, <1>5, <1>6, <1>8, <1>9, <1>10, <1>11 DEF Next

\* What the type invariant says of each offset and each file.
LEMMA TypeFacts ==
    ASSUME TypeOK
    PROVE  /\ Current \in DOMAIN segs
           /\ Current \in Nat /\ handle.offset_head \in Nat /\ pos \in Nat
           /\ handle = [offset_begin |-> Current,
                        offset_head |-> handle.offset_head]
           /\ DOMAIN stable \subseteq DOMAIN segs
           /\ segs = [b \in DOMAIN segs |-> segs[b]]
           /\ \A b \in DOMAIN segs :
                 /\ b \in Nat /\ segs[b].head \in Nat
                 /\ segs[b].data \in Seq(FileByte) /\ Len(segs[b].data) \in Nat
                 /\ segs[b] = [head |-> segs[b].head, data |-> segs[b].data]
           /\ \A b \in DOMAIN stable :
                 /\ b \in Nat /\ stable[b].head \in Nat
                 /\ stable[b].data \in Seq(FileByte)
                 /\ Len(stable[b].data) \in Nat
<1>1. /\ Current \in DOMAIN segs /\ Current \in Nat /\ pos \in Nat
      /\ handle.offset_head \in Nat
      /\ handle = [offset_begin |-> Current, offset_head |-> handle.offset_head]
      /\ DOMAIN stable \subseteq DOMAIN segs
      /\ segs = [b \in DOMAIN segs |-> segs[b]]
  BY DEF TypeOK, FilesType, MemoryType, Current
<1>2. \A b \in DOMAIN segs : b \in Nat /\ segs[b] \in SegmentFile
  BY DEF TypeOK, FilesType
<1>3. \A b \in DOMAIN stable : b \in Nat /\ stable[b] \in SegmentFile
  BY DEF TypeOK, FilesType
<1>4. \A f \in SegmentFile :
        /\ f.head \in Nat /\ f.data \in Seq(FileByte) /\ Len(f.data) \in Nat
        /\ f = [head |-> f.head, data |-> f.data]
  BY DEF SegmentFile
<1> QED
  BY <1>1, <1>2, <1>3, <1>4

-----------------------------------------------------------------------------
(* What holds under every fault                                            *)

\* A new channel has nothing committed and nothing to lose.
LEMMA DiskInit == Init => DiskInv
<1> SUFFICES ASSUME Init PROVE DiskInv
  OBVIOUS
<1>1. /\ DOMAIN segs = {0} /\ segs[0] = [head |-> 0, data |-> << >>]
      /\ stable = segs /\ pc = "idle"
      /\ handle = [offset_begin |-> 0, offset_head |-> 0] /\ pos = 0
  BY DEF Init, File
<1>2. CommittedBytesStable
  BY <1>1 DEF CommittedBytesStable
<1>3. HeadersOrdered
  BY <1>1 DEF HeadersOrdered
<1>4. OpenSegment
  BY <1>1 DEF OpenSegment, IsLast, Current, Rotating
<1>5. SyncedBeforeHeader
  BY <1>1 DEF SyncedBeforeHeader
<1> QED
  BY <1>2, <1>3, <1>4, <1>5, TypeInit DEF DiskInv

\* An action that leaves the files and the descriptor alone keeps DiskInv.
LEMMA DiskUnchanged ==
    ASSUME DiskInv, TypeOK',
           UNCHANGED <<segs, stable, handle, pos>>,
           pc' # "down" => pc # "down",
           Rotating' => Rotating \/ Current < handle.offset_head,
           pc' \in {"rotate_header", "header"} =>
              pc \in {"rotate_header", "header"}
    PROVE  DiskInv'
<1>1. CommittedBytesStable' /\ HeadersOrdered'
  BY DEF DiskInv, CommittedBytesStable, HeadersOrdered
<1>2. OpenSegment'
  BY DEF DiskInv, OpenSegment, IsLast, Current
<1>3. SyncedBeforeHeader'
  BY DEF DiskInv, SyncedBeforeHeader, Current
<1> QED
  BY <1>1, <1>2, <1>3 DEF DiskInv

\* A rotation adds a segment whose header commits no byte (segmentCreate).
LEMMA RotateDisk == DiskInv /\ TypeOK' /\ Rotate => DiskInv'
<1> SUFFICES ASSUME DiskInv, TypeOK', Rotate PROVE DiskInv'
  OBVIOUS
<1> DEFINE head == handle.offset_head
<1>1. CASE UNCHANGED <<segs, archive, handle, pos>> /\ Return
  BY <1>1, DiskUnchanged DEF Rotate, Return, Rotating
<1>2. CASE /\ segs' = With(segs, head, File(head))
           /\ handle' = [offset_begin |-> head, offset_head |-> head]
           /\ pos' = 0 /\ pc' = "write"
  <2>1. /\ head \in Nat /\ Current < head
        /\ \A b \in DOMAIN segs : b \in Nat /\ b < head /\ segs[b].head \in Nat
    BY TypeFacts DEF DiskInv, OpenSegment, Rotate, Rotating, IsLast
  <2>2. /\ DOMAIN segs' = DOMAIN segs \cup {head}
        /\ \A b \in DOMAIN segs : segs'[b] = segs[b]
        /\ segs'[head] = [head |-> head, data |-> << >>]
        /\ stable' = stable /\ DOMAIN stable \subseteq DOMAIN segs
    BY <1>2, <2>1 DEF With, File, Rotate, DiskInv, TypeOK, FilesType
  <2>3. CommittedBytesStable'
    BY <2>1, <2>2 DEF DiskInv, CommittedBytesStable
  <2>4. HeadersOrdered'
    BY <2>1, <2>2 DEF DiskInv, HeadersOrdered
  <2>5. OpenSegment'
    BY <1>2, <2>1, <2>2 DEF OpenSegment, IsLast, Current, Rotating
  <2>6. SyncedBeforeHeader'
    BY <1>2 DEF SyncedBeforeHeader
  <2> QED
    BY <2>3, <2>4, <2>5, <2>6 DEF DiskInv
<1> QED
  BY <1>1, <1>2 DEF Rotate

\* A write at the descriptor changes the open segment behind the descriptor
\* only, which is behind everything committed.
LEMMA WriteBehindCommitted ==
    ASSUME DiskInv, pc # "down", NEW f \in Seq(FileByte),
           segs' = [segs EXCEPT ![Current].data = WriteAt(@, pos, f)]
    PROVE  /\ DOMAIN segs' = DOMAIN segs
           /\ \A b \in DOMAIN segs :
                 /\ segs'[b].head = segs[b].head
                 /\ b # Current => segs'[b] = segs[b]
                 /\ Len(segs'[b].data) \in Nat
                 /\ Len(segs'[b].data) >= Len(segs[b].data)
                 /\ \A i \in 1 .. segs[b].head - b :
                       segs'[b].data[i] = segs[b].data[i]
           /\ Len(segs'[Current].data) >= pos + Len(f)
           /\ \A i \in 1 .. pos :
                 segs'[Current].data[i] = segs[Current].data[i]
           /\ \A i \in 1 .. Len(f) : segs'[Current].data[pos + i] = f[i]
<1> DEFINE d == segs[Current].data
           w == WriteAt(d, pos, f)
<1>1. /\ Current \in DOMAIN segs /\ pos \in Nat /\ Current \in Nat
      /\ d \in Seq(FileByte) /\ segs[Current].head \in Nat
      /\ pos <= Len(d) /\ segs[Current].head - Current <= pos
  BY TypeFacts DEF DiskInv, OpenSegment
<1>2. /\ w \in Seq(FileByte)
      /\ Len(w) >= Len(d)
      /\ Len(w) >= pos + Len(f)
      /\ \A i \in 1 .. pos : w[i] = d[i]
      /\ \A i \in 1 .. Len(f) : w[pos + i] = f[i]
  BY <1>1, WriteAtEffect
<1>3. /\ DOMAIN segs' = DOMAIN segs
      /\ segs'[Current] = [head |-> segs[Current].head, data |-> w]
      /\ \A b \in DOMAIN segs \ {Current} : segs'[b] = segs[b]
  <2>1. segs[Current] = [head |-> segs[Current].head, data |-> d]
    BY TypeFacts DEF DiskInv
  <2> HIDE DEF w
  <2>2. segs' = [segs EXCEPT ![Current].data = w]
    BY DEF w
  <2> QED
    BY <1>1, <2>1, <2>2
<1> HIDE DEF w, d
<1>4. Len(w) \in Nat /\ Len(d) \in Nat /\ Len(f) \in Nat
  BY <1>1, <1>2
<1>5. \A b \in DOMAIN segs \ {Current} :
        Len(segs'[b].data) \in Nat /\ Len(segs'[b].data) >= Len(segs[b].data)
  BY <1>3, TypeFacts DEF DiskInv
<1>6. \A i \in 1 .. segs[Current].head - Current : i \in 1 .. pos
  BY <1>1
<1>7. /\ segs'[Current].head = segs[Current].head
      /\ Len(segs'[Current].data) \in Nat
      /\ Len(segs'[Current].data) >= Len(segs[Current].data)
      /\ \A i \in 1 .. segs[Current].head - Current :
            segs'[Current].data[i] = segs[Current].data[i]
  BY <1>2, <1>3, <1>4, <1>6 DEF d
<1>8. ASSUME NEW b \in DOMAIN segs
      PROVE  /\ segs'[b].head = segs[b].head
             /\ b # Current => segs'[b] = segs[b]
             /\ Len(segs'[b].data) \in Nat
             /\ Len(segs'[b].data) >= Len(segs[b].data)
             /\ \A i \in 1 .. segs[b].head - b :
                   segs'[b].data[i] = segs[b].data[i]
  <2>1. CASE b = Current
    BY <1>7, <2>1
  <2>2. CASE b # Current
    <3>1. segs'[b] = segs[b] /\ b \in DOMAIN segs \ {Current}
      BY <1>3, <2>2
    <3> QED
      BY <1>5, <3>1
  <2> QED
    BY <2>1, <2>2
<1>9. segs'[Current].data = w
  BY <1>3
<1> QED
  BY <1>2, <1>3, <1>8, <1>9 DEF d

\* messageWrite changes no committed byte, because the descriptor stands
\* behind all of them.
LEMMA SegmentAppendDisk == DiskInv /\ TypeOK' /\ SegmentAppend => DiskInv'
<1> SUFFICES ASSUME DiskInv, TypeOK', SegmentAppend PROVE DiskInv'
  OBVIOUS
<1> DEFINE frame == Frame(call.msg)
           Put(f) == segs' = [segs EXCEPT ![Current].data = WriteAt(@, pos, f)]
<1>1. frame \in Seq(FileByte) /\ Len(frame) \in Nat \ {0}
  BY FrameType, SegmentAppendCases DEF DiskInv, TypeOK, CallType
<1>2. /\ IsLast(Current) /\ Current <= handle.offset_head
      /\ segs[Current].head <= handle.offset_head
      /\ handle.offset_head <= Current + pos
      /\ Current \in Nat /\ handle.offset_head \in Nat /\ pos \in Nat
      /\ segs[Current].head \in Nat /\ Current \in DOMAIN segs
  BY TypeFacts, SegmentAppendCases DEF DiskInv, OpenSegment
<1>3. ASSUME NEW f \in Seq(FileByte), Put(f),
             pos' = pos + Len(f),
             pc' \in {"sync", "idle"},
             Current' = Current,
             handle'.offset_head \in {handle.offset_head,
                                      handle.offset_head + Len(f)}
      PROVE  DiskInv'
  <2>1. /\ UNCHANGED stable
        /\ DOMAIN segs' = DOMAIN segs
        /\ \A b \in DOMAIN segs :
              /\ segs'[b].head = segs[b].head
              /\ Len(segs'[b].data) \in Nat
              /\ Len(segs'[b].data) >= Len(segs[b].data)
              /\ \A i \in 1 .. segs[b].head - b :
                    segs'[b].data[i] = segs[b].data[i]
        /\ Len(segs'[Current].data) >= pos + Len(f)
    BY <1>3, WriteBehindCommitted, SegmentAppendCases
  <2> HIDE DEF Put
  <2>2. CommittedBytesStable'
    <3> SUFFICES ASSUME NEW b \in DOMAIN segs,
                        NEW i \in 1 .. segs[b].head - b
                 PROVE  /\ b \in DOMAIN stable
                        /\ i <= Len(segs'[b].data)
                        /\ i <= Len(stable[b].data)
                        /\ segs'[b].data[i] = stable[b].data[i]
      BY <2>1 DEF CommittedBytesStable
    <3>1. /\ b \in DOMAIN stable /\ i <= Len(segs[b].data)
          /\ i <= Len(stable[b].data) /\ segs[b].data[i] = stable[b].data[i]
      BY DEF DiskInv, CommittedBytesStable
    <3>2. i \in Nat /\ Len(segs[b].data) \in Nat
      BY TypeFacts DEF DiskInv
    <3> QED
      BY <2>1, <3>1, <3>2
  <2>3. HeadersOrdered'
    BY <2>1, TypeFacts DEF DiskInv, HeadersOrdered
  <2>4. OpenSegment'
    <3>1. /\ IsLast(Current)' /\ ~Rotating'
      BY <1>2, <1>3, <2>1 DEF IsLast, Rotating
    <3>2. segs'[Current].head = segs[Current].head
      BY <1>2, <2>1
    <3>3. Len(f) \in Nat
      BY <1>3
    <3>4. /\ Current <= handle'.offset_head
          /\ segs'[Current].head <= handle'.offset_head
          /\ handle'.offset_head <= Current + pos'
      BY <1>2, <1>3, <3>2, <3>3
    <3> QED
      BY <1>3, <2>1, <3>1, <3>4 DEF OpenSegment
  <2>5. SyncedBeforeHeader'
    BY <1>3 DEF SyncedBeforeHeader
  <2> QED
    BY <2>2, <2>3, <2>4, <2>5 DEF DiskInv
<1>4. CASE /\ Put(frame)
           /\ pos' = pos + Len(frame)
           /\ handle' = [handle EXCEPT !.offset_head = @ + Len(frame)]
           /\ pc' = "sync"
  <2> HIDE DEF Put, frame
  <2>1. /\ Current' = Current
        /\ handle'.offset_head = handle.offset_head + Len(frame)
    BY <1>4, TypeFacts DEF DiskInv, Current
  <2> QED
    BY <1>1, <1>3, <1>4, <2>1
<1>5. CASE Return /\ UNCHANGED <<segs, pos, handle, needs_commit>>
  BY <1>5, DiskUnchanged, SegmentAppendCases DEF Return, Rotating
<1>6. CASE /\ \E k \in 1 .. Len(frame) - 1 :
                 LET f == SubSeq(frame, 1, k)
                 IN  Put(f) /\ pos' = pos + Len(f)
           /\ Return /\ UNCHANGED <<handle, needs_commit>>
  <2>1. PICK k \in 1 .. Len(frame) - 1 :
           Put(SubSeq(frame, 1, k)) /\ pos' = pos + Len(SubSeq(frame, 1, k))
    BY <1>6
  <2> DEFINE f == SubSeq(frame, 1, k)
  <2>2. f \in Seq(FileByte)
    BY <1>1
  <2> HIDE DEF f
  <2>3. Put(f) /\ pos' = pos + Len(f)
    BY <2>1, <2>2 DEF f
  <2> HIDE DEF Put
  <2> QED
    BY <1>3, <1>6, <2>2, <2>3 DEF Return, Current
<1> QED
  BY <1>4, <1>5, <1>6, SegmentAppendCases

\* fdatasync makes the open segment stable (segmentCommit, first half).
LEMMA SyncDataDisk == DiskInv /\ TypeOK' /\ SyncData => DiskInv'
<1> SUFFICES ASSUME DiskInv, TypeOK', SyncData PROVE DiskInv'
  OBVIOUS
<1>1. UNCHANGED <<segs, handle, pos>> /\ pc # "down"
  BY DEF SyncData, memory
<1>2. CASE Return /\ UNCHANGED stable
  BY <1>1, <1>2, DiskUnchanged DEF Return, Rotating
<1>3. CASE /\ stable' = With(stable, Current, segs[Current])
           /\ pc' = IF pc = "sync" THEN "header" ELSE "rotate_header"
  <2>1. /\ DOMAIN stable' = DOMAIN stable \cup {Current}
        /\ stable'[Current] = segs[Current]
        /\ \A b \in DOMAIN stable \ {Current} : stable'[b] = stable[b]
    BY <1>3 DEF With
  <2>2. CommittedBytesStable'
    <3> SUFFICES ASSUME NEW b \in DOMAIN segs,
                        NEW i \in 1 .. segs[b].head - b
                 PROVE  /\ b \in DOMAIN stable'
                        /\ i <= Len(segs[b].data)
                        /\ i <= Len(stable'[b].data)
                        /\ segs[b].data[i] = stable'[b].data[i]
      BY <1>1 DEF CommittedBytesStable
    <3>1. /\ b \in DOMAIN stable /\ i <= Len(segs[b].data)
          /\ i <= Len(stable[b].data) /\ segs[b].data[i] = stable[b].data[i]
      BY DEF DiskInv, CommittedBytesStable
    <3> QED
      BY <2>1, <3>1
  <2>3. HeadersOrdered'
    <3>1. Current \in DOMAIN segs
      BY TypeFacts DEF DiskInv
    <3>2. \A b \in DOMAIN stable' :
             b <= stable'[b].head /\ stable'[b].head <= segs[b].head
      BY <2>1, <3>1, TypeFacts DEF DiskInv, HeadersOrdered
    <3> QED
      BY <1>1, <3>2 DEF DiskInv, HeadersOrdered
  <2>4. OpenSegment'
    BY <1>1, <1>3 DEF DiskInv, OpenSegment, IsLast, Current, Rotating, SyncData
  <2>5. SyncedBeforeHeader'
    BY <1>1, <2>1 DEF SyncedBeforeHeader, Current
  <2> QED
    BY <2>2, <2>3, <2>4, <2>5 DEF DiskInv
<1> QED
  BY <1>2, <1>3 DEF SyncData

\* The header moves up to offset_head, all of whose bytes were just synced
\* (segmentCommit, second half).
LEMMA WriteHeaderDisk == DiskInv /\ TypeOK' /\ WriteHeader => DiskInv'
<1> SUFFICES ASSUME DiskInv, TypeOK', WriteHeader PROVE DiskInv'
  OBVIOUS
<1>1. UNCHANGED <<stable, handle, pos>> /\ pc # "down" /\ Current' = Current
  BY DEF WriteHeader, Current
<1>2. CASE Return /\ UNCHANGED segs
  BY <1>1, <1>2, DiskUnchanged DEF Return, Rotating
<1>3. CASE /\ segs' = [segs EXCEPT ![Current].head = handle.offset_head]
           /\ pc' \in {"rotate", "idle"}
           /\ pc' = "rotate" => pc = "rotate_header"
  <2> DEFINE head == handle.offset_head
  <2>1. /\ Current \in DOMAIN stable /\ stable[Current] = segs[Current]
        /\ segs[Current].head <= head /\ Current <= head
        /\ head <= Current + pos /\ pos <= Len(segs[Current].data)
        /\ head \in Nat /\ Current \in Nat /\ pos \in Nat
        /\ segs[Current].head \in Nat /\ Len(segs[Current].data) \in Nat
        /\ Current \in DOMAIN segs
    BY TypeFacts DEF DiskInv, SyncedBeforeHeader, OpenSegment, WriteHeader
  <2>2. /\ DOMAIN segs' = DOMAIN segs
        /\ segs'[Current].head = head
        /\ segs'[Current].data = segs[Current].data
        /\ \A b \in DOMAIN segs \ {Current} : segs'[b] = segs[b]
    <3>1. segs[Current] = [head |-> segs[Current].head,
                           data |-> segs[Current].data]
      BY TypeFacts DEF DiskInv
    <3> QED
      BY <1>3, <2>1, <3>1
  <2> HIDE DEF head
  <2>3. CommittedBytesStable'
    <3> SUFFICES ASSUME NEW b \in DOMAIN segs,
                        NEW i \in 1 .. segs'[b].head - b
                 PROVE  /\ b \in DOMAIN stable
                        /\ i <= Len(segs'[b].data)
                        /\ i <= Len(stable[b].data)
                        /\ segs'[b].data[i] = stable[b].data[i]
      BY <1>1, <2>2 DEF CommittedBytesStable
    <3>1. CASE b = Current
      BY <2>1, <2>2, <3>1
    <3>2. CASE b # Current
      BY <2>2, <3>2 DEF DiskInv, CommittedBytesStable
    <3> QED
      BY <3>1, <3>2
  <2>4. HeadersOrdered'
    BY <1>1, <2>1, <2>2, TypeFacts DEF DiskInv, HeadersOrdered
  <2>5. OpenSegment'
    BY <1>1, <1>3, <2>1, <2>2
       DEF DiskInv, OpenSegment, IsLast, Rotating, head
  <2>6. SyncedBeforeHeader'
    BY <1>3 DEF SyncedBeforeHeader
  <2> QED
    BY <2>3, <2>4, <2>5, <2>6 DEF DiskInv
<1> QED
  BY <1>2, <1>3 DEF WriteHeader, Return

\* The files survive a crash of the process as they are.
LEMMA CrashDisk == DiskInv /\ TypeOK' /\ Crash => DiskInv'
<1> SUFFICES ASSUME DiskInv, TypeOK', Crash PROVE DiskInv'
  OBVIOUS
<1>1. UNCHANGED <<segs, stable>> /\ pc' = "down"
  BY DEF Crash, Forget
<1>2. CommittedBytesStable' /\ HeadersOrdered'
  BY <1>1 DEF DiskInv, CommittedBytesStable, HeadersOrdered
<1> QED
  BY <1>1, <1>2 DEF DiskInv, OpenSegment, SyncedBeforeHeader

\* After a power loss each header and each body is the visible or the stable
\* one; the bytes below either header are the same in both.
LEMMA PowerLossDisk == DiskInv /\ TypeOK' /\ PowerLoss => DiskInv'
<1> SUFFICES ASSUME DiskInv, TypeOK', PowerLoss PROVE DiskInv'
  OBVIOUS
<1>1. PICK files, heads, bodies \in SUBSET DOMAIN segs :
        segs' = [b \in DOMAIN stable \cup files |->
                   [head |-> IF b \in heads THEN segs[b].head
                             ELSE Durable(b).head,
                    data |-> IF b \in bodies THEN segs[b].data
                             ELSE Durable(b).data]]
  BY DEF PowerLoss
<1>2. stable' = segs' /\ pc' = "down"
  BY DEF PowerLoss, Forget
<1>3. /\ DOMAIN segs' \subseteq DOMAIN segs
      /\ \A b \in DOMAIN segs' :
            /\ segs'[b].head \in {segs[b].head, Durable(b).head}
            /\ segs'[b].data \in {segs[b].data, Durable(b).data}
  BY <1>1, TypeFacts DEF DiskInv
<1>4. \A b \in DOMAIN segs :
        /\ b \in Nat /\ segs[b].head \in Nat /\ Durable(b).head \in Nat
        /\ b <= Durable(b).head /\ Durable(b).head <= segs[b].head
  BY TypeFacts DEF DiskInv, HeadersOrdered, Durable, File
<1>5. HeadersOrdered'
  BY <1>2, <1>3, <1>4 DEF HeadersOrdered
<1>6. CommittedBytesStable'
  <2> SUFFICES ASSUME NEW b \in DOMAIN segs',
                      NEW i \in 1 .. segs'[b].head - b
               PROVE  i <= Len(segs'[b].data)
    BY <1>2 DEF CommittedBytesStable
  <2>1. b \in DOMAIN segs /\ i \in 1 .. segs[b].head - b
    BY <1>3, <1>4
  <2>2. /\ b \in DOMAIN stable
        /\ i <= Len(segs[b].data) /\ i <= Len(stable[b].data)
    BY <2>1 DEF DiskInv, CommittedBytesStable
  <2> QED
    BY <1>3, <2>2 DEF Durable
<1> QED
  BY <1>2, <1>5, <1>6 DEF DiskInv, OpenSegment, SyncedBeforeHeader

\* openChannel puts the descriptor behind the committed bytes of the last
\* segment.
LEMMA OpenChannelDisk == DiskInv /\ TypeOK' /\ OpenChannel => DiskInv'
<1> SUFFICES ASSUME DiskInv, TypeOK', OpenChannel PROVE DiskInv'
  OBVIOUS
<1>1. PICK last \in DOMAIN segs :
        /\ \A b \in DOMAIN segs : b <= last
        /\ handle' = [offset_begin |-> last, offset_head |-> segs[last].head]
        /\ pos' = segs[last].head - last
  BY DEF OpenChannel, Resume, ReadHeader
<1>2. UNCHANGED <<segs, stable>> /\ pc' = "idle" /\ Current' = last
  BY <1>1 DEF OpenChannel, Resume, ReadHeader, Current
<1>3. CommittedBytesStable' /\ HeadersOrdered'
  BY <1>2 DEF DiskInv, CommittedBytesStable, HeadersOrdered
<1>4. last \in Nat /\ segs[last].head \in Nat /\ last <= segs[last].head
  BY TypeFacts DEF DiskInv, HeadersOrdered
<1>5. pos' <= Len(segs[last].data)
  <2>1. CASE segs[last].head = last
    BY <1>1, <1>4, <2>1, TypeFacts DEF DiskInv
  <2>2. CASE segs[last].head # last
    <3>1. segs[last].head - last \in 1 .. segs[last].head - last
      BY <1>4, <2>2
    <3> QED
      BY <1>1, <3>1 DEF DiskInv, CommittedBytesStable
  <2> QED
    BY <2>1, <2>2
<1>6. OpenSegment'
  BY <1>1, <1>2, <1>4, <1>5 DEF OpenSegment, IsLast, Rotating
<1> QED
  BY <1>2, <1>3, <1>6 DEF DiskInv, SyncedBeforeHeader

\* DiskInv is inductive under every fault.
LEMMA DiskStep == DiskInv /\ [Next]_vars => DiskInv'
<1> SUFFICES ASSUME DiskInv, [Next]_vars PROVE DiskInv'
  OBVIOUS
<1>1. TypeOK'
  BY TypeStep DEF DiskInv
<1>2. ASSUME NEW m \in Message, AppendMessage(m) PROVE DiskInv'
  <2>1. Rotating' => Current < handle.offset_head
    BY <1>2, ChannelAssumption, TypeFacts
       DEF DiskInv, AppendMessage, Rotating, Current
  <2> QED
    BY <1>1, <1>2, <2>1, DiskUnchanged DEF AppendMessage, memory
<1>3. CASE Commit
  BY <1>1, <1>3, DiskUnchanged DEF Commit, memory, Rotating
<1>4. CASE UNCHANGED vars
  BY <1>1, <1>4, DiskUnchanged DEF vars, Rotating
<1> QED
  BY <1>1, <1>2, <1>3, <1>4, RotateDisk, SegmentAppendDisk, SyncDataDisk,
     WriteHeaderDisk, CrashDisk, PowerLossDisk, OpenChannelDisk DEF Next

\* DiskInv holds in every reachable state.
LEMMA DiskInvariant == Spec => []DiskInv
<1>1. DiskInv /\ [Next]_vars => DiskInv'
  BY DiskStep
<1> QED
  BY DiskInit, <1>1, PTL DEF Spec

\* Every variable keeps its type, whatever faults occur.
THEOREM TypeCorrect == Spec => []TypeOK
<1>1. DiskInv => TypeOK
  BY DEF DiskInv
<1> QED
  BY <1>1, DiskInvariant, PTL

\* Whatever calls fail, whatever is written only in part, and even when power
\* is lost, a header never covers a byte that is not on stable storage: the
\* order of fdatasync and pwrite in segmentCommit is right.
THEOREM CommitOrder == Spec => []CommittedBytesStable
<1>1. DiskInv => CommittedBytesStable
  BY DEF DiskInv
<1> QED
  BY <1>1, DiskInvariant, PTL

-----------------------------------------------------------------------------
(* What holds as long as power is not lost                                 *)

NoPowerLoss == "power_loss" \notin Faults

\* The end of a message lies behind its offset.
LEMMA EndType ==
    ASSUME TypeOK, NEW i \in 1 .. Len(acked)
    PROVE  End(acked[i]) \in Nat /\ acked[i].offset \in Nat
<1> DEFINE R == [offset : Nat, msg : Message]
<1>1. acked[i] \in R
  <2>1. acked \in Seq(R)
    BY DEF TypeOK, CallType
  <2> HIDE DEF R
  <2> QED
    BY <2>1
<1>2. acked[i].offset \in Nat /\ acked[i].msg \in Message
  BY <1>1
<1>3. Len(Frame(acked[i].msg)) \in Nat
  BY <1>2, FrameType
<1> QED
  BY <1>2, <1>3 DEF End

\* A new channel has one segment and no history.
LEMMA LayoutInit == Init => LayoutInv
<1> SUFFICES ASSUME Init PROVE LayoutInv
  OBVIOUS
<1>1. /\ DOMAIN segs = {0} /\ segs[0].head = 0 /\ pc = "idle"
      /\ handle = [offset_begin |-> 0, offset_head |-> 0]
      /\ archive = << >> /\ acked = << >>
  BY DEF Init, File
<1>2. CommitNotForgotten /\ Contiguous /\ ReplyBehindCommitted
  BY <1>1 DEF CommitNotForgotten, Contiguous, IsLast, ReplyBehindCommitted,
     Current
<1>3. archive = [b \in DOMAIN segs \ {0} |-> segs[b].head]
  BY <1>1
<1>4. MemoryMatchesDisk
  BY <1>1, <1>3 DEF MemoryMatchesDisk, IsLast, Current
<1>5. AckedCommitted /\ AckedInOrder
  BY <1>1 DEF AckedCommitted, AckedInOrder
<1> QED
  BY <1>2, <1>4, <1>5, DiskInit DEF LayoutInv

\* A step that moves no header, creates no segment and acknowledges nothing.
LEMMA LayoutSameHeads ==
    ASSUME LayoutInv,
           DOMAIN segs' = DOMAIN segs,
           \A b \in DOMAIN segs : segs'[b].head = segs[b].head,
           acked' = acked
    PROVE  Contiguous' /\ AckedCommitted' /\ AckedInOrder'
<1>1. \A b \in DOMAIN segs : IsLast(b)' <=> IsLast(b)
  BY DEF IsLast
<1>2. Contiguous'
  BY <1>1 DEF LayoutInv, Contiguous
<1>3. AckedCommitted' /\ AckedInOrder'
  BY <1>1 DEF LayoutInv, AckedCommitted, AckedInOrder
<1> QED
  BY <1>2, <1>3

\* A step that in addition leaves memory alone.
LEMMA LayoutSameMemory ==
    ASSUME LayoutInv, DiskInv',
           DOMAIN segs' = DOMAIN segs,
           \A b \in DOMAIN segs : segs'[b].head = segs[b].head,
           UNCHANGED <<acked, archive, handle, needs_commit>>,
           pc # "down",
           pc' = "rotate" => segs[Current].head = handle.offset_head,
           \/ pc' \in {"sync", "header"} /\ pc \in {"sync", "header"}
              /\ UNCHANGED call
           \/ pc' \notin {"sync", "header"}
           \/ call'.kind # "append"
    PROVE  LayoutInv'
<1>1. Contiguous' /\ AckedCommitted' /\ AckedInOrder'
  BY LayoutSameHeads
<1>2. Current' = Current /\ Current \in DOMAIN segs
  BY TypeFacts DEF LayoutInv, DiskInv, Current
<1>3. CommitNotForgotten'
  BY <1>2 DEF LayoutInv, CommitNotForgotten
<1>4. MemoryMatchesDisk'
  <2>1. archive = [b \in DOMAIN segs \ {Current} |-> segs[b].head]
    BY DEF LayoutInv, MemoryMatchesDisk
  <2>2. archive' = [b \in DOMAIN segs' \ {Current'} |-> segs'[b].head]
    BY <1>2, <2>1
  <2> QED
    BY <1>2, <2>2 DEF LayoutInv, MemoryMatchesDisk, IsLast
<1>5. ReplyBehindCommitted'
  BY <1>2 DEF LayoutInv, ReplyBehindCommitted
<1> QED
  BY <1>1, <1>3, <1>4, <1>5 DEF LayoutInv

\* A rotation begins the new segment where the header of the old one says
\* that it ends, because commitWithLock has just brought it up to date.
LEMMA RotateLayout == LayoutInv /\ DiskInv' /\ Rotate => LayoutInv'
<1> SUFFICES ASSUME LayoutInv, DiskInv', Rotate PROVE LayoutInv'
  OBVIOUS
<1> DEFINE head == handle.offset_head
<1>1. CASE UNCHANGED <<segs, archive, handle, pos>> /\ Return
  BY <1>1, LayoutSameMemory DEF Rotate, Return, NoCall
<1>2. CASE /\ segs' = With(segs, head, File(head))
           /\ archive' = With(archive, Current, head)
           /\ handle' = [offset_begin |-> head, offset_head |-> head]
           /\ pos' = 0 /\ pc' = "write"
  <2>1. /\ head \in Nat /\ Current < head /\ Current \in DOMAIN segs
        /\ segs[Current].head = head
        /\ \A b \in DOMAIN segs :
              b \in Nat /\ b <= Current /\ segs[b].head \in Nat
    BY TypeFacts DEF LayoutInv, DiskInv, OpenSegment, Rotate, Rotating, IsLast,
       CommitNotForgotten
  <2>2. /\ DOMAIN segs' = DOMAIN segs \cup {head}
        /\ \A b \in DOMAIN segs : segs'[b] = segs[b]
        /\ segs'[head].head = head
        /\ Current' = head /\ handle'.offset_head = head
    BY <1>2, <2>1 DEF With, File, Current
  <2>3. IsLast(head)' /\ \A b \in DOMAIN segs' : IsLast(b)' => b = head
    BY <2>1, <2>2 DEF IsLast
  <2>4. Contiguous'
    <3> SUFFICES ASSUME NEW b \in DOMAIN segs
                 PROVE  /\ segs[b].head \in DOMAIN segs'
                        /\ b < segs[b].head
                        /\ \A c \in DOMAIN segs' : c > b => c >= segs[b].head
      BY <2>2, <2>3 DEF Contiguous
    <3>1. CASE b = Current
      BY <2>1, <2>2, <3>1
    <3>2. CASE b # Current
      <4>1. ~IsLast(b)
        BY <2>1, <3>2 DEF IsLast
      <4>2. /\ segs[b].head \in DOMAIN segs
            /\ b < segs[b].head
            /\ \A c \in DOMAIN segs : c > b => c >= segs[b].head
        BY <4>1 DEF LayoutInv, Contiguous
      <4> QED
        BY <2>1, <2>2, <4>2
    <3> QED
      BY <3>1, <3>2
  <2>5. MemoryMatchesDisk'
    <3>1. archive = [b \in DOMAIN segs \ {Current} |-> segs[b].head]
      BY DEF LayoutInv, MemoryMatchesDisk, Rotate
    <3>2. DOMAIN archive' = DOMAIN segs
      BY <1>2, <2>1, <3>1 DEF With
    <3>3. \A b \in DOMAIN segs : archive'[b] = segs[b].head
      BY <1>2, <2>1, <3>1, <3>2 DEF With
    <3>4. archive' = [b \in DOMAIN archive' |-> archive'[b]]
      BY <1>2 DEF With
    <3>5. DOMAIN segs' \ {Current'} = DOMAIN segs
      BY <2>1, <2>2
    <3>6. archive' = [b \in DOMAIN segs' \ {Current'} |-> segs'[b].head]
      BY <2>2, <3>2, <3>3, <3>4, <3>5
    <3> QED
      BY <2>1, <2>2, <2>3, <3>6 DEF MemoryMatchesDisk
  <2>6. CommitNotForgotten' /\ ReplyBehindCommitted'
    BY <1>2, <2>2 DEF CommitNotForgotten, ReplyBehindCommitted
  <2>7. AckedCommitted' /\ AckedInOrder'
    <3>1. \A i \in 1 .. Len(acked) : End(acked[i]) <= head
      BY <2>1 DEF LayoutInv, AckedCommitted, IsLast
    <3> QED
      BY <2>2, <2>3, <3>1
         DEF LayoutInv, AckedCommitted, AckedInOrder, Rotate
  <2> QED
    BY <2>4, <2>5, <2>6, <2>7 DEF LayoutInv
<1> QED
  BY <1>1, <1>2 DEF Rotate

\* An append is given an offset behind everything committed.
LEMMA SegmentAppendLayout ==
    LayoutInv /\ DiskInv' /\ SegmentAppend => LayoutInv'
<1> SUFFICES ASSUME LayoutInv, DiskInv', SegmentAppend PROVE LayoutInv'
  OBVIOUS
<1> DEFINE frame == Frame(call.msg)
           Put(f) == segs' = [segs EXCEPT ![Current].data = WriteAt(@, pos, f)]
<1>1. frame \in Seq(FileByte) /\ Len(frame) \in Nat \ {0}
  BY FrameType, SegmentAppendCases DEF LayoutInv, DiskInv, TypeOK, CallType
<1>2. ASSUME NEW f \in Seq(FileByte), Put(f)
      PROVE  /\ DOMAIN segs' = DOMAIN segs
             /\ \A b \in DOMAIN segs : segs'[b].head = segs[b].head
  BY <1>2, WriteBehindCommitted, SegmentAppendCases DEF LayoutInv
<1>3. CASE /\ Put(frame)
           /\ handle' = [handle EXCEPT !.offset_head = @ + Len(frame)]
           /\ call' = [call EXCEPT !.offset = handle.offset_head]
           /\ needs_commit' = TRUE
           /\ pc' = "sync"
  <2>1. /\ DOMAIN segs' = DOMAIN segs
        /\ \A b \in DOMAIN segs : segs'[b].head = segs[b].head
    BY <1>1, <1>2, <1>3
  <2> HIDE DEF Put
  <2>2. Contiguous' /\ AckedCommitted' /\ AckedInOrder'
    BY <2>1, LayoutSameHeads, SegmentAppendCases
  <2>3. /\ Current' = Current /\ Current \in DOMAIN segs
        /\ handle'.offset_head = handle.offset_head + Len(frame)
        /\ segs[Current].head <= handle.offset_head
        /\ handle.offset_head \in Nat /\ segs[Current].head \in Nat
    BY <1>3, TypeFacts, SegmentAppendCases
       DEF LayoutInv, DiskInv, Current, OpenSegment
  <2>4. call'.offset = handle.offset_head /\ call'.msg = call.msg
    BY <1>3 DEF LayoutInv, DiskInv, TypeOK, CallType
  <2>5. ReplyBehindCommitted'
    BY <2>1, <2>3, <2>4 DEF ReplyBehindCommitted
  <2>6. CommitNotForgotten'
    BY <1>3 DEF CommitNotForgotten
  <2>7. MemoryMatchesDisk'
    <3>1. archive = [b \in DOMAIN segs \ {Current} |-> segs[b].head]
      BY SegmentAppendCases DEF LayoutInv, MemoryMatchesDisk
    <3>2. archive' = [b \in DOMAIN segs' \ {Current'} |-> segs'[b].head]
      BY <2>1, <2>3, <3>1, SegmentAppendCases
    <3>3. IsLast(Current)'
      BY <2>1, <2>3, SegmentAppendCases DEF LayoutInv, MemoryMatchesDisk, IsLast
    <3>4. segs'[Current].head <= handle'.offset_head
      BY <1>1, <2>1, <2>3
    <3> QED
      BY <2>3, <3>2, <3>3, <3>4 DEF MemoryMatchesDisk
  <2> QED
    BY <2>2, <2>5, <2>6, <2>7 DEF LayoutInv
<1>4. CASE /\ Return /\ UNCHANGED <<handle, needs_commit>>
           /\ DOMAIN segs' = DOMAIN segs
           /\ \A b \in DOMAIN segs : segs'[b].head = segs[b].head
  BY <1>4, LayoutSameMemory, SegmentAppendCases DEF Return
<1>5. CASE UNCHANGED segs
  BY <1>1, <1>3, <1>4, <1>5, SegmentAppendCases
<1>6. ASSUME NEW k \in 1 .. Len(frame) - 1, Put(SubSeq(frame, 1, k)),
             Return, UNCHANGED <<handle, needs_commit>>
      PROVE  LayoutInv'
  <2>1. SubSeq(frame, 1, k) \in Seq(FileByte)
    BY <1>1
  <2>2. /\ DOMAIN segs' = DOMAIN segs
        /\ \A b \in DOMAIN segs : segs'[b].head = segs[b].head
    BY <1>2, <1>6, <2>1
  <2> QED
    BY <1>4, <1>6, <2>2
<1> QED
  BY <1>3, <1>5, <1>6, SegmentAppendCases

\* The header write commits the message and acknowledges it.
LEMMA WriteHeaderLayout == LayoutInv /\ DiskInv' /\ WriteHeader => LayoutInv'
<1> SUFFICES ASSUME LayoutInv, DiskInv', WriteHeader PROVE LayoutInv'
  OBVIOUS
<1> DEFINE head == handle.offset_head
           e == [offset |-> call.offset, msg |-> call.msg]
<1>1. CASE Return /\ UNCHANGED <<segs, needs_commit, acked>>
  BY <1>1, LayoutSameMemory DEF WriteHeader, Return
<1>2. CASE /\ segs' = [segs EXCEPT ![Current].head = head]
           /\ pc' \in {"rotate", "idle"}
           /\ \/ acked' = acked
              \/ /\ acked' = Append(acked, e)
                 /\ call.kind = "append" /\ pc = "header"
  <2>1. /\ Current \in DOMAIN segs /\ head \in Nat
        /\ segs[Current].head <= head /\ segs[Current].head \in Nat
        /\ IsLast(Current)
        /\ \A b \in DOMAIN segs : b \in Nat
    BY TypeFacts DEF LayoutInv, DiskInv, OpenSegment, WriteHeader
  <2>2. /\ DOMAIN segs' = DOMAIN segs
        /\ segs'[Current].head = head
        /\ \A b \in DOMAIN segs \ {Current} : segs'[b] = segs[b]
        /\ Current' = Current /\ handle' = handle /\ archive' = archive
    <3>1. segs[Current] = [head |-> segs[Current].head,
                           data |-> segs[Current].data]
      BY TypeFacts DEF LayoutInv, DiskInv
    <3> QED
      BY <1>2, <2>1, <3>1 DEF WriteHeader, Current
  <2> HIDE DEF head
  <2>3. \A b \in DOMAIN segs : /\ IsLast(b)' <=> IsLast(b)
                               /\ IsLast(b) <=> b = Current
    BY <2>1, <2>2 DEF IsLast
  <2>4. Contiguous'
    BY <2>2, <2>3 DEF LayoutInv, Contiguous
  <2>5. CommitNotForgotten' /\ ReplyBehindCommitted'
    BY <1>2, <2>2 DEF CommitNotForgotten, ReplyBehindCommitted, head
  <2>6. MemoryMatchesDisk'
    <3>1. archive = [b \in DOMAIN segs \ {Current} |-> segs[b].head]
      BY DEF LayoutInv, MemoryMatchesDisk, WriteHeader
    <3>2. archive' = [b \in DOMAIN segs' \ {Current'} |-> segs'[b].head]
      BY <2>2, <3>1
    <3> QED
      BY <2>1, <2>2, <2>3, <3>2 DEF MemoryMatchesDisk, head
  <2>7. \A i \in 1 .. Len(acked) : /\ End(acked[i]) <= segs[Current].head
                                   /\ End(acked[i]) \in Nat
    BY <2>1, EndType DEF LayoutInv, DiskInv, AckedCommitted
  <2>8. AckedCommitted' /\ AckedInOrder'
    <3>1. CASE acked' = acked
      BY <2>1, <2>2, <2>3, <2>7, <3>1
         DEF LayoutInv, AckedCommitted, AckedInOrder
    <3>2. CASE /\ acked' = Append(acked, e)
               /\ call.kind = "append" /\ pc = "header"
      <4>1. segs[Current].head <= e.offset /\ End(e) = head /\ e.offset \in Nat
        BY <3>2 DEF LayoutInv, ReplyBehindCommitted, End, head, DiskInv, TypeOK,
           CallType
      <4>2. Len(acked) \in Nat /\ acked \in Seq([offset : Nat, msg : Message])
        BY DEF LayoutInv, DiskInv, TypeOK, CallType
      <4> HIDE DEF e
      <4>3. /\ Len(acked') = Len(acked) + 1
            /\ acked'[Len(acked) + 1] = e
            /\ \A i \in 1 .. Len(acked) : acked'[i] = acked[i]
        BY <3>2, <4>2
      <4>4. \A i \in 1 .. Len(acked') :
               i = Len(acked) + 1 \/ i \in 1 .. Len(acked)
        BY <4>2, <4>3
      <4>5. \A i \in 1 .. Len(acked') : End(acked'[i]) <= head
        BY <2>1, <2>7, <4>1, <4>3, <4>4
      <4>6. \A i \in 1 .. Len(acked) : End(acked[i]) <= e.offset
        BY <2>1, <2>7, <4>1
      <4>7. \A i, j \in 1 .. Len(acked') :
               i < j => End(acked'[i]) <= acked'[j].offset
        BY <4>2, <4>3, <4>4, <4>6 DEF LayoutInv, AckedInOrder
      <4>8. AckedCommitted'
        BY <2>2, <2>3, <4>5 DEF AckedCommitted, End
      <4> QED
        BY <4>7, <4>8 DEF AckedInOrder, End
    <3> QED
      BY <1>2, <3>1, <3>2
  <2> QED
    BY <2>4, <2>5, <2>6, <2>8 DEF LayoutInv
<1> QED
  BY <1>1, <1>2 DEF WriteHeader, Return

\* Without memory only the files matter, and they are unchanged.
LEMMA CrashLayout == LayoutInv /\ DiskInv' /\ Crash => LayoutInv'
<1> SUFFICES ASSUME LayoutInv, DiskInv', Crash PROVE LayoutInv'
  OBVIOUS
<1>1. UNCHANGED <<segs, acked>> /\ pc' = "down"
  BY DEF Crash, Forget
<1>2. Contiguous' /\ AckedCommitted' /\ AckedInOrder'
  BY <1>1, LayoutSameHeads
<1> QED
  BY <1>1, <1>2
     DEF LayoutInv, CommitNotForgotten, MemoryMatchesDisk, ReplyBehindCommitted

\* openChannel rebuilds from the headers the list of segments that the
\* process before it had.
LEMMA OpenChannelLayout == LayoutInv /\ DiskInv' /\ OpenChannel => LayoutInv'
<1> SUFFICES ASSUME LayoutInv, DiskInv', OpenChannel PROVE LayoutInv'
  OBVIOUS
<1>1. PICK last \in DOMAIN segs :
        /\ \A b \in DOMAIN segs : b <= last
        /\ archive' = [b \in DOMAIN segs \ {last} |-> segs[b].head]
        /\ handle' = [offset_begin |-> last, offset_head |-> segs[last].head]
  BY DEF OpenChannel, Resume, ReadHeader
<1>2. UNCHANGED <<segs, acked>> /\ pc' = "idle" /\ Current' = last
  BY <1>1 DEF OpenChannel, Resume, ReadHeader, Current
<1>3. Contiguous' /\ AckedCommitted' /\ AckedInOrder'
  BY <1>2, LayoutSameHeads
<1>4. CommitNotForgotten' /\ ReplyBehindCommitted'
  BY <1>1, <1>2 DEF CommitNotForgotten, ReplyBehindCommitted
<1>5. segs[last].head \in Nat
  BY TypeFacts DEF LayoutInv, DiskInv
<1>6. MemoryMatchesDisk'
  BY <1>1, <1>2, <1>5 DEF MemoryMatchesDisk, IsLast
<1> QED
  BY <1>3, <1>4, <1>6 DEF LayoutInv

\* LayoutInv is inductive as long as the machine keeps its power.
LEMMA LayoutStep ==
    ASSUME NoPowerLoss
    PROVE  LayoutInv /\ [Next]_vars => LayoutInv'
<1> SUFFICES ASSUME LayoutInv, [Next]_vars PROVE LayoutInv'
  OBVIOUS
<1>1. DiskInv'
  BY DiskStep DEF LayoutInv
<1>2. ASSUME NEW m \in Message, AppendMessage(m) PROVE LayoutInv'
  BY <1>1, <1>2, LayoutSameMemory
     DEF AppendMessage, memory, LayoutInv, CommitNotForgotten
<1>3. CASE Commit
  BY <1>1, <1>3, LayoutSameMemory DEF Commit, memory
<1>4. CASE SyncData
  BY <1>1, <1>4, LayoutSameMemory DEF SyncData, memory, Return
<1>5. CASE UNCHANGED vars
  <2>1. UNCHANGED Current
    BY <1>5 DEF vars, Current
  <2> QED
    BY <1>1, <1>5, <2>1
       DEF vars, LayoutInv, CommitNotForgotten, Contiguous, MemoryMatchesDisk,
           ReplyBehindCommitted, AckedCommitted, AckedInOrder, IsLast
<1>6. ~PowerLoss
  BY DEF NoPowerLoss, PowerLoss
<1> QED
  BY <1>1, <1>2, <1>3, <1>4, <1>5, <1>6, RotateLayout, SegmentAppendLayout,
     WriteHeaderLayout, CrashLayout, OpenChannelLayout DEF Next

\* LayoutInv holds in every reachable state if the machine keeps its power.
LEMMA LayoutInvariant ==
    ASSUME NoPowerLoss
    PROVE  Spec => []LayoutInv
<1>1. LayoutInv /\ [Next]_vars => LayoutInv'
  BY LayoutStep
<1> QED
  BY LayoutInit, <1>1, PTL DEF Spec

\* As long as power is not lost, every segment but the last ends where the
\* next one begins (channel.cc rotates before it appends).
THEOREM SegmentsConsistent ==
    ASSUME NoPowerLoss
    PROVE  Spec => []Contiguous
<1>1. LayoutInv => Contiguous
  BY DEF LayoutInv
<1> QED
  BY <1>1, LayoutInvariant, PTL

\* As long as power is not lost, the list of segments that the open channel
\* keeps in memory is the list of the files in its directory.
THEOREM MemoryIsDirectory ==
    ASSUME NoPowerLoss
    PROVE  Spec => []MemoryMatchesDisk
<1>1. LayoutInv => MemoryMatchesDisk
  BY DEF LayoutInv
<1> QED
  BY <1>1, LayoutInvariant, PTL

\* As long as power is not lost, a channel without needs_commit_ has its
\* offset_head in the header of the file: commit never skips what is due.
THEOREM CommitRemembered ==
    ASSUME NoPowerLoss
    PROVE  Spec => []CommitNotForgotten
<1>1. LayoutInv => CommitNotForgotten
  BY DEF LayoutInv
<1> QED
  BY <1>1, LayoutInvariant, PTL

\* As long as power is not lost, no offset is handed out twice: neither a
\* failed call nor a crash nor a restart makes appendMessage go back.
THEOREM OffsetsNeverReused ==
    ASSUME NoPowerLoss
    PROVE  Spec => []AckedInOrder
<1>1. LayoutInv => AckedInOrder
  BY DEF LayoutInv
<1> QED
  BY <1>1, LayoutInvariant, PTL

\* No step takes back a header or changes a byte below one.
LEMMA CommittedStep ==
    ASSUME NoPowerLoss, DiskInv, [Next]_vars
    PROVE  CommittedKept
<1>1. \A b \in DOMAIN segs :
        /\ b \in Nat /\ segs[b].head \in Nat
        /\ Len(segs[b].data) \in Nat
        /\ \A i \in 1 .. segs[b].head - b : i <= Len(segs[b].data)
  BY TypeFacts DEF DiskInv, CommittedBytesStable
<1>2. CASE UNCHANGED segs
  BY <1>1, <1>2 DEF CommittedKept
<1>3. CASE Rotate
  <2>1. \A b \in DOMAIN segs : b # handle.offset_head
    BY <1>3, TypeFacts DEF Rotate, DiskInv, OpenSegment, Rotating, IsLast
  <2>2. UNCHANGED segs \/ /\ DOMAIN segs \subseteq DOMAIN segs'
                          /\ \A b \in DOMAIN segs : segs'[b] = segs[b]
    BY <1>3, <2>1 DEF Rotate, With
  <2> QED
    BY <1>1, <1>2, <2>2 DEF CommittedKept
<1>4. CASE SegmentAppend
  <2> DEFINE frame == Frame(call.msg)
             Put(f) ==
                segs' = [segs EXCEPT ![Current].data = WriteAt(@, pos, f)]
  <2>1. frame \in Seq(FileByte) /\ Len(frame) \in Nat
    BY <1>4, FrameType, SegmentAppendCases DEF DiskInv, TypeOK, CallType
  <2>2. ASSUME NEW f \in Seq(FileByte), Put(f) PROVE CommittedKept
    <3>1. /\ DOMAIN segs' = DOMAIN segs
          /\ \A b \in DOMAIN segs :
                /\ segs'[b].head = segs[b].head
                /\ Len(segs'[b].data) \in Nat
                /\ Len(segs'[b].data) >= Len(segs[b].data)
                /\ \A i \in 1 .. segs[b].head - b :
                      segs'[b].data[i] = segs[b].data[i]
      BY <1>4, <2>2, WriteBehindCommitted, SegmentAppendCases
    <3> HIDE DEF Put
    <3> QED
      BY <1>1, <3>1 DEF CommittedKept
  <2>3. \A k \in 1 .. Len(frame) - 1 : SubSeq(frame, 1, k) \in Seq(FileByte)
    BY <2>1
  <2>4. \/ Put(frame)
        \/ UNCHANGED segs
        \/ \E k \in 1 .. Len(frame) - 1 : Put(SubSeq(frame, 1, k))
    BY <1>4, SegmentAppendCases
  <2> HIDE DEF Put, frame
  <2> QED
    BY <1>2, <2>1, <2>2, <2>3, <2>4
<1>5. CASE WriteHeader
  <2>1. /\ Current \in DOMAIN segs
        /\ segs[Current].head <= handle.offset_head
        /\ handle.offset_head \in Nat
        /\ segs[Current] = [head |-> segs[Current].head,
                            data |-> segs[Current].data]
    BY <1>5, TypeFacts DEF DiskInv, OpenSegment, WriteHeader
  <2>2. CASE segs' = [segs EXCEPT ![Current].head = handle.offset_head]
    <3>1. /\ DOMAIN segs' = DOMAIN segs
          /\ segs'[Current].head = handle.offset_head
          /\ \A b \in DOMAIN segs : segs'[b].data = segs[b].data
          /\ \A b \in DOMAIN segs \ {Current} : segs'[b] = segs[b]
      BY <2>1, <2>2
    <3> QED
      BY <1>1, <2>1, <3>1 DEF CommittedKept
  <2> QED
    BY <1>2, <1>5, <2>2 DEF WriteHeader
<1>6. ~PowerLoss
  BY DEF NoPowerLoss, PowerLoss
<1> QED
  BY <1>2, <1>3, <1>4, <1>5, <1>6
     DEF Next, AppendMessage, Commit, SyncData, Crash, OpenChannel, Resume,
         ReadHeader, vars

\* As long as power is not lost, committed messages never change.
THEOREM CommittedNeverChanges ==
    ASSUME NoPowerLoss
    PROVE  Spec => CommittedImmutable
<1>1. DiskInv /\ [Next]_vars => [CommittedKept]_vars
  BY CommittedStep
<1> QED
  BY <1>1, DiskInvariant, PTL DEF Spec, CommittedImmutable

-----------------------------------------------------------------------------
(* What holds as long as, in addition, no write is short                   *)

NoShortWrite == "short_write" \notin Faults

\* A new channel has its descriptor at its offset_head.
LEMMA ReplyInit == Init => ReplyInv
<1> SUFFICES ASSUME Init PROVE ReplyInv
  OBVIOUS
<1>1. LayoutInv
  BY LayoutInit
<1>2. PositionMatchesHead /\ OffsetIsWhereWritten
  BY DEF Init, PositionMatchesHead, OffsetIsWhereWritten, Current
<1>3. AckedReadable
  BY DEF Init, AckedReadable
<1> QED
  BY <1>1, <1>2, <1>3 DEF ReplyInv

\* A message that is stored below a header is stored there for ever.
LEMMA StoredForEver ==
    ASSUME DiskInv, DiskInv', CommittedKept,
           NEW e \in [offset : Nat, msg : Message], StoredIn(segs, e)
    PROVE  StoredIn(segs', e)
<1> DEFINE n == Len(Frame(e.msg))
<1>1. PICK b \in DOMAIN segs : /\ Holds(segs[b].data, e.offset - b, e.msg)
                               /\ End(e) <= segs[b].head
  BY DEF StoredIn
<1>2. /\ n \in Nat \ {0} /\ b \in Nat /\ segs[b].head \in Nat
      /\ e.offset \in Nat /\ b <= e.offset
  BY <1>1, FrameType, TypeFacts DEF DiskInv, Holds
<1>3. /\ b \in DOMAIN segs' /\ segs[b].head <= segs'[b].head
      /\ \A i \in 1 .. segs[b].head - b :
            i <= Len(segs'[b].data) /\ segs'[b].data[i] = segs[b].data[i]
  BY DEF CommittedKept
<1>4. segs'[b].head \in Nat /\ Len(segs'[b].data) \in Nat
  <2>1. \A f \in SegmentFile : f.head \in Nat /\ Len(f.data) \in Nat
    BY DEF SegmentFile
  <2> QED
    BY <1>3, <2>1 DEF DiskInv, TypeOK, FilesType
<1> HIDE DEF n
<1>5. \A i \in 1 .. n : e.offset - b + i \in 1 .. segs[b].head - b
  BY <1>1, <1>2 DEF n, End
<1>6. e.offset - b + n <= Len(segs'[b].data)
  <2>1. n \in 1 .. n
    BY <1>2
  <2> QED
    BY <1>3, <1>5, <2>1
<1>7. \A i \in 1 .. n : segs'[b].data[e.offset - b + i] = Frame(e.msg)[i]
  BY <1>1, <1>3, <1>5 DEF Holds, n
<1>8. End(e) <= segs'[b].head
  BY <1>1, <1>2, <1>3, <1>4 DEF n, End
<1> QED
  BY <1>2, <1>3, <1>6, <1>7, <1>8 DEF StoredIn, Holds, n

\* Without short writes the descriptor moves as offset_head does.
LEMMA PositionStep ==
    ASSUME NoShortWrite, LayoutInv, PositionMatchesHead, [Next]_vars
    PROVE  PositionMatchesHead'
<1>1. /\ Current \in Nat /\ handle.offset_head \in Nat /\ pos \in Nat
      /\ handle = [offset_begin |-> Current,
                   offset_head |-> handle.offset_head]
      /\ \A b \in DOMAIN segs : b \in Nat /\ segs[b].head \in Nat
  BY TypeFacts DEF LayoutInv, DiskInv
<1>2. CASE UNCHANGED <<handle, pos>> /\ pc # "down"
  BY <1>2 DEF PositionMatchesHead, Current
<1>3. CASE Rotate
  BY <1>1, <1>2, <1>3 DEF Rotate, PositionMatchesHead, Current
<1>4. CASE SegmentAppend
  <2>1. Len(Frame(call.msg)) \in Nat
    BY <1>4, FrameType, SegmentAppendCases
       DEF LayoutInv, DiskInv, TypeOK, CallType
  <2>2. \/ UNCHANGED <<handle, pos>>
        \/ /\ pos' = pos + Len(Frame(call.msg))
           /\ handle' = [handle EXCEPT !.offset_head = @ + Len(Frame(call.msg))]
    BY <1>4, SegmentAppendCases DEF NoShortWrite
  <2> QED
    BY <1>1, <1>2, <1>4, <2>1, <2>2, SegmentAppendCases
       DEF PositionMatchesHead, Current
<1>5. CASE OpenChannel
  BY <1>1, <1>5
     DEF OpenChannel, Resume, ReadHeader, PositionMatchesHead, Current
<1> QED
  BY <1>2, <1>3, <1>4, <1>5
     DEF Next, vars, memory, AppendMessage, Commit, SyncData, WriteHeader,
         Crash, PowerLoss, Forget, PositionMatchesHead, Current

\* The message is written at the offset that appendMessage will return.
LEMMA OffsetStep ==
    ASSUME NoShortWrite, ReplyInv, [Next]_vars
    PROVE  OffsetIsWhereWritten'
<1>1. CASE /\ UNCHANGED <<segs, handle, call>>
           /\ pc' \in {"sync", "header"} => pc \in {"sync", "header"}
  BY <1>1 DEF ReplyInv, OffsetIsWhereWritten, Holds, Current
<1>2. CASE pc' \notin {"sync", "header"} \/ call'.kind # "append"
  BY <1>2 DEF OffsetIsWhereWritten
<1>3. CASE SegmentAppend
  <2> DEFINE frame == Frame(call.msg)
  <2>1. frame \in Seq(FileByte) /\ Len(frame) \in Nat /\ pc # "down"
    BY <1>3, FrameType, SegmentAppendCases
       DEF ReplyInv, LayoutInv, DiskInv, TypeOK, CallType
  <2>2. CASE /\ segs' = [segs EXCEPT ![Current].data = WriteAt(@, pos, frame)]
             /\ handle' = [handle EXCEPT !.offset_head = @ + Len(frame)]
             /\ call' = [call EXCEPT !.offset = handle.offset_head]
    <3>1. /\ Len(segs'[Current].data) >= pos + Len(frame)
          /\ \A i \in 1 .. Len(frame) : segs'[Current].data[pos + i] = frame[i]
      BY <2>1, <2>2, WriteBehindCommitted DEF ReplyInv, LayoutInv
    <3>2. /\ Current' = Current /\ Current \in Nat /\ pos \in Nat
          /\ call'.msg = call.msg /\ call'.offset = Current + pos
      BY <2>1, <2>2, TypeFacts DEF ReplyInv, LayoutInv, DiskInv, TypeOK,
         CallType, PositionMatchesHead, Current
    <3>3. Holds(segs'[Current].data, pos, call'.msg)
      BY <2>1, <3>1, <3>2 DEF Holds
    <3>4. call'.offset - Current' = pos
      BY <3>2
    <3> QED
      BY <3>2, <3>3, <3>4 DEF OffsetIsWhereWritten
  <2> QED
    BY <1>2, <1>3, <2>2, SegmentAppendCases DEF NoShortWrite, Return
<1>4. CASE SyncData
  BY <1>1, <1>2, <1>4 DEF SyncData, memory, Return
<1>5. CASE UNCHANGED vars
  BY <1>1, <1>5 DEF vars
<1>6. CASE Rotate
  BY <1>2, <1>6 DEF Rotate, Return
<1>7. CASE WriteHeader
  BY <1>2, <1>7 DEF WriteHeader, Return
<1>8. ASSUME NEW m \in Message, AppendMessage(m) PROVE OffsetIsWhereWritten'
  BY <1>2, <1>8 DEF AppendMessage
<1>9. CASE Commit
  BY <1>2, <1>9 DEF Commit, NoCall
<1>10. CASE Crash \/ PowerLoss \/ OpenChannel
  BY <1>2, <1>10 DEF Crash, PowerLoss, Forget, OpenChannel, Resume, ReadHeader
<1> QED
  BY <1>3, <1>4, <1>5, <1>6, <1>7, <1>8, <1>9, <1>10 DEF Next

\* A message is acknowledged when it is in its file below the header.
LEMMA AckedStep ==
    ASSUME NoPowerLoss, ReplyInv, LayoutInv', [Next]_vars
    PROVE  AckedReadable'
<1> DEFINE R == [offset : Nat, msg : Message]
<1>1. CommittedKept /\ DiskInv'
  BY CommittedStep DEF ReplyInv, LayoutInv
<1>2. acked \in Seq(R)
  BY DEF ReplyInv, LayoutInv, DiskInv, TypeOK, CallType
<1>3. \A i \in 1 .. Len(acked) : StoredIn(segs', acked[i])
  <2> SUFFICES ASSUME NEW i \in 1 .. Len(acked)
               PROVE  StoredIn(segs', acked[i])
    OBVIOUS
  <2> HIDE DEF R
  <2>1. acked[i] \in R /\ StoredIn(segs, acked[i])
    BY <1>2 DEF ReplyInv, AckedReadable
  <2> QED
    BY <1>1, <2>1, StoredForEver DEF R, ReplyInv, LayoutInv
<1>4. CASE acked' = acked
  BY <1>3, <1>4 DEF AckedReadable
<1>5. CASE acked' # acked
  <2> DEFINE e == [offset |-> call.offset, msg |-> call.msg]
  <2>1. /\ WriteHeader /\ pc = "header" /\ call.kind = "append"
        /\ segs' = [segs EXCEPT ![Current].head = handle.offset_head]
        /\ acked' = Append(acked, e)
    BY <1>5, SegmentAppendCases DEF Next, vars, AppendMessage, Commit, Rotate,
       SyncData, WriteHeader, Crash, PowerLoss, Forget, OpenChannel, Resume,
       ReadHeader
  <2>2. /\ Current \in DOMAIN segs /\ handle.offset_head \in Nat
        /\ segs[Current] = [head |-> segs[Current].head,
                            data |-> segs[Current].data]
    BY TypeFacts DEF ReplyInv, LayoutInv, DiskInv
  <2>3. /\ Current \in DOMAIN segs'
        /\ segs'[Current].head = handle.offset_head
        /\ segs'[Current].data = segs[Current].data
    BY <2>1, <2>2
  <2>4. /\ Holds(segs[Current].data, e.offset - Current, e.msg)
        /\ End(e) = handle.offset_head
    BY <2>1 DEF ReplyInv, OffsetIsWhereWritten, LayoutInv,
       ReplyBehindCommitted, End
  <2> HIDE DEF R, e
  <2>5. StoredIn(segs', e)
    BY <2>2, <2>3, <2>4 DEF StoredIn
  <2>6. /\ Len(acked) \in Nat
        /\ Len(acked') = Len(acked) + 1
        /\ acked'[Len(acked) + 1] = e
        /\ \A i \in 1 .. Len(acked) : acked'[i] = acked[i]
    BY <1>2, <2>1
  <2>7. \A i \in 1 .. Len(acked') :
           i = Len(acked) + 1 \/ i \in 1 .. Len(acked)
    BY <2>6
  <2>8. \A i \in 1 .. Len(acked') : StoredIn(segs', acked'[i])
    BY <1>3, <2>5, <2>6, <2>7
  <2> QED
    BY <2>8 DEF AckedReadable
<1> QED
  BY <1>4, <1>5

\* ReplyInv holds in every reachable state without power loss and short write.
LEMMA ReplyInvariant ==
    ASSUME NoPowerLoss, NoShortWrite
    PROVE  Spec => []ReplyInv
<1>1. ReplyInv /\ [Next]_vars => ReplyInv'
  <2> SUFFICES ASSUME ReplyInv, [Next]_vars PROVE ReplyInv'
    OBVIOUS
  <2>1. LayoutInv'
    BY LayoutStep DEF ReplyInv
  <2> QED
    BY <2>1, PositionStep, OffsetStep, AckedStep DEF ReplyInv
<1> QED
  BY ReplyInit, <1>1, PTL DEF Spec

\* As long as power is not lost and no write is short, a message is written
\* at the offset that appendMessage returns, and whoever reads at that offset
\* finds it, in every later state.
THEOREM AppendsDurable ==
    ASSUME NoPowerLoss, NoShortWrite
    PROVE  Spec => []AckedReadable
<1>1. ReplyInv => AckedReadable
  BY DEF ReplyInv
<1> QED
  BY <1>1, ReplyInvariant, PTL

\* Under the same assumptions the offset of the reply is where the call wrote
\* its message: the descriptor's position and offset_head agree.
THEOREM RepliesTruthful ==
    ASSUME NoPowerLoss, NoShortWrite
    PROVE  Spec => []OffsetIsWhereWritten
<1>1. ReplyInv => OffsetIsWhereWritten
  BY DEF ReplyInv
<1> QED
  BY <1>1, ReplyInvariant, PTL
=============================================================================
