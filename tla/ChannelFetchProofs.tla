------------------------- MODULE ChannelFetchProofs -------------------------
(***************************************************************************)
(* Theorems about ChannelFetch, from the invariants of ChannelFetchInv and *)
(* from what ChannelLogProofs says about the bytes of the files.           *)
(***************************************************************************)
EXTENDS ChannelFetchInv, ChannelLogProofs

-----------------------------------------------------------------------------
(* Where a fetch stands                                                    *)

\* Beside the fetch the channel does what it does without it.
LEMMA FetchStepsChannel == [FetchNext]_allVars => [Next]_vars
BY DEF FetchNext, allVars, ChannelStep, FetchMessages, NextSegment,
       ReadBuffer, ParseMessage

LEMMA FetchIsChannel == FetchSpec => Spec
<1>1. FetchInit => Init
  BY DEF FetchInit
<1> QED
  BY <1>1, FetchStepsChannel, PTL DEF FetchSpec, Spec

LEMMA FetchTypeCorrect == FetchSpec => []TypeOK
BY FetchIsChannel, TypeCorrect, PTL

\* No call is under way.
LEMMA NoFetchType ==
    /\ NoFetch \in FetchRecord
    /\ NoFetch.step = "none" /\ NoFetch.known = 0 /\ NoFetch.cur = 0
    /\ NoFetch.buf = << >> /\ NoFetch.msg_len = 0
<1>1. NoMessage \in FetchEntry
  BY DEF NoMessage, FetchEntry
<1>2. [offset_begin |-> 0, offset_head |-> 0] \in Segment
  BY DEF Segment
<1>3. << >> \in Seq(Nat)
  OBVIOUS
<1> QED
  BY <1>1, <1>2, <1>3 DEF NoFetch, FetchRecord

LEMMA CursorInit == FetchInit /\ TypeOK => CursorInv
BY DEF FetchInit, Init, CursorInv, FetchType, FetchRecord, ListExists, Position,
       FetchedAdjacent, NoFetch, NoMessage, Fetching, Reading, Segment,
       FetchEntry

\* A call that goes on leaves every file where it is, and forgets no answer.
LEMMA FilesStay ==
    ASSUME TypeOK, [Next]_vars, pc' # "down"
    PROVE  DOMAIN segs \subseteq DOMAIN segs'
BY DEF Next, vars, AppendMessage, Commit, Rotate, SegmentAppend, WriteFrame,
       WriteShort, WriteFails, WriteBytes, SyncData, WriteHeader, Crash,
       PowerLoss, Forget, OpenChannel, Resume, With, Return

LEMMA AnswersStay ==
    ASSUME TypeOK, [Next]_vars
    PROVE  /\ Len(acked) \in Nat /\ Len(acked') \in Nat
           /\ Len(acked) <= Len(acked')
           /\ \A i \in 1 .. Len(acked) : acked'[i] = acked[i]
<1> DEFINE R == [offset : Nat, msg : Message]
<1>1. acked \in Seq(R)
  BY DEF TypeOK, CallType
<1>2. \/ acked' = acked
      \/ acked' = Append(acked, [offset |-> call.offset, msg |-> call.msg])
         /\ call.kind = "append"
  <2>1. acked' = acked \/ acked' # acked
    OBVIOUS
  <2> QED
    BY <2>1, AckedBy
<1>3. call.kind = "append" =>
        [offset |-> call.offset, msg |-> call.msg] \in R
  BY DEF TypeOK, CallType
<1> HIDE DEF R
<1> QED
  BY <1>1, <1>2, <1>3

LEMMA CursorChannel ==
    ASSUME CursorInv, TypeOK, ChannelStep
    PROVE  CursorInv'
<1>1. [Next]_vars
  BY DEF ChannelStep
<1>2. Len(acked) \in Nat /\ Len(acked') \in Nat /\ Len(acked) <= Len(acked')
  BY <1>1, AnswersStay
<1>3. CASE pc' = "down"
  <2>1. fetch' = NoFetch /\ entries' = << >>
    BY <1>3 DEF ChannelStep
  <2>2. FetchType'
    BY <1>2, <2>1, NoFetchType DEF FetchType
  <2>3. ListExists' /\ Position' /\ FetchedAdjacent'
    BY <2>1, NoFetchType
       DEF ListExists, Position, FetchedAdjacent, Fetching, Reading
  <2> QED
    BY <2>2, <2>3 DEF CursorInv
<1>4. CASE pc' # "down"
  <2>1. UNCHANGED <<fetch, entries>>
    BY <1>4 DEF ChannelStep, fetchVars
  <2>2. DOMAIN segs \subseteq DOMAIN segs'
    BY <1>1, <1>4, FilesStay
  <2>3. FetchType'
    BY <1>2, <2>1 DEF CursorInv, FetchType, FetchRecord
  <2>4. ListExists'
    BY <1>4, <2>1, <2>2 DEF CursorInv, ListExists, Fetching, Reading
  <2>5. Position' /\ FetchedAdjacent'
    BY <2>1 DEF CursorInv, Position, FetchedAdjacent, Fetching, Reading,
                Collected, Here
  <2> QED
    BY <2>3, <2>4, <2>5 DEF CursorInv
<1> QED
  BY <1>3, <1>4

\* The copy of the segment list names files that exist.
LEMMA SegmentListType ==
    ASSUME TypeOK
    PROVE  /\ SegmentList \in SUBSET Segment
           /\ \A s \in SegmentList : s.offset_begin \in DOMAIN segs
BY DEF TypeOK, FilesType, MemoryType, SegmentList, Segment, Current

LEMMA KnownOffsetsType ==
    ASSUME TypeOK
    PROVE  KnownOffsets \cup StrayOffsets \subseteq Nat
<1>1. ASSUME NEW x \in KnownOffsets
      PROVE  x \in Nat
  <2>1. \/ x = 0
        \/ \E i \in 1 .. Len(acked) : x = acked[i].offset
        \/ \E i \in 1 .. Len(acked) : x = End(acked[i])
    BY <1>1 DEF KnownOffsets
  <2> QED
    BY <2>1, EndType
<1> QED
  BY <1>1, FetchAssumption

LEMMA CursorFetch ==
    ASSUME CursorInv, TypeOK, NEW start \in Nat, NEW batch \in Nat,
           FetchMessages(start, batch)
    PROVE  CursorInv'
<1>1. /\ fetch' = [NoFetch EXCEPT !.step = "next", !.segments = SegmentList,
                                  !.start = start, !.from = start,
                                  !.batch = batch, !.known = Len(acked)]
      /\ entries' = << >> /\ UNCHANGED vars /\ pc = "idle"
  BY DEF FetchMessages
<1>2. Len(acked) \in Nat
  BY DEF TypeOK, CallType
<1>3. FetchType'
  <2>1. SegmentList \in SUBSET Segment
    BY SegmentListType
  <2>2. fetch' \in FetchRecord
    BY <1>1, <1>2, <2>1, NoFetchType DEF FetchRecord
  <2>3. entries' \in Seq(FetchEntry) /\ acked' = acked
    BY <1>1 DEF vars
  <2> QED
    BY <1>1, <1>2, <2>2, <2>3 DEF FetchType, FetchRecord, NoFetch
<1>4. ListExists'
  BY <1>1, SegmentListType
     DEF ListExists, Fetching, Reading, NoFetch, vars
<1>5. Position' /\ FetchedAdjacent'
  BY <1>1 DEF Position, FetchedAdjacent, Fetching, Reading, Collected, NoFetch
<1> QED
  BY <1>3, <1>4, <1>5 DEF CursorInv

\* What the type invariant says about the parts of fetch.
LEMMA FetchFields ==
    ASSUME FetchType
    PROVE  /\ fetch.segments \in SUBSET Segment /\ fetch.segment \in Segment
           /\ fetch.segment.offset_begin \in Nat
           /\ fetch.segment.offset_head \in Nat
           /\ fetch.start \in Nat /\ fetch.from \in Nat /\ fetch.batch \in Nat
           /\ fetch.known \in Nat /\ fetch.file_offset \in Nat
           /\ fetch.buf \in Seq(Nat) /\ Len(fetch.buf) \in Nat
           /\ fetch.cur \in Nat /\ fetch.cur <= Len(fetch.buf)
           /\ fetch.msg \in FetchEntry /\ fetch.msg.offset \in Nat
           /\ fetch.msg.next_offset \in Nat /\ fetch.msg.data \in Seq(Nat)
           /\ fetch.msg_len \in Nat
           /\ entries \in Seq(FetchEntry) /\ Len(entries) \in Nat
           /\ Collected \in Nat
<1>1. entries \in Seq(FetchEntry) /\ Len(entries) \in Nat
  BY DEF FetchType, FetchRecord
<1>2. ASSUME entries # << >>
      PROVE  entries[Len(entries)] \in FetchEntry
  BY <1>1, <1>2
<1>3. fetch.from \in Nat
  BY DEF FetchType, FetchRecord
<1>4. Collected \in Nat
  BY <1>2, <1>3 DEF Collected, FetchEntry
<1> QED
  BY <1>1, <1>4 DEF FetchType, FetchRecord, Segment, FetchEntry

\* A call that returns has no cursors any more.
LEMMA CursorReturn ==
    ASSUME CursorInv, NEW step \in {"ok", "EARG", "EIO"}, FetchReturn(step),
           UNCHANGED vars, entries' \in Seq(FetchEntry), FetchedAdjacent'
    PROVE  CursorInv'
<1> USE DEF CursorInv
<1>1. FetchType'
  <2>1. /\ fetch' \in FetchRecord
        /\ fetch'.step = step /\ fetch'.known = fetch.known
        /\ fetch'.cur = 0 /\ fetch'.buf = << >> /\ fetch'.msg_len = 0
    BY FetchFields, NoFetchType DEF FetchReturn, FetchRecord
  <2> QED
    BY <2>1 DEF FetchType, vars
<1>2. ListExists' /\ Position'
  BY DEF FetchReturn, ListExists, Position, Fetching, Reading, NoFetch
<1> QED
  BY <1>1, <1>2

LEMMA ReturnKeepsFrom ==
    ASSUME NEW step, FetchReturn(step)
    PROVE  /\ fetch'.step = step /\ fetch'.from = fetch.from
           /\ fetch'.batch = fetch.batch /\ fetch'.known = fetch.known
BY DEF FetchReturn, NoFetch

LEMMA CursorReturnSame ==
    ASSUME CursorInv, NEW step \in {"ok", "EARG", "EIO"}, FetchReturn(step),
           UNCHANGED <<vars, entries>>
    PROVE  CursorInv'
<1>1. FetchedAdjacent'
  BY ReturnKeepsFrom DEF CursorInv, FetchedAdjacent
<1>2. entries' \in Seq(FetchEntry)
  BY DEF CursorInv, FetchType
<1> QED
  BY <1>1, <1>2, CursorReturn

LEMMA CursorNext ==
    ASSUME CursorInv, NextSegment
    PROVE  CursorInv'
<1> USE DEF CursorInv
<1>1. fetch.step = "next" /\ UNCHANGED <<vars, entries>> /\ pc # "down"
  BY DEF NextSegment, ListExists, Fetching
<1>2. CASE FetchReturn("ok") \/ FetchReturn("EARG")
  BY <1>1, <1>2, CursorReturnSame
<1>3. ASSUME NEW s \in fetch.segments,
             fetch' = [fetch EXCEPT !.segments = @ \ {s}]
      PROVE  CursorInv'
  <2>1. FetchType'
    <3>1. fetch' \in FetchRecord
      BY <1>3 DEF FetchType, FetchRecord
    <3>2. fetch'.step = fetch.step /\ fetch'.cur = fetch.cur
          /\ fetch'.buf = fetch.buf /\ fetch'.msg_len = fetch.msg_len
          /\ fetch'.known = fetch.known
      BY <1>3 DEF FetchType, FetchRecord
    <3> QED
      BY <1>1, <3>1, <3>2 DEF FetchType, FetchRecord, vars
  <2>2. ListExists'
    BY <1>1, <1>3 DEF ListExists, FetchType, FetchRecord, Fetching, Reading, vars
  <2>3. Position' /\ FetchedAdjacent'
    BY <1>1, <1>3 DEF Position, FetchedAdjacent, FetchType, FetchRecord, Fetching, Reading,
                      Collected
  <2> QED
    BY <2>1, <2>2, <2>3
<1>4. ASSUME NEW s \in fetch.segments,
             s.offset_begin <= fetch.start, fetch.start < s.offset_head,
             fetch' = [fetch EXCEPT
                         !.step = "read", !.segment = s,
                         !.file_offset = fetch.start - s.offset_begin]
      PROVE  CursorInv'
  <2>1. s \in Segment /\ s.offset_begin \in Nat /\ s.offset_head \in Nat
        /\ fetch.start - s.offset_begin \in Nat
    <3>1. s \in Segment /\ fetch.start \in Nat
      BY FetchFields
    <3>2. s.offset_begin \in Nat /\ s.offset_head \in Nat
      BY <3>1 DEF Segment
    <3> QED
      BY <1>4, <3>1, <3>2
  <2>2. FetchType'
    <3>1. fetch' \in FetchRecord
      BY <1>4, <2>1 DEF FetchType, FetchRecord
    <3>2. fetch'.step = "read" /\ fetch'.cur = fetch.cur
          /\ fetch'.buf = fetch.buf /\ fetch'.msg_len = fetch.msg_len
          /\ fetch'.known = fetch.known
      BY <1>4 DEF FetchType, FetchRecord
    <3> QED
      BY <1>1, <3>1, <3>2 DEF FetchType, FetchRecord, vars
  <2>3. ListExists'
    BY <1>1, <1>4 DEF ListExists, FetchType, FetchRecord, Fetching, Reading, vars
  <2>4. fetch.cur = 0 /\ fetch.msg_len = 0
    BY <1>1 DEF FetchType, FetchRecord
  <2>5. Position'
    <3>1. /\ fetch'.step = "read" /\ fetch'.msg_len = 0 /\ fetch'.cur = 0
          /\ fetch'.start = fetch.start /\ fetch'.from = fetch.from
          /\ fetch'.segment = s
          /\ fetch'.file_offset = fetch.start - s.offset_begin
      BY <1>4, <2>4 DEF FetchType, FetchRecord
    <3>2. Collected' = Collected /\ fetch.start = Collected
      BY <1>1, <3>1 DEF Collected, Position
    <3>3. entries = << >> => fetch.start = fetch.from
      BY <1>1 DEF Position, Fetching
    <3>4. Here' = fetch.start
      <4>1. Here' = s.offset_begin + (fetch.start - s.offset_begin) + 0
        BY <3>1 DEF Here
      <4>2. fetch.start \in Nat
        BY FetchFields
      <4> QED
        BY <2>1, <4>1, <4>2
    <3> QED
      BY <1>1, <1>4, <3>1, <3>2, <3>3, <3>4, FetchFields
         DEF Position, Fetching, Reading
  <2>6. FetchedAdjacent'
    BY <1>1, <1>4 DEF FetchedAdjacent, FetchType, FetchRecord
  <2> QED
    BY <2>2, <2>3, <2>5, <2>6
<1> QED
  BY <1>1, <1>2, <1>3, <1>4 DEF NextSegment

\* segmentRead returns to the loop over the segments.
LEMMA CursorReadReturn ==
    ASSUME CursorInv, Reading, ReadReturn(entries), UNCHANGED <<vars, entries>>
    PROVE  CursorInv'
<1> USE DEF CursorInv
<1>1. CASE FetchReturn("ok")
  BY <1>1, CursorReturnSame
<1>2. CASE /\ Len(entries) # 0
           /\ fetch' = [fetch EXCEPT
                          !.step = "next",
                          !.start = entries[Len(entries)].next_offset,
                          !.buf = << >>, !.cur = 0,
                          !.msg = NoMessage, !.msg_len = 0]
  <2>1. entries # << >> /\ Collected = entries[Len(entries)].next_offset
        /\ Collected \in Nat
    BY <1>2, FetchFields DEF Collected
  <2>2. NoMessage \in FetchEntry
    BY DEF NoMessage, FetchEntry
  <2>3. /\ fetch' \in FetchRecord
        /\ fetch'.step = "next" /\ fetch'.start = Collected
        /\ fetch'.from = fetch.from /\ fetch'.known = fetch.known
        /\ fetch'.buf = << >> /\ fetch'.cur = 0 /\ fetch'.msg_len = 0
        /\ fetch'.segments = fetch.segments
    <3>1. fetch' = [fetch EXCEPT !.step = "next", !.start = Collected,
                                 !.buf = << >>, !.cur = 0,
                                 !.msg = NoMessage, !.msg_len = 0]
      BY <1>2, <2>1
    <3>2. << >> \in Seq(Nat) /\ fetch \in FetchRecord
      BY DEF FetchType
    <3> HIDE DEF CursorInv
    <3>3. fetch' \in FetchRecord
      BY <3>1, <3>2, <2>1, <2>2 DEF FetchRecord
    <3> QED
      BY <3>1, <3>2, <3>3 DEF FetchRecord
  <2>4. FetchType'
    BY <2>3 DEF FetchType, vars
  <2>5. ListExists'
    BY <2>3 DEF ListExists, Fetching, Reading, vars
  <2>6. Position'
    BY <2>1, <2>3 DEF Position, Fetching, Reading, Collected
  <2>7. FetchedAdjacent'
    BY <2>3 DEF FetchedAdjacent
  <2> QED
    BY <2>4, <2>5, <2>6, <2>7
<1> QED
  BY <1>1, <1>2 DEF ReadReturn

LEMMA CursorRead ==
    ASSUME CursorInv, TypeOK, ReadBuffer
    PROVE  CursorInv'
<1> USE DEF CursorInv
<1> DEFINE s == fetch.segment
           at == fetch.file_offset
           data == segs[s.offset_begin].data
           size == IF at + kBufSize < Len(data) THEN at + kBufSize
                   ELSE Len(data)
<1>1. fetch.step = "read" /\ Reading /\ Fetching /\ UNCHANGED <<vars, entries>>
  BY DEF ReadBuffer, Reading, Fetching
<1>2. CASE ReadReturn(entries)
  BY <1>1, <1>2, CursorReadReturn
<1>3. CASE FetchReturn("EIO")
  BY <1>1, <1>3, CursorReturnSame
<1>4. CASE fetch' = [fetch EXCEPT !.step = "parse", !.cur = 0,
                                  !.buf = SubSeq(data, at + 1, size)]
  <2>1. s \in fetch.segments /\ s.offset_begin \in DOMAIN segs
    BY <1>1 DEF ListExists
  <2>2. data \in Seq(FileByte)
    BY <2>1, TypeFacts
  <2>3. data \in Seq(Nat) /\ Len(data) \in Nat
    BY <2>2, FileNat, SeqWider
  <2> HIDE DEF data
  <2>4. at \in Nat /\ size \in Nat /\ size <= Len(data)
    <3>1. at \in Nat /\ kBufSize \in Nat
      BY FetchFields, FetchAssumption
    <3> HIDE DEF at
    <3> QED
      BY <2>3, <3>1
  <2> HIDE DEF size, at
  <2>5. SubSeq(data, at + 1, size) \in Seq(Nat)
    BY <2>3, <2>4
  <2>6. /\ fetch' \in FetchRecord
        /\ fetch'.step = "parse" /\ fetch'.start = fetch.start
        /\ fetch'.from = fetch.from /\ fetch'.known = fetch.known
        /\ fetch'.cur = 0 /\ fetch'.buf = SubSeq(data, at + 1, size)
        /\ fetch'.segments = fetch.segments /\ fetch'.segment = fetch.segment
        /\ fetch'.file_offset = fetch.file_offset
        /\ fetch'.msg = fetch.msg /\ fetch'.msg_len = fetch.msg_len
    BY <1>4, <2>5 DEF FetchType, FetchRecord
  <2>7. FetchType'
    BY <1>1, <2>5, <2>6 DEF FetchType, vars
  <2>8. ListExists'
    BY <1>1, <2>6 DEF ListExists, Fetching, Reading, vars
  <2>9. fetch.cur = 0
    BY <1>1 DEF FetchType
  <2>10. Position'
    BY <1>1, <2>6, <2>9 DEF Position, Fetching, Reading, Collected, Here
  <2>11. FetchedAdjacent'
    BY <1>1, <2>6 DEF FetchedAdjacent
  <2> QED
    BY <2>7, <2>8, <2>10, <2>11
<1> QED
  BY <1>2, <1>3, <1>4 DEF ReadBuffer

\* The length that ParseMessage has for the message at its cursor, where the
\* message would end in the buffer, and what it knows of the message so far.
ParsedLen ==
    IF fetch.msg_len = 0 THEN ReadVarUInt(fetch.buf, fetch.cur)
    ELSE [ok |-> TRUE, cur |-> fetch.cur, value |-> fetch.msg_len]
ParsedEnd == ParsedLen.cur + ParsedLen.value
BufferAt == fetch.segment.offset_begin + fetch.file_offset
ParsedMsg ==
    IF fetch.msg_len = 0
    THEN [offset |-> BufferAt + fetch.cur, next_offset |-> BufferAt + ParsedEnd,
          data |-> << >>]
    ELSE fetch.msg
ParsedEntry ==
    Collect(ParsedMsg, SubSeq(fetch.buf, ParsedLen.cur + 1, ParsedEnd))

BufferEnds ==
    /\ fetch.cur >= Len(fetch.buf)
    /\ fetch' = [fetch EXCEPT !.step = "read", !.buf = << >>, !.cur = 0,
                              !.file_offset = @ + Len(fetch.buf)]
    /\ UNCHANGED entries
LengthTorn ==
    fetch.cur < Len(fetch.buf) /\ ~ParsedLen.ok /\ FetchReturn("EIO")
    /\ UNCHANGED entries
MessageBegins ==
    /\ fetch.cur < Len(fetch.buf) /\ ParsedLen.ok
    /\ ParsedEnd > Len(fetch.buf)
    /\ fetch' = [fetch EXCEPT
                   !.cur = Len(fetch.buf),
                   !.msg = Collect(ParsedMsg,
                                   SubSeq(fetch.buf, ParsedLen.cur + 1,
                                          Len(fetch.buf))),
                   !.msg_len = ParsedEnd - Len(fetch.buf)]
    /\ UNCHANGED entries
MessageEnds ==
    /\ fetch.cur < Len(fetch.buf) /\ ParsedLen.ok
    /\ ParsedEnd <= Len(fetch.buf)
    /\ entries' = Append(entries, ParsedEntry)
    /\ \/ Len(entries') = fetch.batch /\ FetchReturn("ok")
       \/ Len(entries') # fetch.batch
          /\ fetch' = [fetch EXCEPT !.cur = ParsedEnd, !.msg = NoMessage,
                                    !.msg_len = 0]

\* The four ways of ParseMessage.
LEMMA ParseCases ==
    ASSUME ParseMessage
    PROVE  /\ fetch.step = "parse" /\ UNCHANGED vars
           /\ BufferEnds \/ LengthTorn \/ MessageBegins \/ MessageEnds
BY DEF ParseMessage, BufferEnds, LengthTorn, MessageBegins, MessageEnds,
       ParsedLen, ParsedEnd, BufferAt, ParsedMsg, ParsedEntry, ReadReturn

\* When a length is there, the message that ParseMessage is about begins
\* behind what was collected, and ends where it says.
LEMMA ParsedType ==
    ASSUME CursorInv, fetch.step = "parse", fetch.cur < Len(fetch.buf)
    PROVE  /\ ParsedLen.ok \in BOOLEAN
           /\ ParsedLen.cur \in Nat /\ ParsedLen.value \in Nat
           /\ fetch.cur <= ParsedLen.cur /\ ParsedLen.cur <= Len(fetch.buf)
           /\ ParsedEnd \in Nat /\ ParsedLen.cur <= ParsedEnd
           /\ fetch.cur < ParsedEnd
           /\ ParsedEnd = ParsedLen.cur + ParsedLen.value
           /\ BufferAt \in Nat
           /\ Collected <= BufferAt + fetch.cur
           /\ ParsedMsg \in FetchEntry
           /\ ParsedMsg.offset = Collected
           /\ ParsedMsg.next_offset = BufferAt + ParsedEnd
<1>1. /\ fetch.buf \in Seq(Nat) /\ Len(fetch.buf) \in Nat /\ fetch.cur \in Nat
      /\ fetch.msg_len \in Nat /\ BufferAt \in Nat /\ fetch.msg \in FetchEntry
  <2>1. FetchType
    BY DEF CursorInv
  <2>2. fetch.segment.offset_begin \in Nat /\ fetch.file_offset \in Nat
    BY <2>1, FetchFields
  <2>3. BufferAt \in Nat
    BY <2>2 DEF BufferAt
  <2> QED
    BY <2>1, <2>3, FetchFields
<1>2. Reading
  BY DEF Reading
<1>3. Here = BufferAt + fetch.cur
  BY DEF Here, BufferAt
<1>4. CASE fetch.msg_len = 0
  <2>1. ParsedLen = ReadVarUInt(fetch.buf, fetch.cur)
    BY <1>4 DEF ParsedLen
  <2>2. /\ ParsedLen.ok \in BOOLEAN
        /\ ParsedLen.cur \in fetch.cur + 1 .. Len(fetch.buf)
        /\ ParsedLen.value \in Nat
    BY <1>1, <2>1, ReadVarUIntType
  <2>3. ParsedEnd = ParsedLen.cur + ParsedLen.value /\ ParsedEnd \in Nat
    BY <1>1, <2>2 DEF ParsedEnd
  <2>4. ParsedMsg = [offset |-> BufferAt + fetch.cur,
                     next_offset |-> BufferAt + ParsedEnd, data |-> << >>]
    BY <1>4 DEF ParsedMsg
  <2>5. ParsedMsg \in FetchEntry
    <3>1. /\ BufferAt + fetch.cur \in Nat /\ BufferAt + ParsedEnd \in Nat
          /\ << >> \in Seq(Nat)
      BY <1>1, <2>3
    <3> QED
      BY <2>4, <3>1 DEF FetchEntry
  <2>6. Collected = BufferAt + fetch.cur
    BY <1>2, <1>3, <1>4 DEF CursorInv, Position
  <2>7. /\ ParsedMsg.offset = Collected
        /\ ParsedMsg.next_offset = BufferAt + ParsedEnd
    BY <2>4, <2>6
  <2>8. /\ fetch.cur <= ParsedLen.cur /\ ParsedLen.cur <= Len(fetch.buf)
        /\ ParsedLen.cur <= ParsedEnd /\ fetch.cur < ParsedEnd
        /\ ParsedLen.cur \in Nat
    BY <1>1, <2>2, <2>3
  <2>9. Collected <= BufferAt + fetch.cur
    BY <1>1, <2>6
  <2> QED
    BY <1>1, <2>2, <2>3, <2>5, <2>7, <2>8, <2>9
<1>5. CASE fetch.msg_len # 0
  <2>1. ParsedLen = [ok |-> TRUE, cur |-> fetch.cur, value |-> fetch.msg_len]
        /\ ParsedMsg = fetch.msg
    BY <1>5 DEF ParsedLen, ParsedMsg
  <2>2. ParsedEnd = fetch.cur + fetch.msg_len
    BY <2>1 DEF ParsedEnd
  <2>3. /\ fetch.msg.offset = Collected /\ Collected <= Here
        /\ fetch.msg.next_offset = Here + fetch.msg_len
    BY <1>2, <1>5 DEF CursorInv, Position
  <2>4. /\ ParsedLen.ok = TRUE /\ ParsedLen.cur = fetch.cur
        /\ ParsedLen.value = fetch.msg_len
    BY <2>1
  <2>5. ParsedMsg.next_offset = BufferAt + ParsedEnd
    BY <1>1, <1>3, <2>1, <2>2, <2>3
  <2>6. /\ fetch.cur <= ParsedLen.cur /\ ParsedLen.cur <= Len(fetch.buf)
        /\ ParsedLen.cur <= ParsedEnd /\ fetch.cur < ParsedEnd
        /\ ParsedEnd \in Nat
    BY <1>1, <1>5, <2>2, <2>4
  <2> QED
    BY <1>1, <1>3, <2>1, <2>2, <2>3, <2>4, <2>5, <2>6
<1> QED
  BY <1>4, <1>5

\* What is collected of a message.
LEMMA CollectType ==
    ASSUME NEW m \in FetchEntry, NEW bytes \in Seq(Nat)
    PROVE  /\ Collect(m, bytes) \in FetchEntry
           /\ Collect(m, bytes).offset = m.offset
           /\ Collect(m, bytes).next_offset = m.next_offset
           /\ Collect(m, bytes).data = m.data \o bytes
<1>1. m.data \in Seq(Nat) /\ m.data \o bytes \in Seq(Nat)
  BY DEF FetchEntry
<1>2. Collect(m, bytes) = [m EXCEPT !.data = m.data \o bytes]
  BY DEF Collect
<1> QED
  BY <1>1, <1>2 DEF FetchEntry

LEMMA CursorParse ==
    ASSUME CursorInv, ParseMessage
    PROVE  CursorInv'
<1>1. /\ fetch.step = "parse" /\ UNCHANGED vars /\ Reading /\ Fetching
      /\ BufferEnds \/ LengthTorn \/ MessageBegins \/ MessageEnds
  BY ParseCases DEF Reading, Fetching
<1>2. FetchType /\ ListExists /\ Position /\ FetchedAdjacent
  BY DEF CursorInv
<1>3. fetch \in FetchRecord
  BY <1>2 DEF FetchType
<1>4. CASE BufferEnds
  <2>1. fetch' = [fetch EXCEPT !.step = "read", !.buf = << >>, !.cur = 0,
                               !.file_offset = fetch.file_offset
                                                  + Len(fetch.buf)]
        /\ entries' = entries
        /\ fetch.cur = Len(fetch.buf)
    BY <1>2, <1>3, <1>4, FetchFields DEF BufferEnds
  <2>2. << >> \in Seq(Nat) /\ fetch.file_offset + Len(fetch.buf) \in Nat
    <3>1. fetch.file_offset \in Nat /\ Len(fetch.buf) \in Nat
      BY <1>2, FetchFields
    <3> QED
      BY <3>1
  <2>3. fetch' \in FetchRecord
    BY <1>3, <2>1, <2>2 DEF FetchRecord
  <2>4. /\ fetch'.step = "read" /\ fetch'.start = fetch.start
        /\ fetch'.from = fetch.from /\ fetch'.known = fetch.known
        /\ fetch'.cur = 0 /\ fetch'.buf = << >>
        /\ fetch'.segments = fetch.segments /\ fetch'.segment = fetch.segment
        /\ fetch'.file_offset = fetch.file_offset + Len(fetch.buf)
        /\ fetch'.msg = fetch.msg /\ fetch'.msg_len = fetch.msg_len
    BY <1>3, <2>1 DEF FetchRecord
  <2>5. FetchType'
    BY <1>1, <1>2, <2>1, <2>3, <2>4 DEF FetchType, vars
  <2>6. ListExists'
    BY <1>1, <1>2, <2>4 DEF ListExists, Fetching, Reading, vars
  <2>7. Here' = Here /\ Collected' = Collected
    BY <1>2, <2>1, <2>4, FetchFields DEF Here, Collected
  <2>8. Position'
    BY <1>1, <1>2, <2>1, <2>4, <2>7 DEF Position, Fetching, Reading
  <2>9. FetchedAdjacent'
    BY <1>2, <2>1, <2>4 DEF FetchedAdjacent
  <2> QED
    BY <2>5, <2>6, <2>8, <2>9 DEF CursorInv
<1>5. CASE LengthTorn
  BY <1>1, <1>5, CursorReturnSame DEF LengthTorn
<1>6. CASE MessageBegins
  <2> DEFINE n == Len(fetch.buf)
             part == SubSeq(fetch.buf, ParsedLen.cur + 1, n)
             msg == Collect(ParsedMsg, part)
             rest == ParsedEnd - n
  <2>1. /\ fetch' = [fetch EXCEPT !.cur = n, !.msg = msg, !.msg_len = rest]
        /\ entries' = entries /\ fetch.cur < n /\ ParsedEnd > n
    BY <1>6 DEF MessageBegins
  <2>2. /\ n \in Nat /\ fetch.buf \in Seq(Nat) /\ ParsedLen.cur \in Nat
        /\ ParsedEnd \in Nat /\ ParsedMsg \in FetchEntry /\ BufferAt \in Nat
        /\ ParsedMsg.offset = Collected
        /\ ParsedMsg.next_offset = BufferAt + ParsedEnd
        /\ ParsedLen.cur <= n /\ fetch.cur \in Nat /\ Collected \in Nat
        /\ Collected <= BufferAt + fetch.cur
    BY <1>1, <1>2, <2>1, FetchFields, ParsedType
  <2>3. part \in Seq(Nat)
    <3>1. /\ fetch.buf \in Seq(Nat) /\ ParsedLen.cur \in Nat /\ n \in Nat
          /\ ParsedLen.cur <= n /\ n <= Len(fetch.buf)
      BY <2>2
    <3> QED
      BY <3>1, PartOf
  <2>4. rest \in Nat /\ rest # 0
    BY <2>1, <2>2
  <2> HIDE DEF part
  <2>5. /\ msg \in FetchEntry /\ msg.offset = Collected
        /\ msg.next_offset = BufferAt + ParsedEnd
    BY <2>2, <2>3, CollectType
  <2> HIDE DEF msg, rest
  <2>6. fetch' \in FetchRecord
    BY <1>3, <2>1, <2>2, <2>4, <2>5 DEF FetchRecord
  <2>7. /\ fetch'.step = "parse" /\ fetch'.start = fetch.start
        /\ fetch'.from = fetch.from /\ fetch'.known = fetch.known
        /\ fetch'.cur = n /\ fetch'.buf = fetch.buf
        /\ fetch'.segments = fetch.segments /\ fetch'.segment = fetch.segment
        /\ fetch'.file_offset = fetch.file_offset
        /\ fetch'.msg = msg /\ fetch'.msg_len = rest
    BY <1>1, <1>3, <2>1 DEF FetchRecord
  <2>8. FetchType'
    BY <1>1, <1>2, <2>1, <2>6, <2>7 DEF FetchType, vars
  <2>9. ListExists'
    BY <1>1, <1>2, <2>7 DEF ListExists, Fetching, Reading, vars
  <2>10. Here' = BufferAt + n /\ Collected' = Collected
    BY <2>1, <2>7 DEF Here, Collected, BufferAt
  <2>11. msg.next_offset = Here' + rest /\ Collected <= Here'
    <3>1. BufferAt + n + (ParsedEnd - n) = BufferAt + ParsedEnd
          /\ Collected <= BufferAt + n
      <4> HIDE DEF n
      <4> QED
        BY <2>1, <2>2
    <3> QED
      BY <3>1, <2>5, <2>10 DEF rest
  <2>12. Position'
    BY <1>1, <1>2, <2>1, <2>4, <2>5, <2>7, <2>10, <2>11
       DEF Position, Fetching, Reading
  <2>13. FetchedAdjacent'
    BY <1>2, <2>1, <2>7 DEF FetchedAdjacent
  <2> QED
    BY <2>8, <2>9, <2>12, <2>13 DEF CursorInv
<1>7. CASE MessageEnds
  <2> DEFINE e == ParsedEntry
  <2>1. /\ fetch.cur < Len(fetch.buf) /\ ParsedEnd <= Len(fetch.buf)
        /\ entries' = Append(entries, e)
    BY <1>7 DEF MessageEnds
  <2>2. /\ fetch.buf \in Seq(Nat) /\ ParsedLen.cur \in Nat
        /\ ParsedEnd \in Nat /\ ParsedMsg \in FetchEntry /\ BufferAt \in Nat
        /\ ParsedMsg.offset = Collected
        /\ ParsedMsg.next_offset = BufferAt + ParsedEnd
        /\ fetch.cur < ParsedEnd /\ fetch.cur \in Nat
        /\ ParsedLen.cur <= ParsedEnd
        /\ Collected <= BufferAt + fetch.cur
        /\ entries \in Seq(FetchEntry) /\ Len(entries) \in Nat
        /\ Collected \in Nat /\ fetch.start \in Nat
    BY <1>1, <1>2, <2>1, FetchFields, ParsedType
  <2>3. SubSeq(fetch.buf, ParsedLen.cur + 1, ParsedEnd) \in Seq(Nat)
    BY <2>1, <2>2, PartOf
  <2>4. /\ e \in FetchEntry /\ e.offset = Collected
        /\ e.next_offset = BufferAt + ParsedEnd
    BY <2>2, <2>3, CollectType DEF ParsedEntry
  <2> HIDE DEF e
  <2>5. /\ entries' \in Seq(FetchEntry) /\ Len(entries') = Len(entries) + 1
        /\ entries'[Len(entries')] = e
        /\ \A i \in 1 .. Len(entries) : entries'[i] = entries[i]
        /\ entries' # << >>
    <3> HIDE DEF CursorInv, FetchEntry
    <3>1. entries \in Seq(FetchEntry) /\ e \in FetchEntry
          /\ entries' = Append(entries, e)
      BY <2>1, <2>2, <2>4
    <3> QED
      BY <3>1
  <2>6. fetch'.from = fetch.from
    BY <1>3, <1>7, ReturnKeepsFrom DEF MessageEnds, FetchRecord
  <2>7. FetchedAdjacent'
    <3> SUFFICES ASSUME NEW i \in 1 .. Len(entries')
                 PROVE  entries'[i].offset = IF i = 1 THEN fetch.from
                                             ELSE entries'[i - 1].next_offset
      BY <2>6 DEF FetchedAdjacent
    <3>1. CASE i <= Len(entries)
      <4>1. i \in 1 .. Len(entries) /\ (i # 1 => i - 1 \in 1 .. Len(entries))
        BY <2>2, <2>5, <3>1
      <4>2. entries[i].offset = IF i = 1 THEN fetch.from
                                ELSE entries[i - 1].next_offset
        BY <1>2, <4>1 DEF FetchedAdjacent
      <4> QED
        BY <2>5, <4>1, <4>2
    <3>2. CASE i > Len(entries)
      <4>1. i = Len(entries) + 1 /\ entries'[i].offset = Collected
        BY <2>2, <2>4, <2>5, <3>2
      <4>2. CASE entries = << >>
        BY <2>2, <4>1, <4>2 DEF Collected
      <4>3. CASE entries # << >>
        <5>1. Len(entries) # 0
          BY <2>2, <4>3
        <5>2. i # 1 /\ i - 1 = Len(entries) /\ i - 1 \in 1 .. Len(entries)
          BY <2>2, <4>1, <5>1
        <5>3. entries'[i - 1] = entries[Len(entries)]
          BY <2>5, <5>2
        <5> QED
          BY <4>1, <4>3, <5>2, <5>3 DEF Collected
      <4> QED
        BY <4>2, <4>3
    <3> QED
      BY <2>2, <2>5, <3>1, <3>2
  <2>8. CASE FetchReturn("ok")
    BY <1>1, <2>5, <2>7, <2>8, CursorReturn
  <2>9. CASE fetch' = [fetch EXCEPT !.cur = ParsedEnd, !.msg = NoMessage,
                                    !.msg_len = 0]
    <3>1. NoMessage \in FetchEntry
      BY DEF NoMessage, FetchEntry
    <3>2. fetch' \in FetchRecord
      BY <1>3, <2>2, <2>9, <3>1 DEF FetchRecord
    <3>3. /\ fetch'.step = "parse" /\ fetch'.start = fetch.start
          /\ fetch'.known = fetch.known
          /\ fetch'.cur = ParsedEnd /\ fetch'.buf = fetch.buf
          /\ fetch'.segments = fetch.segments
          /\ fetch'.segment = fetch.segment
          /\ fetch'.file_offset = fetch.file_offset
          /\ fetch'.msg_len = 0
      BY <1>1, <1>3, <2>9 DEF FetchRecord
    <3>4. FetchType'
      BY <1>1, <1>2, <2>1, <2>5, <3>2, <3>3 DEF FetchType, vars
    <3>5. ListExists'
      BY <1>1, <1>2, <3>3 DEF ListExists, Fetching, Reading, vars
    <3>6. Collected' = BufferAt + ParsedEnd
      BY <2>4, <2>5 DEF Collected
    <3>7. Here' = BufferAt + ParsedEnd
      BY <3>3 DEF Here, BufferAt
    <3>8. Collected <= BufferAt + ParsedEnd
      BY <2>2
    <3>9. Position'
      BY <1>1, <1>2, <2>2, <2>5, <3>3, <3>6, <3>7, <3>8
         DEF Position, Fetching, Reading
    <3> QED
      BY <2>7, <3>4, <3>5, <3>9 DEF CursorInv
  <2> QED
    BY <1>7, <2>8, <2>9 DEF MessageEnds
<1> QED
  BY <1>1, <1>4, <1>5, <1>6, <1>7

LEMMA CursorStep ==
    ASSUME CursorInv, TypeOK, [FetchNext]_allVars
    PROVE  CursorInv'
<1>1. CASE ChannelStep
  BY <1>1, CursorChannel
<1>2. CASE \E start \in KnownOffsets \cup StrayOffsets, batch \in BatchSizes :
              FetchMessages(start, batch)
  BY <1>2, KnownOffsetsType, FetchAssumption, CursorFetch
<1>3. CASE NextSegment
  BY <1>3, CursorNext
<1>4. CASE ReadBuffer
  BY <1>4, CursorRead
<1>5. CASE ParseMessage
  BY <1>5, CursorParse
<1>6. CASE UNCHANGED allVars
  BY <1>6 DEF allVars, vars, CursorInv, FetchType, ListExists, Position,
              FetchedAdjacent, Fetching, Reading, Collected, Here
<1> QED
  BY <1>1, <1>2, <1>3, <1>4, <1>5, <1>6 DEF FetchNext

LEMMA CursorInvariant == FetchSpec => []CursorInv
<1>1. FetchInit /\ TypeOK => CursorInv
  BY CursorInit
<1>2. CursorInv /\ TypeOK /\ [FetchNext]_allVars => CursorInv'
  BY CursorStep
<1> QED
  BY <1>1, <1>2, FetchTypeCorrect, PTL DEF FetchSpec

\* The messages a fetch returns are adjacent and the first begins at the
\* start offset, under every fault, beside any appends and rotations, for
\* every batch and buffer size, and also from an offset inside a message.
THEOREM FetchesAdjacent == FetchSpec => []FetchedAdjacent
BY CursorInvariant, PTL DEF CursorInv

-----------------------------------------------------------------------------
(* Files without leftovers                                                 *)

NoCrash == "crash" \notin Faults
NoStrayOffsets == StrayOffsets = {}

\* What the theorems below assume of the faults and of the messages.
Calm == NoCrash /\ NoPowerLoss /\ NoShortWrite /\ MessagesFit

\* A file is whole envelopes to its end, and so is what is behind its header.
LEMMA WholeFile ==
    ASSUME FramedInv, FilesWhole, NEW b \in DOMAIN segs
    PROVE  LET d == segs[b].data
               h == segs[b].head - b
           IN  /\ b \in Nat /\ h \in Nat /\ Len(d) \in Nat /\ h <= Len(d)
               /\ d \in Seq(Nat)
               /\ Framed(d, 0, h) /\ Framed(d, h, Len(d))
               /\ Framed(d, 0, Len(d))
<1> DEFINE d == segs[b].data
           h == segs[b].head - b
<1>1. /\ b \in Nat /\ h \in Nat /\ Len(d) \in Nat /\ h <= Len(d)
      /\ segs[b].head \in Nat /\ d \in Seq(FileByte)
  BY FileFacts DEF FramedInv, ReplyInv, LayoutInv
<1>2. d \in Seq(Nat)
  BY <1>1, FileNat
<1>3. Framed(d, 0, h)
  BY DEF FramedInv, FilesFramed
<1>4. Framed(d, h, Len(d))
  <2>1. CASE b = Current
    <3>1. pc # "down" /\ b + Len(d) = handle.offset_head
      BY <2>1 DEF FilesWhole
    <3>2. Framed(d, h, handle.offset_head - b)
      BY <2>1, <3>1 DEF FramedInv, OpenFramed
    <3>3. handle.offset_head - b = Len(d)
      BY <1>1, <3>1
    <3> QED
      BY <3>2, <3>3
  <2>2. CASE b # Current
    <3>1. b + Len(d) = segs[b].head
      BY <2>2 DEF FilesWhole
    <3>2. h = Len(d)
      BY <1>1, <3>1
    <3> QED
      BY <1>1, <3>2, FramedEmpty
  <2> QED
    BY <2>1, <2>2
<1> HIDE DEF d, h
<1>5. Framed(d, 0, Len(d))
  BY <1>1, <1>3, <1>4, FramedCompose
<1> QED
  BY <1>1, <1>2, <1>3, <1>4, <1>5 DEF d, h

FilesSound ==
    FramedInv /\ FilesWhole =>
        \A b \in DOMAIN segs : /\ b \in Nat /\ Len(segs[b].data) \in Nat
                               /\ segs[b].data \in Seq(Nat)
                               /\ Framed(segs[b].data, 0, Len(segs[b].data))

LEMMA FilesSoundCorrect == FilesSound
BY WholeFile DEF FilesSound

\* The files cover the offsets one behind the other.
LEMMA FilesApart ==
    ASSUME FramedInv, FilesWhole, NEW b \in DOMAIN segs, NEW c \in DOMAIN segs,
           b < c
    PROVE  b + Len(segs[b].data) <= c
<1>1. IsLast(Current) /\ Contiguous
  BY DEF FramedInv, ReplyInv, LayoutInv, MemoryMatchesDisk, FilesWhole
<1>2. b \in Nat /\ c \in Nat /\ Current \in Nat
  BY WholeFile, TypeFacts DEF FramedInv, ReplyInv, LayoutInv, DiskInv
<1>3. c <= Current /\ ~IsLast(b)
  BY <1>1, <1>2 DEF IsLast
<1>4. b # Current
  BY <1>2, <1>3
<1>5. b + Len(segs[b].data) = segs[b].head
  BY <1>4 DEF FilesWhole
<1>6. c >= segs[b].head
  BY <1>1, <1>3 DEF Contiguous
<1> QED
  BY <1>5, <1>6

LEMMA FilesWholeInit == Init => FilesWhole
BY DEF Init, FilesWhole, File, Current

\* A write that leaves the descriptor alone has written nothing.
LEMMA AppendMoves ==
    ASSUME NoShortWrite, ReplyInv, SegmentAppend, pos' = pos
    PROVE  UNCHANGED <<segs, handle>>
<1>1. pc = "write"
  BY DEF SegmentAppend, WriteFrame, WriteShort, WriteFails, WriteBytes
<1>2. call.msg \in Message /\ pos \in Nat
  BY <1>1 DEF ReplyInv, LayoutInv, DiskInv, TypeOK, CallType, MemoryType
<1>3. Len(Frame(call.msg)) \in Nat /\ Len(Frame(call.msg)) >= 1
  BY <1>2, FrameLen
<1>4. pos + Len(Frame(call.msg)) # pos
  BY <1>2, <1>3
<1> QED
  BY <1>4, SegmentAppendCases DEF NoShortWrite

LEMMA FilesWholeStep ==
    ASSUME NoCrash, NoPowerLoss, NoShortWrite, ReplyInv, FilesWhole,
           [Next]_vars
    PROVE  FilesWhole'
<1>0. /\ Current \in DOMAIN segs /\ Current \in Nat /\ pos \in Nat
      /\ handle.offset_head \in Nat /\ pos = handle.offset_head - Current
      /\ handle = [offset_begin |-> Current,
                   offset_head |-> handle.offset_head]
  BY OpenFacts DEF FilesWhole
<1>1. \A b \in DOMAIN segs :
        /\ b \in Nat /\ segs[b].data \in Seq(FileByte)
        /\ Len(segs[b].data) \in Nat
        /\ segs[b] = [head |-> segs[b].head, data |-> segs[b].data]
  BY TypeFacts DEF ReplyInv, LayoutInv, DiskInv
<1>2. CASE UNCHANGED <<segs, handle>> /\ pc' # "down"
  BY <1>2 DEF FilesWhole, Current
<1>3. CASE Rotate /\ pc' = "write"
  <2> DEFINE head == handle.offset_head
  <2>1. /\ segs' = With(segs, head, File(head)) /\ pc = "rotate"
        /\ handle' = [offset_begin |-> head, offset_head |-> head]
        /\ pc' = "write"
    BY <1>3 DEF Rotate, Return
  <2>2. segs[Current].head = head
    BY <2>1 DEF ReplyInv, LayoutInv, CommitNotForgotten
  <2>3. Current' = head /\ handle'.offset_head = head
    BY <2>1 DEF Current
  <2>4. DOMAIN segs' = DOMAIN segs \cup {head}
        /\ segs'[head] = [head |-> head, data |-> << >>]
        /\ \A b \in DOMAIN segs : b # head => segs'[b] = segs[b]
    BY <2>1 DEF With, File
  <2>5. \A b \in DOMAIN segs : b + Len(segs[b].data) = segs[b].head
    BY <2>2 DEF FilesWhole
  <2> QED
    BY <1>0, <2>1, <2>3, <2>4, <2>5 DEF FilesWhole
<1>4. CASE SegmentAppend /\ pos' # pos
  <2> DEFINE f == Frame(call.msg)
  <2>1. /\ segs' = [segs EXCEPT ![Current].data = WriteAt(@, pos, f)]
        /\ handle' = [handle EXCEPT !.offset_head = @ + Len(f)]
        /\ pc' = "sync"
    BY <1>4, SegmentAppendCases DEF NoShortWrite
  <2>2. Current' = Current /\ handle'.offset_head = handle.offset_head + Len(f)
    BY <1>0, <2>1 DEF Current
  <2>3. Current + Len(segs[Current].data) = handle.offset_head
    BY <1>0 DEF FilesWhole
  <2>4. pos = Len(segs[Current].data)
    BY <1>0, <1>1, <2>3
  <2>5. call.msg \in Message
    BY <1>4, AppendedFrame
  <2>6. f \in Seq(FileByte) /\ Len(f) \in Nat
    BY <2>5, FrameType
  <2> HIDE DEF f
  <2>7. segs'[Current].data = WriteAt(segs[Current].data, pos, f)
        /\ DOMAIN segs' = DOMAIN segs
        /\ \A b \in DOMAIN segs : b # Current => segs'[b] = segs[b]
    BY <1>0, <1>1, <2>1
  <2>8. Len(WriteAt(segs[Current].data, pos, f)) = pos + Len(f)
    <3> DEFINE d == segs[Current].data
    <3>1. d \in Seq(FileByte) /\ Len(d) \in Nat /\ pos = Len(d)
      BY <1>0, <1>1, <2>4
    <3> HIDE DEF d
    <3>2. (IF pos + Len(f) > Len(d) THEN pos + Len(f) ELSE Len(d))
            = pos + Len(f)
      BY <2>6, <3>1
    <3> QED
      BY <1>0, <2>6, <3>1, <3>2 DEF WriteAt, d
  <2>9. Current + (pos + Len(f)) = handle.offset_head + Len(f)
    BY <1>0, <1>1, <2>3, <2>4, <2>6
  <2> QED
    BY <1>0, <2>1, <2>2, <2>7, <2>8, <2>9 DEF FilesWhole
<1>5. CASE WriteHeader /\ segs' # segs
  <2>1. /\ segs' = [segs EXCEPT ![Current].head = handle.offset_head]
        /\ handle' = handle /\ pc' # "down"
    BY <1>5 DEF WriteHeader, Return
  <2>2. /\ DOMAIN segs' = DOMAIN segs
        /\ \A b \in DOMAIN segs : segs'[b].data = segs[b].data
        /\ \A b \in DOMAIN segs : b # Current => segs'[b] = segs[b]
    BY <1>0, <1>1, <2>1
  <2> QED
    BY <2>1, <2>2 DEF FilesWhole, Current
<1>6. \/ UNCHANGED <<segs, handle>> /\ pc' # "down"
      \/ Rotate /\ pc' = "write"
      \/ SegmentAppend /\ pos' # pos
      \/ WriteHeader /\ segs' # segs
  <2>1. pc # "down"
    BY DEF FilesWhole
  <2>2. SegmentAppend /\ pos' = pos => UNCHANGED <<segs, handle>>
    BY AppendMoves
  <2>3. SegmentAppend => pc' # "down"
    BY DEF SegmentAppend, WriteFrame, WriteShort, WriteFails, Return
  <2>4. WriteHeader => pc' # "down" /\ handle' = handle
    BY DEF WriteHeader, Return
  <2>5. Rotate => \/ pc' = "write"
                  \/ UNCHANGED <<segs, handle>> /\ pc' # "down"
    BY DEF Rotate, Return
  <2>6. SyncData \/ Commit \/ (\E m \in Message : AppendMessage(m))
          => UNCHANGED <<segs, handle>> /\ pc' # "down"
    BY DEF SyncData, Commit, AppendMessage, Return, memory
  <2>7. ~Crash /\ ~PowerLoss /\ ~OpenChannel
    BY <2>1 DEF Crash, PowerLoss, OpenChannel, Resume, NoCrash, NoPowerLoss
  <2>8. UNCHANGED vars => UNCHANGED <<segs, handle, pc>>
    BY DEF vars
  <2> QED
    BY <2>1, <2>2, <2>3, <2>4, <2>5, <2>6, <2>7, <2>8 DEF Next
<1> QED
  BY <1>2, <1>3, <1>4, <1>5, <1>6

\* A file only grows, and by a whole envelope.
LEMMA FilesGrow ==
    ASSUME Calm, FramedInv, FilesWhole, FramedInv', FilesWhole', [Next]_vars,
           NEW b \in DOMAIN segs
    PROVE  LET d == segs[b].data
               e == segs'[b].data
           IN  /\ b \in DOMAIN segs' /\ b \in Nat
               /\ Len(d) \in Nat /\ Len(e) \in Nat /\ Len(d) <= Len(e)
               /\ \A i \in 1 .. Len(d) : e[i] = d[i]
               /\ Framed(e, Len(d), Len(e))
<1> DEFINE d == segs[b].data
           e == segs'[b].data
<1>1. Calm => NoCrash /\ NoPowerLoss /\ NoShortWrite /\ MessagesFit
  BY DEF Calm
<1>2. b \in Nat /\ Len(d) \in Nat
  BY WholeFile
<1>3. pc # "down" /\ pc' # "down"
  BY DEF FilesWhole
<1>4. b \in DOMAIN segs'
  BY <1>3, FilesStay DEF FramedInv, ReplyInv, LayoutInv, DiskInv
<1>5. Len(e) \in Nat
  <2>1. FilesSound'
    BY FilesSoundCorrect, PTL
  <2> QED
    BY <1>4, <2>1 DEF FilesSound
<1>6. CASE e = d
  BY <1>2, <1>4, <1>5, <1>6, FramedEmpty
<1>7. CASE SegmentAppend /\ pos' # pos
  <2>0. ReplyInv /\ NoShortWrite
    BY <1>1 DEF FramedInv
  <2>1. /\ \A i \in 1 .. pos : segs'[Current].data[i] = segs[Current].data[i]
        /\ Holds(segs'[Current].data, pos, call.msg) /\ call.msg \in Message
        /\ Current' = Current
        /\ handle'.offset_head = handle.offset_head + Len(Frame(call.msg))
    BY <1>7, <2>0, AppendedFrame
  <2>2. /\ pos \in Nat /\ pos = handle.offset_head - Current
        /\ handle.offset_head \in Nat /\ Current \in Nat
    BY <1>3, <2>0, OpenFacts
  <2>3. CASE b = Current
    <3>1. b + Len(d) = handle.offset_head
      BY <2>3 DEF FilesWhole
    <3>2. Len(d) = pos
      BY <1>2, <2>2, <2>3, <3>1
    <3>3. b + Len(e) = handle.offset_head + Len(Frame(call.msg))
      BY <1>4, <2>1, <2>3 DEF FilesWhole
    <3>4. Len(Frame(call.msg)) \in Nat
      BY <2>1, FrameLen
    <3>5. Len(e) = pos + Len(Frame(call.msg))
      <4>1. \A k, l, m, n, o \in Nat : k + l = m /\ k + n = m + o => n = l + o
        OBVIOUS
      <4>2. Len(e) = Len(d) + Len(Frame(call.msg))
        <5> HIDE DEF d, e
        <5> QED
          BY <4>1, <1>2, <1>5, <2>2, <3>1, <3>3, <3>4
      <4> QED
        BY <3>2, <4>2
    <3>6. Framed(e, pos, pos + Len(Frame(call.msg)))
      BY <2>1, <2>2, <2>3, FramedOne
    <3> QED
      BY <1>2, <1>4, <1>5, <2>1, <2>2, <2>3, <3>2, <3>4, <3>5, <3>6
  <2>4. CASE b # Current
    <3>1. e = d
      <4>1. segs' = [segs EXCEPT ![Current].data =
                                    WriteAt(@, pos, Frame(call.msg))]
        BY <1>7, <2>0, SegmentAppendCases DEF NoShortWrite
      <4> QED
        BY <2>4, <4>1
    <3> QED
      BY <1>6, <3>1
  <2> QED
    BY <2>3, <2>4
<1>8. ~(SegmentAppend /\ pos' # pos) => e = d
  <2>1. SegmentAppend /\ pos' = pos => segs' = segs
    BY <1>1, AppendMoves DEF FramedInv
  <2>2. WriteHeader => e = d
    <3>1. segs = [c \in DOMAIN segs |-> segs[c]]
          /\ segs[b] = [head |-> segs[b].head, data |-> segs[b].data]
      BY TypeFacts DEF FramedInv, ReplyInv, LayoutInv, DiskInv
    <3> QED
      BY <3>1 DEF WriteHeader
  <2>3. Rotate => e = d
    <3> SUFFICES ASSUME Rotate PROVE e = d
      OBVIOUS
    <3>1. b # handle.offset_head \/ segs' = segs
      <4>1. /\ IsLast(Current) /\ Current < handle.offset_head
            /\ Current \in Nat /\ handle.offset_head \in Nat
        <5>1. Rotating /\ DiskInv
          BY DEF Rotate, Rotating, FramedInv, ReplyInv, LayoutInv
        <5> QED
          BY <1>3, <5>1, OpenFacts DEF DiskInv, OpenSegment, FramedInv
      <4>2. b <= Current
        BY <4>1 DEF IsLast
      <4> QED
        BY <1>2, <4>1, <4>2
    <3> QED
      BY <3>1 DEF Rotate, With
  <2>4. SyncData \/ Commit \/ (\E m \in Message : AppendMessage(m))
          => segs' = segs
    BY DEF SyncData, Commit, AppendMessage
  <2>5. ~Crash /\ ~PowerLoss /\ ~OpenChannel
    BY <1>1, <1>3
       DEF Crash, PowerLoss, OpenChannel, Resume, NoCrash, NoPowerLoss
  <2>6. UNCHANGED vars => segs' = segs
    BY DEF vars
  <2> QED
    BY <2>1, <2>2, <2>3, <2>4, <2>5, <2>6 DEF Next
<1> QED
  BY <1>6, <1>7, <1>8

-----------------------------------------------------------------------------
(* Places between messages                                                 *)

\* The numbers of bytes before and behind a boundary.
LEMMA BoundaryFacts ==
    ASSUME FramedInv, FilesWhole, NEW b \in DOMAIN segs, NEW x \in Nat,
           Boundary(b, x)
    PROVE  /\ b \in Nat /\ x - b \in Nat /\ x = b + (x - b)
           /\ Len(segs[b].data) \in Nat
           /\ x - b <= Len(segs[b].data)
           /\ x <= b + Len(segs[b].data)
<1> DEFINE L == Len(segs[b].data)
           p == x - b
<1>1. b \in Nat /\ L \in Nat
  BY WholeFile
<1>2. b <= x /\ Framed(segs[b].data, p, L)
  BY DEF Boundary
<1>3. p \in Nat /\ x = b + p
  BY <1>1, <1>2
<1> HIDE DEF p, L
<1>4. p \in p .. L
  BY <1>2 DEF Framed, Starts
<1> QED
  BY <1>1, <1>3, <1>4 DEF p, L

\* A place between two messages stays one.
LEMMA BoundaryStays ==
    ASSUME Calm, FramedInv, FilesWhole, FramedInv', FilesWhole', [Next]_vars,
           NEW b \in DOMAIN segs, NEW x \in Nat, Boundary(b, x)
    PROVE  /\ b \in DOMAIN segs' /\ b <= x
           /\ Framed(segs'[b].data, 0, x - b)
           /\ Framed(segs'[b].data, x - b, Len(segs'[b].data))
<1> DEFINE d == segs[b].data
           e == segs'[b].data
           p == x - b
<1>1. /\ b \in DOMAIN segs' /\ Len(d) \in Nat /\ Len(e) \in Nat
      /\ Len(d) <= Len(e) /\ \A i \in 1 .. Len(d) : e[i] = d[i]
      /\ Framed(e, Len(d), Len(e))
  BY FilesGrow
<1>2. p \in Nat /\ p <= Len(d)
  BY BoundaryFacts
<1>3. b <= x /\ Framed(d, 0, p) /\ Framed(d, p, Len(d))
  BY DEF Boundary
<1> HIDE DEF d, e, p
<1>4. p <= Len(e) /\ \A i \in 1 .. p : e[i] = d[i]
  BY <1>1, <1>2
<1>5. Framed(e, 0, p)
  BY <1>1, <1>2, <1>3, <1>4, FramedSame
<1>6. Framed(e, p, Len(d))
  BY <1>1, <1>2, <1>3, FramedSame
<1>7. Framed(e, p, Len(e))
  BY <1>1, <1>2, <1>6, FramedCompose
<1> QED
  BY <1>1, <1>3, <1>5, <1>7 DEF d, e, p

\* A message of a file stays where it is.
LEMMA WrittenStays ==
    ASSUME Calm, FramedInv, FilesWhole, FramedInv', FilesWhole', [Next]_vars,
           NEW b \in DOMAIN segs, NEW x \in Nat, NEW m \in Message,
           Written(b, x, m)
    PROVE  b \in DOMAIN segs' /\ Written(b, x, m)'
<1> DEFINE d == segs[b].data
           e == segs'[b].data
           p == x - b
           y == x + Len(Frame(m))
<1>1. /\ b \in DOMAIN segs' /\ Len(d) \in Nat /\ Len(e) \in Nat
      /\ Len(d) <= Len(e) /\ \A i \in 1 .. Len(d) : e[i] = d[i]
  BY FilesGrow
<1>2. Boundary(b, x) /\ Holds(d, p, m) /\ Boundary(b, y)
  BY DEF Written
<1>3. y \in Nat
  BY FrameLen
<1>4. p \in Nat
  BY <1>2, BoundaryFacts
<1>5. Holds(e, p, m)
  <2>1. p + Len(Frame(m)) <= Len(d)
    BY <1>2 DEF Holds
  <2> HIDE DEF d, e, p
  <2> QED
    BY <1>1, <1>2, <1>4, <2>1, HoldsSame
<1>6. b <= x /\ Framed(e, 0, p) /\ Framed(e, p, Len(e))
  BY <1>2, BoundaryStays
<1>7. b <= y /\ Framed(e, 0, y - b) /\ Framed(e, y - b, Len(e))
  <2> HIDE DEF y
  <2> QED
    BY <1>2, <1>3, BoundaryStays
<1> QED
  BY <1>1, <1>5, <1>6, <1>7 DEF Written, Boundary

\* In bytes that are whole envelopes there is one way to take them apart: a
\* run of envelopes from the start ends where another run has one begin.
LEMMA OneFraming ==
    ASSUME MessagesFit, NEW d \in Seq(Nat), NEW n \in Nat, NEW p \in Nat,
           p <= n, Framed(d, 0, p), NEW starts, Starts(d, 0, n, starts)
    PROVE  p \in starts
<1>1. PICK S \in SUBSET (0 .. p) : Starts(d, 0, p, S)
  BY DEF Framed
<1>2. S \subseteq 0 .. p /\ 0 \in S /\ p \in S /\ 0 \in starts
  BY <1>1 DEF Starts
<1> DEFINE G == S \cap starts
<1>3. G \subseteq 0 .. p /\ G # {}
  BY <1>2
<1>4. PICK g \in G : \A s \in G : s <= g
  <2> HIDE DEF G
  <2> QED
    BY <1>3, GreatestNat
<1>5. g \in S /\ g \in starts /\ g \in Nat /\ g <= p
  BY <1>2, <1>4
<1>6. CASE g = p
  BY <1>5, <1>6
<1>7. CASE g # p
  <2>1. PICK m \in Message : Holds(d, g, m) /\ g + Len(Frame(m)) \in S
    BY <1>1, <1>5, <1>7 DEF Starts
  <2>2. g # n
    BY <1>5, <1>7
  <2>3. PICK k \in Message : Holds(d, g, k) /\ g + Len(Frame(k)) \in starts
    BY <1>5, <2>2 DEF Starts
  <2>4. m = k
    BY <1>5, <2>1, <2>3, FrameUnique
  <2>5. g + Len(Frame(m)) \in G
    BY <2>1, <2>3, <2>4
  <2>6. g + Len(Frame(m)) > g
    BY <1>5, FrameLen
  <2>7. g + Len(Frame(m)) <= g
    BY <1>4, <2>5
  <2> QED
    BY <1>5, <2>6, <2>7, FrameLen
<1> QED
  BY <1>6, <1>7

\* So no place between two messages lies inside another message.
LEMMA NoneInside ==
    ASSUME MessagesFit, NEW d \in Seq(Nat), NEW p \in Nat, NEW q \in Nat,
           NEW m \in Message, Framed(d, 0, p), Holds(d, p, m),
           Framed(d, p + Len(Frame(m)), Len(d)), Framed(d, 0, q),
           p <= q, q < p + Len(Frame(m))
    PROVE  q = p
<1> DEFINE r == p + Len(Frame(m))
           n == Len(d)
<1>1. n \in Nat /\ r \in Nat /\ p < r
  BY FrameLen
<1>2. PICK A \in SUBSET (0 .. p) : Starts(d, 0, p, A)
  BY DEF Framed
<1>3. PICK B \in SUBSET (r .. n) : Starts(d, r, n, B)
  BY DEF Framed
<1> HIDE DEF n
<1>4. r <= n
  BY <1>1, <1>3 DEF Starts
<1>5. Starts(d, 0, n, A \cup B)
  <2>1. A \cup B \subseteq 0 .. n /\ {0, n} \subseteq A \cup B
    <3>1. A \subseteq 0 .. n /\ B \subseteq 0 .. n
      BY <1>1, <1>4
    <3>2. 0 \in A /\ n \in B
      BY <1>2, <1>3 DEF Starts
    <3> QED
      BY <3>1, <3>2
  <2>2. ASSUME NEW s \in (A \cup B) \ {n}
        PROVE  \E k \in Message :
                  Holds(d, s, k) /\ s + Len(Frame(k)) \in A \cup B
    <3>1. CASE s = p
      <4>1. r \in B
        BY <1>3 DEF Starts
      <4> QED
        BY <3>1, <4>1
    <3>2. CASE s \in A /\ s # p
      BY <1>2, <3>2 DEF Starts
    <3>3. CASE s \in B
      BY <1>3, <2>2, <3>3 DEF Starts
    <3> QED
      BY <2>2, <3>1, <3>2, <3>3
  <2> QED
    BY <2>1, <2>2 DEF Starts
<1>6. q \in A \cup B
  <2>1. q <= n
    BY <1>1, <1>4
  <2> QED
    BY <1>1, <1>5, <2>1, OneFraming
<1> QED
  BY <1>1, <1>6

\* In all files together no place between two messages lies inside another
\* message.
LEMMA NoneInsideFiles ==
    ASSUME MessagesFit, FramedInv, FilesWhole,
           NEW b \in DOMAIN segs, NEW x \in Nat, NEW m \in Message,
           Written(b, x, m), NEW c \in DOMAIN segs, NEW y \in Nat,
           Boundary(c, y), x <= y, y < x + Len(Frame(m))
    PROVE  \/ c = b /\ y = x
           \/ c < b /\ y = x
<1> DEFINE f == Len(Frame(m))
           Lb == Len(segs[b].data)
           Lc == Len(segs[c].data)
<1>1. f \in Nat /\ f >= 1
  BY FrameLen
<1>2. Boundary(b, x) /\ Holds(segs[b].data, x - b, m) /\ Boundary(b, x + f)
  BY DEF Written
<1>3. /\ b \in Nat /\ x - b \in Nat /\ Lb \in Nat /\ b <= x
  BY <1>2, BoundaryFacts DEF Boundary
<1>4. x + f \in Nat
  BY <1>1
<1>5. x + f <= b + Lb /\ (x + f) - b \in Nat
  <2> DEFINE z == x + f
  <2>1. z \in Nat /\ Boundary(b, z)
    BY <1>2, <1>4
  <2> HIDE DEF z
  <2>2. z <= b + Len(segs[b].data) /\ z - b \in Nat
    BY <2>1, BoundaryFacts
  <2> QED
    BY <2>2 DEF z
<1>6. /\ c \in Nat /\ y - c \in Nat /\ Lc \in Nat /\ c <= y /\ y <= c + Lc
  BY BoundaryFacts DEF Boundary
<1>7. CASE c = b
  <2>1. segs[b].data \in Seq(Nat)
    BY WholeFile
  <2>2. /\ Framed(segs[b].data, 0, x - b)
        /\ Framed(segs[b].data, (x + f) - b, Lb)
        /\ Framed(segs[b].data, 0, y - b)
    BY <1>2, <1>7 DEF Boundary
  <2>3. (x + f) - b = (x - b) + f /\ x - b <= y - b /\ y - b < (x - b) + f
    <3> HIDE DEF f
    <3> QED
      BY <1>1, <1>3 DEF f
  <2>4. y - b = x - b
    BY <1>2, <1>3, <1>6, <1>7, <2>1, <2>2, <2>3, NoneInside
  <2> QED
    BY <1>3, <1>7, <2>4
<1>8. CASE b < c
  <2>1. b + Lb <= c
    BY <1>8, FilesApart
  <2> HIDE DEF Lb, f
  <2> QED
    BY <1>1, <1>3, <1>5, <1>6, <2>1 DEF f
<1>9. CASE c < b
  <2>1. c + Lc <= b
    BY <1>9, FilesApart
  <2> HIDE DEF Lc
  <2> QED
    BY <1>3, <1>6, <1>9, <2>1
<1> QED
  BY <1>3, <1>6, <1>7, <1>8, <1>9

\* An offset is that of at most one message.
LEMMA WrittenOnce ==
    ASSUME MessagesFit, FramedInv, FilesWhole,
           NEW b \in DOMAIN segs, NEW x \in Nat, NEW m \in Message,
           Written(b, x, m), NEW c \in DOMAIN segs, NEW y \in Nat,
           NEW k \in Message, Written(c, y, k),
           x <= y, y < x + Len(Frame(m))
    PROVE  x = y /\ m = k
<1>1. Boundary(c, y) /\ Boundary(b, x)
  BY DEF Written
<1>2. x = y /\ (c = b \/ c < b)
  BY <1>1, NoneInsideFiles
<1>3. y <= x /\ x < y + Len(Frame(k))
  BY <1>2, FrameLen
<1>4. c = b \/ b < c
  BY <1>1, <1>3, NoneInsideFiles
<1>5. b \in Nat /\ c \in Nat
  BY WholeFile
<1>6. c = b
  BY <1>2, <1>4, <1>5
<1>7. Holds(segs[b].data, x - b, m) /\ Holds(segs[b].data, x - b, k)
  BY <1>2, <1>6 DEF Written
<1>8. segs[b].data \in Seq(Nat) /\ x - b \in Nat
  BY <1>1, WholeFile, BoundaryFacts
<1> QED
  BY <1>2, <1>7, <1>8, FrameUnique

\* A boundary that lies in a file is one of that file.
LEMMA BoundaryOf ==
    ASSUME FramedInv, FilesWhole, NEW b \in DOMAIN segs, NEW x \in Nat,
           b <= x, x < b + Len(segs[b].data), OnBoundary(x)
    PROVE  Boundary(b, x)
<1>1. PICK c \in DOMAIN segs : Boundary(c, x)
  BY DEF OnBoundary
<1>2. /\ c \in Nat /\ c <= x /\ x <= c + Len(segs[c].data)
      /\ Len(segs[c].data) \in Nat
  BY <1>1, BoundaryFacts DEF Boundary
<1>3. b \in Nat /\ Len(segs[b].data) \in Nat
      /\ Framed(segs[b].data, 0, Len(segs[b].data))
  BY WholeFile
<1>4. CASE c = b
  BY <1>1, <1>4
<1>5. CASE c < b
  <2>1. c + Len(segs[c].data) <= b
    BY <1>5, FilesApart
  <2>2. x = b
    BY <1>2, <1>3, <2>1
  <2>3. x - b = 0
    BY <1>3, <2>2
  <2> QED
    BY <1>3, <2>3, FramedEmpty DEF Boundary
<1>6. CASE b < c
  <2>1. b + Len(segs[b].data) <= c
    BY <1>6, FilesApart
  <2> QED
    BY <1>2, <1>3, <2>1
<1> QED
  BY <1>2, <1>3, <1>4, <1>5, <1>6

\* The answers to appends are messages of the files.
LEMMA AckedWritten ==
    ASSUME FramedInv, FilesWhole, NEW i \in 1 .. Len(acked)
    PROVE  /\ acked[i].offset \in Nat /\ acked[i].msg \in Message
           /\ \E b \in DOMAIN segs :
                 /\ Written(b, acked[i].offset, acked[i].msg)
                 /\ End(acked[i]) <= segs[b].head
<1> DEFINE e == acked[i]
           R == [offset : Nat, msg : Message]
<1>1. acked \in Seq(R)
  BY DEF FramedInv, ReplyInv, LayoutInv, DiskInv, TypeOK, CallType
<1>2. e \in R
  <2> HIDE DEF R
  <2> QED
    BY <1>1
<1>3. e.offset \in Nat /\ e.msg \in Message
  BY <1>2
<1>4. PICK b \in DOMAIN segs :
         /\ Framed(segs[b].data, 0, e.offset - b)
         /\ Holds(segs[b].data, e.offset - b, e.msg)
         /\ Framed(segs[b].data, End(e) - b, segs[b].head - b)
  BY DEF FramedInv, AckedFramed, FramedIn
<1> DEFINE d == segs[b].data
           L == Len(d)
           h == segs[b].head - b
           x == e.offset
           y == End(e)
<1>5. /\ b \in Nat /\ h \in Nat /\ L \in Nat /\ h <= L /\ Framed(d, h, L)
      /\ segs[b].head \in Nat
  BY WholeFile, FileFacts DEF FramedInv, ReplyInv, LayoutInv
<1>6. /\ x - b >= 0 /\ (x - b) + Len(Frame(e.msg)) <= L
      /\ Len(Frame(e.msg)) \in Nat /\ Len(Frame(e.msg)) >= 1
      /\ y = x + Len(Frame(e.msg))
  BY <1>3, <1>4, FrameLen DEF Holds, End
<1> HIDE DEF e, L, h, d, x, y
<1>7. /\ x \in Nat /\ b <= x /\ x - b \in Nat /\ y \in Nat /\ b <= y
      /\ y - b \in Nat /\ y - b = (x - b) + Len(Frame(e.msg))
  <2> DEFINE k == Len(Frame(e.msg))
  <2>1. b \in Nat /\ x \in Nat /\ x - b >= 0 /\ k \in Nat /\ y = x + k
    BY <1>3, <1>5, <1>6 DEF x
  <2> HIDE DEF k
  <2>2. b <= x /\ x - b \in Nat /\ y \in Nat /\ b <= y /\ y - b \in Nat
        /\ y - b = (x - b) + k
    BY <2>1
  <2> QED
    BY <2>1, <2>2 DEF k
<1>8. Framed(d, 0, x - b) /\ Holds(d, x - b, e.msg) /\ Framed(d, y - b, h)
  BY <1>4 DEF d, x, y, h, e
<1>9. Framed(d, y - b, L)
  BY <1>5, <1>7, <1>8, FramedCompose
<1>10. Framed(d, x - b, y - b)
  BY <1>7, <1>8, <1>3, FramedOne
<1>11. Framed(d, 0, y - b) /\ Framed(d, x - b, L)
  BY <1>5, <1>7, <1>8, <1>9, <1>10, FramedCompose
<1>12. Boundary(b, x) /\ Boundary(b, y)
  BY <1>7, <1>8, <1>9, <1>11 DEF Boundary, L, d
<1>13. Written(b, x, e.msg)
  BY <1>6, <1>8, <1>12 DEF Written, d
<1>14. y <= segs[b].head
  <2>1. y - b \in y - b .. h
    BY <1>8 DEF Framed, Starts
  <2>2. y - b <= h
    BY <1>5, <1>7, <2>1
  <2> QED
    BY <1>5, <1>7, <2>2 DEF h
<1> QED
  BY <1>3, <1>13, <1>14 DEF e, x, y

\* The offsets a client knows lie between messages.
LEMMA KnownOnBoundary ==
    ASSUME FramedInv, FilesWhole, NEW x \in KnownOffsets
    PROVE  x \in Nat /\ OnBoundary(x)
<1>1. CASE x = 0
  <2>1. 0 \in DOMAIN segs
    BY DEF FramedInv, ReplyInv, LayoutInv, DiskInv, TypeOK, FilesType
  <2>2. Framed(segs[0].data, 0, Len(segs[0].data))
    BY <2>1, WholeFile
  <2>3. Framed(segs[0].data, 0, 0)
    BY FramedEmpty
  <2>4. Boundary(0, 0)
    BY <2>2, <2>3 DEF Boundary
  <2> QED
    BY <1>1, <2>1, <2>4 DEF OnBoundary
<1>2. ASSUME NEW i \in 1 .. Len(acked),
             x = acked[i].offset \/ x = End(acked[i])
      PROVE  x \in Nat /\ OnBoundary(x)
  <2>1. /\ acked[i].offset \in Nat /\ acked[i].msg \in Message
        /\ \E b \in DOMAIN segs : Written(b, acked[i].offset, acked[i].msg)
    BY AckedWritten
  <2>2. PICK b \in DOMAIN segs : Written(b, acked[i].offset, acked[i].msg)
    BY <2>1
  <2>3. Boundary(b, acked[i].offset) /\ Boundary(b, End(acked[i]))
    BY <2>2 DEF Written, End
  <2>4. End(acked[i]) \in Nat
    BY <2>1, FrameLen DEF End
  <2> QED
    BY <1>2, <2>1, <2>3, <2>4 DEF OnBoundary
<1>3. \/ x = 0
      \/ \E i \in 1 .. Len(acked) : x = acked[i].offset \/ x = End(acked[i])
  BY DEF KnownOffsets
<1> QED
  BY <1>1, <1>2, <1>3

-----------------------------------------------------------------------------
(* What the bytes mean that a fetch reads                                  *)

\* The fields of what was collected.
LEMMA EntryFacts ==
    ASSUME FetchType, NEW j \in 1 .. Len(entries)
    PROVE  /\ entries[j] = [offset |-> entries[j].offset,
                            next_offset |-> entries[j].next_offset,
                            data |-> entries[j].data]
           /\ entries[j].offset \in Nat /\ entries[j].next_offset \in Nat
<1>1. entries \in Seq(FetchEntry)
  BY DEF FetchType
<1>2. entries[j] \in FetchEntry
  <2> HIDE DEF FetchEntry
  <2> QED
    BY <1>1
<1> QED
  BY <1>2 DEF FetchEntry

\* The answers that were there before the fetch began.
LEMMA KnownFacts ==
    ASSUME FramedInv, FilesWhole, FetchType, NEW i \in 1 .. fetch.known
    PROVE  i \in 1 .. Len(acked) /\ acked[i].offset \in Nat
<1>1. acked \in Seq([offset : Nat, msg : Message])
  BY DEF FramedInv, ReplyInv, LayoutInv, DiskInv, TypeOK, CallType
<1>2. fetch.known \in Nat /\ fetch.known <= Len(acked)
  BY FetchFields DEF FetchType
<1>3. i \in 1 .. Len(acked)
  BY <1>1, <1>2
<1> QED
  BY <1>3, AckedWritten

\* Adjacent messages of the files are all the messages there are from the
\* first one to the last.
LEMMA AgreesCorrect ==
    ASSUME MessagesFit, FramedInv, WholeInv
    PROVE  FetchedAgrees
<1> SUFFICES ASSUME NEW i \in 1 .. Len(acked),
                    entries # << >>, fetch.from <= acked[i].offset,
                    acked[i].offset < entries[Len(entries)].next_offset
             PROVE  Returned(acked[i])
  BY DEF FetchedAgrees
<1> DEFINE e == acked[i]
           T == {j \in 1 .. Len(entries) : e.offset < entries[j].next_offset}
<1>1. /\ FetchType /\ FetchedAdjacent /\ EntriesWritten /\ FilesWhole
      /\ entries \in Seq(FetchEntry) /\ Len(entries) \in Nat
      /\ fetch.from \in Nat
  BY FetchFields DEF WholeInv, CursorInv
<1>2. /\ e.offset \in Nat /\ e.msg \in Message
      /\ \E b \in DOMAIN segs : Written(b, e.offset, e.msg)
  BY <1>1, AckedWritten
<1> HIDE DEF e
<1>3. Len(entries) \in 1 .. Len(entries)
  BY <1>1
<1>4. T \subseteq Nat /\ T # {}
  BY <1>1, <1>3 DEF e
<1>5. PICK j \in T : \A k \in T : j <= k
  <2> HIDE DEF T
  <2> QED
    BY <1>4, LeastNat
<1>6. j \in 1 .. Len(entries) /\ e.offset < entries[j].next_offset
  BY <1>5
<1>7. entries[j].offset <= e.offset
  <2>1. CASE j = 1
    BY <1>1, <1>6, <2>1 DEF FetchedAdjacent, e
  <2>2. CASE j # 1
    <3>1. j - 1 \in 1 .. Len(entries) /\ ~(j <= j - 1)
      BY <1>1, <1>6, <2>2
    <3>2. ~(e.offset < entries[j - 1].next_offset)
      BY <1>5, <3>1
    <3>3. entries[j].offset = entries[j - 1].next_offset
      BY <1>1, <1>6, <2>2 DEF FetchedAdjacent
    <3>4. entries[j - 1].next_offset \in Nat
      BY <1>1, <3>1, EntryFacts
    <3> QED
      BY <1>2, <3>2, <3>3, <3>4
  <2> QED
    BY <2>1, <2>2
<1>8. /\ entries[j].data \in Message
      /\ entries[j].next_offset =
            entries[j].offset + Len(Frame(entries[j].data))
      /\ \E b \in DOMAIN segs : Written(b, entries[j].offset, entries[j].data)
  BY <1>1, <1>6 DEF EntriesWritten
<1>9. PICK b \in DOMAIN segs : Written(b, entries[j].offset, entries[j].data)
  BY <1>8
<1>10. PICK c \in DOMAIN segs : Written(c, e.offset, e.msg)
  BY <1>2
<1>11. entries[j].offset \in Nat
  BY <1>1, <1>6, EntryFacts
<1>12. entries[j].offset = e.offset /\ entries[j].data = e.msg
  BY <1>1, <1>2, <1>6, <1>7, <1>8, <1>9, <1>10, <1>11, WrittenOnce
<1>13. entries[j].next_offset = End(e)
  BY <1>8, <1>12 DEF End
<1>14. entries[j] = [offset |-> e.offset, next_offset |-> End(e),
                     data |-> e.msg]
  BY <1>1, <1>6, <1>12, <1>13, EntryFacts
<1> QED
  BY <1>6, <1>14 DEF Returned, e

LEMMA HereType ==
    ASSUME FetchType
    PROVE  Here \in Nat
<1>1. /\ fetch.segment.offset_begin \in Nat /\ fetch.file_offset \in Nat
      /\ fetch.cur \in Nat
  BY FetchFields
<1> QED
  BY <1>1 DEF Here

LEMMA WholeInit ==
    ASSUME FetchInit, CursorInv
    PROVE  WholeInv
<1>1. Init /\ fetch.step = "none" /\ entries = << >>
  BY DEF FetchInit, NoFetch
<1>2. FilesWhole
  BY <1>1, FilesWholeInit
<1> QED
  BY <1>1, <1>2 DEF WholeInv, ListWhole, EntriesWritten, BufferWhole, Pending,
                    FetchedAll, Fetching, Reading

\* What appends, commits and rotations do below a fetch.
LEMMA WholeChannel ==
    ASSUME Calm, FramedInv, FramedInv', WholeInv, CursorInv', ChannelStep
    PROVE  WholeInv'
<1>1. /\ CursorInv /\ FilesWhole /\ ListWhole /\ EntriesWritten /\ BufferWhole
      /\ Pending /\ FetchedAll /\ FetchType /\ ListExists /\ TypeOK
  BY DEF WholeInv, CursorInv, FramedInv, ReplyInv, LayoutInv, DiskInv
<1>2. [Next]_vars
  BY DEF ChannelStep
<1>3. FilesWhole'
  BY <1>1, <1>2, FilesWholeStep DEF Calm, FramedInv
<1>4. UNCHANGED <<fetch, entries>>
  BY <1>3 DEF ChannelStep, fetchVars, FilesWhole
<1>5. /\ Len(acked) \in Nat /\ Len(acked') \in Nat /\ Len(acked) <= Len(acked')
      /\ \A i \in 1 .. Len(acked) : acked'[i] = acked[i]
  BY <1>1, <1>2, AnswersStay
<1>6. fetch.known \in Nat /\ fetch.known <= Len(acked)
  BY <1>1, FetchFields DEF FetchType
<1>7. \A i \in 1 .. fetch.known : i \in 1 .. Len(acked) /\ acked'[i] = acked[i]
  BY <1>5, <1>6
<1>8. ASSUME NEW b \in DOMAIN segs, NEW x \in Nat, Boundary(b, x)
      PROVE  b \in DOMAIN segs' /\ Boundary(b, x)'
  BY <1>1, <1>2, <1>3, <1>8, BoundaryStays DEF Boundary
<1>9. ListWhole'
  <2> SUFFICES ASSUME Fetching, NEW s \in fetch.segments
               PROVE  Boundary(s.offset_begin, s.offset_head)'
    BY <1>4 DEF ListWhole, Fetching
  <2>1. s.offset_begin \in DOMAIN segs
    BY <1>1 DEF ListExists
  <2>2. s.offset_head \in Nat
    BY <1>1, FetchFields DEF Segment
  <2>3. Boundary(s.offset_begin, s.offset_head)
    BY <1>1 DEF ListWhole
  <2> QED
    BY <1>8, <2>1, <2>2, <2>3
<1>10. EntriesWritten'
  <2> SUFFICES ASSUME NEW j \in 1 .. Len(entries)
               PROVE  /\ entries[j].data \in Message
                      /\ entries[j].next_offset =
                            entries[j].offset + Len(Frame(entries[j].data))
                      /\ \E b \in DOMAIN segs' :
                            Written(b, entries[j].offset, entries[j].data)'
    BY <1>4 DEF EntriesWritten
  <2>1. /\ entries[j].data \in Message
        /\ entries[j].next_offset =
              entries[j].offset + Len(Frame(entries[j].data))
        /\ \E b \in DOMAIN segs :
              Written(b, entries[j].offset, entries[j].data)
    BY <1>1 DEF EntriesWritten
  <2>2. PICK b \in DOMAIN segs : Written(b, entries[j].offset, entries[j].data)
    BY <2>1
  <2>3. entries[j].offset \in Nat
    BY <1>1, EntryFacts
  <2> DEFINE x == entries[j].offset
             m == entries[j].data
  <2>4. ASSUME NEW y \in Nat, NEW k \in Message, Written(b, y, k)
        PROVE  b \in DOMAIN segs' /\ Written(b, y, k)'
    BY <1>1, <1>2, <1>3, <2>4, WrittenStays
  <2>5. x' = x /\ m' = m
    BY <1>4
  <2> QED
    BY <1>4, <2>1, <2>2, <2>3, <2>4
<1>11. BufferWhole'
  <2>1. UNCHANGED <<fetch.step, fetch.segment, fetch.file_offset, fetch.buf,
                    fetch.cur, fetch.msg, fetch.msg_len, fetch.start, Here>>
    BY <1>4 DEF Here
  <2>2. ASSUME fetch.step = "next"
        PROVE  OnBoundary(fetch.start)'
    <3>1. PICK b \in DOMAIN segs : Boundary(b, fetch.start)
      BY <1>1, <2>2 DEF BufferWhole, OnBoundary
    <3>2. fetch.start \in Nat
      BY <1>1, FetchFields
    <3>3. b \in DOMAIN segs' /\ Boundary(b, fetch.start)'
      BY <1>8, <2>1, <3>1, <3>2
    <3> QED
      BY <3>3 DEF OnBoundary
  <2> DEFINE b == fetch.segment.offset_begin
             at == fetch.file_offset
             d == segs[b].data
  <2>3. ASSUME fetch.step = "parse"
        PROVE  /\ at + Len(fetch.buf) <= Len(d')
               /\ \A i \in 1 .. Len(fetch.buf) : fetch.buf[i] = d'[at + i]
    <3>1. b \in DOMAIN segs
      BY <1>1, <2>3 DEF ListExists, Reading, Fetching
    <3>2. /\ Len(d) \in Nat /\ Len(segs'[b].data) \in Nat
          /\ Len(d) <= Len(segs'[b].data)
          /\ \A i \in 1 .. Len(d) : segs'[b].data[i] = d[i]
      <4>1. ASSUME NEW c \in DOMAIN segs
            PROVE  /\ Len(segs[c].data) \in Nat /\ Len(segs'[c].data) \in Nat
                   /\ Len(segs[c].data) <= Len(segs'[c].data)
                   /\ \A i \in 1 .. Len(segs[c].data) :
                         segs'[c].data[i] = segs[c].data[i]
        BY <1>1, <1>2, <1>3, FilesGrow
      <4> QED
        BY <3>1, <4>1
    <3>3. /\ at + Len(fetch.buf) <= Len(d)
          /\ \A i \in 1 .. Len(fetch.buf) : fetch.buf[i] = d[at + i]
      BY <1>1, <2>3 DEF BufferWhole
    <3>4. at \in Nat /\ Len(fetch.buf) \in Nat
      BY <1>1, FetchFields
    <3>5. d' = segs'[b].data
      BY <2>1
    <3> HIDE DEF d, at, b
    <3>6. \A i \in 1 .. Len(fetch.buf) : at + i \in 1 .. Len(d)
      BY <3>2, <3>3, <3>4
    <3> QED
      BY <3>2, <3>3, <3>4, <3>5, <3>6
  <2>4. ASSUME Reading, fetch.msg_len = 0
        PROVE  Boundary(b, Here)'
    <3>1. b \in DOMAIN segs
      BY <1>1, <2>4 DEF ListExists, Reading, Fetching
    <3>2. Boundary(b, Here)
      BY <1>1, <2>4 DEF BufferWhole, PartWhole
    <3>3. Here \in Nat
      BY <1>1, HereType
    <3> QED
      BY <1>8, <2>1, <3>1, <3>2, <3>3
  <2>5. ASSUME Reading, fetch.msg_len # 0
        PROVE  \E m \in Message :
                  /\ Written(b, fetch.msg.offset, m)'
                  /\ fetch.msg_len <= Len(m)
                  /\ fetch.msg.data = SubSeq(m, 1, Len(m) - fetch.msg_len)
                  /\ fetch.msg.next_offset =
                        fetch.msg.offset + Len(Frame(m))
    <3>1. PICK m \in Message :
                  /\ Written(b, fetch.msg.offset, m)
                  /\ fetch.msg_len <= Len(m)
                  /\ fetch.msg.data = SubSeq(m, 1, Len(m) - fetch.msg_len)
                  /\ fetch.msg.next_offset =
                        fetch.msg.offset + Len(Frame(m))
      BY <1>1, <2>5 DEF BufferWhole, PartWhole
    <3>2. fetch.msg.offset \in Nat /\ b \in DOMAIN segs
      BY <1>1, <2>5, FetchFields DEF ListExists, Reading, Fetching
    <3>3. ASSUME NEW c \in DOMAIN segs, NEW y \in Nat, Written(c, y, m)
          PROVE  Written(c, y, m)'
      BY <1>1, <1>2, <1>3, <3>3, WrittenStays
    <3>4. Written(b, fetch.msg.offset, m)'
      BY <2>1, <3>1, <3>2, <3>3
    <3> QED
      BY <3>1, <3>4
  <2> HIDE DEF b, at
  <2> QED
    BY <2>1, <2>2, <2>3, <2>4, <2>5
       DEF BufferWhole, PartWhole, Reading, b, at
<1>12. Pending'
  BY <1>1, <1>4, <1>7 DEF Pending, Fetching, Collected
<1>13. FetchedAll'
  BY <1>1, <1>4, <1>7 DEF FetchedAll, Returned
<1> QED
  BY <1>3, <1>9, <1>10, <1>11, <1>12, <1>13 DEF WholeInv

\* A fetch begins with the list of the segments, which end where the files do.
LEMMA WholeFetch ==
    ASSUME FramedInv, WholeInv, CursorInv', NEW start \in KnownOffsets,
           NEW batch \in Nat, FetchMessages(start, batch)
    PROVE  WholeInv'
<1>1. /\ FilesWhole /\ LayoutInv /\ MemoryMatchesDisk /\ TypeOK
      /\ Current \in DOMAIN segs
  BY DEF WholeInv, FramedInv, ReplyInv, LayoutInv, DiskInv, TypeOK, MemoryType
<1>2. /\ fetch' = [NoFetch EXCEPT !.step = "next", !.segments = SegmentList,
                                  !.start = start, !.from = start,
                                  !.batch = batch, !.known = Len(acked)]
      /\ entries' = << >> /\ UNCHANGED <<segs, handle, pc, acked>>
  BY DEF FetchMessages, vars
<1>3. /\ fetch'.step = "next" /\ fetch'.segments = SegmentList
      /\ fetch'.start = start /\ fetch'.from = start
      /\ fetch'.known = Len(acked)
  BY <1>2 DEF NoFetch
<1>4. ASSUME NEW s \in SegmentList
      PROVE  /\ s.offset_begin \in DOMAIN segs
             /\ s.offset_head = s.offset_begin + Len(segs[s.offset_begin].data)
  BY <1>1 DEF SegmentList, FilesWhole, MemoryMatchesDisk, Current
<1>5. ASSUME NEW b \in DOMAIN segs
      PROVE  [offset_begin |-> b, offset_head |-> b + Len(segs[b].data)]
                \in SegmentList
  <2>1. CASE b = Current
    <3>1. handle = [offset_begin |-> Current,
                    offset_head |-> handle.offset_head]
      BY <1>1, TypeFacts
    <3>2. handle.offset_head = b + Len(segs[b].data)
      BY <1>1, <2>1 DEF FilesWhole
    <3>3. handle \in SegmentList
      BY DEF SegmentList
    <3> QED
      BY <2>1, <3>1, <3>2, <3>3
  <2>2. CASE b # Current
    <3>1. b + Len(segs[b].data) = segs[b].head
      BY <1>1, <2>2 DEF FilesWhole
    <3>2. b \in DOMAIN archive /\ archive[b] = segs[b].head
      BY <1>1, <2>2 DEF MemoryMatchesDisk, FilesWhole
    <3> QED
      BY <3>1, <3>2 DEF SegmentList
  <2> QED
    BY <2>1, <2>2
<1>6. FilesWhole'
  BY <1>1, <1>2 DEF FilesWhole, Current
<1>7. ListWhole'
  <2>1. ASSUME NEW b \in DOMAIN segs
        PROVE  Boundary(b, b + Len(segs[b].data))
    <3>1. /\ b \in Nat /\ Len(segs[b].data) \in Nat
          /\ Framed(segs[b].data, 0, Len(segs[b].data))
      BY <1>1, WholeFile
    <3>2. Framed(segs[b].data, Len(segs[b].data), Len(segs[b].data))
      BY <3>1, FramedEmpty
    <3>3. (b + Len(segs[b].data)) - b = Len(segs[b].data)
          /\ b <= b + Len(segs[b].data)
      BY <3>1
    <3> QED
      BY <3>1, <3>2, <3>3 DEF Boundary
  <2>2. ASSUME NEW s \in SegmentList
        PROVE  Boundary(s.offset_begin, s.offset_head)'
    <3>1. Boundary(s.offset_begin, s.offset_head)
      BY <1>4, <2>1
    <3> QED
      BY <1>2, <3>1 DEF Boundary
  <2> QED
    BY <1>3, <2>2 DEF ListWhole
<1>8. BufferWhole'
  <2>1. start \in Nat /\ OnBoundary(start)
    BY <1>1, KnownOnBoundary
  <2>2. OnBoundary(start)'
    BY <1>2, <2>1 DEF OnBoundary, Boundary
  <2> QED
    BY <1>3, <2>2 DEF BufferWhole, Reading
<1>9. Pending'
  <2> SUFFICES ASSUME NEW i \in 1 .. Len(acked)
               PROVE  \E s \in SegmentList :
                         /\ s.offset_begin <= acked[i].offset
                         /\ acked[i].offset < s.offset_head
    BY <1>2, <1>3 DEF Pending
  <2> DEFINE x == acked[i].offset
             m == acked[i].msg
  <2>1. /\ x \in Nat /\ m \in Message
        /\ \E b \in DOMAIN segs : Written(b, x, m)
    BY <1>1, AckedWritten
  <2>2. PICK b \in DOMAIN segs : Written(b, x, m)
    BY <2>1
  <2> HIDE DEF x, m
  <2>3. b <= x /\ Boundary(b, x + Len(Frame(m)))
    BY <2>2 DEF Written, Boundary
  <2>4. Len(Frame(m)) \in Nat /\ Len(Frame(m)) >= 1
    BY <2>1, FrameLen
  <2> DEFINE y == x + Len(Frame(m))
  <2>5. y \in Nat /\ x < y /\ Boundary(b, y)
    BY <2>1, <2>3, <2>4
  <2> HIDE DEF y
  <2>6. y <= b + Len(segs[b].data) /\ b \in Nat /\ Len(segs[b].data) \in Nat
    BY <1>1, <2>5, BoundaryFacts
  <2>7. x < b + Len(segs[b].data)
    BY <2>1, <2>5, <2>6
  <2> QED
    BY <1>5, <2>3, <2>7 DEF x
<1> QED
  BY <1>2, <1>3, <1>6, <1>7, <1>8, <1>9
     DEF WholeInv, EntriesWritten, FetchedAll

LEMMA WholeReturn ==
    ASSUME WholeInv, CursorInv', NEW step \in {"ok", "EARG", "EIO"},
           FetchReturn(step), UNCHANGED vars, EntriesWritten', FetchedAll'
    PROVE  WholeInv'
<1>1. fetch'.step = step
  BY ReturnKeepsFrom
<1>2. FilesWhole'
  BY DEF WholeInv, FilesWhole, Current, vars
<1> QED
  BY <1>1, <1>2 DEF WholeInv, ListWhole, BufferWhole, Pending, Fetching, Reading

LEMMA EntriesStay ==
    ASSUME EntriesWritten, UNCHANGED <<vars, entries>>
    PROVE  EntriesWritten'
BY DEF EntriesWritten, Written, Boundary, vars

LEMMA FilesKept ==
    ASSUME FilesWhole, UNCHANGED vars
    PROVE  FilesWhole'
BY DEF FilesWhole, Current, vars

\* A call that fails promises nothing about acknowledged messages.
LEMMA WholeError ==
    ASSUME WholeInv, CursorInv', NEW step \in {"EARG", "EIO"},
           FetchReturn(step), UNCHANGED <<vars, entries>>
    PROVE  WholeInv'
<1>1. FetchedAll'
  BY ReturnKeepsFrom DEF FetchedAll
<1>2. EntriesWritten'
  BY EntriesStay DEF WholeInv
<1> QED
  BY <1>1, <1>2, WholeReturn

\* When no segment is left, everything that was acknowledged before the fetch
\* began, from its start offset on, is in front of it and was collected.
LEMMA WholeNextEnd ==
    ASSUME MessagesFit, FramedInv, WholeInv, CursorInv', fetch.step = "next",
           fetch.segments = {}, FetchReturn("ok"), UNCHANGED <<vars, entries>>
    PROVE  WholeInv'
<1>1. /\ FetchType /\ Pending /\ FetchedAgrees /\ FilesWhole /\ EntriesWritten
      /\ Fetching
  BY AgreesCorrect DEF WholeInv, CursorInv, Fetching
<1>2. fetch'.from = fetch.from /\ fetch'.known = fetch.known
  BY ReturnKeepsFrom
<1>3. ASSUME NEW i \in 1 .. fetch.known, acked[i].offset >= fetch.from
      PROVE  Returned(acked[i])
  <2>1. fetch.from \in Nat /\ Collected \in Nat
    BY <1>1, FetchFields
  <2>2. i \in 1 .. Len(acked) /\ acked[i].offset \in Nat
    BY <1>1, KnownFacts
  <2>4. acked[i].offset < Collected
    BY <1>1, <2>1, <2>2 DEF Pending
  <2>5. entries # << >>
    BY <1>3, <2>1, <2>2, <2>4 DEF Collected
  <2> QED
    BY <1>1, <1>3, <2>1, <2>2, <2>4, <2>5 DEF FetchedAgrees, Collected
<1>4. FetchedAll'
  BY <1>2, <1>3 DEF FetchedAll, Returned, vars
<1>5. EntriesWritten'
  BY <1>1, EntriesStay
<1> QED
  BY <1>4, <1>5, WholeReturn

LEMMA WholeNext ==
    ASSUME MessagesFit, FramedInv, WholeInv, CursorInv', NextSegment
    PROVE  WholeInv'
<1>1. /\ fetch.step = "next" /\ UNCHANGED <<vars, entries>> /\ Fetching
      /\ FetchType /\ Position /\ Pending /\ ListWhole /\ BufferWhole
      /\ FilesWhole /\ EntriesWritten /\ ListExists /\ fetch \in FetchRecord
  BY DEF NextSegment, WholeInv, CursorInv, Fetching, FetchType
<1>2. FilesWhole' /\ EntriesWritten'
  BY <1>1, FilesKept, EntriesStay
<1>3. CASE fetch.segments = {} /\ FetchReturn("ok")
  BY <1>1, <1>3, WholeNextEnd
<1>4. CASE FetchReturn("EARG")
  BY <1>1, <1>4, WholeError
<1>5. Collected' = Collected \/ entries = << >>
  BY <1>1 DEF Collected
<1>6. ASSUME NEW s \in fetch.segments, fetch.start >= s.offset_head,
             fetch' = [fetch EXCEPT !.segments = @ \ {s}]
      PROVE  WholeInv'
  <2>1. /\ fetch'.step = "next" /\ fetch'.segments = fetch.segments \ {s}
        /\ fetch'.start = fetch.start /\ fetch'.from = fetch.from
        /\ fetch'.known = fetch.known
    BY <1>1, <1>6 DEF FetchRecord
  <2>2. ListWhole'
    BY <1>1, <2>1 DEF ListWhole, Fetching, Boundary, vars
  <2>3. BufferWhole'
    BY <1>1, <2>1 DEF BufferWhole, Reading, OnBoundary, Boundary, vars
  <2>4. Collected' = Collected /\ Collected = fetch.start
        /\ acked' = acked
    BY <1>1, <2>1 DEF Collected, Position, vars
  <2>5. Pending'
    <3> SUFFICES ASSUME NEW i \in 1 .. fetch.known,
                        acked[i].offset >= fetch.start
                 PROVE  \E t \in fetch.segments \ {s} :
                           /\ t.offset_begin <= acked[i].offset
                           /\ acked[i].offset < t.offset_head
      BY <2>1, <2>4 DEF Pending
    <3>1. PICK t \in fetch.segments : /\ t.offset_begin <= acked[i].offset
                                      /\ acked[i].offset < t.offset_head
      BY <1>1, <2>4 DEF Pending
    <3>2. t # s
      <4>1. s.offset_head \in Nat /\ fetch.start \in Nat
        BY <1>1, FetchFields DEF Segment
      <4>2. i \in 1 .. Len(acked) /\ acked[i].offset \in Nat
        BY <1>1, KnownFacts
      <4> QED
        BY <1>6, <3>1, <4>1, <4>2
    <3> QED
      BY <3>1, <3>2
  <2> QED
    BY <1>2, <2>1, <2>2, <2>3, <2>5 DEF WholeInv, FetchedAll
<1>7. ASSUME NEW s \in fetch.segments,
             s.offset_begin <= fetch.start, fetch.start < s.offset_head,
             fetch' = [fetch EXCEPT
                         !.step = "read", !.segment = s,
                         !.file_offset = fetch.start - s.offset_begin]
      PROVE  WholeInv'
  <2>1. /\ fetch'.step = "read" /\ fetch'.segments = fetch.segments
        /\ fetch'.start = fetch.start /\ fetch'.from = fetch.from
        /\ fetch'.known = fetch.known /\ fetch'.segment = s
        /\ fetch'.file_offset = fetch.start - s.offset_begin
        /\ fetch'.cur = fetch.cur /\ fetch'.msg_len = fetch.msg_len
    BY <1>1, <1>7 DEF FetchRecord
  <2>2. /\ s.offset_begin \in Nat /\ s.offset_head \in Nat
        /\ fetch.start \in Nat /\ fetch.cur = 0 /\ fetch.msg_len = 0
        /\ s.offset_begin \in DOMAIN segs
    BY <1>1, FetchFields DEF Segment, FetchType, ListExists
  <2>3. Here' = fetch.start
    BY <2>1, <2>2 DEF Here
  <2>4. ListWhole' /\ Pending'
    BY <1>1, <2>1 DEF ListWhole, Pending, Fetching, Boundary, Collected, vars
  <2>5. Boundary(s.offset_begin, fetch.start)
    <3> DEFINE b == s.offset_begin
               x == fetch.start
               h == s.offset_head
    <3>1. Boundary(b, h) /\ OnBoundary(x)
      BY <1>1 DEF ListWhole, BufferWhole
    <3>2. h \in Nat /\ b \in Nat /\ b \in DOMAIN segs /\ x \in Nat
          /\ b <= x /\ x < h
      BY <1>7, <2>2
    <3> HIDE DEF b, x, h
    <3>3. h <= b + Len(segs[b].data) /\ Len(segs[b].data) \in Nat
      BY <1>1, <3>1, <3>2, BoundaryFacts
    <3>4. x < b + Len(segs[b].data)
      BY <3>2, <3>3
    <3>5. Boundary(b, x)
      BY <1>1, <3>1, <3>2, <3>4, BoundaryOf
    <3> QED
      BY <3>5 DEF b, x
  <2>6. BufferWhole'
    <3> DEFINE b == s.offset_begin
               x == fetch.start
    <3>1. /\ b <= x /\ Framed(segs'[b].data, 0, x - b)
          /\ Framed(segs'[b].data, x - b, Len(segs'[b].data))
      BY <1>1, <2>5 DEF Boundary, vars
    <3> HIDE DEF b, x
    <3>2. fetch'.segment.offset_begin = b /\ Here' = x
      BY <2>1, <2>3 DEF b, x
    <3>3. /\ fetch'.segment.offset_begin <= Here'
          /\ Framed(segs'[fetch'.segment.offset_begin].data, 0,
                    Here' - fetch'.segment.offset_begin)
          /\ Framed(segs'[fetch'.segment.offset_begin].data,
                    Here' - fetch'.segment.offset_begin,
                    Len(segs'[fetch'.segment.offset_begin].data))
      BY <3>1, <3>2
    <3> QED
      BY <2>1, <2>2, <3>3 DEF BufferWhole, PartWhole, Boundary
  <2> QED
    BY <1>2, <2>1, <2>4, <2>6 DEF WholeInv, FetchedAll
<1> QED
  BY <1>1, <1>3, <1>4, <1>6, <1>7 DEF NextSegment

LEMMA PartKept ==
    ASSUME PartWhole, UNCHANGED vars,
           UNCHANGED <<fetch.segment, fetch.msg, fetch.msg_len, Here>>
    PROVE  PartWhole'
BY DEF PartWhole, Written, Boundary, vars

\* A buffer that reaches offset_head ends where a message ends, or the fetch
\* has collected everything in front of offset_head: it holds no message of
\* which one part is in front of offset_head and the other behind it.
LEMMA HeadReached ==
    ASSUME MessagesFit, FramedInv, WholeInv, Reading,
           Here >= fetch.segment.offset_head
    PROVE  /\ Collected >= fetch.segment.offset_head
           /\ Boundary(fetch.segment.offset_begin, Collected)
           /\ entries # << >>
<1> DEFINE b == fetch.segment.offset_begin
           h == fetch.segment.offset_head
<1>1. /\ FetchType /\ ListExists /\ Position /\ ListWhole /\ BufferWhole
      /\ FilesWhole /\ Fetching
  BY DEF WholeInv, CursorInv, Reading, Fetching
<1>2. b \in DOMAIN segs /\ h \in Nat /\ Boundary(b, h) /\ Here \in Nat
      /\ fetch.msg.offset \in Nat /\ fetch.msg_len \in Nat
      /\ Collected \in Nat
  BY <1>1, FetchFields, HereType DEF ListExists, ListWhole
<1>3. Collected >= h /\ Boundary(b, Collected)
  <2>1. CASE fetch.msg_len = 0
    BY <1>1, <2>1 DEF Position, BufferWhole, PartWhole
  <2>2. CASE fetch.msg_len # 0
    <3>1. /\ fetch.msg.offset = Collected
          /\ fetch.msg.next_offset = Here + fetch.msg_len
      BY <1>1, <2>2 DEF Position
    <3>2. PICK m \in Message :
             /\ Written(b, Collected, m)
             /\ fetch.msg.next_offset = Collected + Len(Frame(m))
      BY <1>1, <2>2, <3>1 DEF BufferWhole, PartWhole
    <3>3. Boundary(b, Collected)
      BY <3>2 DEF Written
    <3>4. ASSUME ~(Collected >= h)
          PROVE  FALSE
      <4>1. Collected <= h /\ h < Collected + Len(Frame(m)) /\ Collected # h
        <5>1. Len(Frame(m)) \in Nat
          BY FrameLen
        <5> HIDE DEF h
        <5>2. Here >= h
          BY DEF h
        <5> QED
          BY <1>2, <2>2, <3>1, <3>2, <3>4, <5>1, <5>2
      <4>2. ASSUME NEW y \in Nat, Boundary(b, y), Collected <= y,
                   y < Collected + Len(Frame(m))
            PROVE  y = Collected
        BY <1>1, <1>2, <3>2, <4>2, NoneInsideFiles
      <4> QED
        BY <1>2, <4>1, <4>2
    <3> QED
      BY <3>3, <3>4
  <2> QED
    BY <2>1, <2>2
<1>4. entries # << >>
  <2>1. fetch.start < h /\ fetch.start \in Nat
    BY <1>1, FetchFields DEF Position
  <2>2. ASSUME entries = << >>
        PROVE  fetch.start = Collected
    BY <1>1, <2>2 DEF Position, Collected
  <2> HIDE DEF h
  <2> QED
    BY <1>2, <1>3, <2>1, <2>2
<1> QED
  BY <1>3, <1>4

LEMMA WholeRead ==
    ASSUME MessagesFit, FramedInv, WholeInv, CursorInv', ReadBuffer
    PROVE  WholeInv'
<1> DEFINE s == fetch.segment
           b == s.offset_begin
           at == fetch.file_offset
           data == segs[b].data
           size == IF at + kBufSize < Len(data) THEN at + kBufSize
                   ELSE Len(data)
<1>1. /\ fetch.step = "read" /\ UNCHANGED <<vars, entries>> /\ Fetching
      /\ FetchType /\ Position /\ Pending /\ ListWhole /\ BufferWhole
      /\ FilesWhole /\ EntriesWritten /\ ListExists /\ fetch \in FetchRecord
      /\ Reading
  BY DEF ReadBuffer, WholeInv, CursorInv, Fetching, Reading, FetchType
<1>2. FilesWhole' /\ EntriesWritten'
  BY <1>1, FilesKept, EntriesStay
<1>3. fetch.cur = 0 /\ Here = b + at /\ b \in Nat /\ s.offset_head \in Nat
      /\ at \in Nat /\ b \in DOMAIN segs
  <2>1. b \in Nat /\ s.offset_head \in Nat /\ at \in Nat
    BY <1>1, FetchFields
  <2>2. fetch.cur = 0
    BY <1>1 DEF FetchType
  <2>3. b \in DOMAIN segs
    BY <1>1 DEF ListExists
  <2>4. Here = b + at
    BY <2>1, <2>2 DEF Here
  <2> QED
    BY <2>1, <2>2, <2>3, <2>4
<1>4. CASE at >= s.offset_head - b /\ ReadReturn(entries)
  <2>1. Here >= s.offset_head
    <3> HIDE DEF s, at, b
    <3>1. at >= s.offset_head - b
      BY <1>4
    <3>2. s.offset_head \in Nat /\ b \in Nat /\ at \in Nat /\ Here = b + at
      BY <1>3
    <3> QED
      BY <3>1, <3>2
  <2>2. Boundary(b, Collected) /\ entries # << >> /\ Len(entries) # 0
    <3>1. Boundary(b, Collected) /\ entries # << >>
      BY <1>1, <2>1, HeadReached
    <3>2. entries \in Seq(FetchEntry)
      BY <1>1 DEF FetchType
    <3> HIDE DEF FetchEntry
    <3> QED
      BY <3>1, <3>2
  <2>3. CASE Len(entries) = fetch.batch /\ FetchReturn("ok")
    <3>1. fetch'.batch = fetch.batch
      BY <2>3, ReturnKeepsFrom
    <3>2. Len(entries) \in Nat
      BY <1>1, FetchFields
    <3>3. FetchedAll'
      BY <1>1, <2>2, <2>3, <3>1, <3>2 DEF FetchedAll
    <3> QED
      BY <1>1, <1>2, <2>3, <3>3, WholeReturn
  <2>4. CASE fetch' = [fetch EXCEPT
                         !.step = "next",
                         !.start = entries[Len(entries)].next_offset,
                         !.buf = << >>, !.cur = 0,
                         !.msg = NoMessage, !.msg_len = 0]
    <3>1. /\ fetch'.step = "next" /\ fetch'.segments = fetch.segments
          /\ fetch'.start = Collected /\ fetch'.known = fetch.known
      BY <1>1, <2>2, <2>4 DEF FetchRecord, Collected
    <3>2. Collected' = Collected /\ acked' = acked
      BY <1>1, <2>2 DEF Collected, vars
    <3>3. ListWhole' /\ Pending'
      BY <1>1, <3>1, <3>2 DEF ListWhole, Pending, Fetching, Boundary, vars
    <3>4. BufferWhole'
      <4>1. OnBoundary(Collected)
        BY <1>3, <2>2 DEF OnBoundary
      <4>2. OnBoundary(Collected)'
        BY <1>1, <3>2, <4>1 DEF OnBoundary, Boundary, vars
      <4>3. OnBoundary(fetch.start)'
        BY <3>1, <3>2, <4>2 DEF OnBoundary, Boundary
      <4> QED
        BY <3>1, <4>3 DEF BufferWhole, Reading
    <3> QED
      BY <1>2, <3>1, <3>3, <3>4 DEF WholeInv, FetchedAll
  <2> QED
    BY <1>4, <2>2, <2>3, <2>4 DEF ReadReturn
<1>5. CASE FetchReturn("EIO")
  BY <1>1, <1>5, WholeError
<1>6. CASE at < Len(data) /\ fetch' = [fetch EXCEPT
                               !.step = "parse", !.cur = 0,
                               !.buf = SubSeq(data, at + 1, size)]
  <2> DEFINE buf == SubSeq(data, at + 1, size)
  <2>1. data \in Seq(Nat) /\ Len(data) \in Nat
    BY <1>1, <1>3, WholeFile
  <2>2. kBufSize \in Nat
    BY FetchAssumption
  <2>3. at < Len(data) /\ at \in Nat
    BY <1>3, <1>6
  <2> HIDE DEF data, at
  <2>4. size \in Nat /\ at <= size /\ size <= Len(data)
    BY <2>1, <2>2, <2>3
  <2> HIDE DEF size
  <2>5. /\ buf \in Seq(Nat) /\ Len(buf) = size - at
        /\ \A i \in 1 .. size - at : buf[i] = data[at + i]
    BY <2>1, <2>3, <2>4, PartOf
  <2>6. at + Len(buf) <= Len(data)
    BY <2>3, <2>4, <2>5
  <2>7. fetch' = [fetch EXCEPT !.step = "parse", !.cur = 0, !.buf = buf]
    BY <1>6 DEF data, size
  <2> HIDE DEF buf
  <2>8. /\ fetch'.step = "parse" /\ fetch'.segments = fetch.segments
        /\ fetch'.segment = fetch.segment /\ fetch'.start = fetch.start
        /\ fetch'.known = fetch.known /\ fetch'.cur = 0 /\ fetch'.buf = buf
        /\ fetch'.msg = fetch.msg /\ fetch'.msg_len = fetch.msg_len
        /\ fetch'.file_offset = fetch.file_offset
        /\ fetch'.from = fetch.from
    BY <1>1, <2>7 DEF FetchRecord
  <2>9. ListWhole' /\ Pending'
    BY <1>1, <2>8
       DEF ListWhole, Pending, Fetching, Boundary, vars, Collected
  <2>10. Here' = Here
    BY <1>3, <2>8 DEF Here
  <2>11. PartWhole'
    BY <1>1, <2>8, <2>10, PartKept DEF BufferWhole
  <2>12. BufferWhole'
    BY <1>1, <2>5, <2>6, <2>8, <2>11 DEF BufferWhole, vars, data, at
  <2> QED
    BY <1>2, <2>8, <2>9, <2>12 DEF WholeInv, FetchedAll
<1> QED
  BY <1>4, <1>5, <1>6 DEF ReadBuffer

\* The rest of a run of envelopes, from where one of them begins, is a run.
LEMMA FramedRest ==
    ASSUME NEW d, NEW p \in Nat, NEW n \in Nat, NEW starts,
           Starts(d, p, n, starts), NEW q \in starts
    PROVE  Framed(d, q, n)
<1> DEFINE S == starts \cap (q .. n)
<1>1. q \in Nat /\ q <= n /\ starts \subseteq p .. n /\ n \in starts
  BY DEF Starts
<1>2. S \subseteq q .. n /\ {q, n} \subseteq S
  BY <1>1
<1>3. ASSUME NEW s \in S \ {n}
      PROVE  \E m \in Message : Holds(d, s, m) /\ s + Len(Frame(m)) \in S
  <2>1. PICK m \in Message : Holds(d, s, m) /\ s + Len(Frame(m)) \in starts
    BY <1>3 DEF Starts
  <2>2. Len(Frame(m)) \in Nat /\ s \in Nat /\ q <= s
    BY <1>1, <1>3, FrameLen
  <2>3. s + Len(Frame(m)) \in q .. n
    BY <1>1, <2>1, <2>2
  <2> QED
    BY <2>1, <2>3
<1>4. Starts(d, q, n, S)
  BY <1>2, <1>3 DEF Starts
<1> QED
  BY <1>2, <1>4 DEF Framed

\* Where bytes follow a boundary, a message does.
LEMMA BoundaryNext ==
    ASSUME FramedInv, FilesWhole, NEW b \in DOMAIN segs, NEW x \in Nat,
           Boundary(b, x), x < b + Len(segs[b].data)
    PROVE  \E m \in Message : Written(b, x, m)
<1> DEFINE d == segs[b].data
           n == Len(d)
           p == x - b
<1>1. b \in Nat /\ p \in Nat /\ n \in Nat /\ x = b + p /\ b <= x
      /\ Framed(d, 0, p) /\ Framed(d, p, n)
  BY BoundaryFacts DEF Boundary
<1>2. p # n
  <2> HIDE DEF p, n
  <2>1. x < b + n
    BY DEF n
  <2> QED
    BY <1>1, <2>1
<1> HIDE DEF p
<1>3. PICK S \in SUBSET (p .. n) : Starts(d, p, n, S)
  BY <1>1 DEF Framed
<1>4. PICK m \in Message : Holds(d, p, m) /\ p + Len(Frame(m)) \in S
  BY <1>2, <1>3 DEF Starts
<1> DEFINE f == Len(Frame(m))
<1>5. f \in Nat
  BY FrameLen
<1>6. Framed(d, p + f, n)
  BY <1>1, <1>3, <1>4, FramedRest
<1>7. Framed(d, 0, p + f)
  <2>1. Framed(d, p, p + f)
    BY <1>1, <1>4, FramedOne
  <2> HIDE DEF f, d
  <2> QED
    BY <1>1, <1>5, <2>1, FramedCompose
<1>8. b <= x + f /\ (x + f) - b = p + f
  <2> HIDE DEF f, d, n
  <2> QED
    BY <1>1, <1>5
<1>9. Boundary(b, x + f)
  BY <1>6, <1>7, <1>8 DEF Boundary
<1>10. Holds(d, x - b, m)
  BY <1>4 DEF p
<1> QED
  BY <1>9, <1>10 DEF Written

LEMMA ConcatFacts ==
    ASSUME NEW s \in Seq(Nat), NEW t \in Seq(Nat)
    PROVE  /\ s \o t \in Seq(Nat)
           /\ Len(s) \in Nat /\ Len(t) \in Nat
           /\ Len(s \o t) = Len(s) + Len(t)
           /\ \A i \in 1 .. Len(s) + Len(t) :
                 (s \o t)[i] = IF i <= Len(s) THEN s[i] ELSE t[i - Len(s)]
OBVIOUS

LEMMA SameSeq ==
    ASSUME NEW s \in Seq(Nat), NEW t \in Seq(Nat), Len(s) = Len(t),
           \A i \in 1 .. Len(s) : s[i] = t[i]
    PROVE  s = t
OBVIOUS

\* The bytes of buf behind the first c and up to e are those of m behind the
\* first n.
Follows(buf, c, e, m, n) == \A k \in 1 .. e - c : buf[c + k] = m[n + k]

\* Together with those n they are the first q of m.
Joins(buf, c, e, m, n, q) ==
    SubSeq(m, 1, n) \o SubSeq(buf, c + 1, e) = SubSeq(m, 1, q)

LEMMA JoinParts ==
    ASSUME NEW m \in Seq(Nat), NEW buf \in Seq(Nat), NEW c \in Nat,
           NEW e \in Nat, NEW n \in Nat, NEW q \in Nat,
           c <= e, e <= Len(buf), n <= q, q <= Len(m), q - n = e - c,
           Follows(buf, c, e, m, n)
    PROVE  Joins(buf, c, e, m, n, q)
<1> DEFINE a == SubSeq(m, 1, n)
           t == SubSeq(buf, c + 1, e)
           r == SubSeq(m, 1, q)
           w == e - c
<1>1. /\ Len(m) \in Nat /\ w \in Nat /\ q = n + w /\ n <= Len(m)
  OBVIOUS
<1>2. a \in Seq(Nat) /\ Len(a) = n /\ \A i \in 1 .. n : a[i] = m[i]
  BY <1>1
<1>3. r \in Seq(Nat) /\ Len(r) = q /\ \A i \in 1 .. q : r[i] = m[i]
  BY <1>1
<1>4. t \in Seq(Nat) /\ Len(t) = w /\ \A i \in 1 .. w : t[i] = m[n + i]
  <2>1. /\ t \in Seq(Nat) /\ Len(t) = e - c
        /\ \A i \in 1 .. e - c : t[i] = buf[c + i]
    BY PartOf
  <2> HIDE DEF t
  <2> QED
    BY <2>1 DEF Follows
<1> HIDE DEF a, t, r, w
<1>5. /\ a \o t \in Seq(Nat) /\ Len(a \o t) = n + w
      /\ \A i \in 1 .. n + w :
            (a \o t)[i] = IF i <= n THEN a[i] ELSE t[i - n]
  <2>1. a \in Seq(Nat) /\ t \in Seq(Nat) /\ Len(a) = n /\ Len(t) = w
    BY <1>2, <1>4
  <2>2. /\ a \o t \in Seq(Nat) /\ Len(a \o t) = Len(a) + Len(t)
        /\ \A i \in 1 .. Len(a) + Len(t) :
              (a \o t)[i] = IF i <= Len(a) THEN a[i] ELSE t[i - Len(a)]
    BY <2>1, ConcatFacts
  <2> QED
    BY <2>1, <2>2
<1>6. ASSUME NEW i \in 1 .. n + w
      PROVE  (a \o t)[i] = r[i]
  <2>1. CASE i <= n
    <3>1. i \in 1 .. n
      BY <1>1, <2>1
    <3> QED
      BY <1>1, <1>2, <1>3, <1>5, <2>1, <3>1
  <2>2. CASE ~(i <= n)
    <3>1. i - n \in 1 .. w /\ i = n + (i - n)
      BY <1>1, <2>2
    <3>2. (a \o t)[i] = t[i - n]
      BY <1>5, <2>2
    <3>3. t[i - n] = m[n + (i - n)]
      BY <1>4, <3>1
    <3> QED
      BY <1>1, <1>3, <3>1, <3>2, <3>3
  <2> QED
    BY <2>1, <2>2
<1>7. a \o t = r
  BY <1>1, <1>3, <1>5, <1>6, SameSeq
<1> QED
  BY <1>7 DEF a, t, r, Joins

\* The bytes of a message of a file.
LEMMA WrittenBytes ==
    ASSUME MessagesFit, FramedInv, FilesWhole, NEW b \in DOMAIN segs,
           NEW x \in Nat, NEW m \in Message, Written(b, x, m)
    PROVE  LET p == x - b
               n == VarUIntLen(Len(m))
           IN  /\ p \in Nat /\ b \in Nat /\ x = b + p
               /\ n \in Nat /\ n >= 1 /\ Len(m) \in Nat /\ m \in Seq(Nat)
               /\ Fits(Len(m)) /\ Len(Frame(m)) = n + Len(m)
               /\ \A j \in 1 .. n :
                     segs[b].data[p + j] = WriteVarUInt(Len(m))[j]
               /\ \A j \in 1 .. Len(m) : segs[b].data[(p + n) + j] = m[j]
<1> DEFINE p == x - b
           n == VarUIntLen(Len(m))
           d == segs[b].data
<1>1. p \in Nat /\ b \in Nat /\ x = b + p
  BY BoundaryFacts DEF Written
<1>2. /\ n \in Nat /\ n >= 1 /\ Len(m) \in Nat /\ m \in Seq(Nat)
      /\ Fits(Len(m)) /\ Len(Frame(m)) = n + Len(m)
      /\ \A i \in 1 .. n : Frame(m)[i] = WriteVarUInt(Len(m))[i]
      /\ \A i \in 1 .. Len(m) : Frame(m)[n + i] = m[i]
  BY FrameParts
<1>3. \A i \in 1 .. Len(Frame(m)) : d[p + i] = Frame(m)[i]
  BY DEF Written, Holds
<1> HIDE DEF p, n, d
<1>4. ASSUME NEW j \in 1 .. n
      PROVE  d[p + j] = WriteVarUInt(Len(m))[j]
  <2>1. j \in 1 .. Len(Frame(m))
    BY <1>2
  <2> QED
    BY <1>2, <1>3, <2>1
<1>5. ASSUME NEW j \in 1 .. Len(m)
      PROVE  d[(p + n) + j] = m[j]
  <2>1. n + j \in 1 .. Len(Frame(m)) /\ p + (n + j) = (p + n) + j
    BY <1>1, <1>2
  <2> QED
    BY <1>2, <1>3, <2>1
<1> QED
  BY <1>1, <1>2, <1>4, <1>5 DEF p, n, d

\* At a message that the buffer reaches, its length stands behind the cursor,
\* as far as the buffer goes.
LEMMA MessageAhead ==
    ASSUME MessagesFit, FramedInv, WholeInv, fetch.step = "parse",
           fetch.cur < Len(fetch.buf), fetch.msg_len = 0
    PROVE  \E m \in Message :
              /\ Written(fetch.segment.offset_begin, Collected, m)
              /\ Encoded(fetch.buf, fetch.cur, Len(m))
<1> DEFINE b == fetch.segment.offset_begin
           at == fetch.file_offset
           cur == fetch.cur
           buf == fetch.buf
           d == segs[b].data
           x == Collected
<1>1. /\ CursorInv /\ FetchType /\ ListExists /\ Position /\ BufferWhole
      /\ PartWhole /\ FilesWhole /\ Reading /\ Fetching
  BY DEF WholeInv, CursorInv, Reading, Fetching, BufferWhole
<1>2. /\ b \in DOMAIN segs /\ at \in Nat /\ cur \in Nat /\ buf \in Seq(Nat)
      /\ Len(buf) \in Nat /\ fetch.msg_len \in Nat /\ x \in Nat
      /\ Here = b + at + cur
  BY <1>1, FetchFields DEF ListExists, Here
<1>3. /\ at + Len(buf) <= Len(d)
      /\ \A i \in 1 .. Len(buf) : buf[i] = d[at + i]
  BY <1>1 DEF BufferWhole
<1>4. b \in Nat /\ d \in Seq(Nat) /\ Len(d) \in Nat /\ cur < Len(buf)
  BY <1>1, <1>2, WholeFile
<1>5. x = b + at + cur /\ Boundary(b, x)
  BY <1>1, <1>2 DEF Position, PartWhole
<1>6. x < b + Len(d)
  <2>1. /\ b \in Nat /\ at \in Nat /\ cur \in Nat /\ Len(buf) \in Nat
        /\ Len(d) \in Nat
    BY <1>2, <1>4
  <2>2. x = b + at + cur /\ cur < Len(buf) /\ at + Len(buf) <= Len(d)
    BY <1>3, <1>4, <1>5
  <2> HIDE DEF b, at, cur, buf, d, x
  <2> QED
    BY <2>1, <2>2
<1>7. PICK m \in Message : Written(b, x, m)
  BY <1>1, <1>2, <1>5, <1>6, BoundaryNext
<1> DEFINE p == x - b
           n == VarUIntLen(Len(m))
<1>8. /\ p \in Nat /\ x = b + p
      /\ n \in Nat /\ n >= 1 /\ Len(m) \in Nat /\ m \in Seq(Nat)
      /\ Fits(Len(m)) /\ Len(Frame(m)) = n + Len(m)
      /\ \A j \in 1 .. n : d[p + j] = WriteVarUInt(Len(m))[j]
      /\ \A j \in 1 .. Len(m) : d[(p + n) + j] = m[j]
  <2> HIDE DEF b, x
  <2> QED
    BY <1>1, <1>2, <1>7, WrittenBytes
<1> HIDE DEF p, n, b, at, cur, buf, d, x
<1>9. p = at + cur
  <2>1. x = b + p /\ x = b + at + cur
    BY <1>5, <1>8
  <2>2. b \in Nat /\ p \in Nat /\ at \in Nat /\ cur \in Nat
    BY <1>2, <1>4, <1>8
  <2> QED
    BY <2>1, <2>2
<1>10. ASSUME NEW j \in Nat, j >= 1, cur + j <= Len(buf)
      PROVE  buf[cur + j] = d[p + j]
  <2>1. cur + j \in 1 .. Len(buf) /\ at + (cur + j) = p + j
    BY <1>2, <1>9, <1>10
  <2> QED
    BY <1>3, <2>1
<1>11. Encoded(buf, cur, Len(m))
  <2> SUFFICES ASSUME NEW i \in 1 .. n, cur + i <= Len(buf)
               PROVE  buf[cur + i] = WriteVarUInt(Len(m))[i]
    BY DEF Encoded, n
  <2>1. i \in Nat /\ i >= 1
    BY <1>8
  <2>2. buf[cur + i] = d[p + i]
    BY <1>10, <2>1
  <2> QED
    BY <1>8, <2>2
<1> QED
  BY <1>7, <1>11 DEF b, x, buf, cur

\* What ParseMessage has read of a length is that of the message there, and
\* what is behind the cursor are the bytes of it that are still to collect.
LEMMA ParsedWhole ==
    ASSUME MessagesFit, FramedInv, WholeInv, fetch.step = "parse",
           fetch.cur < Len(fetch.buf), ParsedLen.ok
    PROVE  \E m \in Message :
              /\ Written(fetch.segment.offset_begin, Collected, m)
              /\ ParsedLen.value <= Len(m)
              /\ ParsedMsg.data = SubSeq(m, 1, Len(m) - ParsedLen.value)
              /\ ParsedMsg.next_offset = Collected + Len(Frame(m))
              /\ \A k \in 1 .. ParsedLen.value :
                    ParsedLen.cur + k <= Len(fetch.buf) =>
                       fetch.buf[ParsedLen.cur + k]
                          = m[(Len(m) - ParsedLen.value) + k]
<1> DEFINE b == fetch.segment.offset_begin
           at == fetch.file_offset
           cur == fetch.cur
           buf == fetch.buf
           d == segs[b].data
           x == Collected
<1>1. /\ CursorInv /\ FetchType /\ ListExists /\ Position /\ BufferWhole
      /\ PartWhole /\ FilesWhole /\ Reading /\ Fetching
  BY DEF WholeInv, CursorInv, Reading, Fetching, BufferWhole
<1>2. /\ b \in DOMAIN segs /\ at \in Nat /\ cur \in Nat /\ buf \in Seq(Nat)
      /\ Len(buf) \in Nat /\ fetch.msg_len \in Nat /\ x \in Nat
      /\ Here = b + at + cur
  BY <1>1, FetchFields DEF ListExists, Here
<1>3. /\ at + Len(buf) <= Len(d)
      /\ \A i \in 1 .. Len(buf) : buf[i] = d[at + i]
  BY <1>1 DEF BufferWhole
<1>4. b \in Nat /\ d \in Seq(Nat) /\ Len(d) \in Nat /\ cur < Len(buf)
  BY <1>1, <1>2, WholeFile
<1>5. CASE fetch.msg_len = 0
  <2>1. x = b + at + cur /\ Boundary(b, x)
    BY <1>1, <1>2, <1>5 DEF Position, PartWhole
  <2>3. PICK m \in Message : Written(b, x, m) /\ Encoded(buf, cur, Len(m))
    BY <1>4, <1>5, MessageAhead
  <2> DEFINE p == x - b
             n == VarUIntLen(Len(m))
  <2>4. /\ p \in Nat /\ x = b + p
        /\ n \in Nat /\ n >= 1 /\ Len(m) \in Nat /\ m \in Seq(Nat)
        /\ Fits(Len(m)) /\ Len(Frame(m)) = n + Len(m)
        /\ \A j \in 1 .. n : d[p + j] = WriteVarUInt(Len(m))[j]
        /\ \A j \in 1 .. Len(m) : d[(p + n) + j] = m[j]
    <3> HIDE DEF b, x
    <3>1. /\ FramedInv /\ FilesWhole /\ b \in DOMAIN segs /\ x \in Nat
          /\ Written(b, x, m)
      BY <1>1, <1>2, <2>3
    <3> QED
      BY <3>1, WrittenBytes
  <2> HIDE DEF p, n, b, at, cur, buf, d, x
  <2>5. p = at + cur
    <3>1. x = b + p /\ x = b + at + cur
      BY <2>1, <2>4
    <3>2. b \in Nat /\ p \in Nat /\ at \in Nat /\ cur \in Nat
      BY <1>2, <1>4, <2>4
    <3> QED
      BY <3>1, <3>2
  <2>6. ASSUME NEW j \in Nat, j >= 1, cur + j <= Len(buf)
        PROVE  buf[cur + j] = d[p + j]
    <3>1. cur + j \in 1 .. Len(buf) /\ at + (cur + j) = p + j
      BY <1>2, <2>5, <2>6
    <3> QED
      BY <1>3, <3>1
  <2>7. Encoded(buf, cur, Len(m))
    BY <2>3
  <2>8. ParsedLen = ReadVarUInt(buf, cur)
    BY <1>5 DEF ParsedLen, buf, cur
  <2>9. cur + n <= Len(buf)
    <3>1. ASSUME Len(buf) < cur + n
          PROVE  FALSE
      <4>1. /\ buf \in Seq(Nat) /\ cur \in Nat /\ Len(m) \in Nat
            /\ Fits(Len(m)) /\ Encoded(buf, cur, Len(m)) /\ cur < Len(buf)
            /\ Len(buf) < cur + VarUIntLen(Len(m))
        BY <1>2, <1>4, <2>4, <2>7, <3>1 DEF n
      <4>2. ~ReadVarUInt(buf, cur).ok
        BY <4>1, VarUIntTruncated
      <4> QED
        BY <2>8, <4>2
    <3> QED
      BY <1>2, <2>4, <3>1
  <2>10. ReadVarUInt(buf, cur)
            = [ok |-> TRUE, cur |-> cur + n, value |-> Len(m)]
    BY <1>2, <2>4, <2>7, <2>9, VarUIntReadBack DEF n
  <2>11. ParsedLen.cur = cur + n /\ ParsedLen.value = Len(m)
         /\ ParsedEnd = (cur + n) + Len(m)
    BY <2>8, <2>10 DEF ParsedEnd
  <2>12. ParsedMsg.data = SubSeq(m, 1, Len(m) - Len(m))
    <3>1. ParsedMsg.data = << >>
      BY <1>5 DEF ParsedMsg
    <3>2. Len(m) - Len(m) = 0 /\ SubSeq(m, 1, 0) = << >>
      BY <2>4
    <3> QED
      BY <3>1, <3>2
  <2>13. ParsedMsg.next_offset = x + Len(Frame(m))
    <3>1. ParsedMsg.next_offset = BufferAt + ParsedEnd
      BY <1>5 DEF ParsedMsg
    <3>2. BufferAt = b + at
      BY DEF BufferAt, b, at
    <3> QED
      BY <1>2, <1>4, <2>1, <2>4, <2>11, <3>1, <3>2
  <2>14. ASSUME NEW k \in 1 .. Len(m), (cur + n) + k <= Len(buf)
         PROVE  buf[(cur + n) + k] = m[(Len(m) - Len(m)) + k]
    <3>1. /\ cur + (n + k) = (cur + n) + k /\ p + (n + k) = (p + n) + k
          /\ n + k \in Nat /\ n + k >= 1 /\ (Len(m) - Len(m)) + k = k
      BY <1>2, <2>4
    <3>2. buf[cur + (n + k)] = d[p + (n + k)]
      BY <2>6, <2>14, <3>1
    <3> QED
      BY <2>4, <3>1, <3>2
  <2>15. ParsedLen.value <= Len(m)
    BY <2>4, <2>11
  <2> QED
    BY <2>3, <2>11, <2>12, <2>13, <2>14, <2>15 DEF b, x, buf, cur
<1>6. CASE fetch.msg_len # 0
  <2> DEFINE v == fetch.msg_len
  <2>1. /\ fetch.msg.offset = x
        /\ fetch.msg.next_offset = Here + v
    BY <1>1, <1>6 DEF Position
  <2>2. PICK m \in Message :
           /\ Written(b, x, m) /\ v <= Len(m)
           /\ fetch.msg.data = SubSeq(m, 1, Len(m) - v)
           /\ fetch.msg.next_offset = x + Len(Frame(m))
    BY <1>1, <1>6, <2>1 DEF PartWhole
  <2>3. ParsedLen = [ok |-> TRUE, cur |-> cur, value |-> v]
        /\ ParsedMsg = fetch.msg
    BY <1>6 DEF ParsedLen, ParsedMsg
  <2> DEFINE p == x - b
             n == VarUIntLen(Len(m))
  <2>4. /\ p \in Nat /\ x = b + p
        /\ n \in Nat /\ n >= 1 /\ Len(m) \in Nat /\ m \in Seq(Nat)
        /\ Fits(Len(m)) /\ Len(Frame(m)) = n + Len(m)
        /\ \A j \in 1 .. n : d[p + j] = WriteVarUInt(Len(m))[j]
        /\ \A j \in 1 .. Len(m) : d[(p + n) + j] = m[j]
    <3> HIDE DEF b, x
    <3>1. /\ Written(b, x, m) /\ x \in Nat /\ b \in DOMAIN segs
          /\ FilesWhole
      BY <1>1, <1>2, <2>2
    <3> QED
      BY <3>1, WrittenBytes
  <2> HIDE DEF p, n, b, at, cur, buf, d, x, v
  <2>5. v \in Nat
    BY <1>2 DEF v
  <2>6. p + n + Len(m) = at + cur + v
    <3> DEFINE l == Len(m)
               f == Len(Frame(m))
               e == fetch.msg.next_offset
    <3>1. /\ l \in Nat /\ f = n + l /\ e = Here + v /\ e = x + f
          /\ Here = b + at + cur /\ x = b + p
      BY <1>2, <2>1, <2>2, <2>4
    <3> HIDE DEF l, f, e
    <3>2. (b + at + cur) + v = (b + p) + (n + l)
      BY <3>1
    <3>3. /\ b \in Nat /\ at \in Nat /\ cur \in Nat /\ v \in Nat /\ p \in Nat
          /\ n \in Nat
      BY <1>2, <1>4, <2>4, <2>5
    <3>4. p + n + l = at + cur + v
      BY <3>1, <3>2, <3>3
    <3> QED
      BY <3>4 DEF l
  <2>7. ASSUME NEW k \in 1 .. v, cur + k <= Len(buf)
        PROVE  buf[cur + k] = m[(Len(m) - v) + k]
    <3>1. (Len(m) - v) + k \in 1 .. Len(m)
      BY <2>2, <2>4, <2>5
    <3>2. (p + n) + ((Len(m) - v) + k) = at + (cur + k)
      <4> DEFINE l == Len(m)
      <4>1. /\ p + n + l = at + cur + v /\ l \in Nat /\ p \in Nat /\ n \in Nat
            /\ at \in Nat /\ cur \in Nat /\ v \in Nat /\ k \in Nat
        BY <1>2, <2>4, <2>5, <2>6
      <4> HIDE DEF l
      <4>2. (p + n) + ((l - v) + k) = at + (cur + k)
        BY <4>1
      <4> QED
        BY <4>2 DEF l
    <3>3. cur + k \in 1 .. Len(buf)
      BY <1>2, <2>5, <2>7
    <3>4. buf[cur + k] = d[at + (cur + k)]
      BY <1>3, <3>3
    <3> QED
      BY <2>4, <3>1, <3>2, <3>4
  <2>8. ParsedLen.cur = cur /\ ParsedLen.value = v
    BY <2>3
  <2> QED
    BY <2>2, <2>3, <2>7, <2>8 DEF b, x, buf, cur
<1> QED
  BY <1>5, <1>6

\* The cursors of ParseMessage, for the two ways in which it goes on.
LEMMA ParsedFacts ==
    ASSUME WholeInv, fetch.step = "parse", fetch.cur < Len(fetch.buf)
    PROVE  /\ fetch.buf \in Seq(Nat) /\ Len(fetch.buf) \in Nat
           /\ ParsedLen.cur \in Nat /\ ParsedLen.value \in Nat
           /\ ParsedLen.cur <= Len(fetch.buf) /\ ParsedEnd \in Nat
           /\ ParsedEnd = ParsedLen.cur + ParsedLen.value
           /\ BufferAt \in Nat /\ Collected \in Nat
           /\ ParsedMsg \in FetchEntry /\ ParsedMsg.offset = Collected
           /\ ParsedMsg.next_offset = BufferAt + ParsedEnd
<1>1. CursorInv /\ FetchType
  BY DEF WholeInv, CursorInv
<1>2. fetch.buf \in Seq(Nat) /\ Len(fetch.buf) \in Nat /\ Collected \in Nat
  BY <1>1, FetchFields
<1> QED
  BY <1>1, <1>2, ParsedType

\* The buffer ends within a message.
LEMMA WholeBegins ==
    ASSUME MessagesFit, FramedInv, WholeInv, CursorInv',
           fetch.step = "parse", UNCHANGED vars, MessageBegins
    PROVE  WholeInv'
<1> DEFINE buf == fetch.buf
           v == ParsedLen.value
           c == ParsedLen.cur
           w == Len(buf) - c
           rest == ParsedEnd - Len(buf)
           bytes == SubSeq(buf, c + 1, Len(buf))
           msg == Collect(ParsedMsg, bytes)
           b == fetch.segment.offset_begin
<1>1. /\ FetchType /\ Position /\ Pending /\ ListWhole /\ BufferWhole
      /\ FilesWhole /\ EntriesWritten /\ ListExists /\ fetch \in FetchRecord
      /\ Reading /\ Fetching
  BY DEF WholeInv, CursorInv, Fetching, Reading, FetchType
<1>2. /\ fetch' = [fetch EXCEPT !.cur = Len(buf), !.msg = msg,
                                !.msg_len = rest]
      /\ entries' = entries /\ fetch.cur < Len(buf) /\ ParsedEnd > Len(buf)
      /\ ParsedLen.ok
  BY DEF MessageBegins
<1>3. /\ buf \in Seq(Nat) /\ Len(buf) \in Nat /\ c \in Nat /\ v \in Nat
      /\ c <= Len(buf) /\ ParsedEnd = c + v /\ ParsedEnd \in Nat
      /\ ParsedMsg \in FetchEntry /\ ParsedMsg.offset = Collected
  BY <1>2, ParsedFacts
<1>4. PICK m \in Message :
         /\ Written(b, Collected, m) /\ v <= Len(m)
         /\ ParsedMsg.data = SubSeq(m, 1, Len(m) - v)
         /\ ParsedMsg.next_offset = Collected + Len(Frame(m))
         /\ \A k \in 1 .. v : c + k <= Len(buf) =>
               buf[c + k] = m[(Len(m) - v) + k]
  BY <1>2, ParsedWhole
<1>5. m \in Seq(Nat) /\ Len(m) \in Nat
  BY FrameParts
<1> HIDE DEF v, c, buf
<1>6. w \in Nat /\ w < v /\ c + w = Len(buf) /\ rest = v - w /\ rest # 0
      /\ rest \in Nat /\ rest <= Len(m)
  <2> DEFINE l == Len(m)
             n == Len(buf)
             end == ParsedEnd
  <2>1. /\ n \in Nat /\ c \in Nat /\ v \in Nat /\ l \in Nat /\ end \in Nat
        /\ c <= n /\ end = c + v /\ end > n /\ v <= l
    BY <1>2, <1>3, <1>4, <1>5 DEF buf
  <2> HIDE DEF l, n, end
  <2>2. /\ n - c \in Nat /\ n - c < v /\ c + (n - c) = n
        /\ end - n = v - (n - c) /\ end - n # 0 /\ end - n \in Nat
        /\ end - n <= l
    BY <2>1
  <2> QED
    BY <2>2 DEF l, n, end
<1> HIDE DEF w, rest
<1>7. Follows(buf, c, Len(buf), m, Len(m) - v)
  <2> SUFFICES ASSUME NEW k \in 1 .. Len(buf) - c
               PROVE  buf[c + k] = m[(Len(m) - v) + k]
    BY DEF Follows
  <2>1. k \in 1 .. v /\ c + k <= Len(buf)
    <3>1. k \in 1 .. w
      BY DEF w
    <3> QED
      BY <1>3, <1>6, <3>1
  <2> QED
    BY <1>4, <2>1
<1>8. SubSeq(m, 1, Len(m) - v) \o SubSeq(buf, c + 1, Len(buf))
         = SubSeq(m, 1, Len(m) - rest)
  <2> DEFINE n == Len(m) - v
             q == Len(m) - rest
             e == Len(buf)
  <2>1. /\ n \in Nat /\ q \in Nat /\ e \in Nat /\ c <= e /\ n <= q
        /\ q <= Len(m) /\ q - n = e - c /\ e <= Len(buf)
    BY <1>3, <1>4, <1>5, <1>6
  <2>2. m \in Seq(Nat) /\ buf \in Seq(Nat) /\ c \in Nat
    BY <1>3, <1>5
  <2>3. Follows(buf, c, e, m, n)
    BY <1>7
  <2> HIDE DEF n, q, e
  <2>4. Joins(buf, c, e, m, n, q)
    BY <2>1, <2>2, <2>3, JoinParts
  <2> QED
    BY <2>4 DEF n, q, e, Joins
<1>9. bytes \in Seq(Nat)
  BY <1>3
<1>10. ParsedMsg.data \o bytes = SubSeq(m, 1, Len(m) - rest)
  BY <1>4, <1>8
<1> HIDE DEF bytes
<1>11. /\ msg.offset = Collected /\ msg.next_offset = Collected + Len(Frame(m))
       /\ msg.data = SubSeq(m, 1, Len(m) - rest)
  BY <1>3, <1>4, <1>9, <1>10, CollectType
<1> HIDE DEF msg
<1>12. /\ fetch'.step = "parse" /\ fetch'.segments = fetch.segments
       /\ fetch'.segment = fetch.segment /\ fetch'.start = fetch.start
       /\ fetch'.known = fetch.known /\ fetch'.buf = fetch.buf
       /\ fetch'.file_offset = fetch.file_offset /\ fetch'.msg = msg
       /\ fetch'.msg_len = rest /\ fetch'.from = fetch.from
  BY <1>1, <1>2, ParseCases DEF FetchRecord
<1>13. FilesWhole' /\ EntriesWritten'
  BY <1>1, <1>2, FilesKept, EntriesStay
<1>14. ListWhole' /\ Pending'
  BY <1>1, <1>2, <1>12
     DEF ListWhole, Pending, Fetching, Boundary, vars, Collected
<1>15. Written(b, Collected, m)'
  <2>1. b' = b /\ Collected' = Collected
    BY <1>2, <1>12 DEF Collected
  <2> QED
    BY <1>4, <2>1 DEF Written, Boundary, vars
<1>16. PartWhole'
  <2>1. Collected' = Collected
    BY <1>2, <1>12 DEF Collected
  <2>2. /\ Written(b, Collected, m)' /\ rest <= Len(m)
        /\ msg.data = SubSeq(m, 1, Len(m) - rest)
        /\ msg.next_offset = msg.offset + Len(Frame(m))
    BY <1>6, <1>11, <1>15
  <2>3. fetch'.msg.offset = Collected'
    BY <1>11, <1>12, <2>1
  <2> QED
    BY <1>6, <1>12, <2>1, <2>2, <2>3 DEF PartWhole, Written, Boundary
<1>17. BufferWhole'
  BY <1>1, <1>12, <1>16 DEF BufferWhole, vars
<1> QED
  BY <1>12, <1>13, <1>14, <1>17 DEF WholeInv, FetchedAll

\* The buffer holds the rest of a message.
LEMMA WholeEnds ==
    ASSUME MessagesFit, FramedInv, WholeInv, CursorInv',
           fetch.step = "parse", UNCHANGED vars, MessageEnds
    PROVE  WholeInv'
<1> DEFINE buf == fetch.buf
           v == ParsedLen.value
           c == ParsedLen.cur
           end == ParsedEnd
           bytes == SubSeq(buf, c + 1, end)
           b == fetch.segment.offset_begin
           x == Collected
           y == BufferAt + ParsedEnd
<1>1. /\ FetchType /\ Position /\ Pending /\ ListWhole /\ BufferWhole
      /\ FilesWhole /\ EntriesWritten /\ ListExists /\ fetch \in FetchRecord
      /\ Reading /\ Fetching
  BY DEF WholeInv, CursorInv, Fetching, Reading, FetchType
<1>2. /\ fetch.cur < Len(buf) /\ ParsedLen.ok /\ end <= Len(buf)
      /\ entries' = Append(entries, ParsedEntry)
  BY DEF MessageEnds
<1>3. /\ buf \in Seq(Nat) /\ Len(buf) \in Nat /\ c \in Nat /\ v \in Nat
      /\ c <= Len(buf) /\ end = c + v /\ end \in Nat
      /\ ParsedMsg \in FetchEntry /\ ParsedMsg.offset = x
      /\ ParsedMsg.next_offset = y /\ x \in Nat /\ BufferAt \in Nat
  BY <1>2, ParsedFacts
<1>4. PICK m \in Message :
         /\ Written(b, x, m) /\ v <= Len(m)
         /\ ParsedMsg.data = SubSeq(m, 1, Len(m) - v)
         /\ ParsedMsg.next_offset = x + Len(Frame(m))
         /\ \A k \in 1 .. v : c + k <= Len(buf) =>
               buf[c + k] = m[(Len(m) - v) + k]
  BY <1>2, ParsedWhole
<1>5. m \in Seq(Nat) /\ Len(m) \in Nat /\ Len(Frame(m)) \in Nat
      /\ Len(Frame(m)) >= 1
  BY FrameParts, FrameLen
<1> HIDE DEF v, c, buf, end
<1>6. bytes \in Seq(Nat)
  BY <1>2, <1>3
<1>7. ParsedMsg.data \o bytes = m
  <2> DEFINE n == Len(m) - v
             q == Len(m)
  <2>1. /\ n \in Nat /\ q \in Nat /\ c <= end /\ n <= q
        /\ q <= Len(m) /\ q - n = end - c
    BY <1>3, <1>4, <1>5
  <2>2. m \in Seq(Nat) /\ buf \in Seq(Nat) /\ c \in Nat /\ end \in Nat
        /\ end <= Len(buf)
    BY <1>2, <1>3, <1>5
  <2>3. Follows(buf, c, end, m, n)
    <3> SUFFICES ASSUME NEW k \in 1 .. end - c
                 PROVE  buf[c + k] = m[n + k]
      BY DEF Follows
    <3>1. k \in 1 .. v /\ c + k <= Len(buf)
      BY <1>2, <1>3
    <3> QED
      BY <1>4, <3>1
  <2> HIDE DEF n, q
  <2>4. Joins(buf, c, end, m, n, q)
    BY <2>1, <2>2, <2>3, JoinParts
  <2>5. SubSeq(m, 1, q) = m
    BY <1>5 DEF q
  <2> QED
    BY <1>4, <2>4, <2>5 DEF n, Joins
<1> HIDE DEF bytes
<1> DEFINE e == ParsedEntry
<1>8. /\ e \in FetchEntry /\ e.offset = x /\ e.next_offset = y /\ e.data = m
  <2>1. e = Collect(ParsedMsg, bytes)
    BY DEF ParsedEntry, bytes, c, buf, end
  <2> HIDE DEF e
  <2> QED
    BY <1>3, <1>6, <1>7, <2>1, CollectType
<1>9. y = x + Len(Frame(m)) /\ y \in Nat /\ x < y
  BY <1>3, <1>4, <1>5
<1> HIDE DEF e, y
<1>10. /\ entries' \in Seq(FetchEntry) /\ Len(entries') = Len(entries) + 1
       /\ entries'[Len(entries')] = e /\ Len(entries) \in Nat
       /\ \A i \in 1 .. Len(entries) : entries'[i] = entries[i]
       /\ entries' # << >>
  <2>1. entries \in Seq(FetchEntry) /\ e \in FetchEntry
        /\ entries' = Append(entries, e)
    BY <1>1, <1>2, <1>8 DEF FetchType, e
  <2> HIDE DEF FetchEntry
  <2> QED
    BY <2>1
<1>11. Collected' = y
  BY <1>8, <1>10 DEF Collected
<1>12. ListExists /\ b \in DOMAIN segs
  BY <1>1 DEF ListExists
<1>13. EntriesWritten'
  <2> SUFFICES ASSUME NEW j \in 1 .. Len(entries')
               PROVE  /\ entries'[j].data \in Message
                      /\ entries'[j].next_offset =
                            entries'[j].offset + Len(Frame(entries'[j].data))
                      /\ \E f \in DOMAIN segs :
                            Written(f, entries'[j].offset, entries'[j].data)
    <3>1. segs' = segs
      BY DEF vars
    <3> QED
      BY <3>1 DEF EntriesWritten, Written, Boundary
  <2>1. CASE j \in 1 .. Len(entries)
    BY <1>1, <1>10, <2>1 DEF EntriesWritten
  <2>2. CASE j \notin 1 .. Len(entries)
    <3>1. j = Len(entries')
      BY <1>10, <2>2
    <3>2. entries'[j] = e
      BY <1>10, <3>1
    <3> QED
      BY <1>4, <1>8, <1>9, <1>12, <3>2
  <2> QED
    BY <2>1, <2>2
<1>14. FilesWhole'
  BY <1>1, FilesKept
<1>15. CASE Len(entries') = fetch.batch /\ FetchReturn("ok")
  <2>1. fetch'.batch = fetch.batch
    BY <1>15, ReturnKeepsFrom
  <2>2. FetchedAll'
    BY <1>10, <1>15, <2>1 DEF FetchedAll
  <2> QED
    BY <1>13, <1>15, <2>2, WholeReturn
<1>16. CASE fetch' = [fetch EXCEPT !.cur = ParsedEnd, !.msg = NoMessage,
                                   !.msg_len = 0]
  <2>1. /\ fetch'.step = "parse" /\ fetch'.segments = fetch.segments
        /\ fetch'.segment = fetch.segment /\ fetch'.buf = fetch.buf
        /\ fetch'.known = fetch.known /\ fetch'.cur = ParsedEnd
        /\ fetch'.file_offset = fetch.file_offset /\ fetch'.msg_len = 0
    BY <1>1, <1>16 DEF FetchRecord
  <2>2. Here' = y
    BY <2>1 DEF Here, BufferAt, y
  <2>3. Boundary(b, y)
    BY <1>4, <1>9 DEF Written
  <2>4. PartWhole'
    <3>1. /\ b <= y /\ Framed(segs'[b].data, 0, y - b)
          /\ Framed(segs'[b].data, y - b, Len(segs'[b].data))
      BY <2>3 DEF Boundary, vars
    <3>2. fetch'.segment.offset_begin = b
      BY <2>1
    <3> HIDE DEF b
    <3> QED
      BY <2>1, <2>2, <3>1, <3>2 DEF PartWhole, Boundary
  <2>5. BufferWhole'
    BY <1>1, <2>1, <2>4 DEF BufferWhole, vars
  <2>6. ListWhole'
    BY <1>1, <2>1 DEF ListWhole, Fetching, Boundary, vars
  <2>7. Pending'
    <3> SUFFICES ASSUME NEW i \in 1 .. fetch.known, acked[i].offset >= y
                 PROVE  \E s \in fetch.segments :
                           /\ s.offset_begin <= acked[i].offset
                           /\ acked[i].offset < s.offset_head
      <4>1. acked' = acked
        BY DEF vars
      <4> QED
        BY <1>11, <2>1, <4>1 DEF Pending
    <3>1. acked[i].offset \in Nat
      BY <1>1, KnownFacts
    <3>2. acked[i].offset >= Collected
      BY <1>3, <1>9, <3>1
    <3> QED
      BY <1>1, <3>2 DEF Pending
  <2> QED
    BY <1>13, <1>14, <2>1, <2>5, <2>6, <2>7 DEF WholeInv, FetchedAll
<1> QED
  BY <1>15, <1>16 DEF MessageEnds

LEMMA WholeParse ==
    ASSUME MessagesFit, FramedInv, WholeInv, CursorInv', ParseMessage
    PROVE  WholeInv'
<1>1. /\ fetch.step = "parse" /\ UNCHANGED vars
      /\ BufferEnds \/ LengthTorn \/ MessageBegins \/ MessageEnds
  BY ParseCases
<1>2. CASE BufferEnds
  <2>1. /\ FetchType /\ Position /\ Pending /\ ListWhole /\ BufferWhole
        /\ FilesWhole /\ EntriesWritten /\ ListExists /\ fetch \in FetchRecord
        /\ Reading /\ Fetching /\ FetchType'
    BY <1>1 DEF WholeInv, CursorInv, Fetching, Reading, FetchType
  <2>2. entries' = entries /\ fetch.cur = Len(fetch.buf)
    BY <1>2, <2>1, FetchFields DEF BufferEnds
  <2>3. /\ fetch'.step = "read" /\ fetch'.segments = fetch.segments
        /\ fetch'.segment = fetch.segment /\ fetch'.start = fetch.start
        /\ fetch'.known = fetch.known /\ fetch'.cur = 0
        /\ fetch'.from = fetch.from
        /\ fetch'.msg = fetch.msg /\ fetch'.msg_len = fetch.msg_len
        /\ fetch'.file_offset = fetch.file_offset + Len(fetch.buf)
    BY <1>2, <2>1 DEF BufferEnds, FetchRecord
  <2>4. Here' = Here
    <3> DEFINE b == fetch.segment.offset_begin
               at == fetch.file_offset
               n == Len(fetch.buf)
    <3>1. b \in Nat /\ at \in Nat /\ n \in Nat
      BY <2>1, FetchFields
    <3>2. Here' = b + (at + n) + 0 /\ Here = b + at + n
      BY <2>2, <2>3 DEF Here
    <3> HIDE DEF b, at, n
    <3> QED
      BY <3>1, <3>2
  <2>5. PartWhole'
    BY <1>1, <2>1, <2>3, <2>4, PartKept DEF BufferWhole
  <2>6. BufferWhole'
    BY <2>3, <2>5 DEF BufferWhole
  <2>7. ListWhole' /\ Pending'
    BY <1>1, <2>1, <2>2, <2>3
       DEF ListWhole, Pending, Fetching, Boundary, vars, Collected
  <2>8. FilesWhole' /\ EntriesWritten'
    BY <1>1, <2>1, <2>2, FilesKept, EntriesStay
  <2> QED
    BY <2>3, <2>6, <2>7, <2>8 DEF WholeInv, FetchedAll
<1>3. CASE LengthTorn
  BY <1>1, <1>3, WholeError DEF LengthTorn
<1> QED
  BY <1>1, <1>2, <1>3, WholeBegins, WholeEnds

LEMMA WholeStep ==
    ASSUME Calm, NoStrayOffsets, FramedInv, FramedInv', WholeInv, CursorInv',
           [FetchNext]_allVars
    PROVE  WholeInv'
<1>1. MessagesFit
  BY DEF Calm
<1>2. CASE ChannelStep
  BY <1>2, WholeChannel
<1>3. ASSUME NEW start \in KnownOffsets \cup StrayOffsets,
             NEW batch \in BatchSizes, FetchMessages(start, batch)
      PROVE  WholeInv'
  <2>1. start \in KnownOffsets /\ batch \in Nat
    BY FetchAssumption DEF NoStrayOffsets
  <2> QED
    BY <1>3, <2>1, WholeFetch
<1>4. CASE NextSegment
  BY <1>1, <1>4, WholeNext
<1>5. CASE ReadBuffer
  BY <1>1, <1>5, WholeRead
<1>6. CASE ParseMessage
  BY <1>1, <1>6, WholeParse
<1>7. CASE UNCHANGED allVars
  <2>1. UNCHANGED <<vars, fetch, entries>>
    BY <1>7 DEF allVars
  <2>2. UNCHANGED <<segs, handle, pc, acked>>
    BY <2>1 DEF vars
  <2> QED
    BY <2>1, <2>2
       DEF WholeInv, FilesWhole, ListWhole, EntriesWritten, BufferWhole,
           PartWhole, Pending, FetchedAll, Returned, Written, Boundary,
           OnBoundary, Here, Collected, Fetching, Reading, Current
<1> QED
  BY <1>2, <1>3, <1>4, <1>5, <1>6, <1>7 DEF FetchNext

LEMMA WholeInvariant ==
    ASSUME Calm, NoStrayOffsets
    PROVE  FetchSpec => []WholeInv /\ []FramedInv
<1>1. FetchInit /\ CursorInv => WholeInv
  BY WholeInit
<1>2. WholeInv /\ FramedInv /\ FramedInv' /\ CursorInv'
         /\ [FetchNext]_allVars => WholeInv'
  BY WholeStep
<1>3. FetchSpec => []FramedInv
  <2>1. Spec => []FramedInv
    BY FramedInvariant DEF Calm
  <2> QED
    BY <2>1, FetchIsChannel, PTL
<1> QED
  BY <1>1, <1>2, <1>3, CursorInvariant, PTL DEF FetchSpec

\* What a fetch has collected agrees with what appends were told: as long as
\* no process dies and no write is short, a message in the range that it
\* covers is there whole, at its offset, while appends and rotations go on.
THEOREM FetchesAgree ==
    ASSUME NoCrash, NoPowerLoss, NoShortWrite, NoStrayOffsets, MessagesFit
    PROVE  FetchSpec => []FetchedAgrees
<1>1. Calm
  BY DEF Calm
<1>2. WholeInv /\ FramedInv => FetchedAgrees
  BY AgreesCorrect
<1> QED
  BY <1>1, <1>2, WholeInvariant, PTL

\* A fetch that succeeds with fewer messages than it was asked for has every
\* message that was acknowledged before it began, from its start offset on,
\* under the same assumptions.
THEOREM FetchesComplete ==
    ASSUME NoCrash, NoPowerLoss, NoShortWrite, NoStrayOffsets, MessagesFit
    PROVE  FetchSpec => []FetchedAll
<1>1. Calm
  BY DEF Calm
<1>2. WholeInv => FetchedAll
  BY DEF WholeInv
<1> QED
  BY <1>1, <1>2, WholeInvariant, PTL

-----------------------------------------------------------------------------
(* Fetches that succeed                                                    *)

NoReadError == "read_error" \notin Faults

\* What segmentRead can take apart wherever a buffer ends: messages whose
\* length is one byte long, shorter than 128 bytes.
ShortLengths == \A m \in Message : VarUIntLen(Len(m)) = 1

\* A copied list begins at or before the start offset, and each of its
\* segments begins where another one ends.
LEMMA LinkedFetch ==
    ASSUME FramedInv, FilesWhole, NEW start \in Nat, NEW s \in SegmentList
    PROVE  \/ s.offset_begin <= start
           \/ \E t \in SegmentList : /\ t.offset_begin < s.offset_begin
                                     /\ t.offset_head = s.offset_begin
<1>1. MemoryMatchesDisk /\ Contiguous /\ TypeOK /\ 0 \in DOMAIN segs
      /\ pc # "down"
  BY DEF FramedInv, ReplyInv, LayoutInv, DiskInv, TypeOK, FilesType, FilesWhole
<1> DEFINE b == s.offset_begin
           T == {c \in DOMAIN segs : c < b}
<1>2. b \in DOMAIN segs /\ \A c \in DOMAIN segs : c \in Nat
  BY <1>1, SegmentListType, WholeFile
<1> HIDE DEF b
<1>3. CASE b = 0
  BY <1>3 DEF b
<1>4. CASE b # 0
  <2>1. T \subseteq 0 .. b /\ T # {} /\ b \in Nat
    BY <1>1, <1>2, <1>4
  <2>2. PICK c \in T : \A e \in T : e <= c
    <3> HIDE DEF T
    <3> QED
      BY <2>1, GreatestNat
  <2>3. /\ c \in DOMAIN segs /\ c < b /\ ~IsLast(c) /\ c \in Nat
    BY <1>2, <2>2 DEF IsLast
  <2>4. /\ segs[c].head \in DOMAIN segs /\ c < segs[c].head
        /\ segs[c].head <= b
    <3>1. /\ segs[c].head \in DOMAIN segs /\ c < segs[c].head
          /\ \A e \in DOMAIN segs : e > c => e >= segs[c].head
      BY <1>1, <2>3 DEF Contiguous
    <3>2. b \in Nat /\ segs[c].head \in Nat /\ b > c
      BY <1>2, <2>1, <2>3, <3>1
    <3>3. b >= segs[c].head
      BY <1>2, <3>1, <3>2
    <3> QED
      BY <3>1, <3>2, <3>3
  <2>5. segs[c].head = b
    <3>1. segs[c].head \in Nat
      BY <1>2, <2>4
    <3>2. ~(segs[c].head < b)
      BY <1>2, <2>1, <2>2, <2>3, <2>4
    <3> QED
      BY <2>1, <2>4, <3>1, <3>2
  <2>6. c # Current
    BY <1>1, <2>3 DEF MemoryMatchesDisk
  <2>7. [offset_begin |-> c, offset_head |-> b] \in SegmentList
    BY <1>1, <2>3, <2>5, <2>6 DEF SegmentList, MemoryMatchesDisk
  <2> QED
    BY <2>3, <2>7 DEF b
<1> QED
  BY <1>3, <1>4

\* Where the buffer begins with a message, the whole of its length is there.
LEMMA LengthRead ==
    ASSUME MessagesFit, ShortLengths, FramedInv, WholeInv,
           fetch.step = "parse", fetch.cur < Len(fetch.buf)
    PROVE  ParsedLen.ok
<1>1. CASE fetch.msg_len = 0
  <2>1. PICK m \in Message : Encoded(fetch.buf, fetch.cur, Len(m))
    BY <1>1, MessageAhead
  <2>2. FetchType
    BY DEF WholeInv, CursorInv
  <2>3. /\ fetch.buf \in Seq(Nat) /\ fetch.cur \in Nat
        /\ Len(fetch.buf) \in Nat
    BY <2>2, FetchFields
  <2>4. Len(m) \in Nat /\ Fits(Len(m)) /\ VarUIntLen(Len(m)) = 1
    BY FrameParts DEF ShortLengths
  <2>5. fetch.cur + VarUIntLen(Len(m)) <= Len(fetch.buf)
    BY <2>3, <2>4
  <2>6. ReadVarUInt(fetch.buf, fetch.cur)
           = [ok |-> TRUE, cur |-> fetch.cur + VarUIntLen(Len(m)),
              value |-> Len(m)]
    BY <2>1, <2>3, <2>4, <2>5, VarUIntReadBack
  <2> QED
    BY <1>1, <2>6 DEF ParsedLen
<1>2. CASE fetch.msg_len # 0
  BY <1>2 DEF ParsedLen
<1> QED
  BY <1>1, <1>2

LEMMA LinkedStays ==
    ASSUME Linked, fetch'.segments = fetch.segments, Fetching' => Fetching,
           fetch.start \in Nat, fetch'.start \in Nat,
           fetch.start <= fetch'.start,
           \A s \in fetch.segments : s.offset_begin \in Nat
    PROVE  Linked'
<1> SUFFICES ASSUME Fetching', NEW s \in fetch.segments
             PROVE  \/ s.offset_begin <= fetch'.start
                    \/ \E t \in fetch.segments :
                          /\ t.offset_begin < s.offset_begin
                          /\ t.offset_head = s.offset_begin
  BY DEF Linked
<1>1. \/ s.offset_begin <= fetch.start
      \/ \E t \in fetch.segments : /\ t.offset_begin < s.offset_begin
                                   /\ t.offset_head = s.offset_begin
  BY DEF Linked
<1>2. s.offset_begin \in Nat
  OBVIOUS
<1> QED
  BY <1>1, <1>2

LEMMA SuccessNext ==
    ASSUME SuccessInv, NextSegment
    PROVE  Linked' /\ FetchSucceeds'
<1>1. /\ Linked /\ FetchType /\ fetch.step = "next" /\ Fetching
      /\ fetch \in FetchRecord
  BY DEF SuccessInv, WholeInv, CursorInv, NextSegment, Fetching, FetchType
<1>2. /\ \A s \in fetch.segments : s.offset_begin \in Nat
      /\ \A s \in fetch.segments : s.offset_head \in Nat
      /\ fetch.start \in Nat
  BY <1>1, FetchFields DEF Segment
<1>3. CASE FetchReturn("ok")
  <2>1. fetch'.step = "ok"
    BY <1>3, ReturnKeepsFrom
  <2> QED
    BY <2>1 DEF Linked, Fetching, FetchSucceeds
<1>4. ASSUME NEW s \in fetch.segments,
             \A t \in fetch.segments : s.offset_begin <= t.offset_begin
      PROVE  ~(fetch.start < s.offset_begin)
  <2>1. \/ s.offset_begin <= fetch.start
        \/ \E t \in fetch.segments : t.offset_begin < s.offset_begin
    BY <1>1 DEF Linked
  <2> QED
    BY <1>2, <1>4, <2>1
<1>5. ASSUME NEW s \in fetch.segments, fetch.start >= s.offset_head,
             fetch' = [fetch EXCEPT !.segments = @ \ {s}]
      PROVE  Linked' /\ FetchSucceeds'
  <2>1. /\ fetch'.step = "next" /\ fetch'.segments = fetch.segments \ {s}
        /\ fetch'.start = fetch.start
    BY <1>1, <1>5 DEF FetchRecord
  <2>2. ASSUME NEW r \in fetch.segments \ {s}
        PROVE  \/ r.offset_begin <= fetch.start
               \/ \E t \in fetch.segments \ {s} :
                     /\ t.offset_begin < r.offset_begin
                     /\ t.offset_head = r.offset_begin
    <3>1. CASE r.offset_begin <= fetch.start
      BY <3>1
    <3>2. ASSUME NEW t \in fetch.segments,
                 t.offset_begin < r.offset_begin,
                 t.offset_head = r.offset_begin
          PROVE  \/ r.offset_begin <= fetch.start
                 \/ t \in fetch.segments \ {s}
      BY <1>2, <1>5, <3>2
    <3> QED
      BY <1>1, <3>1, <3>2 DEF Linked
  <2>3. Linked'
    BY <2>1, <2>2 DEF Linked
  <2> QED
    BY <2>1, <2>3 DEF FetchSucceeds
<1>6. ASSUME NEW s \in fetch.segments,
             fetch' = [fetch EXCEPT
                         !.step = "read", !.segment = s,
                         !.file_offset = fetch.start - s.offset_begin]
      PROVE  Linked' /\ FetchSucceeds'
  <2>1. /\ fetch'.step = "read" /\ fetch'.segments = fetch.segments
        /\ fetch'.start = fetch.start
    BY <1>1, <1>6 DEF FetchRecord
  <2>2. Linked'
    BY <1>1, <1>2, <2>1, LinkedStays
  <2> QED
    BY <2>1, <2>2 DEF FetchSucceeds
<1> QED
  BY <1>3, <1>4, <1>5, <1>6 DEF NextSegment

LEMMA SuccessReadReturn ==
    ASSUME SuccessInv, CursorInv', Reading, ReadReturn(entries),
           UNCHANGED <<vars, entries>>
    PROVE  Linked' /\ FetchSucceeds'
<1>1. /\ Linked /\ FetchType /\ Position /\ Fetching /\ fetch \in FetchRecord
      /\ FetchType'
  BY DEF SuccessInv, WholeInv, CursorInv, Fetching, Reading, FetchType
<1>2. CASE FetchReturn("ok")
  <2>1. fetch'.step = "ok"
    BY <1>2, ReturnKeepsFrom
  <2> QED
    BY <2>1 DEF Linked, Fetching, FetchSucceeds
<1>3. CASE /\ Len(entries) # 0
           /\ fetch' = [fetch EXCEPT
                          !.step = "next",
                          !.start = entries[Len(entries)].next_offset,
                          !.buf = << >>, !.cur = 0,
                          !.msg = NoMessage, !.msg_len = 0]
  <2>1. Collected = entries[Len(entries)].next_offset
    BY <1>3 DEF Collected
  <2>2. /\ fetch'.step = "next" /\ fetch'.segments = fetch.segments
        /\ fetch'.start = Collected
    BY <1>1, <1>3, <2>1 DEF FetchRecord
  <2>3. /\ fetch.start <= Collected /\ fetch.start \in Nat
        /\ Collected \in Nat
        /\ \A s \in fetch.segments : s.offset_begin \in Nat
    BY <1>1, FetchFields DEF Position, Segment
  <2>4. Linked'
    BY <1>1, <2>2, <2>3, LinkedStays
  <2> QED
    BY <2>2, <2>4 DEF FetchSucceeds
<1> QED
  BY <1>2, <1>3 DEF ReadReturn

LEMMA SuccessRead ==
    ASSUME NoReadError, FramedInv, SuccessInv, CursorInv', ReadBuffer
    PROVE  Linked' /\ FetchSucceeds'
<1> DEFINE b == fetch.segment.offset_begin
           h == fetch.segment.offset_head
           at == fetch.file_offset
           data == segs[b].data
<1>1. /\ Linked /\ FetchType /\ ListExists /\ ListWhole /\ FilesWhole
      /\ fetch.step = "read" /\ Fetching /\ Reading
      /\ fetch \in FetchRecord /\ UNCHANGED <<vars, entries>>
  BY DEF SuccessInv, WholeInv, CursorInv, ReadBuffer, Fetching, Reading,
         FetchType
<1>2. /\ \A s \in fetch.segments : s.offset_begin \in Nat
      /\ fetch.start \in Nat /\ b \in DOMAIN segs /\ h \in Nat
      /\ at \in Nat /\ Boundary(b, h)
  BY <1>1, FetchFields DEF Segment, ListExists, ListWhole
<1>3. ~(at < h - b /\ at >= Len(data))
  <2> HIDE DEF b, h, at
  <2>1. h <= b + Len(data) /\ b \in Nat /\ Len(data) \in Nat
    BY <1>1, <1>2, BoundaryFacts
  <2> HIDE DEF data
  <2> QED
    BY <1>2, <2>1
<1>4. CASE ReadReturn(entries)
  BY <1>1, <1>4, SuccessReadReturn
<1>5. ASSUME NEW n, fetch' = [fetch EXCEPT !.step = "parse", !.cur = 0,
                                           !.buf = SubSeq(data, at + 1, n)]
      PROVE  Linked' /\ FetchSucceeds'
  <2>1. /\ fetch'.step = "parse" /\ fetch'.segments = fetch.segments
        /\ fetch'.start = fetch.start
    BY <1>1, <1>5 DEF FetchRecord
  <2>2. Linked'
    BY <1>1, <1>2, <2>1, LinkedStays
  <2> QED
    BY <2>1, <2>2 DEF FetchSucceeds
<1> QED
  BY <1>3, <1>4, <1>5 DEF ReadBuffer, NoReadError

LEMMA SuccessParse ==
    ASSUME MessagesFit, ShortLengths, FramedInv, SuccessInv, ParseMessage
    PROVE  Linked' /\ FetchSucceeds'
<1>1. /\ Linked /\ FetchType /\ WholeInv /\ fetch.step = "parse" /\ Fetching
      /\ fetch \in FetchRecord
      /\ BufferEnds \/ LengthTorn \/ MessageBegins \/ MessageEnds
  BY ParseCases DEF SuccessInv, WholeInv, CursorInv, Fetching, FetchType
<1>2. ~LengthTorn
  BY <1>1, LengthRead DEF LengthTorn
<1>3. CASE FetchReturn("ok")
  <2>1. fetch'.step = "ok"
    BY <1>3, ReturnKeepsFrom
  <2> QED
    BY <2>1 DEF Linked, Fetching, FetchSucceeds
<1>4. ASSUME fetch'.segments = fetch.segments, fetch'.start = fetch.start,
             fetch'.step \in {"read", "parse"}
      PROVE  Linked' /\ FetchSucceeds'
  BY <1>1, <1>4 DEF Linked, Fetching, FetchSucceeds
<1>5. BufferEnds \/ MessageBegins =>
         /\ fetch'.segments = fetch.segments /\ fetch'.start = fetch.start
         /\ fetch'.step \in {"read", "parse"}
  BY <1>1 DEF BufferEnds, MessageBegins, FetchRecord
<1>6. MessageEnds =>
         \/ FetchReturn("ok")
         \/ /\ fetch'.segments = fetch.segments /\ fetch'.start = fetch.start
            /\ fetch'.step \in {"read", "parse"}
  BY <1>1 DEF MessageEnds, FetchRecord
<1> QED
  BY <1>1, <1>2, <1>3, <1>4, <1>5, <1>6

LEMMA SuccessStep ==
    ASSUME Calm, NoStrayOffsets, NoReadError, ShortLengths,
           FramedInv, WholeInv', SuccessInv, [FetchNext]_allVars
    PROVE  SuccessInv'
<1>1. /\ MessagesFit /\ CursorInv' /\ WholeInv /\ FilesWhole /\ TypeOK
      /\ Linked /\ FetchSucceeds /\ pc' # "down"
  BY DEF Calm, SuccessInv, WholeInv, FramedInv, ReplyInv, LayoutInv, DiskInv,
         FilesWhole
<1>2. CASE ChannelStep \/ UNCHANGED allVars
  <2>1. fetch' = fetch
    BY <1>1, <1>2 DEF ChannelStep, fetchVars, allVars
  <2> QED
    BY <1>1, <2>1 DEF SuccessInv, Linked, Fetching, FetchSucceeds
<1>3. ASSUME NEW start \in KnownOffsets \cup StrayOffsets,
             NEW batch \in BatchSizes, FetchMessages(start, batch)
      PROVE  Linked' /\ FetchSucceeds'
  <2>1. start \in Nat
    BY <1>1, KnownOffsetsType
  <2>2. /\ fetch'.step = "next" /\ fetch'.segments = SegmentList
        /\ fetch'.start = start
    BY <1>3 DEF FetchMessages, NoFetch
  <2> QED
    BY <1>1, <2>1, <2>2, LinkedFetch DEF Linked, FetchSucceeds
<1>4. CASE NextSegment
  BY <1>4, SuccessNext DEF SuccessInv
<1>5. CASE ReadBuffer
  BY <1>1, <1>5, SuccessRead DEF SuccessInv
<1>6. CASE ParseMessage
  BY <1>1, <1>6, SuccessParse DEF SuccessInv
<1> QED
  BY <1>2, <1>3, <1>4, <1>5, <1>6 DEF FetchNext, SuccessInv

\* A fetch from zero or from an offset that the channel handed out never
\* fails, under the assumptions of FetchesComplete, when preads do not fail
\* either and no length can be torn by the end of a buffer: no rotation below
\* the fetch leaves it without a segment for its next offset.
THEOREM FetchesSucceed ==
    ASSUME NoCrash, NoPowerLoss, NoShortWrite, NoReadError, NoStrayOffsets,
           MessagesFit, ShortLengths
    PROVE  FetchSpec => []FetchSucceeds
<1>1. Calm
  BY DEF Calm
<1>2. FetchInit /\ WholeInv => SuccessInv
  BY DEF FetchInit, NoFetch, SuccessInv, Linked, FetchSucceeds, Fetching
<1>3. SuccessInv /\ FramedInv /\ WholeInv' /\ [FetchNext]_allVars
         => SuccessInv'
  BY <1>1, SuccessStep
<1>4. SuccessInv => FetchSucceeds
  BY DEF SuccessInv
<1> QED
  BY <1>1, <1>2, <1>3, <1>4, WholeInvariant, PTL DEF FetchSpec
=============================================================================
