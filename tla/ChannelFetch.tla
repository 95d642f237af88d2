---------------------------- MODULE ChannelFetch ----------------------------
(***************************************************************************)
(* fetchMessages of channel.cc beside the appends of Channel: it copies    *)
(* the segment list under the lock, then reads the files without it, one   *)
(* pread of kBufSize bytes at a time, while appends, rotations and crashes *)
(* go on.  The client resumes at offsets that earlier calls returned.      *)
(***************************************************************************)
EXTENDS Channel

CONSTANTS
    kBufSize,     \* the size of segmentRead's buffer
    BatchSizes,   \* the batch sizes clients ask for
    StrayOffsets  \* start offsets a client may use without having got them

ASSUME FetchAssumption ==
    /\ kBufSize \in Nat \ {0}
    /\ BatchSizes \subseteq Nat
    /\ StrayOffsets \subseteq Nat

VARIABLES
    fetch,   \* the call: its step, its copy of the segments, its cursors
    entries  \* the messages it has collected

fetchVars == <<fetch, entries>>
allVars == <<vars, fetch, entries>>

NoMessage == [offset |-> 0, next_offset |-> 0, data |-> << >>]
NoFetch ==
    [step |-> "none", segments |-> {}, start |-> 0, from |-> 0, batch |-> 0,
     known |-> 0, segment |-> [offset_begin |-> 0, offset_head |-> 0],
     file_offset |-> 0, buf |-> << >>, cur |-> 0, msg |-> NoMessage,
     msg_len |-> 0]

Fetching == fetch.step \in {"next", "read", "parse"}

FetchInit == Init /\ fetch = NoFetch /\ entries = << >>

(***************************************************************************)
(* The offsets a client knows: zero, what append returned, and the end of  *)
(* a message it has read.                                                  *)
(***************************************************************************)
KnownOffsets ==
    {0} \cup {acked[i].offset : i \in 1 .. Len(acked)}
        \cup {End(acked[i]) : i \in 1 .. Len(acked)}

\* Mutant: segments_archive_ is not copied.
SegmentListOpenOnly == {handle}

\* The archived segments and the open one.
SegmentList ==
    {[offset_begin |-> b, offset_head |-> archive[b]] : b \in DOMAIN archive}
        \cup {handle}

FetchMessages(start, batch) ==
    /\ ~Fetching
    /\ pc = "idle"
    /\ fetch' = [NoFetch EXCEPT !.step = "next", !.segments = SegmentList,
                                !.start = start, !.from = start,
                                !.batch = batch, !.known = Len(acked)]
    /\ entries' = << >>
    /\ UNCHANGED vars

\* The call returns; its copies and cursors go out of scope.
FetchReturn(step) ==
    fetch' = [NoFetch EXCEPT !.step = step, !.from = fetch.from,
                             !.batch = fetch.batch, !.known = fetch.known]

\* Mutant: one byte too far in both tests against offset_head.
NextSegmentInclusive ==
    /\ fetch.step = "next"
    /\ \/ fetch.segments = {} /\ FetchReturn("ok")
       \/ \E s \in fetch.segments :
             /\ \A t \in fetch.segments : s.offset_begin <= t.offset_begin
             /\ fetch' = IF fetch.start > s.offset_head
                         THEN [fetch EXCEPT !.segments = @ \ {s}]
                         ELSE [fetch EXCEPT
                                 !.step = "read", !.segment = s,
                                 !.file_offset = fetch.start - s.offset_begin]
    /\ UNCHANGED <<vars, entries>>

(***************************************************************************)
(* The loop over the copied segments, in order: one that ends at or before *)
(* the start offset is done; segmentRead refuses one that begins behind    *)
(* the start offset, and otherwise opens its file.                         *)
(***************************************************************************)
NextSegment ==
    /\ fetch.step = "next"
    /\ \/ fetch.segments = {} /\ FetchReturn("ok")
       \/ \E s \in fetch.segments :
             /\ \A t \in fetch.segments : s.offset_begin <= t.offset_begin
             /\ \/ /\ fetch.start >= s.offset_head
                   /\ fetch' = [fetch EXCEPT !.segments = @ \ {s}]
                \/ /\ fetch.start < s.offset_head
                   /\ fetch.start < s.offset_begin
                   /\ FetchReturn("EARG")
                \/ /\ s.offset_begin <= fetch.start
                   /\ fetch.start < s.offset_head
                   /\ fetch' = [fetch EXCEPT
                                  !.step = "read", !.segment = s,
                                  !.file_offset = fetch.start - s.offset_begin]
    /\ UNCHANGED <<vars, entries>>

\* Mutants: the caller goes on at the last message instead of behind it; it
\* does not go on to the next segment.
ReadReturnAtLast(es) ==
    IF Len(es) \in {0, fetch.batch}
    THEN FetchReturn("ok")
    ELSE fetch' = [fetch EXCEPT !.step = "next", !.start = es[Len(es)].offset,
                                !.buf = << >>, !.cur = 0,
                                !.msg = NoMessage, !.msg_len = 0]
ReadReturnEarly(es) == FetchReturn("ok")

\* segmentRead returns to the loop over the segments with the entries es.
ReadReturn(es) ==
    IF Len(es) \in {0, fetch.batch}
    THEN FetchReturn("ok")
    ELSE fetch' = [fetch EXCEPT !.step = "next",
                                !.start = es[Len(es)].next_offset,
                                !.buf = << >>, !.cur = 0,
                                !.msg = NoMessage, !.msg_len = 0]

(***************************************************************************)
(* segmentRead asks for the next kBufSize bytes while it is in front of    *)
(* the segment's offset_head; it gets what the file holds by now, which    *)
(* may lie behind the offset_head that was copied.                         *)
(***************************************************************************)
ReadBuffer ==
    LET s    == fetch.segment
        at   == fetch.file_offset
        data == segs[s.offset_begin].data
        size == IF at + kBufSize < Len(data) THEN at + kBufSize ELSE Len(data)
    IN
    /\ fetch.step = "read"
    /\ \/ at >= s.offset_head - s.offset_begin /\ ReadReturn(entries)
       \/ /\ at < s.offset_head - s.offset_begin
          /\ at >= Len(data) \/ "read_error" \in Faults
          /\ FetchReturn("EIO")
       \/ /\ at < s.offset_head - s.offset_begin
          /\ at < Len(data)
          /\ fetch' = [fetch EXCEPT !.step = "parse", !.cur = 0,
                                    !.buf = SubSeq(data, at + 1, size)]
    /\ UNCHANGED <<vars, entries>>

\* Mutant: the second part of a message replaces the first.
CollectLast(msg, bytes) == [msg EXCEPT !.data = bytes]

Collect(msg, bytes) == [msg EXCEPT !.data = @ \o bytes]

(***************************************************************************)
(* One message of the buffer, or the part of it that the buffer holds.  A  *)
(* message may go on in the next buffer, its length may not.               *)
(***************************************************************************)
ParseMessage ==
    LET buf  == fetch.buf
        here == fetch.segment.offset_begin + fetch.file_offset
        len  == IF fetch.msg_len = 0 THEN ReadVarUInt(buf, fetch.cur)
                ELSE [ok |-> TRUE, cur |-> fetch.cur, value |-> fetch.msg_len]
        end  == len.cur + len.value
        msg  == IF fetch.msg_len = 0
                THEN [offset |-> here + fetch.cur, next_offset |-> here + end,
                      data |-> << >>]
                ELSE fetch.msg
        part == SubSeq(buf, len.cur + 1, Len(buf))
        es   == Append(entries, Collect(msg, SubSeq(buf, len.cur + 1, end)))
    IN
    /\ fetch.step = "parse"
    /\ \/ /\ fetch.cur >= Len(buf)
          /\ fetch' = [fetch EXCEPT !.step = "read", !.buf = << >>, !.cur = 0,
                                    !.file_offset = @ + Len(buf)]
          /\ UNCHANGED entries
       \/ /\ fetch.cur < Len(buf) /\ ~len.ok
          /\ FetchReturn("EIO")
          /\ UNCHANGED entries
       \/ /\ fetch.cur < Len(buf) /\ len.ok /\ end > Len(buf)
          /\ fetch' = [fetch EXCEPT !.cur = Len(buf),
                                    !.msg = Collect(msg, part),
                                    !.msg_len = end - Len(buf)]
          /\ UNCHANGED entries
       \/ /\ fetch.cur < Len(buf) /\ len.ok /\ end <= Len(buf)
          /\ entries' = es
          /\ IF Len(es) = fetch.batch
             THEN ReadReturn(es)
             ELSE fetch' = [fetch EXCEPT !.cur = end, !.msg = NoMessage,
                                         !.msg_len = 0]
    /\ UNCHANGED vars

\* A crash takes the call with it.
ChannelStep ==
    /\ Next
    /\ IF pc' = "down" THEN fetch' = NoFetch /\ entries' = << >>
       ELSE UNCHANGED fetchVars

FetchNext ==
    \/ ChannelStep
    \/ \E start \in KnownOffsets \cup StrayOffsets, batch \in BatchSizes :
          FetchMessages(start, batch)
    \/ NextSegment
    \/ ReadBuffer
    \/ ParseMessage

\* The thread that fetches keeps running; nothing else is promised.
FetchSpec ==
    /\ FetchInit
    /\ [][FetchNext]_allVars
    /\ WF_allVars(NextSegment \/ ReadBuffer \/ ParseMessage)

-----------------------------------------------------------------------------
(* Properties                                                              *)

\* A fetch returns adjacent messages, the first at the start offset: it
\* neither skips nor repeats one when it goes from buffer to buffer and from
\* segment to segment, while appends rotate the segments below it.
FetchedAdjacent ==
    \A i \in 1 .. Len(entries) :
        entries[i].offset = IF i = 1 THEN fetch.from
                            ELSE entries[i - 1].next_offset

\* The fetch has returned the acknowledged message e whole, at its offset.
Returned(e) ==
    \E j \in 1 .. Len(entries) :
        entries[j] = [offset |-> e.offset, next_offset |-> End(e),
                      data |-> e.msg]

\* What a fetch returns and what appends were told agree: a message in the
\* range that the fetch covers is returned whole, at its offset.
FetchedAgrees ==
    \A i \in 1 .. Len(acked) :
        /\ entries # << >>
        /\ fetch.from <= acked[i].offset
        /\ acked[i].offset < entries[Len(entries)].next_offset
        => Returned(acked[i])

\* A fetch that returns fewer messages than it was asked for has returned
\* every message acknowledged before it began, from the start offset on.  So
\* has one that was asked for no messages: the count runs from 0 downwards.
FetchedAll ==
    fetch.step = "ok" /\ (Len(entries) < fetch.batch \/ fetch.batch = 0) =>
        \A i \in 1 .. fetch.known :
            acked[i].offset >= fetch.from => Returned(acked[i])

\* A fetch from an offset that the channel handed out, or from zero, never
\* fails (channel.h: "It is always valid to call this method with a start
\* offset of zero").
FetchSucceeds == fetch.step \notin {"EARG", "EIO"}

\* A fetch from zero or from an offset that the channel handed out comes to
\* an end, however many appends and rotations there are meanwhile.  One from
\* inside a message may not: when segmentRead takes the bytes there for a
\* message that does not end before offset_head, it adds no entry, and
\* fetchMessages calls it again for the same offset.
FetchTerminates == Fetching /\ fetch.from \in KnownOffsets ~> ~Fetching

=============================================================================
