--------------------------- MODULE ChannelFetchInv ---------------------------
(***************************************************************************)
(* The inductive invariants of ChannelFetch.                               *)
(*   CursorInv  where a fetch stands; it holds under every fault and from  *)
(*              every start offset;                                        *)
(*   WholeInv   what the bytes under it mean; it needs that no process     *)
(*              crashed and left bytes behind an offset_head (the run      *)
(*              fetch_leftover shows why), and the start offsets that the  *)
(*              channel handed out.                                        *)
(***************************************************************************)
EXTENDS ChannelFetch, ChannelInv

Segment == [offset_begin : Nat, offset_head : Nat]
FetchEntry == [offset : Nat, next_offset : Nat, data : Seq(Nat)]

FetchRecord ==
    [step : {"none", "next", "read", "parse", "ok", "EARG", "EIO"},
     segments : SUBSET Segment, start : Nat, from : Nat, batch : Nat,
     known : Nat, segment : Segment, file_offset : Nat, buf : Seq(Nat),
     cur : Nat, msg : FetchEntry, msg_len : Nat]

FetchType ==
    /\ fetch \in FetchRecord
    /\ entries \in Seq(FetchEntry)
    /\ fetch.cur <= Len(fetch.buf)
    /\ fetch.step \in {"next", "read"} => fetch.cur = 0
    /\ fetch.step = "next" => fetch.msg_len = 0
    /\ fetch.known <= Len(acked)

Reading == fetch.step \in {"read", "parse"}

\* The segments a fetch has copied have files, and the one it reads is one
\* of them; a process that dies takes the fetch with it.
ListExists ==
    /\ Fetching =>
          /\ pc # "down"
          /\ \A s \in fetch.segments : s.offset_begin \in DOMAIN segs
    /\ Reading => fetch.segment \in fetch.segments

\* The offset behind the last message the fetch has collected.
Collected ==
    IF entries = << >> THEN fetch.from ELSE entries[Len(entries)].next_offset

\* The offset of the next byte the fetch will look at.
Here == fetch.segment.offset_begin + fetch.file_offset + fetch.cur

\* A fetch looks at the bytes behind what it has collected, apart from the
\* part of a message that it has in msg.
Position ==
    /\ fetch.step = "next" => fetch.start = Collected
    /\ Fetching /\ entries = << >> => fetch.start = fetch.from
    /\ Reading =>
          /\ fetch.start <= Collected
          /\ fetch.segment.offset_begin <= fetch.start
          /\ fetch.start < fetch.segment.offset_head
          /\ IF fetch.msg_len = 0 THEN Here = Collected
             ELSE /\ fetch.msg.offset = Collected
                  /\ fetch.msg.offset <= Here
                  /\ fetch.msg.next_offset = Here + fetch.msg_len

CursorInv == FetchType /\ ListExists /\ Position /\ FetchedAdjacent

-----------------------------------------------------------------------------

\* Nothing is behind the last message of a file.
FilesWhole ==
    /\ pc # "down"
    /\ \A b \in DOMAIN segs :
          b + Len(segs[b].data) = IF b = Current THEN handle.offset_head
                                  ELSE segs[b].head

\* The offset x lies between two messages of the file b.
Boundary(b, x) ==
    /\ b <= x
    /\ Framed(segs[b].data, 0, x - b)
    /\ Framed(segs[b].data, x - b, Len(segs[b].data))

OnBoundary(x) == \E b \in DOMAIN segs : Boundary(b, x)

\* The message m is one of those in the file b, at the offset x.
Written(b, x, m) ==
    /\ Boundary(b, x)
    /\ Holds(segs[b].data, x - b, m)
    /\ Boundary(b, x + Len(Frame(m)))

\* An offset_head that was copied lies between two messages, also when the
\* file has grown since.
ListWhole ==
    Fetching => \A s \in fetch.segments : Boundary(s.offset_begin, s.offset_head)

\* All that was collected are messages of the files.
EntriesWritten ==
    \A j \in 1 .. Len(entries) :
        /\ entries[j].data \in Message
        /\ entries[j].next_offset =
              entries[j].offset + Len(Frame(entries[j].data))
        /\ \E b \in DOMAIN segs : Written(b, entries[j].offset, entries[j].data)

\* What a fetch looks at next is a message, or the rest of the one whose
\* beginning is in msg.
PartWhole ==
    LET b == fetch.segment.offset_begin IN
    IF fetch.msg_len = 0 THEN Boundary(b, Here)
    ELSE \E m \in Message :
            /\ Written(b, fetch.msg.offset, m)
            /\ fetch.msg_len <= Len(m)
            /\ fetch.msg.data = SubSeq(m, 1, Len(m) - fetch.msg_len)
            /\ fetch.msg.next_offset = fetch.msg.offset + Len(Frame(m))

\* The buffer is what the file holds.
BufferWhole ==
    LET data == segs[fetch.segment.offset_begin].data
        at   == fetch.file_offset
    IN
    /\ fetch.step = "next" => OnBoundary(fetch.start)
    /\ fetch.step = "parse" =>
          /\ at + Len(fetch.buf) <= Len(data)
          /\ \A i \in 1 .. Len(fetch.buf) : fetch.buf[i] = data[at + i]
    /\ Reading => PartWhole

\* What was acknowledged before the fetch began and is still ahead of it is
\* in one of the segments it has yet to read.
Pending ==
    Fetching =>
        \A i \in 1 .. fetch.known :
            acked[i].offset >= Collected =>
                \E s \in fetch.segments :
                    /\ s.offset_begin <= acked[i].offset
                    /\ acked[i].offset < s.offset_head

\* The segments that are left begin at or before the start offset, or where
\* another one ends.
Linked ==
    Fetching =>
        \A s \in fetch.segments :
            \/ s.offset_begin <= fetch.start
            \/ \E t \in fetch.segments :
                  /\ t.offset_begin < s.offset_begin
                  /\ t.offset_head = s.offset_begin

WholeInv ==
    /\ CursorInv
    /\ FilesWhole
    /\ ListWhole
    /\ EntriesWritten
    /\ BufferWhole
    /\ Pending
    /\ FetchedAll

SuccessInv == WholeInv /\ Linked /\ FetchSucceeds

=============================================================================
