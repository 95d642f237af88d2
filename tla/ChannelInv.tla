----------------------------- MODULE ChannelInv -----------------------------
(***************************************************************************)
(* The inductive invariants of Channel.  Each theorem of ChannelProofs     *)
(* needs only some parts, because it tolerates only some faults:           *)
(*   DiskInv    holds under every fault;                                   *)
(*   LayoutInv  fails after a power loss, which can take back a header;    *)
(*   ReplyInv   also fails after a short write, which moves the            *)
(*              descriptor without moving offset_head;                     *)
(*   FramedInv  says what the bytes mean, for readers; it needs what        *)
(*              ReplyInv needs.                                            *)
(***************************************************************************)
EXTENDS Channel

Rotating == pc \in {"rotate_sync", "rotate_header", "rotate"}

\* Headers only ever grow, so the stable one is behind the visible one.
HeadersOrdered ==
    /\ \A b \in DOMAIN segs : b <= segs[b].head
    /\ \A b \in DOMAIN stable :
          b <= stable[b].head /\ stable[b].head <= segs[b].head

\* The open segment: committed part, then what offset_head counts, then the
\* descriptor, then perhaps bytes an earlier process wrote.
OpenSegment ==
    pc # "down" =>
        /\ IsLast(Current)
        /\ Current <= handle.offset_head
        /\ segs[Current].head <= handle.offset_head
        /\ handle.offset_head <= Current + pos
        /\ pos <= Len(segs[Current].data)
        /\ Rotating => Current < handle.offset_head

\* Between fdatasync and the header, what is visible is stable.
SyncedBeforeHeader ==
    pc \in {"rotate_header", "header"} =>
        Current \in DOMAIN stable /\ stable[Current] = segs[Current]

DiskInv ==
    /\ TypeOK
    /\ CommittedBytesStable
    /\ HeadersOrdered
    /\ OpenSegment
    /\ SyncedBeforeHeader

\* needs_commit_ may say that there is something to commit when there is
\* not, which is harmless, but never the reverse.
CommitNotForgotten ==
    pc # "down" /\ (~needs_commit \/ pc = "rotate") =>
        segs[Current].head = handle.offset_head

\* The message being appended ends at the new offset_head, and begins behind
\* everything committed.
ReplyBehindCommitted ==
    pc \in {"sync", "header"} /\ call.kind = "append" =>
        /\ segs[Current].head <= call.offset
        /\ call.offset + Len(Frame(call.msg)) = handle.offset_head

\* Every acknowledged message is committed.
AckedCommitted ==
    \A i \in 1 .. Len(acked) : \A b \in DOMAIN segs :
        IsLast(b) => End(acked[i]) <= segs[b].head

LayoutInv ==
    /\ DiskInv
    /\ CommitNotForgotten
    /\ Contiguous
    /\ MemoryMatchesDisk
    /\ ReplyBehindCommitted
    /\ AckedCommitted
    /\ AckedInOrder

\* The descriptor stands where the next message will be said to be.
PositionMatchesHead ==
    pc # "down" => Current + pos = handle.offset_head

ReplyInv ==
    /\ LayoutInv
    /\ PositionMatchesHead
    /\ OffsetIsWhereWritten
    /\ AckedReadable

\* In the bytes d the envelopes from p to n begin behind the numbers of bytes
\* in starts, one behind the other.
Starts(d, p, n, starts) ==
    /\ starts \subseteq p .. n
    /\ {p, n} \subseteq starts
    /\ \A s \in starts \ {n} : \E m \in Message :
          Holds(d, s, m) /\ s + Len(Frame(m)) \in starts

\* The bytes of d behind the first p and up to n are whole envelopes.
Framed(d, p, n) == \E starts \in SUBSET (p .. n) : Starts(d, p, n, starts)

\* What a header commits is whole envelopes, and there is a last segment.
FilesFramed ==
    /\ \E b \in DOMAIN segs : IsLast(b)
    /\ \A b \in DOMAIN segs : Framed(segs[b].data, 0, segs[b].head - b)

\* So are the bytes that are written and not yet committed; the last of them
\* is the message being appended.
OpenFramed ==
    LET data  == segs[Current].data
        begin == segs[Current].head - Current
    IN  /\ pc # "down" => Framed(data, begin, handle.offset_head - Current)
        /\ pc \in {"sync", "header"} /\ call.kind = "append" =>
              Framed(data, begin, call.offset - Current)

\* The message e is one of the envelopes of a file, below its header.
FramedIn(files, e) ==
    \E b \in DOMAIN files :
        /\ Framed(files[b].data, 0, e.offset - b)
        /\ Holds(files[b].data, e.offset - b, e.msg)
        /\ Framed(files[b].data, End(e) - b, files[b].head - b)

\* Every acknowledged message is one of these envelopes.
AckedFramed == \A i \in 1 .. Len(acked) : FramedIn(segs, acked[i])

FramedInv ==
    /\ ReplyInv
    /\ FilesFramed
    /\ OpenFramed
    /\ AckedFramed

=============================================================================
