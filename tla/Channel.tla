------------------------------ MODULE Channel ------------------------------
(***************************************************************************)
(* The write path of one channel (channel.cc): appendMessage, commit, the  *)
(* rotation of segments, the two system calls of segmentCommit, and what a *)
(* crash of the process or of the machine leaves for openChannel.  The     *)
(* mutex serialises the calls, so at most one is in progress; its steps    *)
(* are the system calls, because a crash can come between any two.         *)
(***************************************************************************)
EXTENDS WireFormat

CONSTANTS
    Message,          \* the payloads clients append
    kMaxSegmentSize,  \* a segment longer than this is closed
    MaxOffset,        \* bound: no append starts with the descriptor past it
    MaxAcked,         \* bound: no append starts after this many successes
    Faults            \* the faults of the environment that may occur

FaultKinds == {"create_error", "write_error", "short_write", "sync_error",
               "header_error", "crash", "power_loss", "read_error"}

ASSUME ChannelAssumption ==
    /\ Message \subseteq Seq(Byte)
    /\ kMaxSegmentSize \in Nat
    /\ MaxOffset \in Nat /\ MaxAcked \in Nat
    /\ Faults \subseteq FaultKinds

VARIABLES
    segs,          \* segment files as the page cache shows them, by begin
    stable,        \* the same files as they would be after losing power
    archive,       \* segments_archive_: offset_begin -> offset_head
    handle,        \* segment_handle_: the segment being written
    pos,           \* file position of its descriptor, behind the header
    needs_commit,  \* needs_commit_
    pc,            \* the next step of the call in progress, "idle" or "down"
    call,          \* its arguments, and the offset it will return
    acked          \* history: the appends that returned success, in order

vars == <<segs, stable, archive, handle, pos, needs_commit, pc, call, acked>>
memory == <<archive, handle, pos, needs_commit>>

File(head) == [head |-> head, data |-> << >>]
NoCall == [kind |-> "none", msg |-> << >>, offset |-> 0]
Current == handle.offset_begin

\* The function f with the value v at k.
With(f, k, v) == [x \in DOMAIN f \cup {k} |-> IF x = k THEN v ELSE f[x]]

\* The bytes d after a write of f behind its first p bytes.
WriteAt(d, p, f) ==
    [i \in 1 .. IF p + Len(f) > Len(d) THEN p + Len(f) ELSE Len(d) |->
        IF i > p /\ i <= p + Len(f) THEN f[i - p]
        ELSE IF i <= Len(d) THEN d[i] ELSE 0]

(***************************************************************************)
(* createChannel has made the first segment.  The constructor does not     *)
(* initialise needs_commit_.                                               *)
(***************************************************************************)
Init ==
    /\ segs = [b \in {0} |-> File(b)]
    /\ stable = segs
    /\ archive = << >>
    /\ handle = [offset_begin |-> 0, offset_head |-> 0]
    /\ pos = 0
    /\ needs_commit \in BOOLEAN
    /\ pc = "idle"
    /\ call = NoCall
    /\ acked = << >>

\* The call ends and the lock is released.
Return == pc' = "idle" /\ call' = NoCall

\* Mutant: no commitWithLock before the rotation.
AppendMessageUncommitted(m) ==
    /\ pc = "idle"
    /\ Current + pos < MaxOffset /\ Len(acked) < MaxAcked
    /\ call' = [kind |-> "append", msg |-> m, offset |-> 0]
    /\ pc' = IF handle.offset_head - Current <= kMaxSegmentSize THEN "write"
             ELSE "rotate"
    /\ UNCHANGED <<segs, stable, memory, acked>>

(***************************************************************************)
(* appendMessage takes the lock and decides whether to rotate first.       *)
(***************************************************************************)
AppendMessage(m) ==
    /\ pc = "idle"
    /\ Current + pos < MaxOffset /\ Len(acked) < MaxAcked
    /\ call' = [kind |-> "append", msg |-> m, offset |-> 0]
    /\ pc' = IF handle.offset_head - Current <= kMaxSegmentSize THEN "write"
             ELSE IF needs_commit THEN "rotate_sync" ELSE "rotate"
    /\ UNCHANGED <<segs, stable, memory, acked>>

\* commit does nothing more when there is nothing to commit.
Commit ==
    /\ pc = "idle"
    /\ needs_commit
    /\ call' = [NoCall EXCEPT !.kind = "commit"]
    /\ pc' = "sync"
    /\ UNCHANGED <<segs, stable, memory, acked>>

\* Mutant: the old segment is not put into segments_archive_.
RotateUnarchived ==
    LET head == handle.offset_head IN
    /\ pc = "rotate"
    /\ segs' = With(segs, head, File(head))
    /\ handle' = [offset_begin |-> head, offset_head |-> head]
    /\ pos' = 0
    /\ pc' = "write"
    /\ UNCHANGED <<stable, archive, needs_commit, call, acked>>

(***************************************************************************)
(* segmentCreate writes the header under a temporary name and renames it,  *)
(* so the file appears whole; then the old segment moves to the archive.   *)
(***************************************************************************)
Rotate ==
    LET head == handle.offset_head IN
    /\ pc = "rotate"
    /\ \/ /\ segs' = With(segs, head, File(head))
          /\ archive' = With(archive, Current, head)
          /\ handle' = [offset_begin |-> head, offset_head |-> head]
          /\ pos' = 0
          /\ pc' = "write"
          /\ UNCHANGED call
       \/ /\ "create_error" \in Faults
          /\ Return
          /\ UNCHANGED <<segs, archive, handle, pos>>
    /\ UNCHANGED <<stable, needs_commit, acked>>

(***************************************************************************)
(* messageWrite: one write(2) at the position of the descriptor.  A write  *)
(* that stores only a part of the frame is reported as an error, and the   *)
(* descriptor stays behind that part.                                      *)
(***************************************************************************)
WriteBytes(f) ==
    /\ pc = "write"
    /\ segs' = [segs EXCEPT ![Current].data = WriteAt(@, pos, f)]
    /\ pos' = pos + Len(f)
    /\ UNCHANGED <<stable, archive, acked>>

\* The append will return offset, and needs_commit_ becomes dirty.
WriteFrame(offset, dirty) ==
    /\ WriteBytes(Frame(call.msg))
    /\ handle' = [handle EXCEPT !.offset_head = @ + Len(Frame(call.msg))]
    /\ call' = [call EXCEPT !.offset = offset]
    /\ needs_commit' = dirty
    /\ pc' = "sync"

WriteShort ==
    /\ "short_write" \in Faults
    /\ \E k \in 1 .. Len(Frame(call.msg)) - 1 :
          WriteBytes(SubSeq(Frame(call.msg), 1, k))
    /\ Return
    /\ UNCHANGED <<handle, needs_commit>>

WriteFails ==
    /\ pc = "write"
    /\ "write_error" \in Faults
    /\ Return
    /\ UNCHANGED <<segs, stable, memory, acked>>

\* Mutant: *offset is assigned after segmentAppend.
SegmentAppendLateOffset ==
    WriteFrame(handle.offset_head + Len(Frame(call.msg)), TRUE)

\* Mutant: needs_commit_ is not set.
SegmentAppendForgetful == WriteFrame(handle.offset_head, needs_commit)

SegmentAppend ==
    \/ WriteFrame(handle.offset_head, TRUE)
    \/ WriteShort
    \/ WriteFails

\* Mutant: no fdatasync.
SyncDataSkipped ==
    /\ pc \in {"rotate_sync", "sync"}
    /\ pc' = IF pc = "sync" THEN "header" ELSE "rotate_header"
    /\ UNCHANGED <<segs, stable, memory, call, acked>>

(***************************************************************************)
(* segmentCommit: fdatasync, then the header with the new offset_head.     *)
(* It runs before a rotation and at the end of an append or a commit.      *)
(***************************************************************************)
SyncData ==
    /\ pc \in {"rotate_sync", "sync"}
    /\ \/ /\ stable' = With(stable, Current, segs[Current])
          /\ pc' = IF pc = "sync" THEN "header" ELSE "rotate_header"
          /\ UNCHANGED call
       \/ /\ "sync_error" \in Faults
          /\ Return
          /\ UNCHANGED stable
    /\ UNCHANGED <<segs, memory, acked>>

\* Mutant: the result of pwrite is not looked at.
WriteHeaderUnchecked ==
    /\ pc \in {"rotate_header", "header"}
    /\ segs' \in {segs, [segs EXCEPT ![Current].head = handle.offset_head]}
    /\ needs_commit' = FALSE
    /\ IF pc = "rotate_header"
       THEN pc' = "rotate" /\ UNCHANGED <<call, acked>>
       ELSE /\ Return
            /\ acked' = IF call.kind = "append"
                        THEN Append(acked, [offset |-> call.offset,
                                            msg |-> call.msg])
                        ELSE acked
    /\ UNCHANGED <<stable, archive, handle, pos>>

WriteHeader ==
    /\ pc \in {"rotate_header", "header"}
    /\ \/ /\ segs' = [segs EXCEPT ![Current].head = handle.offset_head]
          /\ needs_commit' = FALSE
          /\ IF pc = "rotate_header"
             THEN pc' = "rotate" /\ UNCHANGED <<call, acked>>
             ELSE /\ Return
                  /\ acked' = IF call.kind = "append"
                              THEN Append(acked, [offset |-> call.offset,
                                                  msg |-> call.msg])
                              ELSE acked
       \/ /\ "header_error" \in Faults
          /\ Return
          /\ UNCHANGED <<segs, needs_commit, acked>>
    /\ UNCHANGED <<stable, archive, handle, pos>>

(***************************************************************************)
(* The process dies: what it wrote stays in the page cache, what it knew   *)
(* is gone.  When the machine loses power, each header and each body that  *)
(* was not synced since its last change may revert, and a file that was    *)
(* never synced may be missing.                                            *)
(***************************************************************************)
Forget ==
    /\ archive' = << >>
    /\ handle' = [offset_begin |-> 0, offset_head |-> 0]
    /\ pos' = 0
    /\ needs_commit' = FALSE
    /\ pc' = "down"
    /\ call' = NoCall
    /\ UNCHANGED acked

Durable(b) == IF b \in DOMAIN stable THEN stable[b] ELSE File(b)

Crash ==
    /\ "crash" \in Faults
    /\ pc # "down"
    /\ Forget
    /\ UNCHANGED <<segs, stable>>

PowerLoss ==
    /\ "power_loss" \in Faults
    /\ pc # "down"
    /\ \E files, heads, bodies \in SUBSET DOMAIN segs :
          segs' = [b \in DOMAIN stable \cup files |->
                     [head |-> IF b \in heads THEN segs[b].head
                               ELSE Durable(b).head,
                      data |-> IF b \in bodies THEN segs[b].data
                               ELSE Durable(b).data]]
    /\ stable' = segs'
    /\ Forget

\* segmentReadHeader; the first header was written before the file had its
\* name, and later ones replace its eight bytes of offset_head.
ReadHeader(b) == segs[b].head

\* The open segment resumes at the offset head, the descriptor at p.
Resume(last, head, p) ==
    /\ pc = "down"
    /\ last \in DOMAIN segs
    /\ \A b \in DOMAIN segs : b <= last
    /\ archive' = [b \in DOMAIN segs \ {last} |-> ReadHeader(b)]
    /\ handle' = [offset_begin |-> last, offset_head |-> head]
    /\ pos' = p
    /\ needs_commit' \in BOOLEAN
    /\ pc' = "idle"
    /\ UNCHANGED <<segs, stable, call, acked>>

\* Mutants: the header is ignored; the descriptor is not positioned; the
\* subtraction of segmentOpen is the wrong way round.
OpenAtBegin == \E last \in DOMAIN segs : Resume(last, last, 0)
OpenWithoutSeek == \E last \in DOMAIN segs : Resume(last, segs[last].head, 0)
OpenSwapped ==
    \E last \in DOMAIN segs :
        Resume(last, segs[last].head, last - segs[last].head)

(***************************************************************************)
(* openDirectory reads the header of every segment file, and openChannel   *)
(* resumes the last one behind the committed messages.                     *)
(***************************************************************************)
OpenChannel ==
    \E last \in DOMAIN segs :
        Resume(last, ReadHeader(last), ReadHeader(last) - last)

Next ==
    \/ \E m \in Message : AppendMessage(m)
    \/ Commit
    \/ Rotate
    \/ SegmentAppend
    \/ SyncData
    \/ WriteHeader
    \/ Crash
    \/ PowerLoss
    \/ OpenChannel

Spec == Init /\ [][Next]_vars

-----------------------------------------------------------------------------
(* Properties                                                              *)

\* The bytes of frames, and the zero that fills a hole.
FileByte == {0} \cup UNION {Range(Frame(m)) : m \in Message}

SegmentFile == [head : Nat, data : Seq(FileByte)]

FilesType ==
    /\ segs \in [DOMAIN segs -> SegmentFile]
    /\ DOMAIN segs \subseteq Nat
    /\ stable \in [DOMAIN stable -> SegmentFile]
    /\ 0 \in DOMAIN stable
    /\ DOMAIN stable \subseteq DOMAIN segs

MemoryType ==
    /\ archive \in [DOMAIN archive -> Nat]
    /\ DOMAIN archive \subseteq DOMAIN segs
    /\ handle \in [offset_begin : Nat, offset_head : Nat]
    /\ Current \in DOMAIN segs
    /\ pos \in Nat
    /\ needs_commit \in BOOLEAN

CallType ==
    /\ pc \in {"down", "idle", "rotate_sync", "rotate_header", "rotate",
               "write", "sync", "header"}
    /\ call \in [kind : {"none", "append", "commit"},
                 msg : Message \cup {<< >>}, offset : Nat]
    /\ pc \in {"rotate_sync", "rotate_header", "rotate", "write"} =>
          call.kind = "append"
    /\ call.kind = "append" => call.msg \in Message
    /\ acked \in Seq([offset : Nat, msg : Message])

\* Every variable has the type the code declares for it; what is stable is a
\* part of what is visible, and memory names only segments that exist.
TypeOK == FilesType /\ MemoryType /\ CallType

IsLast(b) == \A c \in DOMAIN segs : c <= b

\* The bytes a header commits are on stable storage: fdatasync comes before
\* the header names them, and nothing writes below the header again.  Not
\* even a power loss leaves a header that covers bytes that are missing.
CommittedBytesStable ==
    \A b \in DOMAIN segs : \A i \in 1 .. segs[b].head - b :
        /\ b \in DOMAIN stable
        /\ i <= Len(segs[b].data)
        /\ i <= Len(stable[b].data)
        /\ segs[b].data[i] = stable[b].data[i]

\* What is committed stays: no header moves back, no byte below it changes.
CommittedKept ==
    \A b \in DOMAIN segs :
        /\ b \in DOMAIN segs'
        /\ segs[b].head <= segs'[b].head
        /\ \A i \in 1 .. segs[b].head - b :
              i <= Len(segs'[b].data) /\ segs'[b].data[i] = segs[b].data[i]

\* Committed messages are immutable under every call, failed call, restart
\* and rotation.  Readers rely on it: fetchMessages copies the offsets under
\* the lock and reads the files without it.
CommittedImmutable == [][CommittedKept]_vars

\* The segment files tile the offsets: each but the last ends, by its header,
\* exactly where the next begins.  Otherwise fetchMessages, which walks from
\* one segment to the next, meets an offset in no segment and fails.
Contiguous ==
    \A b \in DOMAIN segs :
        \/ IsLast(b)
        \/ /\ segs[b].head \in DOMAIN segs
           /\ b < segs[b].head
           /\ \A c \in DOMAIN segs : c > b => c >= segs[b].head

\* While the channel is open, its list of segments is the directory: every
\* file but the one being written is in the archive with the offset_head of
\* its header, and the file being written is the last.
MemoryMatchesDisk ==
    pc # "down" =>
        /\ IsLast(Current)
        /\ archive = [b \in DOMAIN segs \ {Current} |-> segs[b].head]
        /\ segs[Current].head <= handle.offset_head

\* The bytes d hold the message m behind their first p bytes.
Holds(d, p, m) ==
    /\ 0 <= p
    /\ p + Len(Frame(m)) <= Len(d)
    /\ \A i \in 1 .. Len(Frame(m)) : d[p + i] = Frame(m)[i]

\* The offset appendMessage is about to return is the one at which the
\* message was written, as channel.h promises.
OffsetIsWhereWritten ==
    pc \in {"sync", "header"} /\ call.kind = "append" =>
        Holds(segs[Current].data, call.offset - Current, call.msg)

\* The offset behind an acknowledged message.
End(e) == e.offset + Len(Frame(e.msg))

\* The message e is in one of the files, below its header.
StoredIn(files, e) ==
    \E b \in DOMAIN files : /\ Holds(files[b].data, e.offset - b, e.msg)
                            /\ End(e) <= files[b].head

\* An append that returned success can be read back at the offset it
\* returned, whatever calls fail and whenever the process crashes later.
AckedReadable == \A i \in 1 .. Len(acked) : StoredIn(segs, acked[i])

\* Successful appends return increasing offsets and their messages never
\* overlap: no restart and no failed append hands out an offset again.
AckedInOrder ==
    \A i, j \in 1 .. Len(acked) : i < j => End(acked[i]) <= acked[j].offset

=============================================================================
