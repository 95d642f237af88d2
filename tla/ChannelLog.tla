----------------------------- MODULE ChannelLog -----------------------------
(***************************************************************************)
(* Channel implements MessageLog.  The log is what the segment files hold  *)
(* below their headers, decoded envelope by envelope; nothing but the      *)
(* bytes on disk decides it, so it shows too that the bytes written can be *)
(* read back (util/varint.cc, message.cc).                                 *)
(***************************************************************************)
EXTENDS Channel

\* The committed bytes of the segment b.
Committed(files, b) == SubSeq(files[b].data, 1, files[b].head - b)

\* The messages in the bytes d of segment b behind the first cur of them, up
\* to the first message that is torn.
DecodeFrom(b, d) ==
    LET from[cur \in 0 .. Len(d)] ==
            LET len == ReadVarUInt(d, cur)
                end == len.cur + len.value
                msg == SubSeq(d, len.cur + 1, end)
            IN  IF ~len.ok \/ end > Len(d) THEN << >>
                ELSE <<[offset |-> b + cur, msg |-> msg]>> \o from[end]
    IN  from

\* The messages in the segments from b on, in order of offset.
LogFrom(files) ==
    LET from[b \in DOMAIN files] ==
            LET later == {c \in DOMAIN files : c > b}
            IN  DecodeFrom(b, Committed(files, b))[0]
                    \o (IF later = {} THEN << >> ELSE from[Min(later)])
    IN  from

DecodedLog == LogFrom(segs)[Min(DOMAIN segs)]

\* Whoever decodes the files from the start comes across every message that
\* appendMessage acknowledged, at the offset it returned: no byte that a
\* failed call or an earlier process left behind is read as the beginning of
\* another message.
AckedInLog ==
    LET log == DecodedLog
    IN  \A i \in 1 .. Len(acked) : \E j \in 1 .. Len(log) : log[j] = acked[i]

Log == INSTANCE MessageLog WITH log <- DecodedLog, answers <- acked

\* Every step of the channel, failed calls, crashes and rotations included,
\* is a commit of whole messages to the log or invisible in it: an offset
\* names one message for ever, and success is reported only for a message
\* that the log holds at the reported offset.
ImplementsMessageLog == Log!Spec

=============================================================================
