----------------------------- MODULE ByteStream -----------------------------
(***************************************************************************)
(* What the stream classes of inputstream.cc do for their callers, without *)
(* their buffers: a position in a sequence of bytes.  Every call answers   *)
(* from the bytes behind the position and moves past what it answers.  It  *)
(* is what the code does; in three places inputstream.h says otherwise:    *)
(* skipNextBytes of a file returns the number asked for also where the     *)
(* file ends before ("the number of bytes skipped"), seekTo stops at the   *)
(* end ("raises an exception if the provided offset is out of bounds"),    *)
(* and readLine returns true for a last line without a line end ("false if *)
(* the EOF was reached").                                                  *)
(***************************************************************************)
EXTENDS WireFormat

CONSTANTS
    Newline,        \* the byte that ends a line
    ByteOrderMarks, \* the byte sequences readByteOrderMark looks for
    MaxAllocation,  \* how many bytes there is memory for
    Count           \* what callers ask for: numbers of bytes, and offsets

VARIABLES
    bytes,     \* what can be read
    position,  \* how many of them lie behind the reader
    answer,    \* the answer to the last call
    file       \* whether they are read from a file, or from memory

streamVars == <<bytes, position, answer, file>>

NoAnswer == [op |-> "none", start |-> 0, status |-> "ok", value |-> << >>]

Answer(op, start, status, value) ==
    [op |-> op, start |-> start, status |-> status, value |-> value]

Rest == Len(bytes) - position

\* The next k bytes end with the first that is in a set, or with the stream.
UpTo(k, ends) ==
    /\ k \in 0 .. Rest
    /\ \A i \in 1 .. k - 1 : bytes[position + i] \notin ends
    /\ \/ k = Rest /\ (k > 0 => bytes[position + k] \notin ends)
       \/ k > 0 /\ bytes[position + k] \in ends

\* A call for at most, or for exactly, n bytes.
ReadBytes(n) ==
    LET k == Min({n, Rest}) IN
    /\ answer' = Answer("bytes", position, "ok",
                        SubSeq(bytes, position + 1, position + k))
    /\ position' = position + k

ReadExactly(n) ==
    /\ answer' = IF n <= Rest
                 THEN Answer("exact", position, "ok",
                             SubSeq(bytes, position + 1, position + n))
                 ELSE Answer("exact", position, "eof", << >>)
    /\ position' = position + Min({n, Rest})

ReadUntilEOF ==
    /\ answer' = Answer("until", position, "ok",
                        SubSeq(bytes, position + 1, Len(bytes)))
    /\ position' = Len(bytes)

\* A line with its end, the unfinished last one, or none.
ReadLine ==
    \E k \in 0 .. Rest :
        /\ UpTo(k, {Newline})
        /\ answer' = Answer("line", position, IF k > 0 THEN "ok" ELSE "eof",
                            SubSeq(bytes, position + 1, position + k))
        /\ position' = position + k

\* The integer at the position, as the decoder of the segment files reads it.
ReadInteger ==
    LET r == ReadVarUInt(bytes, position) IN
    /\ answer' = IF r.ok THEN Answer("varuint", position, "ok", <<r.value>>)
                 ELSE Answer("varuint", position, "eof", << >>)
    /\ position' = r.cur

\* The string whose length and bytes are at the position, unless it is too
\* long for the memory.
ReadLenenc ==
    LET r == ReadVarUInt(bytes, position)
        last == r.cur + r.value
        large == r.ok /\ r.value > MaxAllocation
    IN
    \/ /\ large
       /\ answer' = Answer("lenenc", position, "error", << >>)
       /\ position' \in position .. Len(bytes)
    \/ /\ ~large
       /\ IF r.ok /\ last <= Len(bytes)
          THEN /\ answer' = Answer("lenenc", position, "ok",
                                   SubSeq(bytes, r.cur + 1, last))
               /\ position' = last
          ELSE /\ answer' = Answer("lenenc", position, "eof", << >>)
               /\ position' = Len(bytes)

\* A file tells the number asked for, memory the number skipped.
Skip(n) ==
    /\ answer' = Answer("skip", position, "ok",
                        <<IF file THEN n ELSE Min({n, Rest})>>)
    /\ position' = position + Min({n, Rest})

SeekTo(n) ==
    /\ position' = Min({n, Len(bytes)})
    /\ answer' = Answer("seek", position, "ok", << >>)

Eof ==
    /\ answer' = Answer("eof", position,
                        IF Rest = 0 THEN "eof" ELSE "ok", << >>)
    /\ UNCHANGED position

ReadByteOrderMark ==
    \E mark \in ByteOrderMarks \cup {<< >>} :
        /\ Len(mark) <= Rest
        /\ mark = SubSeq(bytes, position + 1, position + Len(mark))
        /\ answer' = Answer("mark", position, "ok", mark)
        /\ position' = position + Len(mark)

\* A failing system call on a file: what was read by then is lost.
ReadError ==
    /\ file
    /\ position' \in position .. Len(bytes)
    /\ \E op \in {"bytes", "exact", "until", "line", "varuint", "lenenc",
                  "skip", "seek", "eof", "mark"} :
          answer' = Answer(op, position, "error", << >>)

\* The bytes are complete before the first of them is read.
Fill ==
    /\ position = 0 /\ answer = NoAnswer
    /\ bytes' \in Seq(Byte)
    /\ UNCHANGED <<position, answer>>

Read ==
    /\ \/ \E n \in Count :
             ReadBytes(n) \/ ReadExactly(n) \/ Skip(n) \/ SeekTo(n)
       \/ ReadUntilEOF \/ ReadLine \/ ReadInteger \/ ReadLenenc
       \/ Eof \/ ReadByteOrderMark \/ ReadError
    /\ UNCHANGED bytes

Init ==
    /\ bytes = << >> /\ position = 0 /\ answer = NoAnswer
    /\ file \in BOOLEAN

Next == (Fill \/ Read) /\ UNCHANGED file

Spec == Init /\ [][Next]_streamVars

=============================================================================
