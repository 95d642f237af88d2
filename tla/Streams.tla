------------------------------ MODULE Streams ------------------------------
(***************************************************************************)
(* The byte streams of util/inputstream.cc and util/outputstream.cc.       *)
(* Strings are written to a file, where a write may come up short, or to a *)
(* growing Buffer; then one of the InputStream subclasses reads what is    *)
(* there, a FileInputStream through a small read buffer that read() fills  *)
(* as far as it likes.  A call of the InputStream interface is a loop, and *)
(* each round of it a step.                                                *)
(***************************************************************************)
EXTENDS WireFormat, SequencesExt

CONSTANTS
    Newline,        \* the byte that ends a line
    ByteOrderMarks, \* the marks of readByteOrderMark, none a prefix of another
    Text,           \* the strings that are written
    Count,          \* what callers ask for: numbers of bytes, and offsets
    BufferSize,     \* sizeof(buf_), 8192 in the code
    MaxAllocation,  \* how many bytes malloc() gives for one string
    MaxBytes,       \* bound: bytes written
    MaxOffset       \* bound: how far a seek goes

\* The length of a string can be written in the ten bytes of an integer, and
\* there is memory to read it back.
ASSUME StreamsAssumption ==
    /\ Text \subseteq Seq(Byte)
    /\ \A s \in Text : Shifted(Len(s))[MaxVarUIntLen] = 0
    /\ MaxAllocation \in Nat /\ \A s \in Text : Len(s) <= MaxAllocation
    /\ ByteOrderMarks \subseteq Seq(Byte)
    /\ Count \subseteq Nat
    /\ BufferSize \in Nat \ {0}
    /\ MaxBytes \in Nat /\ MaxOffset \in Nat

VARIABLES
    class,    \* "file", or "buffer" for the streams over memory
    disk,     \* the bytes of the file
    buffer,   \* the Buffer: its allocation, and its logical size
    stream,   \* the open input stream: fd offset, buf_ up to buf_len_, buf_pos_
    call,     \* the call of it that runs, with what it has read
    answer,   \* what the last call returned
    records   \* history: the strings written whole, and where

storeVars == <<disk, buffer, records>>
streamsVars == <<class, disk, buffer, stream, call, answer, records>>

\* A stream at its beginning, with nothing in its read buffer.
Beginning(open) == [offset |-> 0, buf |-> << >>, pos |-> 0, open |-> open]
NotOpen == Beginning(FALSE)

Idle == [op |-> "none", count |-> 0, start |-> 0, got |-> << >>]

Outcome(op, start, status, value) ==
    [op |-> op, start |-> start, status |-> status, value |-> value]

NoAnswer == Outcome("none", 0, "ok", << >>)

StreamInit ==
    /\ class \in {"file", "buffer"}
    /\ disk = << >>
    /\ buffer = [data |-> << >>, size |-> 0]
    /\ stream = NotOpen /\ call = Idle /\ answer = NoAnswer
    /\ records = {}

-----------------------------------------------------------------------------
(* The Buffer                                                              *)

\* New memory holds whatever was there: the first of any bytes.
Reserve(b, n, junk) == [b EXCEPT !.data = @ \o [i \in 1 .. n |-> junk[i]]]

Fitting(b, size, junk) ==
    IF size > Len(b.data) THEN Reserve(b, size - Len(b.data), junk) ELSE b

\* Mutant: append writes behind what is reserved, not behind what is used.
BufferAppendReserved(b, s) ==
    [data |-> b.data \o s, size |-> b.size + Len(s)]

\* append writes over all that it reserves, here at once.
BufferAppend(b, s) ==
    [data |-> [i \in 1 .. Len(Fitting(b, b.size + Len(s), s).data) |->
                  IF i \in b.size + 1 .. b.size + Len(s) THEN s[i - b.size]
                  ELSE Fitting(b, b.size + Len(s), s).data[i]],
     size |-> b.size + Len(s)]

Resize(b, size, junk) == [Fitting(b, size, junk) EXCEPT !.size = size]

Contents ==
    IF class = "file" THEN disk ELSE SubSeq(buffer.data, 1, buffer.size)

-----------------------------------------------------------------------------
(* Writing                                                                 *)

Writing == ~stream.open

RecordAt(start, s) == [start |-> start, value |-> s]

\* The records that lie within the first n bytes.
RecordsWithin(n) ==
    {r \in records : r.start + Len(Frame(r.value)) <= n}

\* write() to a file may write a part, or nothing and raise.
Written(s) == {SubSeq(s, 1, j) : j \in 0 .. Len(s)}

\* A length and a string, two writes whose results nobody looks at: either
\* may be cut short, and nothing of the second is there when one raises.
AppendLenencString(s) ==
    /\ Writing
    /\ Len(Contents) + Len(Frame(s)) <= MaxBytes
    /\ \/ /\ class = "file"
          /\ \E l \in Written(WriteVarUInt(Len(s))), t \in Written(s) :
                /\ disk' = (disk \o l) \o t
                /\ records' = IF l = WriteVarUInt(Len(s)) /\ t = s
                              THEN records \cup {RecordAt(Len(disk), s)}
                              ELSE records
          /\ UNCHANGED buffer
       \/ /\ class = "buffer"
          /\ buffer' = BufferAppend(BufferAppend(buffer, WriteVarUInt(Len(s))), s)
          /\ records' = records \cup {RecordAt(buffer.size, s)}
          /\ UNCHANGED disk
    /\ UNCHANGED <<class, stream, call, answer>>

\* The bytes alone; likewise an integer of fixed width, or a Buffer.
AppendString(s) ==
    /\ Writing
    /\ Len(Contents) + Len(s) <= MaxBytes
    /\ \/ /\ class = "file"
          /\ \E t \in Written(s) : disk' = disk \o t
          /\ UNCHANGED buffer
       \/ /\ class = "buffer"
          /\ buffer' = BufferAppend(buffer, s)
          /\ UNCHANGED disk
    /\ UNCHANGED <<class, stream, call, answer, records>>

ReserveBuffer(n) ==
    /\ Writing /\ class = "buffer"
    /\ Len(buffer.data) + n <= MaxBytes
    /\ \E junk \in [1 .. n -> Byte] : buffer' = Reserve(buffer, n, junk)
    /\ UNCHANGED <<class, disk, stream, call, answer, records>>

\* resize, truncate and clear: a size below that is grown again shows the
\* bytes that were there before.
ResizeBuffer(n) ==
    /\ Writing /\ class = "buffer"
    /\ n <= MaxBytes
    /\ \E junk \in [1 .. n -> Byte] : buffer' = Resize(buffer, n, junk)
    /\ records' = RecordsWithin(n)
    /\ UNCHANGED <<class, disk, stream, call, answer>>

\* A copy has no room beyond its contents; a move changes nothing.
CopyBuffer ==
    /\ Writing /\ class = "buffer"
    /\ buffer' = [buffer EXCEPT !.data = SubSeq(@, 1, buffer.size)]
    /\ UNCHANGED <<class, disk, stream, call, answer, records>>

WriteNext ==
    \/ \E s \in Text : AppendLenencString(s) \/ AppendString(s)
    \/ \E n \in Count : ReserveBuffer(n) \/ ResizeBuffer(n)
    \/ CopyBuffer

-----------------------------------------------------------------------------
(* The read buffer                                                         *)

Available(s) == Len(s.buf) - s.pos

\* Where the next byte comes from; a seek may have gone behind the end.
Position(s) == s.offset - Available(s)
Clamped(n) == Min({n, Len(Contents)})

\* read() returns some of what is left, and nothing at the end.
ChunkSizes(s) ==
    IF s.offset >= Len(Contents) THEN {0}
    ELSE 1 .. Min({BufferSize, Len(Contents) - s.offset})

\* Mutant: the place in the read buffer is not reset.
ReadNextChunkKeepsPos(s, k) ==
    [s EXCEPT !.offset = @ + k,
              !.buf = SubSeq(Contents, s.offset + 1, s.offset + k)]

ReadNextChunk(s, k) ==
    [s EXCEPT !.offset = @ + k, !.pos = 0,
              !.buf = SubSeq(Contents, s.offset + 1, s.offset + k)]

\* What an empty read buffer is filled with before it is looked at; a stream
\* over memory has all there is from the start.
Filled(s) ==
    IF class = "file" /\ s.pos >= Len(s.buf)
    THEN {ReadNextChunk(s, k) : k \in ChunkSizes(s)}
    ELSE {s}

\* The streams over memory: all there is, and a place in it.
MemoryStream ==
    [offset |-> Len(Contents), buf |-> Contents, pos |-> 0, open |-> TRUE]

\* A file by its name, with its first chunk, or from a descriptor.
Open ==
    /\ Writing
    /\ \/ /\ class = "file"
          /\ stream' \in {Beginning(TRUE)} \cup Filled(Beginning(TRUE))
       \/ /\ class = "buffer"
          /\ stream' = MemoryStream
    /\ UNCHANGED <<class, call, answer, storeVars>>

-----------------------------------------------------------------------------
(* Reading                                                                 *)

CanCall == stream.open /\ call = Idle

Call(op, n) ==
    /\ CanCall
    /\ call' = [op |-> op, count |-> n, start |-> Clamped(Position(stream)),
                got |-> << >>]
    /\ UNCHANGED <<class, stream, answer, storeVars>>

Read ==
    \/ \E op \in {"bytes", "exact"}, n \in Count : Call(op, n)
    \/ \E op \in {"until", "line", "varuint", "lenenc"} : Call(op, 0)

Ends(op) == IF op = "line" THEN {Newline} ELSE 0 .. VarintBase - 1

\* The length that readLenencString has read.
Size(c) == ReadVarUInt(c.got, 0)

\* How many bytes the running loop still asks for.
Wanted(c) ==
    CASE c.op \in {"bytes", "exact"} -> c.count - Len(c.got)
      [] c.op = "lenenc" /\ Size(c).ok ->
            Size(c).cur + Size(c).value - Len(c.got)
      [] c.op \in {"line", "varuint"} /\ c.got # << >> ->
            IF Last(c.got) \in Ends(c.op) THEN 0 ELSE 1
      [] OTHER -> 1

\* readLenencString allocates the length that it has read before it reads the
\* string: a length like that of a torn string may be more than there is.
TooLarge(c) == c.op = "lenenc" /\ Size(c).ok /\ Size(c).value > MaxAllocation
Reading == call # Idle /\ ~TooLarge(call)

\* One round: a block for a FileInputStream's readNextBytes, else a byte.
ReadMore ==
    /\ Reading /\ Wanted(call) > 0
    /\ \E s \in Filled(stream) :
          LET n == IF class = "file" THEN Min({Available(s), Wanted(call)})
                   ELSE 1
          IN  /\ Available(s) > 0
              /\ stream' = [s EXCEPT !.pos = @ + n]
              /\ call' = [call EXCEPT
                             !.got = @ \o SubSeq(s.buf, s.pos + 1, s.pos + n)]
    /\ UNCHANGED <<class, answer, storeVars>>

Return(status, value) ==
    /\ call' = Idle
    /\ answer' = Outcome(call.op, call.start, status, value)
    /\ UNCHANGED <<class, storeVars>>

ReturnRead ==
    /\ Reading /\ Wanted(call) = 0
    /\ Return("ok",
              CASE call.op = "varuint" -> <<Size(call).value>>
                [] call.op = "lenenc" ->
                      SubSeq(call.got, Size(call).cur + 1, Len(call.got))
                [] OTHER -> call.got)
    /\ UNCHANGED stream

\* The end of the stream: some calls return what they have, others raise.
ReturnEOF ==
    /\ Reading /\ Wanted(call) > 0
    /\ stream' \in Filled(stream)
    /\ Available(stream') = 0
    /\ IF \/ call.op \in {"bytes", "until"}
          \/ call.op = "line" /\ call.got # << >>
       THEN Return("ok", call.got)
       ELSE Return("eof", << >>)

\* read() fails, and the exception takes what the call had read with it.
ReadFails ==
    /\ Reading /\ Wanted(call) > 0
    /\ class = "file" /\ Available(stream) = 0
    /\ Return("error", << >>)
    /\ UNCHANGED stream

\* malloc() fails, in the constructor of Buffer.
AllocationFails ==
    /\ call # Idle /\ TooLarge(call)
    /\ Return("error", << >>)
    /\ UNCHANGED stream

\* The calls without a loop.
At(op, status, value) ==
    /\ CanCall
    /\ answer' = Outcome(op, Clamped(Position(stream)), status, value)
    /\ UNCHANGED <<class, call, storeVars>>

\* What is in the read buffer is dropped.
Dropped(s) == [s EXCEPT !.pos = 0, !.buf = << >>]

\* A file's descriptor is moved on past the read buffer, whether or not the
\* file is that long; memory ends at its end.  The read buffer is gone also
\* when lseek() fails, as it does on a pipe.
Skip(n) ==
    LET left == Available(stream)
        all  == IF class = "file" THEN n ELSE Min({n, left})
    IN
    /\ Position(stream) + n <= MaxOffset
    /\ \/ /\ At("skip", "ok", <<all>>)
          /\ stream' = IF all <= left
                       THEN [stream EXCEPT !.pos = @ + all]
                       ELSE [Dropped(stream) EXCEPT !.offset = @ + (n - left)]
       \/ /\ class = "file" /\ n > left
          /\ At("skip", "error", << >>)
          /\ stream' = Dropped(stream)

\* rewind is a seek to zero.
SeekTo(n) ==
    /\ n <= MaxOffset
    /\ \/ /\ At("seek", "ok", << >>)
          /\ stream' = IF class = "file"
                       THEN [Dropped(stream) EXCEPT !.offset = n]
                       ELSE [stream EXCEPT !.pos = Min({n, Len(stream.buf)})]
       \/ /\ class = "file"
          /\ At("seek", "error", << >>)
          /\ stream' = Dropped(stream)

Eof ==
    /\ stream' \in Filled(stream)
    /\ At("eof", IF Available(stream') = 0 THEN "eof" ELSE "ok", << >>)

\* A mark is looked for in the read buffer alone, however short that is.
ReadByteOrderMark ==
    /\ class = "file"
    /\ \E s \in Filled(stream) :
          LET left == SubSeq(s.buf, s.pos + 1, Len(s.buf))
              marks == {m \in ByteOrderMarks : IsPrefix(m, left)}
          IN  \E m \in IF marks = {} THEN {<< >>} ELSE marks :
                 /\ stream' = [s EXCEPT !.pos = @ + Len(m)]
                 /\ At("mark", "ok", m)

FillFails ==
    /\ class = "file" /\ Available(stream) = 0
    /\ \E op \in {"eof", "mark"} : At(op, "error", << >>)
    /\ UNCHANGED stream

StreamNext ==
    \/ WriteNext
    \/ Open
    \/ Read \/ ReadMore \/ ReturnRead \/ ReturnEOF
    \/ ReadFails \/ AllocationFails
    \/ \E n \in Count : Skip(n) \/ SeekTo(n)
    \/ Eof \/ ReadByteOrderMark \/ FillFails

StreamSpec == StreamInit /\ [][StreamNext]_streamsVars

-----------------------------------------------------------------------------
(* Properties                                                              *)

\* A call that runs has not moved the reader's position yet.
Here == IF call = Idle THEN Clamped(Position(stream)) ELSE call.start

\* Whatever the read buffer's size and the pieces read() returns, and whether
\* the bytes come from a file or from memory, a call answers as if it read
\* the bytes themselves from its position on, and one that fails loses no more
\* than lies behind the position: none is read twice or out of order.
Reader == INSTANCE ByteStream WITH bytes <- Contents, position <- Here,
                                   file <- class = "file"

ImplementsByteStream == Reader!Spec

\* A string that was written whole is read back by readLenencString, wherever
\* the reader has been before; short writes elsewhere, and what resize
\* brought to light, do not matter.  Only a failing read() of a file is in the
\* way.
RecordsReadBack ==
    \A r \in records :
        answer.op = "lenenc" /\ answer.start = r.start =>
            \/ class = "file" /\ answer.status = "error"
            \/ answer.status = "ok" /\ answer.value = r.value

-----------------------------------------------------------------------------
(* The inductive invariant                                                 *)

\* The read buffer mirrors the bytes before the descriptor's offset; a stream
\* over memory has all of them.
StreamOK(s) ==
    /\ s \in [offset : Nat, buf : Seq(Byte), pos : Nat, open : BOOLEAN]
    /\ s.pos <= Len(s.buf) /\ Len(s.buf) <= s.offset
    /\ Len(s.buf) > 0 => s.offset <= Len(Contents)
    /\ \A i \in 1 .. Len(s.buf) :
          s.buf[i] = Contents[s.offset - Len(s.buf) + i]
    /\ class = "buffer" /\ s.open =>
          s.offset = Len(Contents) /\ Len(s.buf) = Len(Contents)

\* A call has read what lies between where it began and where the stream is
\* now, and nothing beyond what it asked for.
CallOK(c, now) ==
    /\ c \in [op : {"bytes", "exact", "until", "line", "varuint", "lenenc"},
              count : Count \cup {0}, start : Nat, got : Seq(Byte)]
    /\ c.op \in {"bytes", "exact"} => c.count \in Count
    /\ c.start + Len(c.got) = now
    /\ \A i \in 1 .. Len(c.got) : c.got[i] = Contents[c.start + i]
    /\ c.op \in {"bytes", "exact"} => Len(c.got) <= c.count
    /\ c.op \in {"line", "varuint"} =>
          \A i \in 1 .. Len(c.got) - 1 : c.got[i] \notin Ends(c.op)
    /\ c.op = "lenenc" /\ Size(c).ok =>
          Len(c.got) <= Size(c).cur + Size(c).value

\* What was written whole is there.
RecordOK(r) ==
    /\ r \in [start : Nat, value : Text]
    /\ r.start + Len(Frame(r.value)) <= Len(Contents)
    /\ \A i \in 1 .. Len(Frame(r.value)) :
          Contents[r.start + i] = Frame(r.value)[i]

StreamsInv ==
    /\ class \in {"file", "buffer"}
    /\ disk \in Seq(Byte)
    /\ buffer \in [data : Seq(Byte), size : Nat]
    /\ buffer.size <= Len(buffer.data)
    /\ ~stream.open => stream = NotOpen /\ call = Idle /\ answer = NoAnswer
    /\ StreamOK(stream)
    /\ call = Idle \/ CallOK(call, Clamped(Position(stream)))
    /\ \A r \in records : RecordOK(r)
    /\ RecordsReadBack

=============================================================================
