----------------------------- MODULE WireFormat -----------------------------
(***************************************************************************)
(* The bytes of a segment file: the variable-length integers of            *)
(* util/varint.cc and the message envelope of message.cc.  A byte carries  *)
(* one digit in base VarintBase (128 in the code) and a continuation bit;  *)
(* a byte of value VarintBase or more announces a further byte.  A buffer  *)
(* is a sequence of bytes and a cursor is the number of bytes consumed.    *)
(***************************************************************************)
EXTENDS Naturals, Sequences, FiniteSets, FiniteSetsExt, Functions

CONSTANT VarintBase

ASSUME VarintBaseAssumption == VarintBase \in Nat /\ VarintBase >= 2

Byte == 0 .. (2 * VarintBase - 1)

\* The encoder's buffer holds ten bytes, enough for every uint64.
MaxVarUIntLen == 10

\* The lowest digit of an integer, or of a byte: x & 0x7f.
Digit(x) == x % VarintBase

\* The encoder's value after each round of its loop (value >>= 7).
Shifted(v) ==
    LET s[k \in 0 .. MaxVarUIntLen] ==
            IF k = 0 THEN v ELSE s[k - 1] \div VarintBase
    IN  s

\* How often the loop runs: until nothing is left of the value.
VarUIntLen(v) ==
    Min({k \in 1 .. MaxVarUIntLen : Shifted(v)[k] = 0} \cup {MaxVarUIntLen})

WriteVarUInt(v) ==
    [i \in 1 .. VarUIntLen(v) |->
        Digit(Shifted(v)[i - 1])
            + (IF Shifted(v)[i] # 0 THEN VarintBase ELSE 0)]

\* The integer in the bytes first to last of buf: value[first] below.
Digits(buf, first, last) ==
    LET value[i \in first .. last] ==
            Digit(buf[i])
                + (IF i < last THEN VarintBase * value[i + 1] ELSE 0)
    IN  value

\* Fails, with the cursor at the end, when the buffer ends before a byte
\* without the continuation bit.
ReadVarUInt(buf, cur) ==
    LET stops == {i \in cur + 1 .. Len(buf) : buf[i] < VarintBase}
        last  == Min(stops)
    IN  IF stops = {}
        THEN [ok |-> FALSE, cur |-> Len(buf), value |-> 0]
        ELSE [ok |-> TRUE, cur |-> last,
              value |-> Digits(buf, cur + 1, last)[cur + 1]]

\* The envelope messageWrite puts on disk: the length, then the payload.
Frame(m) == WriteVarUInt(Len(m)) \o m

=============================================================================
