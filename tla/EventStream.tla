---------------------------- MODULE EventStream ----------------------------
(***************************************************************************)
(* Server-sent events: sendEvent of sse_generator.cc and the incremental   *)
(* parser of sse_parser.cc, which is fed the pieces of a body as they      *)
(* arrive.  The two field prefixes are one symbol each.                    *)
(***************************************************************************)
EXTENDS Naturals, Sequences

CR == "\r"
LF == "\n"
DataField == "data: "
EventField == "event: "

\* SSEGenerator::sendEvent.
SendEvent(ev) ==
    (IF ev.name = << >> THEN << >> ELSE <<EventField>> \o ev.name \o <<LF>>)
    \o <<DataField>> \o ev.data \o <<LF, LF>>

\* The place after the line end at i: CR LF is one line end.
AfterLineEnd(s, i) ==
    IF s[i] = CR /\ i < Len(s) /\ s[i + 1] = LF THEN i + 2 ELSE i + 1

\* The next line end of s from i on, or the end of s.
RECURSIVE LineEnd(_, _)
LineEnd(s, i) ==
    IF i > Len(s) \/ s[i] \in {CR, LF} THEN i ELSE LineEnd(s, i + 1)

\* The place after the next two line ends in a row, or 0 if there is none.
RECURSIVE EventEnd(_, _)
EventEnd(s, i) ==
    LET first == LineEnd(s, i)
        second == AfterLineEnd(s, first)
    IN CASE first > Len(s) -> 0
         [] first <= Len(s) /\ second > Len(s) -> 0
         [] first <= Len(s) /\ second <= Len(s) /\ s[second] \in {CR, LF} ->
               AfterLineEnd(s, second)
         [] OTHER -> EventEnd(s, second)

\* The event with the fields of one more line: the last of a kind counts.
SetField(ev, line) ==
    CASE line # << >> /\ line[1] = DataField -> [ev EXCEPT !.data = Tail(line)]
      [] line # << >> /\ line[1] = EventField ->
            [ev EXCEPT !.name = Tail(line)]
      [] OTHER -> ev

RECURSIVE Fields(_, _)
Fields(s, ev) ==
    LET end == LineEnd(s, 1) IN
    IF end > Len(s) THEN ev
    ELSE Fields(SubSeq(s, AfterLineEnd(s, end), Len(s)),
                SetField(ev, SubSeq(s, 1, end - 1)))

\* parseEvent: an event without data is not delivered.
ParseEvent(s) ==
    LET ev == Fields(s, [name |-> << >>, data |-> << >>])
    IN  IF ev.data = << >> THEN << >> ELSE <<ev>>

NewParser == [buf |-> << >>, events |-> << >>]

RECURSIVE TakeEvents(_)
TakeEvents(parser) ==
    LET end == EventEnd(parser.buf, 1) IN
    IF end = 0 THEN parser
    ELSE TakeEvents(
            [buf |-> SubSeq(parser.buf, end, Len(parser.buf)),
             events |-> parser.events
                        \o ParseEvent(SubSeq(parser.buf, 1, end - 1))])

\* Mutant: what is left of a piece is dropped.
SSEParseForgets(parser, piece) ==
    [TakeEvents([parser EXCEPT !.buf = @ \o piece]) EXCEPT !.buf = << >>]

\* SSEParser::parse of one more piece.
SSEParse(parser, piece) ==
    TakeEvents([parser EXCEPT !.buf = @ \o piece])

=============================================================================
