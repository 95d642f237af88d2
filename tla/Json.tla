-------------------------------- MODULE Json --------------------------------
(***************************************************************************)
(* The JSON writer and reader of libtransport, and toJSON of message.cc,   *)
(* whose text is the answer to GET /channel/:c.  A text is a sequence of   *)
(* characters; newline and tabulator stand for the control characters that *)
(* have an escape of their own, Control for the others.  A value is a      *)
(* record of its type and what it holds; a number is kept as its text.     *)
(***************************************************************************)
EXTENDS Integers, Sequences, SequencesExt, FiniteSetsExt

Control == "ctrl"
Quote == "\""
Backslash == "\\"
LineFeed == "\n"
Tabulator == "\t"

DigitChars == <<"0", "1", "2", "3", "4", "5", "6", "7", "8", "9">>
NumberChars == ToSet(DigitChars) \cup {"-", "+", ".", "e", "E"}
NumberBegin == ToSet(DigitChars) \cup {"-"}
Separators == {":", ",", " ", LineFeed, "\r", Tabulator}

\* std::to_string of a natural number.
RECURSIVE ToText(_)
ToText(n) == IF n < 10 THEN <<DigitChars[n + 1]>>
             ELSE Append(ToText(n \div 10), DigitChars[(n % 10) + 1])

\* The text of the three literals.
Literal == [true |-> <<"t", "r", "u", "e">>,
            false |-> <<"f", "a", "l", "s", "e">>,
            null |-> <<"n", "u", "l", "l">>]

-----------------------------------------------------------------------------
(* JSONWriter: a stack of states, the text, and whether every call so far  *)
(* was accepted.                                                           *)

\* Mutant: a backslash is not escaped.
EscapeCharQuoteOnly(c) ==
    CASE c = Quote -> <<Backslash, Quote>>
      [] c = LineFeed -> <<Backslash, "n">>
      [] c = Tabulator -> <<Backslash, "t">>
      [] c = Control -> <<Backslash, "u", "0", "0", "0", "1">>
      [] OTHER -> <<c>>

EscapeChar(c) ==
    CASE c = Quote -> <<Backslash, Quote>>
      [] c = Backslash -> <<Backslash, Backslash>>
      [] c = LineFeed -> <<Backslash, "n">>
      [] c = Tabulator -> <<Backslash, "t">>
      [] c = Control -> <<Backslash, "u", "0", "0", "0", "1">>
      [] OTHER -> <<c>>

EscapeString(s) == FlattenSeq([i \in DOMAIN s |-> EscapeChar(s[i])])

NewWriter == [stack |-> << >>, text |-> << >>, ok |-> TRUE]

\* The state after a complete value, key or element.
AdvanceState(stack) ==
    IF stack = << >> THEN stack
    ELSE Append(Front(stack),
                CASE Last(stack) \in {"object_next", "key"} -> "value"
                  [] Last(stack) = "value" -> "object_next"
                  [] Last(stack) \in {"array", "array_next"} -> "array_next")

\* beginObject and beginArray: neither where a key must stand.
Begin(w, text, state) ==
    IF w.stack # << >> /\ Last(w.stack) \in {"object_next", "key"}
    THEN [w EXCEPT !.ok = FALSE]
    ELSE [w EXCEPT
            !.stack = Append(@, state),
            !.text = @ \o (IF w.stack # << >> /\ Last(w.stack) = "array_next"
                           THEN <<",">> ELSE << >>)
                       \o <<text>>]

\* endObject and endArray, which do not ask what they end.
End(w, text) ==
    IF w.stack = << >> THEN [w EXCEPT !.ok = FALSE]
    ELSE [w EXCEPT !.stack = AdvanceState(Front(@)),
                   !.text = Append(@, text)]

AddScalar(w, val) ==
    IF w.stack = << >> THEN [w EXCEPT !.ok = FALSE]
    ELSE LET top == Last(w.stack) IN
         [w EXCEPT
            !.stack = AdvanceState(@),
            !.text = @ \o (IF top \in {"object_next", "array_next"}
                           THEN <<",">> ELSE << >>)
                       \o val
                       \o (IF top \in {"object_next", "key"}
                           THEN <<":">> ELSE << >>)]

\* A token is its type and, for strings and numbers, its text.
Token(type, text) == [type |-> type, text |-> text]

AddToken(w, t) ==
    CASE t.type = "{" -> Begin(w, "{", "key")
      [] t.type = "[" -> Begin(w, "[", "array")
      [] t.type \in {"}", "]"} -> End(w, t.type)
      [] t.type = "string" ->
            AddScalar(w, <<Quote>> \o EscapeString(t.text) \o <<Quote>>)
      [] t.type = "number" -> AddScalar(w, t.text)
      [] t.type \in DOMAIN Literal -> AddScalar(w, Literal[t.type])

WriteTokens(tokens) == FoldLeft(AddToken, NewWriter, tokens)

-----------------------------------------------------------------------------
(* writeJSON and toJSON: the tokens of a value and of a list of messages.  *)

RECURSIVE TokensOf(_)
TokensOf(v) ==
    CASE v.type = "array" ->
            <<Token("[", << >>)>>
            \o FlattenSeq([i \in DOMAIN v.elements |->
                              TokensOf(v.elements[i])])
            \o <<Token("]", << >>)>>
      [] v.type = "object" ->
            <<Token("{", << >>)>>
            \o FlattenSeq([i \in DOMAIN v.properties |->
                  <<Token("string", v.properties[i][1])>>
                  \o TokensOf(v.properties[i][2])])
            \o <<Token("}", << >>)>>
      [] OTHER -> <<Token(v.type, v.text)>>

WriteJSON(v) == WriteTokens(TokensOf(v)).text

Property(name, type, text) ==
    <<Token("string", name), Token(type, text)>>

MessageTokens(m) ==
    <<Token("{", << >>)>>
    \o Property(<<"offset">>, "number", ToText(m.offset))
    \o Property(<<"next_offset">>, "number", ToText(m.next_offset))
    \o Property(<<"data">>, "string", m.data)
    \o <<Token("}", << >>)>>

ToJSON(messages) ==
    WriteTokens(<<Token("[", << >>)>>
                \o FlattenSeq([i \in DOMAIN messages |->
                                  MessageTokens(messages[i])])
                \o <<Token("]", << >>)>>).text

-----------------------------------------------------------------------------
(* JSONReader::readNextToken: the token at the front of a text and what is *)
(* left of the text.  NoToken is the end of the text or an error.          *)

NoToken == [type |-> "none", text |-> << >>, rest |-> << >>]
Drop(s, n) == SubSeq(s, n + 1, Len(s))

\* A number goes on over spaces and ends at any other character.
RECURSIVE ReadNumber(_, _)
ReadNumber(s, dst) ==
    IF s # << >> /\ s[1] \in NumberChars
    THEN ReadNumber(Tail(s), Append(dst, s[1]))
    ELSE IF s # << >> /\ s[1] = " " THEN ReadNumber(Tail(s), dst)
    ELSE [type |-> "number", text |-> dst, rest |-> s]

\* What an escape sequence stands for; the four digits of \u are skipped
\* and stand for nothing.
Unescape == [x \in {Quote, Backslash, "/", "n", "t"} |->
                CASE x = "n" -> LineFeed [] x = "t" -> Tabulator
                  [] OTHER -> x]

RECURSIVE ReadString(_, _)
ReadString(s, dst) ==
    CASE s = << >> -> NoToken
      [] s # << >> /\ s[1] = Quote ->
            [type |-> "string", text |-> dst, rest |-> Tail(s)]
      [] s # << >> /\ s[1] = Backslash ->
            IF Len(s) > 1 /\ s[2] \in DOMAIN Unescape
            THEN ReadString(Drop(s, 2), Append(dst, Unescape[s[2]]))
            ELSE IF Len(s) > 1 /\ s[2] = "u" THEN ReadString(Drop(s, 6), dst)
            ELSE NoToken
      [] OTHER -> ReadString(Tail(s), Append(dst, s[1]))

ExpectString(s, type) ==
    IF IsPrefix(Literal[type], s)
    THEN [type |-> type, text |-> << >>,
          rest |-> Drop(s, Len(Literal[type]))]
    ELSE NoToken

\* Colons and commas are passed over like spaces.
RECURSIVE ReadNextToken(_)
ReadNextToken(s) ==
    IF s = << >> THEN NoToken
    ELSE CASE s[1] \in {"{", "}", "[", "]"} ->
                [type |-> s[1], text |-> << >>, rest |-> Tail(s)]
           [] s[1] \in Separators -> ReadNextToken(Tail(s))
           [] s[1] \in NumberBegin -> ReadNumber(s, << >>)
           [] s[1] = Quote -> ReadString(Tail(s), << >>)
           [] s[1] = "t" -> ExpectString(s, "true")
           [] s[1] = "f" -> ExpectString(s, "false")
           [] s[1] = "n" -> ExpectString(s, "null")
           [] OTHER -> NoToken

-----------------------------------------------------------------------------
(* readJSON: tokens and containers are pushed on a stack; a value that is  *)
(* complete goes into the container below it.                              *)

Scalar(type, text) == [type |-> type, text |-> text]
JsonArray(elements) == [type |-> "array", elements |-> elements]
JsonObject(properties) == [type |-> "object", properties |-> properties]
Fails == Scalar("none", << >>)

\* JSONObject::get, and set, which replaces the value of a key it has.
PropertyAt(o, key) ==
    {i \in DOMAIN o.properties : o.properties[i][1] = key}

GetProperty(o, key, fallback) ==
    LET at == PropertyAt(o, key)
    IN  IF at = {} THEN fallback ELSE o.properties[Min(at)][2]

SetProperty(o, key, value) ==
    LET at == PropertyAt(o, key) IN
    IF at = {} THEN JsonObject(Append(o.properties, <<key, value>>))
    ELSE JsonObject([o.properties EXCEPT ![Min(at)] = <<key, value>>])

\* JSONElement::toString, which makes a key of what stands where one must.
KeyText(v) ==
    CASE v.type \in {"string", "number"} -> v.text
      [] v.type \in DOMAIN Literal -> Literal[v.type]
      [] OTHER -> WriteJSON(v)

\* Mutant: the key stays on the stack.
PoppedKeyKept(stack) ==
    LET n == Len(stack)
        below == stack[n - 1]
    IN CASE below.type = "array" ->
              [SubSeq(stack, 1, n - 1) EXCEPT
                  ![n - 1].elements = Append(@, stack[n])]
         [] below.type = "object" -> stack
         [] n > 2 /\ below.type # "object" /\ stack[n - 2].type = "object" ->
              [SubSeq(stack, 1, n - 1) EXCEPT
                  ![n - 2] = SetProperty(@, KeyText(below), stack[n])]
         [] OTHER -> << >>

\* The stack after the value on its top is complete.
Popped(stack) ==
    LET n == Len(stack)
        below == stack[n - 1]
    IN CASE below.type = "array" ->
              [SubSeq(stack, 1, n - 1) EXCEPT
                  ![n - 1].elements = Append(@, stack[n])]
         [] below.type = "object" -> stack
         [] n > 2 /\ below.type # "object" /\ stack[n - 2].type = "object" ->
              [SubSeq(stack, 1, n - 2) EXCEPT
                  ![n - 2] = SetProperty(@, KeyText(below), stack[n])]
         [] OTHER -> << >>

RECURSIVE ReadFrom(_, _)
ReadFrom(s, stack) ==
    LET t == ReadNextToken(s)
        pushed == IF t.type \in {"}", "]"} THEN stack
                  ELSE Append(stack, Scalar(t.type, t.text))
    IN CASE t.type = "none" -> Fails
         [] t.type = "{" -> ReadFrom(t.rest, Append(stack, JsonObject(<< >>)))
         [] t.type = "[" -> ReadFrom(t.rest, Append(stack, JsonArray(<< >>)))
         [] OTHER ->
              IF pushed = << >> THEN Fails
              ELSE IF Len(pushed) = 1 THEN pushed[1]
              ELSE IF Popped(pushed) = << >> THEN Fails
              ELSE ReadFrom(t.rest, Popped(pushed))

ReadJSON(s) == ReadFrom(s, << >>)

=============================================================================
