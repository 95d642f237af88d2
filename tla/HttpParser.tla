----------------------------- MODULE HttpParser -----------------------------
(***************************************************************************)
(* The incremental parser of libtransport's http/v1/http_parser.cc and the *)
(* generator of http_generator.cc.  A text is a sequence of symbols; a     *)
(* symbol stands for one or more characters, of one kind, that the parser  *)
(* never looks into.  Where a word is two symbols, a piece can end in it.  *)
(***************************************************************************)
EXTENDS Integers, Sequences, SequencesExt, FiniteSetsExt

CONSTANTS
    Symbol,    \* what texts are made of
    kMaxMethodSize, kMaxURISize, kMaxVersionSize, kMaxHeaderSize,
    ULongMax,  \* the largest unsigned long, which is the largest size_t too
    IntMax     \* the largest int

ASSUME HttpParserAssumption ==
    /\ {kMaxMethodSize, kMaxURISize, kMaxVersionSize, kMaxHeaderSize}
           \subseteq Nat
    /\ {ULongMax, IntMax} \subseteq Nat \ {0}

SP == " "
TAB == "\t"
COLON == ":"
CR == "\r"
LF == "\n"
PLUS == "+"
MINUS == "-"

Get == <<"GE", "T">>
Post == <<"PO", "ST">>
Method == {Get, Post}
Http10 == <<"HTTP/", "1.0">>
Http11 == <<"HTTP/", "1.1">>
kContentLengthHeader == <<"Content-", "Length">>
kConnectionHeader == <<"Connection">>
KeepAlive == <<"keep-alive">>
Close == <<"close">>
StatusName == <<"name">>

Digits == <<"0", "1", "2", "3", "4", "5", "6", "7", "8", "9">>

ASSUME SymbolAssumption ==
    {<<SP, COLON, CR, LF>>, kContentLengthHeader, StatusName, Digits}
        \subseteq Seq(Symbol)

IsNumber(word) == word # << >> /\ Range(word) \subseteq Range(Digits)

\* std::to_string: what is left of n after k digits from the right.
ToNumeral(n) ==
    LET left[k \in 0 .. n + 1] == IF k = 0 THEN n ELSE left[k - 1] \div 10
        size == Min({k \in 1 .. n + 1 : left[k] = 0})
    IN  [i \in 1 .. size |-> Digits[(left[size - i] % 10) + 1]]

\* The value of a word of digits: of its first i digits, for each i.
FromNumeral(word) ==
    LET value[i \in 0 .. Len(word)] ==
            IF i = 0 THEN 0
            ELSE 10 * value[i - 1]
                     + (CHOOSE d \in 0 .. 9 : Digits[d + 1] = word[i])
    IN  value[Len(word)]

(***************************************************************************)
(* std::stoul and std::stoi: blanks and a sign are skipped, digits are     *)
(* read as far as they go, and what follows them is ignored.  They throw   *)
(* where there is no digit and where the number is out of range; stoul     *)
(* takes a negative number modulo the size of its type.                    *)
(***************************************************************************)
FirstNotIn(word, symbols) ==
    Min({i \in DOMAIN word : word[i] \notin symbols} \cup {Len(word) + 1})

Unblanked(word) ==
    SubSeq(word, FirstNotIn(word, {SP, TAB, CR, LF}), Len(word))

IsNegative(word) == Unblanked(word) # << >> /\ Unblanked(word)[1] = MINUS

Unsigned(word) ==
    LET w == Unblanked(word) IN
    IF w # << >> /\ w[1] \in {PLUS, MINUS} THEN Tail(w) ELSE w

Numeral(word) ==
    LET w == Unsigned(word) IN SubSeq(w, 1, FirstNotIn(w, Range(Digits)) - 1)

Magnitude(word) == FromNumeral(Numeral(word))

StoulAccepts(word) == IsNumber(Numeral(word)) /\ Magnitude(word) <= ULongMax

Stoul(word) ==
    IF IsNegative(word) /\ Magnitude(word) > 0
    THEN (ULongMax + 1) - Magnitude(word) ELSE Magnitude(word)

Stoi(word) == IF IsNegative(word) THEN -Magnitude(word) ELSE Magnitude(word)

StoiAccepts(word) ==
    /\ IsNumber(Numeral(word))
    /\ -IntMax - 1 <= Stoi(word) /\ Stoi(word) <= IntMax

-----------------------------------------------------------------------------
(* Messages and the generator                                              *)

NoStatus == 404
NoMessage ==
    [method |-> Get, uri |-> << >>, version |-> << >>, status |-> NoStatus,
     headers |-> << >>, body |-> << >>]

\* The value of the first header with the key, or the empty word.
GetHeader(msg, key) ==
    LET at == {i \in DOMAIN msg.headers : msg.headers[i].key = key}
    IN  IF at = {} THEN << >> ELSE msg.headers[Min(at)].val

HasHeader(msg, key) == \E i \in DOMAIN msg.headers : msg.headers[i].key = key

AddHeader(msg, key, val) ==
    [msg EXCEPT !.headers = Append(@, [key |-> key, val |-> val])]

Keepalive(req) ==
    LET connection == GetHeader(req, kConnectionHeader)
    IN  \/ connection = KeepAlive
        \/ connection # Close /\ req.version = Http11

\* The response inherits the request's version; only 1.0 needs the header.
PopulateFromRequest(req) ==
    LET res == [NoMessage EXCEPT !.version = req.version]
    IN  IF req.version = Http10
        THEN AddHeader(res, kConnectionHeader,
                       IF Keepalive(req) THEN KeepAlive ELSE Close)
        ELSE res

HeaderLine(h) == h.key \o <<COLON, SP>> \o h.val \o <<CR, LF>>

\* The headers, with a length when there is a body and none is given.
AllHeaders(msg) ==
    IF msg.body # << >> /\ ~HasHeader(msg, kContentLengthHeader)
    THEN AddHeader(msg, kContentLengthHeader, ToNumeral(Len(msg.body))).headers
    ELSE msg.headers

HeaderLines(msg) ==
    LET all == AllHeaders(msg) IN [i \in DOMAIN all |-> HeaderLine(all[i])]

\* The three words of the first line, the headers and the body.
Generate(first, second, third, msg) ==
    first \o <<SP>> \o second \o <<SP>> \o third \o <<CR, LF>>
        \o FlattenSeq(HeaderLines(msg)) \o <<CR, LF>> \o msg.body

GenerateRequest(req) == Generate(req.method, req.uri, req.version, req)

\* The check on the length of the version lets no request without one pass.
GenerateResponse(res) ==
    IF res.version = << >> THEN << >>
    ELSE Generate(res.version, ToNumeral(res.status), StatusName, res)

-----------------------------------------------------------------------------
(* The parser                                                              *)

\* body_bytes_expected_ of a body that ends with the connection: -1, as the
\* size_t that it is, so that a length can happen to be it.
Unlimited == ULongMax

Parser(mode) ==
    [mode |-> mode, ok |-> TRUE, buf |-> << >>, read |-> 0, expected |-> 0,
     state |-> IF mode = "request" THEN "S_REQ_METHOD" ELSE "S_RES_VERSION",
     msg |-> NoMessage]

Fail(p) == [p EXCEPT !.ok = FALSE]
Goto(p, state) == [p EXCEPT !.state = state, !.buf = << >>]

Delimiter(state) ==
    IF state \in {"S_REQ_VERSION", "S_RES_STATUS_NAME", "S_HEADER"} THEN LF
    ELSE SP

MaxSize(state) ==
    CASE state = "S_REQ_METHOD" -> kMaxMethodSize
      [] state \in {"S_REQ_URI", "S_RES_STATUS_CODE"} -> kMaxURISize
      [] state = "S_HEADER" -> kMaxHeaderSize
      [] OTHER -> kMaxVersionSize

\* stripTrailingBytes(&buf_, '\r'), which lines go through.
Strip(word) ==
    SubSeq(word, 1, Max({0} \cup {i \in DOMAIN word : word[i] # CR}))

ParseMethod(p, word) ==
    IF word \in Method
    THEN Goto([p EXCEPT !.msg.method = word], "S_REQ_URI") ELSE Fail(p)

ParseURI(p, word) == Goto([p EXCEPT !.msg.uri = word], "S_REQ_VERSION")

ParseRequestVersion(p, word) ==
    Goto([p EXCEPT !.msg.version = Strip(word)], "S_HEADER")

\* strncasecmp compares as much as there is of the version.
ParseResponseVersion(p, word) ==
    Goto([p EXCEPT !.msg.version = word,
                   !.expected = IF IsPrefix(word, Http10) THEN Unlimited
                                ELSE @], "S_RES_STATUS_CODE")

ParseResponseStatusCode(p, word) ==
    IF StoiAccepts(word)
    THEN Goto([p EXCEPT !.msg.status = Stoi(word)], "S_RES_STATUS_NAME")
    ELSE Fail(p)

ParseResponseStatusName(p, word) == Goto(p, "S_HEADER")

ProcessHeader(p, key, val) ==
    LET q == [p EXCEPT !.msg = AddHeader(@, key, val)] IN
    IF key = kContentLengthHeader
    THEN IF StoulAccepts(val) THEN [q EXCEPT !.expected = Stoul(val)]
         ELSE Fail(p)
    ELSE IF p.mode = "response" /\ key = kConnectionHeader /\ val = Close
    THEN [q EXCEPT !.expected = Unlimited]
    ELSE q

ParseHeader(p, word) ==
    LET line  == Strip(word)
        colon == Min({i \in DOMAIN line : line[i] = COLON} \cup {Len(line) + 1})
        rest  == SubSeq(line, colon + 1, Len(line))
        begin == Min({i \in DOMAIN rest : rest[i] # SP} \cup {Len(rest) + 1})
    IN
    IF line = << >>
    THEN Goto(p, IF p.expected = 0 THEN "S_DONE" ELSE "S_BODY")
    ELSE IF colon > Len(line) THEN Fail(p)
    ELSE Goto(ProcessHeader(p, SubSeq(line, 1, colon - 1),
                            SubSeq(rest, begin, Len(rest))), "S_HEADER")

ParseWord(p, word) ==
    CASE p.state = "S_REQ_METHOD" -> ParseMethod(p, word)
      [] p.state = "S_REQ_URI" -> ParseURI(p, word)
      [] p.state = "S_REQ_VERSION" -> ParseRequestVersion(p, word)
      [] p.state = "S_RES_VERSION" -> ParseResponseVersion(p, word)
      [] p.state = "S_RES_STATUS_CODE" -> ParseResponseStatusCode(p, word)
      [] p.state = "S_RES_STATUS_NAME" -> ParseResponseStatusName(p, word)
      [] p.state = "S_HEADER" -> ParseHeader(p, word)

\* All that is left of the piece belongs to the body; the end is reached only
\* when the piece ends with it.
ReadBody(p, data) ==
    [p EXCEPT !.read = @ + Len(data),
              !.state = IF p.read + Len(data) = p.expected THEN "S_DONE" ELSE @,
              !.msg.body = @ \o data]

\* Mutant: the buffer starts anew with each piece.
ReadUntilAnew(p, data, i) == SubSeq(data, 1, i - 1)

\* readUntil: what was left of the last pieces, then up to the delimiter.
ReadUntil(p, data, i) == p.buf \o SubSeq(data, 1, i - 1)

\* One round of parse: a word that the piece ends, what is left of the piece,
\* which is kept for the next one unless it is too long already, or a body.
ParseRound(round) ==
    LET p    == round.parser
        data == round.data
        stop == Delimiter(p.state)
        i    == Min({k \in DOMAIN data : data[k] = stop} \cup {Len(data) + 1})
        word == ReadUntil(p, data, i)
    IN
    IF data = << >> \/ ~p.ok THEN round
    ELSE IF p.state = "S_DONE" /\ p.mode = "request"
    THEN [round EXCEPT !.parser = Fail(p)]
    ELSE IF p.state \in {"S_DONE", "S_BODY"}
    THEN [parser |-> ReadBody(p, data), data |-> << >>]
    ELSE IF i <= Len(data)
    THEN [parser |-> ParseWord(p, word), data |-> SubSeq(data, i + 1, Len(data))]
    ELSE [parser |-> IF Len(word) > MaxSize(p.state) THEN Fail(p)
                     ELSE [p EXCEPT !.buf = word],
          data |-> << >>]

\* parse: one piece of the text, of which every round takes a symbol or more.
Parse(p, data) ==
    LET rounds[k \in 0 .. Len(data)] ==
            IF k = 0 THEN [parser |-> p, data |-> data]
            ELSE ParseRound(rounds[k - 1])
    IN  rounds[Len(data)].parser

\* eof: only a body can be known to be cut short.
Eof(p) ==
    IF p.state # "S_DONE" /\ p.expected # Unlimited /\ p.read < p.expected
    THEN Fail(p) ELSE [p EXCEPT !.state = "S_DONE"]
=============================================================================
