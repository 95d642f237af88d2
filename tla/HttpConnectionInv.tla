-------------------------- MODULE HttpConnectionInv --------------------------
(***************************************************************************)
(* The inductive invariant of HttpConnection: at every moment both parsers *)
(* are where the text that they have read, in whatever pieces, puts them.  *)
(***************************************************************************)
EXTENDS HttpConnection

-----------------------------------------------------------------------------
(* The words of a message, in the order in which the parser reads them     *)

FirstWord(mode, msg) == IF mode = "request" THEN msg.method ELSE msg.version
SecondWord(mode, msg) ==
    IF mode = "request" THEN msg.uri ELSE ToNumeral(msg.status)
ThirdWord(mode, msg) == IF mode = "request" THEN msg.version ELSE StatusName

\* The text of a message, with what is sent behind it.
Text(mode, msg, extra) ==
    Generate(FirstWord(mode, msg), SecondWord(mode, msg), ThirdWord(mode, msg),
             msg) \o extra

\* Three words, a header in each line, and an empty line.
Words(msg) == Len(AllHeaders(msg)) + 4

WordAt(mode, msg, k) ==
    CASE k = 1 -> FirstWord(mode, msg)
      [] k = 2 -> SecondWord(mode, msg)
      [] k = 3 -> ThirdWord(mode, msg) \o <<CR>>
      [] k > 3 /\ k < Words(msg) ->
            AllHeaders(msg)[k - 3].key \o <<COLON, SP>>
                \o AllHeaders(msg)[k - 3].val \o <<CR>>
      [] OTHER -> <<CR>>

StopAt(k) == IF k <= 2 THEN SP ELSE LF

\* The place of the symbol that ends each word.
EndsAt(mode, msg) ==
    LET ends[k \in 0 .. Words(msg)] ==
            IF k = 0 THEN 0 ELSE ends[k - 1] + Len(WordAt(mode, msg, k)) + 1
    IN  ends

-----------------------------------------------------------------------------
(* What the parser knows before each word                                  *)

\* The headers that say how long the body is; the last of them counts.
Decisive(mode, msg, n) ==
    {i \in 1 .. n :
        LET header == AllHeaders(msg)[i] IN
        \/ header.key = kContentLengthHeader
        \/ mode = "response" /\ header.key = kConnectionHeader
              /\ header.val = Close}

InitiallyExpected(mode, msg) ==
    IF mode = "response" /\ IsPrefix(msg.version, Http10) THEN Unlimited ELSE 0

\* body_bytes_expected_ behind the first n headers.
Expected(mode, msg, n) ==
    LET last == AllHeaders(msg)[Max(Decisive(mode, msg, n))] IN
    IF Decisive(mode, msg, n) = {} THEN InitiallyExpected(mode, msg)
    ELSE IF last.key = kContentLengthHeader THEN Stoul(last.val)
    ELSE Unlimited

\* A length that stoul throws at stops the parser.
Numbers(msg, n) ==
    \A i \in 1 .. n : AllHeaders(msg)[i].key = kContentLengthHeader =>
        StoulAccepts(AllHeaders(msg)[i].val)

StateBefore(mode, k) ==
    CASE k = 1 -> IF mode = "request" THEN "S_REQ_METHOD" ELSE "S_RES_VERSION"
      [] k = 2 -> IF mode = "request" THEN "S_REQ_URI" ELSE "S_RES_STATUS_CODE"
      [] k = 3 -> IF mode = "request" THEN "S_REQ_VERSION"
                  ELSE "S_RES_STATUS_NAME"
      [] OTHER -> "S_HEADER"

ExpectedBefore(mode, msg, k) ==
    IF k = 1 THEN 0 ELSE Expected(mode, msg, IF k < 5 THEN 0 ELSE k - 4)

MessageBefore(mode, msg, k, body) ==
    [method  |-> IF mode = "request" /\ k > 1 THEN msg.method
                 ELSE NoMessage.method,
     uri     |-> IF mode = "request" /\ k > 2 THEN msg.uri ELSE << >>,
     version |-> IF k > (IF mode = "request" THEN 3 ELSE 1) THEN msg.version
                 ELSE << >>,
     status  |-> IF mode = "response" /\ k > 2 THEN msg.status ELSE NoStatus,
     headers |-> IF k > 4 THEN SubSeq(AllHeaders(msg), 1, k - 4) ELSE << >>,
     body    |-> body]

\* A parser before the k-th word, or within it when there is something in buf.
Before(mode, msg, k, buf) ==
    [mode |-> mode, ok |-> TRUE, buf |-> buf, read |-> 0,
     expected |-> ExpectedBefore(mode, msg, k), state |-> StateBefore(mode, k),
     msg |-> MessageBefore(mode, msg, k, << >>)]

\* A parser behind the empty line.
Behind(mode, msg, state, body) ==
    [mode |-> mode, ok |-> TRUE, buf |-> << >>, read |-> Len(body),
     expected |-> ExpectedBefore(mode, msg, Words(msg)), state |-> state,
     msg |-> MessageBefore(mode, msg, Words(msg), body)]

\* The parser within the k-th word, and within what follows the empty line,
\* when n symbols of the text have been read.
InWord(p, mode, msg, k, n) ==
    LET begin == EndsAt(mode, msg)[k - 1] IN
    /\ begin <= n /\ n < EndsAt(mode, msg)[k]
    /\ k > 4 => Numbers(msg, k - 4)
    /\ p = Before(mode, msg, k, SubSeq(WordAt(mode, msg, k), 1, n - begin))

InBody(p, mode, msg, text, n) ==
    LET begin == EndsAt(mode, msg)[Words(msg)] IN
    /\ begin <= n /\ n <= Len(text)
    /\ Numbers(msg, Words(msg) - 4)
    /\ p.state \in {"S_BODY", "S_DONE"}
    /\ p = Behind(mode, msg, p.state, SubSeq(text, begin + 1, n))
    /\ p.state = "S_DONE" => p.read = p.expected

Reads(p, mode, msg, text, n) ==
    \/ \E k \in 1 .. Words(msg) : InWord(p, mode, msg, k, n)
    \/ InBody(p, mode, msg, text, n)

-----------------------------------------------------------------------------
(* The two directions of a connection                                      *)

\* A piece of a text that begins behind its n-th symbol.
Continues(piece, text, n) ==
    /\ n + Len(piece) <= Len(text)
    /\ piece = SubSeq(text, n + 1, n + Len(piece))

Asked(c) == request[c].msg
Asking(c) == Text("request", Asked(c), request[c].extra)
Given(c) == Reply(Received(Asked(c)))
Giving(c) == Text("response", Given(c), << >>)

\* The server reads what the client sends.
RequestArrives(c) ==
    LET left == wire[c].up \o client[c].out
        p == server.parser
    IN
    /\ client[c].step = "idle" => wire[c].up = << >> /\ client[c].out = << >>
    /\ c \in Range(backlog) => Continues(left, Asking(c), 0)
    /\ Serving(c, {"receive"}) =>
          /\ p.state # "S_DONE"
          /\ \E n \in 0 .. Len(Asking(c)) :
                /\ Reads(p, "request", Asked(c), Asking(c), n)
                /\ Continues(left, Asking(c), n)
    /\ Serving(c, {"handle"}) =>
          /\ p.state = "S_DONE"
          /\ \E n \in 0 .. Len(Asking(c)) :
                Reads(p, "request", Asked(c), Asking(c), n)
    /\ handled[c] # NotHandled =>
          handled[c] = Received(Asked(c))
             /\ Announced(Asked(c)) = Len(Asked(c).body)
    /\ c \in answered \/ Serving(c, {"send"}) =>
          handled[c] = Received(Asked(c))

\* Nothing is sent to a client before its request is handled.
Unanswered(c) ==
    \/ client[c].step = "idle" \/ c \in Range(backlog)
    \/ Serving(c, {"receive", "handle"})

\* The client reads what the server sends.
ResponseArrives(c) ==
    LET p == client[c].parser
        down == wire[c].down
    IN
    /\ client[c].step \in {"idle", "send", "receive"} =>
          /\ p.state # "S_DONE"
          /\ \E n \in 0 .. Len(Giving(c)) :
                /\ Reads(p, "response", Given(c), Giving(c), n)
                /\ Continues(down, Giving(c), n)
                /\ Unanswered(c) => n + Len(down) = 0
                /\ Serving(c, {"send"}) =>
                      server.out = SubSeq(Giving(c), n + Len(down) + 1,
                                          Len(Giving(c)))
                /\ c \in answered => n + Len(down) = Len(Giving(c))
    /\ client[c].step = "done" =>
          \/ \A f \in {"version", "status", "body"} : p.msg[f] = Given(c)[f]
          \/ c \notin answered /\ wire[c].down_closed

\* A connection that the server has closed is over.
ClosedIsOver(c) ==
    wire[c].down_closed /\ server.step # "killed" =>
        c \notin server.conn \cup Range(backlog) /\ client[c].step # "idle"

\* The shapes of the variables.
ShapeOK ==
    /\ client = [c \in Client |-> [step |-> client[c].step,
                                   out |-> client[c].out,
                                   parser |-> client[c].parser]]
    /\ \A c \in Client : client[c].out \in Seq(Symbol)
    /\ wire \in [Client -> [up : Seq(Symbol), down : Seq(Symbol),
                            up_closed : BOOLEAN, down_closed : BOOLEAN]]
    /\ backlog \in Seq(Client)
    /\ \A i, j \in DOMAIN backlog : backlog[i] = backlog[j] => i = j
    /\ server = [step |-> server.step, conn |-> server.conn,
                 out |-> server.out, parser |-> server.parser]
    /\ server.conn \subseteq Client /\ server.out \in Seq(Symbol)
    /\ handled = [c \in Client |-> handled[c]]

ConnectionInv ==
    /\ ShapeOK
    /\ TypeOK
    /\ \A c \in Client :
          RequestArrives(c) /\ ResponseArrives(c) /\ ClosedIsOver(c)
=============================================================================
