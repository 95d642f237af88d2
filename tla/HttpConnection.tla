--------------------------- MODULE HttpConnection ---------------------------
(***************************************************************************)
(* The HTTP server of libtransport (http/v1/http_server.cc) and its        *)
(* clients (http_client.cc) at the two ends of connections that deliver    *)
(* text in pieces of any size (http_connection.cc).  The server is one     *)
(* thread: it accepts a connection, receives the request, calls the        *)
(* handler, sends the response and closes, and only then accepts the next. *)
(* Every wait for the other end is a poll that can time out.               *)
(***************************************************************************)
EXTENDS HttpParser

CONSTANTS
    Client,    \* the clients, each with one connection
    Cut,       \* bound: those whose text is cut into pieces
    Requests(_),  \* what each may send: a message, and text behind it
    Answer(_)     \* what the request handler puts into the response

\* What the handler gets when a request arrives as it was sent, and what it
\* makes of a request.
Received(msg) == [msg EXCEPT !.headers = AllHeaders(msg)]
Reply(req) ==
    Answer([request |-> req, response |-> PopulateFromRequest(req)])

\* HTTP's grammar, which neither end checks when it writes: no word holds what
\* ends it, there is one length at most, and where that can be read as a
\* number, the body is not longer.
Word(symbols) == {w \in Seq(Symbol) : Range(w) \cap symbols = {}}

Message ==
    [method : Word({SP}), uri : Word({SP}), version : Word({SP, CR, LF}),
     status : 0 .. IntMax, body : Word({}),
     headers : Seq([key : Word({COLON, CR, LF}), val : Word({CR, LF})])]

LengthHeaders(msg) ==
    {i \in DOMAIN msg.headers : msg.headers[i].key = kContentLengthHeader}

Lengths(msg) ==
    {Stoul(msg.headers[i].val) :
        i \in {j \in LengthHeaders(msg) : StoulAccepts(msg.headers[j].val)}}

WellFormed(msg) ==
    /\ msg \in Message
    /\ \A i \in DOMAIN msg.headers :
          msg.headers[i].val # << >> => msg.headers[i].val[1] # SP
    /\ \A i, j \in LengthHeaders(msg) : i = j
    /\ \A n \in Lengths(msg) : n >= Len(msg.body)
    /\ Len(msg.body) <= ULongMax

ASSUME ConnectionAssumption ==
    /\ Cut \subseteq Client
    /\ \A c \in Client : \A r \in Requests(c) :
          /\ DOMAIN r = {"msg", "extra"}
          /\ WellFormed(r.msg) /\ r.msg.status = NoStatus
          /\ r.extra \in Seq(Symbol)
          /\ r.extra = << >> \/ Lengths(r.msg) \subseteq {Len(r.msg.body)}
          /\ WellFormed(Reply(Received(r.msg)))

VARIABLES
    request,  \* what each client sends
    client,   \* the client's end: its step, unsent text, and parser
    wire,     \* the two directions: text under way, and who has closed
    backlog,  \* the connections that wait to be accepted, in order
    server,   \* the server: its step, connection, unsent text, and parser
    handled,  \* history: the message the handler got from each client
    answered, \* history: the clients whose response was written as a whole
    trickled  \* the parity of the further header lines since the last read

vars == <<request, client, wire, backlog, server, handled, answered, trickled>>

NoWire == [up |-> << >>, down |-> << >>, up_closed |-> FALSE,
           down_closed |-> FALSE]
Accepting == [step |-> "accept", conn |-> {}, out |-> << >>,
              parser |-> Parser("request")]
NotHandled == [NoMessage EXCEPT !.method = << >>]

Init ==
    /\ request \in [Client -> UNION {Requests(c) : c \in Client}]
    /\ \A c \in Client : request[c] \in Requests(c)
    /\ client = [c \in Client |-> [step |-> "idle", out |-> << >>,
                                   parser |-> Parser("response")]]
    /\ wire = [c \in Client |-> NoWire]
    /\ backlog = << >>
    /\ server = Accepting
    /\ handled = [c \in Client |-> NotHandled]
    /\ answered = {}
    /\ trickled = FALSE

\* How much of a text one read or write may move.
Pieces(c, text) ==
    IF c \in Cut THEN 1 .. Len(text) ELSE {Len(text)} \ {0}

-----------------------------------------------------------------------------
(* The client                                                              *)

\* connect, and the text that sendRequest is going to write.
Connect(c) ==
    /\ client[c].step = "idle"
    /\ client' = [client EXCEPT
                    ![c].step = "send",
                    ![c].out = GenerateRequest(request[c].msg)
                                   \o request[c].extra]
    /\ backlog' = Append(backlog, c)
    /\ UNCHANGED <<request, wire, server, handled, answered, trickled>>

ClientWrite(c) ==
    /\ client[c].step = "send"
    /\ \E n \in Pieces(c, client[c].out) :
          /\ wire' = [wire EXCEPT ![c].up = @ \o SubSeq(client[c].out, 1, n)]
          /\ client' = [client EXCEPT
                          ![c].out = SubSeq(@, n + 1, Len(@)),
                          ![c].step = IF n = Len(client[c].out) THEN "receive"
                                      ELSE @]
    /\ UNCHANGED <<request, backlog, server, handled, answered, trickled>>

\* recvResponse and then the client's connection go out of scope.
ClientEnds(c, step) ==
    /\ client' = [client EXCEPT ![c].step = step, ![c].out = << >>]
    /\ wire' = [wire EXCEPT ![c].up_closed = TRUE]

ClientRead(c) ==
    /\ client[c].step = "receive"
    /\ \E n \in Pieces(c, wire[c].down) :
       \E p \in {Parse(client[c].parser, SubSeq(wire[c].down, 1, n))} :
          /\ client' = [client EXCEPT
                          ![c].parser = p,
                          ![c].step = IF ~p.ok THEN "failed"
                                      ELSE IF p.state = "S_DONE" THEN "done"
                                      ELSE @]
          /\ wire' = [wire EXCEPT
                        ![c].down = SubSeq(@, n + 1, Len(@)),
                        ![c].up_closed = ~p.ok \/ p.state = "S_DONE"]
    /\ UNCHANGED <<request, backlog, server, handled, answered, trickled>>

\* read returns zero: eof decides whether the response is complete.
ClientReadEnd(c) ==
    LET p == Eof(client[c].parser) IN
    /\ client[c].step = "receive"
    /\ wire[c].down = << >> /\ wire[c].down_closed
    /\ client' = [client EXCEPT ![c].parser = p,
                                ![c].step = IF p.ok THEN "done" ELSE "failed"]
    /\ wire' = [wire EXCEPT ![c].up_closed = TRUE]
    /\ UNCHANGED <<request, backlog, server, handled, answered, trickled>>

\* A poll that times out, a connection reset by a server that closed it, and
\* a client that goes away.
ClientGivesUp(c) ==
    /\ client[c].step \in {"send", "receive"}
    /\ ClientEnds(c, "failed")
    /\ UNCHANGED <<request, backlog, server, handled, answered, trickled>>

-----------------------------------------------------------------------------
(* The server                                                              *)

\* Mutant: the connection stays in the queue.
AcceptKept ==
    /\ server.step = "accept"
    /\ backlog # << >>
    /\ server' = [Accepting EXCEPT !.step = "receive",
                                   !.conn = {Head(backlog)}]
    /\ UNCHANGED <<request, client, wire, backlog, handled, answered, trickled>>

Accept ==
    /\ server.step = "accept"
    /\ backlog # << >>
    /\ server' = [Accepting EXCEPT !.step = "receive",
                                   !.conn = {Head(backlog)}]
    /\ backlog' = Tail(backlog)
    /\ UNCHANGED <<request, client, wire, handled, answered, trickled>>

Serving(c, steps) == server.conn = {c} /\ server.step \in steps

\* The connection is closed, with or without a word, and run goes on.
CloseConnection(c) ==
    /\ server' = Accepting
    /\ wire' = [wire EXCEPT ![c].down_closed = TRUE]

\* recvRequest reads a piece, and stops where the parser is done.
ServerRead(c) ==
    /\ Serving(c, {"receive"})
    /\ \E n \in Pieces(c, wire[c].up) :
       \E p \in {Parse(server.parser, SubSeq(wire[c].up, 1, n))} :
          \/ /\ p.ok
             /\ server' = [server EXCEPT
                             !.parser = p,
                             !.step = IF p.state = "S_DONE" THEN "handle"
                                      ELSE @]
             /\ wire' = [wire EXCEPT ![c].up = SubSeq(@, n + 1, Len(@))]
          \/ /\ ~p.ok
             /\ CloseConnection(c)
    /\ trickled' = FALSE
    /\ UNCHANGED <<request, client, backlog, handled, answered>>

ServerReadEnd(c) ==
    /\ Serving(c, {"receive"})
    /\ wire[c].up = << >> /\ wire[c].up_closed
    /\ CloseConnection(c)
    /\ trickled' = FALSE
    /\ UNCHANGED <<request, client, backlog, handled, answered>>

\* A client that sends one more header line before those of its request, of
\* the many that nobody looks at: the poll starts anew with each of them, and
\* the parser is left where it was.
Trickle(c) ==
    /\ Serving(c, {"receive"})
    /\ server.parser.state = "S_HEADER" /\ server.parser.buf = << >>
    /\ client[c].step = "send" /\ wire[c].up = << >>
    /\ trickled' = ~trickled
    /\ UNCHANGED <<request, client, wire, backlog, server, handled, answered>>

\* Mutant: a receive waits for ever.
ServerTimeoutSendOnly(c) ==
    /\ Serving(c, {"send"})
    /\ CloseConnection(c)
    /\ trickled' = FALSE
    /\ UNCHANGED <<request, client, backlog, handled, answered>>

ServerTimeout(c) ==
    /\ Serving(c, {"receive", "send"})
    /\ CloseConnection(c)
    /\ trickled' = FALSE
    /\ UNCHANGED <<request, client, backlog, handled, answered>>

\* handleConnection calls the request handler; generateHeaders refuses a
\* response without a version, and then nothing is sent.
Handle(c) ==
    /\ Serving(c, {"handle"})
    /\ \E req \in {server.parser.msg} : \E res \in {Reply(req)} :
          /\ handled' = [handled EXCEPT ![c] = req]
          /\ IF GenerateResponse(res) # << >>
             THEN server' = [server EXCEPT !.step = "send",
                                           !.out = GenerateResponse(res)]
                     /\ UNCHANGED wire
             ELSE CloseConnection(c)
    /\ UNCHANGED <<request, client, backlog, answered, trickled>>

\* Mutant: a partial write is taken for a whole one.
ServerWriteOnce(c) ==
    /\ Serving(c, {"send"})
    /\ \E n \in Pieces(c, server.out) :
          /\ wire' = [wire EXCEPT ![c].down = @ \o SubSeq(server.out, 1, n),
                                  ![c].down_closed = TRUE]
          /\ server' = Accepting
          /\ answered' = answered \cup {c}
    /\ UNCHANGED <<request, client, backlog, handled, trickled>>

ServerWrite(c) ==
    /\ Serving(c, {"send"})
    /\ \E n \in Pieces(c, server.out) :
          LET whole == n = Len(server.out) IN
          /\ wire' = [wire EXCEPT ![c].down = @ \o SubSeq(server.out, 1, n),
                                  ![c].down_closed = whole]
          /\ server' = IF whole THEN Accepting
                       ELSE [server EXCEPT
                               !.out = SubSeq(@, n + 1, Len(@))]
          /\ answered' = IF whole THEN answered \cup {c} ELSE answered
    /\ UNCHANGED <<request, client, backlog, handled, trickled>>

\* A write to a connection that the client has closed raises SIGPIPE, which
\* the program neither handles nor ignores.
ServerKilled(c) ==
    /\ Serving(c, {"send"})
    /\ wire[c].up_closed
    /\ server' = [Accepting EXCEPT !.step = "killed"]
    /\ wire' = [d \in Client |-> [wire[d] EXCEPT !.down_closed = TRUE]]
    /\ backlog' = << >>
    /\ UNCHANGED <<request, client, handled, answered, trickled>>

Next ==
    \/ \E c \in Client :
          \/ Connect(c)
          \/ ClientWrite(c)
          \/ ClientRead(c)
          \/ ClientReadEnd(c)
          \/ ClientGivesUp(c)
          \/ ServerRead(c)
          \/ ServerReadEnd(c)
          \/ Trickle(c)
          \/ ServerTimeout(c)
          \/ Handle(c)
          \/ ServerWrite(c)
          \/ ServerKilled(c)
    \/ Accept

\* The server thread keeps running: it takes the next connection, and its
\* polls come back, timed out or because something has come; a request and its
\* answer can be read and written only so often.  Nothing makes a poll time
\* out that something comes for, and nothing makes the request handler return.
\* A client may stop at any point without closing its connection.
PollReturns(c) == ServerTimeout(c) \/ Trickle(c)

Spec ==
    /\ Init
    /\ [][Next]_vars
    /\ WF_vars(Accept)
    /\ WF_vars(\E c \in Client : PollReturns(c))

-----------------------------------------------------------------------------
(* Properties                                                              *)

ClientStep == {"idle", "send", "receive", "done", "failed"}
ServerStep == {"accept", "receive", "handle", "send", "killed"}

\* The server has a connection exactly while it serves one, a client that has
\* ended has closed, and nobody waits who has not connected.
TypeOK ==
    /\ \A c \in Client :
          /\ request[c] \in Requests(c)
          /\ client[c].step \in ClientStep
          /\ client[c].step \in {"done", "failed"} => wire[c].up_closed
    /\ server.step \in ServerStep
    /\ server.conn = {} <=> server.step \in {"accept", "killed"}
    /\ server.conn \cap Range(backlog) = {}
    /\ \A c \in server.conn \cup Range(backlog) : client[c].step # "idle"
    /\ answered \subseteq Client
    /\ trickled \in BOOLEAN

\* The number of body symbols that a message announces.
Announced(msg) ==
    IF HasHeader(msg, kContentLengthHeader)
    THEN Stoul(GetHeader(msg, kContentLengthHeader))
    ELSE Len(msg.body)

\* Wherever the network cuts the text of a request into pieces, the handler
\* gets the message that the client meant, or is not called at all.  A body
\* that is shorter than announced is never handed on.
HandledIsSent ==
    \A c \in Client : handled[c] # NotHandled =>
        LET sent == request[c].msg IN
        /\ \A f \in {"method", "uri", "version", "body"} :
              handled[c][f] = sent[f]
        /\ Announced(sent) = Len(sent.body)

\* A client that reports success has the response of the handler, when the
\* server wrote it as a whole, however it was cut into pieces.
AnswerArrives ==
    \A c \in answered : client[c].step = "done" =>
        \A f \in {"version", "status", "body"} :
            client[c].parser.msg[f] = Reply(handled[c])[f]

\* The request handler comes to an end, and no client sends for ever.
HandlersReturn == []<>(server.step # "handle")
ClientsStop == <>[][~ \E c \in Client : Trickle(c)]_vars

\* No client waits for ever behind one that has stopped sending or reading,
\* unless the server dies: the one thread gets free again.  It does not where
\* a handler never returns, as a fetch from inside a message may, nor where a
\* client keeps sending headers, which no poll and no limit ends.
WaitingServed ==
    HandlersReturn /\ ClientsStop =>
        \A c \in Client :
            c \in Range(backlog) ~> server.conn = {c} \/ server.step = "killed"
=============================================================================
