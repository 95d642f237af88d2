------------------------------- MODULE Broker -------------------------------
(***************************************************************************)
(* The request handlers of brokerd (http_server.cc) between one channel    *)
(* and its clients.  Producers send each message again until it is         *)
(* acknowledged; consumers keep the offset of the last message they read   *)
(* and ask for the next.  A client can give up on a request at any time,   *)
(* and the request may still be served.  HttpConnection shows that a       *)
(* request is served whole or not at all, Channel that an append commits   *)
(* or leaves an uncommitted message behind; both are single steps here.  A *)
(* message takes one unit of offset, and the channel has one segment.      *)
(***************************************************************************)
EXTENDS Naturals, Sequences

CONSTANTS
    Producer, Consumer,  \* the clients
    MaxMessages,    \* how many messages a producer sends
    Batches,        \* the batch sizes that consumers ask for
    StrayRequests,  \* other requests that consumers may send
    IntRange,       \* how many values the type int of a batch size has
    MaxBacklog,     \* bound: no request is sent while this many wait
    MaxLog,         \* bound: no message is sent when the channel counts this many
    Faults          \* the faults that may occur

\* What the parts of a path are to the handlers: a word that they know, the
\* name of the channel, a name that no channel may have, a number, nothing
\* between two slashes, or else.
Part == {"channel", "next", "ping", "serverid", "stats", "c", "?", ":offset",
         ":n", "", "other"}

Request == [method : {"GET", "POST"}, path : Seq(Part), offset : Nat,
            batch : Nat, body : {<< >>} \cup (Producer \X Nat)]

ASSUME BrokerAssumption ==
    /\ Producer \cap Consumer = {}
    /\ MaxMessages \in Nat /\ MaxBacklog \in Nat /\ MaxLog \in Nat
    /\ Batches \subseteq Nat
    /\ IntRange \in Nat /\ IntRange > 0
    /\ \A r \in StrayRequests : r \in Request /\ r.body = << >>
    /\ Faults \subseteq {"crash", "drop", "write_error", "sync_error",
                         "read_error"}

VARIABLES
    up,         \* whether the process runs
    msgs,       \* the messages in the file, also those a crash cut off
    head,       \* how many of them the process counts: its offset_head
    committed,  \* how many of them the header on disk covers
    backlog,    \* the connections that wait, in order, with their requests
    producer,   \* per producer: the message it sends, whether it waits
    consumer,   \* per consumer: what it has read, whether it waits
    reply,      \* what the server has written to the client, if anything
    acked,      \* history: the acknowledgements that producers received
    lost        \* history: whether a crash cut off an uncommitted message

channel == <<up, msgs, head, committed, lost>>
vars == <<channel, backlog, producer, consumer, reply, acked>>

Client == Producer \cup Consumer
NoReply == [status |-> 0, offset |-> 0, entries |-> << >>]
Status(code) == [NoReply EXCEPT !.status = code]

Init ==
    /\ up = TRUE
    /\ msgs = << >> /\ head = 0 /\ committed = 0
    /\ backlog = << >>
    /\ producer = [p \in Producer |-> [number |-> 1, waits |-> FALSE]]
    /\ consumer = [c \in Consumer |-> [got |-> << >>, waits |-> FALSE]]
    /\ reply = [c \in Client |-> NoReply]
    /\ acked = {}
    /\ lost = FALSE

-----------------------------------------------------------------------------
(* The requests of the clients                                             *)

\* A part of the path that is a number is named, with its value beside it.
Get(path, offset, batch) ==
    [method |-> "GET", path |-> path, offset |-> offset, batch |-> batch,
     body |-> << >>]

PostMessage(p, n) ==
    [method |-> "POST", path |-> <<"channel", "c">>, offset |-> 0,
     batch |-> 0, body |-> <<p, n>>]

\* The offset of the last message read; a consumer that has read none asks
\* for the offset zero.
LastRead(c) == consumer[c].got[Len(consumer[c].got)].offset

FetchRequests(c) ==
    IF consumer[c].got = << >>
    THEN {Get(<<"channel", "c">>, 0, 0),
          Get(<<"channel", "c", "">>, 0, 0),
          Get(<<"channel", "c", ":offset">>, 0, 0)}
    ELSE {Get(<<"channel", "c", ":offset", "next">>, LastRead(c), 0),
          Get(<<"channel", "c", ":offset", "next", "">>, LastRead(c), 0)}
             \cup {Get(<<"channel", "c", ":offset", "next", ":n">>, LastRead(c), n)
                      : n \in Batches}

Connect(c, request) ==
    /\ up
    /\ Len(backlog) < MaxBacklog
    /\ backlog' = Append(backlog, [client |-> c, open |-> TRUE,
                                   request |-> request])
    /\ UNCHANGED <<channel, acked, reply>>

SendInsert(p) ==
    /\ ~producer[p].waits
    /\ producer[p].number <= MaxMessages
    /\ head < MaxLog
    /\ Connect(p, PostMessage(p, producer[p].number))
    /\ producer' = [producer EXCEPT ![p].waits = TRUE]
    /\ UNCHANGED consumer

SendFetch(c) ==
    /\ ~consumer[c].waits
    /\ \E request \in FetchRequests(c) \cup StrayRequests : Connect(c, request)
    /\ consumer' = [consumer EXCEPT ![c].waits = TRUE]
    /\ UNCHANGED producer

\* The connections of the client c are of no use to it any more.
Abandon(c) ==
    backlog' = [i \in DOMAIN backlog |->
                  [backlog[i] EXCEPT !.open = @ /\ backlog[i].client # c]]

StopWaiting(c) ==
    /\ producer' = [p \in Producer |->
                      [producer[p] EXCEPT !.waits = @ /\ p # c]]
    /\ consumer' = [d \in Consumer |->
                      [consumer[d] EXCEPT !.waits = @ /\ d # c]]

\* The client times out, or its connection breaks: the reply is lost.
GiveUp(c) ==
    /\ IF c \in Producer THEN producer[c].waits ELSE consumer[c].waits
    /\ Abandon(c)
    /\ StopWaiting(c)
    /\ reply' = [reply EXCEPT ![c] = NoReply]
    /\ UNCHANGED <<channel, acked>>

-----------------------------------------------------------------------------
(* The handlers                                                            *)

\* handleRequest: which handler the method and the path select.  The path
\* of a URI can be empty, without even a slash; substr(1) then throws an
\* exception that nothing catches, and the process ends: a Crash.
Route(request) ==
    LET path == request.path
        is_channel == path # << >> /\ path[1] = "channel"
        is_next == Len(path) >= 4 /\ path[4] = "next"
    IN
    CASE request.method = "GET" /\ path = <<"ping">> -> "PING"
      [] request.method = "GET" /\ path = <<"serverid">> -> "SERVERID"
      [] request.method = "GET" /\ path = <<"stats">> -> "STATS"
      [] request.method = "GET" /\ is_channel
            /\ (Len(path) \in {2, 3} \/ (Len(path) \in {4, 5} /\ is_next))
            -> "FETCH"
      [] request.method = "POST" /\ is_channel /\ Len(path) = 2 -> "INSERT"
      [] OTHER -> "NOTFOUND"

\* ChannelID::fromString refuses some names.
ValidChannel(request) == request.path[2] \notin {"?", ""}

\* std::stoull refuses what is not a number, but is not asked about an empty
\* part.
ValidNumbers(request) ==
    /\ Len(request.path) >= 3 => request.path[3] \in {":offset", ""}
    /\ Len(request.path) = 5 => request.path[5] \in {":n", ""}

AskedOffset(request) ==
    IF Len(request.path) >= 3 /\ request.path[3] # "" THEN request.offset
    ELSE 0

AskedBatch(request) ==
    IF Len(request.path) = 5 /\ request.path[5] # "" THEN request.batch ELSE 1

\* fetchMessages with the batch size as an int: it counts down to zero, which
\* zero and negative numbers never reach.
FetchMessages(offset, batch) ==
    LET n    == batch % IntRange
        rest == IF offset < Len(msgs) THEN Len(msgs) - offset ELSE 0
        size == IF 0 < n /\ n < IntRange \div 2 /\ n < rest THEN n ELSE rest
    IN  [i \in 1 .. size |->
            [offset |-> offset + i - 1, msg |-> msgs[offset + i]]]

\* Mutant: the message that the consumer has already is not left out.
DropFirstNever(request, es) == es

\* With next, the message at the offset itself was only asked for to be left
\* out.
DropFirst(request, es) ==
    IF es # << >> /\ es[1].offset = AskedOffset(request) THEN Tail(es) ELSE es

\* handleRequest_FETCH
Fetch(request) ==
    LET next   == Len(request.path) >= 4
        offset == AskedOffset(request)
        batch  == AskedBatch(request) + (IF next THEN 1 ELSE 0)
    IN
    IF ~ValidChannel(request) \/ ~ValidNumbers(request)
    THEN Status(400)
    ELSE [Status(200) EXCEPT
            !.entries = IF next
                        THEN DropFirst(request, FetchMessages(offset, batch))
                        ELSE FetchMessages(offset, batch)]

\* Every handler but INSERT: the reply, and nothing else changes.
Answer(request) ==
    CASE Route(request) = "FETCH" -> Fetch(request)
      [] Route(request) \in {"PING", "SERVERID", "STATS"} -> Status(200)
      [] Route(request) = "NOTFOUND" -> Status(404)
      [] Route(request) = "INSERT" -> Status(400)

\* A stray request reads no messages: a consumer takes only answers to its
\* own requests for messages of the channel.
ASSUME StrayAssumption ==
    \A r \in StrayRequests :
        Route(r) = "FETCH" => ~ValidChannel(r) \/ ~ValidNumbers(r)

\* The connection at the head of the queue is closed with the reply r, which
\* goes nowhere when the client has given up.
Respond(r) ==
    /\ reply' = IF Head(backlog).open
                THEN [reply EXCEPT ![Head(backlog).client] = r] ELSE reply
    /\ backlog' = Tail(backlog)

Serving == up /\ backlog # << >>
IsInsert(request) == Route(request) = "INSERT" /\ ValidChannel(request)
                         /\ request.body # << >>

\* segmentAppend: the message is written where the process counts on.
Write(m) ==
    /\ msgs' = [i \in DOMAIN msgs \cup {head + 1} |->
                  IF i = head + 1 THEN m ELSE msgs[i]]
    /\ head' = head + 1

\* Mutant: an append that could not commit is acknowledged.
AppendUncommittedAcked(m) ==
    /\ Write(m)
    /\ UNCHANGED committed
    /\ Respond([Status(201) EXCEPT !.offset = head])

\* appendMessage wrote the message, but failed to commit it.
AppendUncommitted(m) ==
    /\ "sync_error" \in Faults
    /\ Write(m)
    /\ UNCHANGED committed
    /\ Respond(Status(500))

AppendCommitted(m) ==
    /\ Write(m)
    /\ committed' = head + 1
    /\ Respond([Status(201) EXCEPT !.offset = head])

\* Mutant: the header is written although the message was not.
AppendFailsCommitted ==
    /\ UNCHANGED <<msgs, head>>
    /\ committed' = head + 1
    /\ Respond(Status(500))

AppendFails ==
    /\ "write_error" \in Faults
    /\ UNCHANGED <<msgs, head, committed>>
    /\ Respond(Status(500))

\* Mutant: connections are served in any order.
HandleInsertUnordered ==
    /\ Serving
    /\ \E i \in DOMAIN backlog :
          /\ IsInsert(backlog[i].request)
          /\ Write(backlog[i].request.body)
          /\ reply' = IF backlog[i].open
                      THEN [reply EXCEPT ![backlog[i].client] =
                              [Status(201) EXCEPT !.offset = head]]
                      ELSE reply
          /\ backlog' = SubSeq(backlog, 1, i - 1)
                            \o SubSeq(backlog, i + 1, Len(backlog))
    /\ committed' = head + 1
    /\ UNCHANGED <<up, producer, consumer, acked, lost>>

\* handleRequest_INSERT
HandleInsert ==
    LET request == Head(backlog).request IN
    /\ Serving /\ IsInsert(request)
    /\ \/ AppendCommitted(request.body)
       \/ AppendUncommitted(request.body)
       \/ AppendFails
    /\ UNCHANGED <<up, producer, consumer, acked, lost>>

HandleOther ==
    LET request == Head(backlog).request IN
    /\ Serving /\ ~IsInsert(request)
    /\ \/ Respond(Answer(request))
       \/ "read_error" \in Faults /\ Respond(Status(500))
    /\ UNCHANGED <<channel, producer, consumer, acked>>

\* The request did not arrive whole: the connection is closed unanswered.
DropRequest ==
    /\ Serving
    /\ "drop" \in Faults
    /\ Respond(NoReply)
    /\ UNCHANGED <<channel, producer, consumer, acked>>

-----------------------------------------------------------------------------
(* Replies, crashes and restarts                                           *)

ReceiveAck(p) ==
    /\ producer[p].waits
    /\ reply[p].status = 201
    /\ acked' = acked \cup {[msg |-> <<p, producer[p].number>>,
                             offset |-> reply[p].offset]}
    /\ producer' = [producer EXCEPT ![p].number = @ + 1, ![p].waits = FALSE]
    /\ reply' = [reply EXCEPT ![p] = NoReply]
    /\ UNCHANGED <<channel, backlog, consumer>>

\* An error: the producer is going to send the message again.
ReceiveError(p) ==
    /\ producer[p].waits
    /\ reply[p].status = 500
    /\ producer' = [producer EXCEPT ![p].waits = FALSE]
    /\ reply' = [reply EXCEPT ![p] = NoReply]
    /\ UNCHANGED <<channel, backlog, consumer, acked>>

ReceiveMessages(c) ==
    /\ consumer[c].waits
    /\ reply[c].status # 0
    /\ consumer' = [consumer EXCEPT ![c].got = @ \o reply[c].entries,
                                    ![c].waits = FALSE]
    /\ reply' = [reply EXCEPT ![c] = NoReply]
    /\ UNCHANGED <<channel, backlog, producer, acked>>

\* The process dies and the connections with it.  The clients find out by
\* giving up.
Crash ==
    /\ up
    /\ "crash" \in Faults
    /\ up' = FALSE
    /\ lost' = (lost \/ committed < head)
    /\ backlog' = << >>
    /\ UNCHANGED <<msgs, head, committed, producer, consumer, reply, acked>>

\* The process counts on from the header: what was written behind it is still
\* in the file, and read, until it is overwritten.
Restart ==
    /\ ~up
    /\ up' = TRUE
    /\ head' = committed
    /\ UNCHANGED <<msgs, committed, lost, backlog, producer, consumer, reply,
                   acked>>

Next ==
    \/ \E p \in Producer : SendInsert(p) \/ ReceiveAck(p) \/ ReceiveError(p)
    \/ \E c \in Consumer : SendFetch(c) \/ ReceiveMessages(c)
    \/ \E c \in Client : GiveUp(c)
    \/ HandleInsert
    \/ HandleOther
    \/ DropRequest
    \/ Crash
    \/ Restart

Spec == Init /\ [][Next]_vars

-----------------------------------------------------------------------------
(* Properties                                                              *)

Message == Producer \X Nat
Entry == [offset : Nat, msg : Message]
Reply == [status : Nat, offset : Nat, entries : Seq(Entry)]
Connection == [client : Client, open : BOOLEAN, request : Request]

TypeOK ==
    /\ up \in BOOLEAN /\ lost \in BOOLEAN
    /\ msgs \in Seq(Message)
    /\ head \in 0 .. Len(msgs) /\ committed \in 0 .. head
    /\ backlog \in Seq(Connection)
    /\ ~up => backlog = << >>
    /\ producer \in [Producer -> [number : Nat, waits : BOOLEAN]]
    /\ consumer \in [Consumer -> [got : Seq(Entry), waits : BOOLEAN]]
    /\ reply \in [Client -> Reply]
    /\ acked \subseteq Entry

\* A message that its producer has seen acknowledged is in the channel, at
\* the offset of the acknowledgement, committed: whatever was sent again,
\* dropped, or lost in a crash since.
AckedStored ==
    \A a \in acked : a.offset < committed /\ msgs[a.offset + 1] = a.msg

\* The messages of one producer that count are in the channel in the order in
\* which it sent them.  A late copy of a message that was sent again never
\* comes behind a later message: connections are served one by one, in order.
SendOrder ==
    \A i, j \in 1 .. head :
        i < j /\ msgs[i][1] = msgs[j][1] => msgs[i][2] <= msgs[j][2]

\* A consumer that asks for what is next after the last message it has read
\* reads every message of the channel once and in order, from the first on:
\* through errors, lost replies, repeated requests and restarts, as long as
\* no crash cuts off a message that was visible but not committed.
ConsumedInOrder ==
    ~lost => \A c \in Consumer :
        /\ Len(consumer[c].got) <= Len(msgs)
        /\ \A i \in 1 .. Len(consumer[c].got) :
              consumer[c].got[i] = [offset |-> i - 1, msg |-> msgs[i]]

=============================================================================
