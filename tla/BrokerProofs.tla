---------------------------- MODULE BrokerProofs ----------------------------
(***************************************************************************)
(* Proofs about Broker, for any number of producers and consumers, any     *)
(* number of messages and all faults: what is acknowledged stays in the    *)
(* channel, late copies of a message never come behind a later one, and a  *)
(* consumer reads every message once and in order.                         *)
(***************************************************************************)
EXTENDS Broker, TLAPS

-----------------------------------------------------------------------------
(* Types                                                                   *)

ProducerState == [number : Nat, waits : BOOLEAN]
ConsumerState == [got : Seq(Entry), waits : BOOLEAN]

\* What a connection in the backlog is made of.
LEMMA BacklogType ==
    ASSUME TypeOK
    PROVE  /\ Len(backlog) \in Nat
           /\ \A k \in 1 .. Len(backlog) :
                 /\ backlog[k] \in Connection
                 /\ backlog[k].client \in Client
                 /\ backlog[k].open \in BOOLEAN
                 /\ backlog[k].request \in Request
                 /\ backlog[k].request.body # << >> =>
                       backlog[k].request.body \in Message
<1>1. backlog \in Seq(Connection)
  BY DEF TypeOK
<1>2. ASSUME NEW S, backlog \in Seq(S)
      PROVE  \A k \in 1 .. Len(backlog) : backlog[k] \in S
  BY <1>2
<1>3. \A k \in 1 .. Len(backlog) : backlog[k] \in Connection
  BY <1>1, <1>2
<1>4. \A x \in Connection :
         x.client \in Client /\ x.open \in BOOLEAN /\ x.request \in Request
  BY DEF Connection
<1>5. \A r \in Request : r.body # << >> => r.body \in Message
  BY DEF Request, Message
<1> QED
  BY <1>1, <1>3, <1>4, <1>5

\* Replies, messages and entries.
LEMMA ReplyType ==
    /\ NoReply \in Reply
    /\ \A code \in Nat : /\ Status(code) \in Reply
                         /\ Status(code).status = code
                         /\ Status(code).entries = << >>
    /\ \A code, o \in Nat :
          LET r == [Status(code) EXCEPT !.offset = o] IN
          /\ r \in Reply
          /\ r.status = code /\ r.offset = o /\ r.entries = << >>
    /\ \A code \in Nat, es \in Seq(Entry) :
          [Status(code) EXCEPT !.entries = es] \in Reply
<1>1. << >> \in Seq(Entry)
  OBVIOUS
<1> QED
  BY <1>1 DEF NoReply, Reply, Status

\* Respond takes the first connection off the backlog.
LEMMA Responded ==
    ASSUME TypeOK, Serving, NEW r \in Reply, Respond(r)
    PROVE  /\ Len(backlog) > 0
           /\ backlog' \in Seq(Connection)
           /\ Len(backlog') = Len(backlog) - 1
           /\ \A k \in 1 .. Len(backlog') :
                 k + 1 \in 1 .. Len(backlog) /\ backlog'[k] = backlog[k + 1]
           /\ reply' \in [Client -> Reply]
           /\ backlog[1].open => reply'[backlog[1].client] = r
           /\ \A c \in Client :
                 ~backlog[1].open \/ c # backlog[1].client =>
                    reply'[c] = reply[c]
<1>1. backlog \in Seq(Connection) /\ reply \in [Client -> Reply]
  BY DEF TypeOK
<1>2. backlog # << >> /\ backlog' = Tail(backlog)
  BY DEF Serving, Respond
<1>3. ASSUME NEW S, backlog \in Seq(S)
      PROVE  /\ Len(backlog) > 0
             /\ Head(backlog) = backlog[1]
             /\ Tail(backlog) \in Seq(S)
             /\ Len(Tail(backlog)) = Len(backlog) - 1
             /\ \A k \in 1 .. Len(Tail(backlog)) :
                   /\ k + 1 \in 1 .. Len(backlog)
                   /\ Tail(backlog)[k] = backlog[k + 1]
  BY <1>2, <1>3
<1>4. 1 \in 1 .. Len(backlog) /\ Head(backlog) = backlog[1]
  BY <1>1, <1>3
<1>5. backlog[1].client \in Client
  BY <1>4, BacklogType
<1>6. reply' = IF backlog[1].open THEN [reply EXCEPT ![backlog[1].client] = r]
                                  ELSE reply
  BY <1>4 DEF Respond
<1> QED
  BY <1>1, <1>2, <1>3, <1>5, <1>6

\* segmentAppend changes one message behind those that count.
LEMMA Written ==
    ASSUME TypeOK, NEW m \in Message, Write(m)
    PROVE  /\ msgs' \in Seq(Message)
           /\ Len(msgs') = IF head = Len(msgs) THEN head + 1 ELSE Len(msgs)
           /\ head' = head + 1 /\ head' <= Len(msgs')
           /\ msgs'[head + 1] = m
           /\ \A i \in 1 .. Len(msgs) : i # head + 1 => msgs'[i] = msgs[i]
<1> DEFINE n == IF head = Len(msgs) THEN head + 1 ELSE Len(msgs)
<1>1. msgs \in Seq(Message) /\ Len(msgs) \in Nat /\ head \in 0 .. Len(msgs)
  BY DEF TypeOK
<1>2. n \in Nat /\ 1 .. Len(msgs) \cup {head + 1} = 1 .. n
  BY <1>1
<1>3. msgs' = [i \in 1 .. n |-> IF i = head + 1 THEN m ELSE msgs[i]]
  BY <1>1, <1>2 DEF Write
<1>4. \A i \in 1 .. n : i # head + 1 => i \in 1 .. Len(msgs)
  BY <1>1
<1> HIDE DEF n
<1>5. msgs' \in Seq(Message) /\ Len(msgs') = n
  BY <1>1, <1>2, <1>3, <1>4
<1>6. head + 1 \in 1 .. n /\ \A i \in 1 .. Len(msgs) : i \in 1 .. n
  BY <1>1, <1>2
<1> QED
  BY <1>1, <1>3, <1>5, <1>6 DEF Write, n

\* The requests of the clients.
LEMMA RequestType ==
    ASSUME TypeOK
    PROVE  /\ \A p \in Producer : \A n \in Nat :
                 /\ PostMessage(p, n) \in Request
                 /\ PostMessage(p, n).body = <<p, n>>
           /\ \A c \in Consumer : \A r \in FetchRequests(c) \cup StrayRequests :
                 r \in Request /\ r.body = << >>
<1>1. /\ <<"channel", "c">> \in Seq(Part)
      /\ <<"channel", "c", ":offset">> \in Seq(Part)
      /\ <<"channel", "c", ":offset", "next">> \in Seq(Part)
      /\ <<"channel", "c", "">> \in Seq(Part)
      /\ <<"channel", "c", ":offset", "next", ":n">> \in Seq(Part)
      /\ <<"channel", "c", ":offset", "next", "">> \in Seq(Part)
  <2>1. ASSUME NEW S, NEW a \in S, NEW b \in S, NEW c \in S, NEW d \in S,
               NEW e \in S
        PROVE  /\ <<a, b>> \in Seq(S) /\ <<a, b, c>> \in Seq(S)
               /\ <<a, b, c, d>> \in Seq(S) /\ <<a, b, c, d, e>> \in Seq(S)
    OBVIOUS
  <2>2. {"channel", "c", ":offset", "next", ":n", ""} \subseteq Part
    BY DEF Part
  <2> QED
    BY <2>1, <2>2
<1>2. ASSUME NEW p \in Producer, NEW n \in Nat
      PROVE  PostMessage(p, n) \in Request /\ PostMessage(p, n).body = <<p, n>>
  BY <1>1 DEF PostMessage, Request
<1>3. ASSUME NEW path \in Seq(Part), NEW o \in Nat, NEW n \in Nat
      PROVE  Get(path, o, n) \in Request /\ Get(path, o, n).body = << >>
  BY DEF Get, Request
<1>4. ASSUME NEW c \in Consumer, NEW r \in FetchRequests(c)
      PROVE  r \in Request /\ r.body = << >>
  <2>1. CASE consumer[c].got = << >>
    <3>1. /\ Get(<<"channel", "c">>, 0, 0) \in Request
          /\ Get(<<"channel", "c", "">>, 0, 0) \in Request
          /\ Get(<<"channel", "c", ":offset">>, 0, 0) \in Request
      BY <1>1, <1>3
    <3>2. \/ r = Get(<<"channel", "c">>, 0, 0)
          \/ r = Get(<<"channel", "c", "">>, 0, 0)
          \/ r = Get(<<"channel", "c", ":offset">>, 0, 0)
      BY <1>4, <2>1 DEF FetchRequests
    <3>3. \A path, o, n : Get(path, o, n).body = << >>
      BY DEF Get
    <3>4. r.body = << >>
      BY <3>2, <3>3
    <3> QED
      BY <3>1, <3>2, <3>4
  <2>2. CASE consumer[c].got # << >>
    <3>1. consumer[c].got \in Seq(Entry)
      BY DEF TypeOK
    <3>2. consumer[c].got[Len(consumer[c].got)] \in Entry
      BY <2>2, <3>1
    <3>3. LastRead(c) \in Nat
      BY <3>2 DEF LastRead, Entry
    <3>4. \A n \in Batches : n \in Nat
      BY BrokerAssumption
    <3>5. CASE r = Get(<<"channel", "c", ":offset", "next">>, LastRead(c), 0)
      <4>1. Get(<<"channel", "c", ":offset", "next">>, LastRead(c), 0)
                \in Request
        BY <1>1, <1>3, <3>3
      <4> QED
        BY <3>5, <4>1 DEF Get
    <3>6. CASE r = Get(<<"channel", "c", ":offset", "next", "">>,
                       LastRead(c), 0)
      <4>1. Get(<<"channel", "c", ":offset", "next", "">>, LastRead(c), 0)
                \in Request
        BY <1>1, <1>3, <3>3
      <4> QED
        BY <3>6, <4>1 DEF Get
    <3>7. ASSUME NEW n \in Batches,
                 r = Get(<<"channel", "c", ":offset", "next", ":n">>,
                         LastRead(c), n)
          PROVE  r \in Request /\ r.body = << >>
      <4>1. Get(<<"channel", "c", ":offset", "next", ":n">>, LastRead(c), n)
                \in Request
        BY <1>1, <1>3, <3>3, <3>4
      <4> QED
        BY <3>7, <4>1 DEF Get
    <3> QED
      BY <1>4, <2>2, <3>5, <3>6, <3>7 DEF FetchRequests
  <2> QED
    BY <2>1, <2>2
<1>5. \A r \in StrayRequests : r \in Request /\ r.body = << >>
  BY BrokerAssumption
<1> QED
  BY <1>2, <1>4, <1>5

\* The offset and the batch size that a request asks for.
LEMMA AskedType ==
    ASSUME NEW r \in Request
    PROVE  AskedOffset(r) \in Nat /\ AskedBatch(r) \in Nat
<1>1. r.offset \in Nat /\ r.batch \in Nat
  BY DEF Request
<1>2. AskedOffset(r) \in Nat
  BY <1>1 DEF AskedOffset
<1>3. AskedBatch(r) \in Nat
  BY <1>1 DEF AskedBatch
<1> QED
  BY <1>2, <1>3

\* What fetchMessages returns: the messages from the offset on.
LEMMA FetchedType ==
    ASSUME TypeOK, NEW o \in Nat, NEW batch \in Nat
    PROVE  LET es == FetchMessages(o, batch) IN
           /\ es \in Seq(Entry)
           /\ o + Len(es) <= Len(msgs) \/ es = << >>
           /\ \A i \in 1 .. Len(es) :
                 es[i] = [offset |-> o + i - 1, msg |-> msgs[o + i]]
<1> DEFINE n == batch % IntRange
           rest == IF o < Len(msgs) THEN Len(msgs) - o ELSE 0
           size == IF 0 < n /\ n < IntRange \div 2 /\ n < rest
                   THEN n ELSE rest
           es == [i \in 1 .. size |->
                    [offset |-> o + i - 1, msg |-> msgs[o + i]]]
<1>1. n \in Nat
  BY BrokerAssumption
<1>2. Len(msgs) \in Nat /\ msgs \in Seq(Message)
  BY DEF TypeOK
<1> HIDE DEF n
<1>3. /\ size \in Nat
      /\ size > 0 => o + size <= Len(msgs)
  BY <1>1, <1>2
<1> HIDE DEF size
<1>4. \A i \in 1 .. size : es[i] \in Entry
  <2>1. ASSUME NEW i \in 1 .. size
        PROVE  o + i - 1 \in Nat /\ msgs[o + i] \in Message
    BY <1>2, <1>3
  <2> QED
    BY <2>1 DEF Entry
<1>5. es \in Seq(Entry) /\ Len(es) = size
  BY <1>3, <1>4
<1>6. size = 0 => es = << >>
  BY <1>5
<1>7. FetchMessages(o, batch) = es
  BY DEF FetchMessages, size, n
<1>8. \A i \in 1 .. size :
         es[i] = [offset |-> o + i - 1, msg |-> msgs[o + i]]
  OBVIOUS
<1> HIDE DEF es
<1> QED
  BY <1>3, <1>5, <1>6, <1>7, <1>8

\* What the handlers of a GET answer: a status alone, or what was fetched.
LEMMA AnswerCases ==
    ASSUME NEW r
    PROVE  \/ Answer(r) = Fetch(r)
           \/ \E code \in {200, 400, 404} : Answer(r) = Status(code)
<1>0. Route(r) \in {"PING", "SERVERID", "STATS", "FETCH", "INSERT", "NOTFOUND"}
  BY DEF Route
<1>1. CASE Route(r) = "FETCH"
  BY <1>1 DEF Answer
<1>2. CASE Route(r) \in {"PING", "SERVERID", "STATS"}
  BY <1>2 DEF Answer
<1>3. CASE Route(r) = "NOTFOUND"
  BY <1>3 DEF Answer
<1>4. CASE Route(r) = "INSERT"
  BY <1>4 DEF Answer
<1> QED
  BY <1>0, <1>1, <1>2, <1>3, <1>4

\* The handler of a GET answers with a status, and with messages only if the
\* request is well-formed.
LEMMA AnswerType ==
    ASSUME TypeOK, NEW r \in Request
    PROVE  /\ Answer(r) \in Reply
           /\ Answer(r).status # 201
<1>2. ASSUME NEW code \in {200, 400, 404}
      PROVE  Status(code) \in Reply /\ Status(code).status # 201
  <2>1. Status(code).status = code
    BY DEF Status, NoReply
  <2> QED
    BY <2>1, ReplyType
<1>3. Fetch(r) \in Reply /\ Fetch(r).status # 201
  <2>1. CASE ~ValidChannel(r) \/ ~ValidNumbers(r)
    BY <1>2, <2>1 DEF Fetch
  <2>2. CASE ValidChannel(r) /\ ValidNumbers(r)
    <3>1. PICK es \in Seq(Entry) : Fetch(r) = [Status(200) EXCEPT !.entries = es]
      <4>2. \A o, b \in Nat : FetchMessages(o, b) \in Seq(Entry)
        BY FetchedType
      <4>3. \A es \in Seq(Entry) : DropFirst(r, es) \in Seq(Entry)
        BY DEF DropFirst
      <4> DEFINE next == Len(r.path) >= 4
                 offset == AskedOffset(r)
                 batch == AskedBatch(r) + (IF next THEN 1 ELSE 0)
                 es == IF next THEN DropFirst(r, FetchMessages(offset, batch))
                               ELSE FetchMessages(offset, batch)
      <4>4. offset \in Nat /\ batch \in Nat
        <5>1. AskedOffset(r) \in Nat /\ AskedBatch(r) \in Nat
          BY AskedType
        <5> HIDE DEF next
        <5> QED
          BY <5>1
      <4>5. Fetch(r) = [Status(200) EXCEPT !.entries = es]
        BY <2>2 DEF Fetch
      <4> HIDE DEF offset, batch
      <4>6. es \in Seq(Entry)
        BY <4>2, <4>3, <4>4
      <4> QED
        BY <4>5, <4>6
    <3>2. Fetch(r) \in Reply
      BY <3>1, ReplyType
    <3>3. Fetch(r).status = 200
      BY <3>1 DEF Status, NoReply
    <3> QED
      BY <3>2, <3>3
  <2> QED
    BY <2>1, <2>2
<1>4. \/ Answer(r) = Fetch(r)
      \/ \E code \in {200, 400, 404} : Answer(r) = Status(code)
  BY AnswerCases
<1> QED
  BY <1>2, <1>3, <1>4

\* The first connection is one of the backlog.
LEMMA FirstType ==
    ASSUME TypeOK, Serving
    PROVE  /\ 1 \in 1 .. Len(backlog)
           /\ Head(backlog) = backlog[1]
           /\ backlog[1].client \in Client
           /\ backlog[1].request \in Request
<1>1. backlog \in Seq(Connection) /\ backlog # << >>
  BY DEF TypeOK, Serving
<1>2. ASSUME NEW S, backlog \in Seq(S)
      PROVE  1 \in 1 .. Len(backlog) /\ Head(backlog) = backlog[1]
  BY <1>1, <1>2
<1>3. 1 \in 1 .. Len(backlog) /\ Head(backlog) = backlog[1]
  BY <1>1, <1>2
<1> QED
  BY <1>3, BacklogType

\* Only an INSERT answers 201, and only a FETCH sends messages.
LEMMA OtherReply ==
    ASSUME TypeOK, HandleOther
    PROVE  \E r \in Reply : /\ Respond(r)
                            /\ r.status # 201
                            /\ \/ r.entries = << >>
                               \/ r = Answer(backlog[1].request)
<1>1. Serving /\ Head(backlog) = backlog[1] /\ backlog[1].request \in Request
  BY FirstType DEF HandleOther
<1>2. CASE Respond(Answer(backlog[1].request))
  BY <1>1, <1>2, AnswerType
<1>3. CASE Respond(Status(500))
  <2>1. /\ Status(500) \in Reply
        /\ Status(500).status = 500 /\ Status(500).entries = << >>
    BY ReplyType
  <2> QED
    BY <1>3, <2>1
<1> QED
  BY <1>1, <1>2, <1>3 DEF HandleOther

\* An INSERT answers 201 only when the message is written where the process
\* counts on, and committed.
LEMMA InsertReply ==
    ASSUME TypeOK, HandleInsert
    PROVE  LET m == backlog[1].request.body IN
           /\ m \in Message
           /\ \E r \in Reply :
                /\ Respond(r)
                /\ r.entries = << >>
                /\ \/ Write(m) /\ committed' \in {committed, head + 1}
                   \/ UNCHANGED <<msgs, head, committed>>
                /\ r.status = 201 =>
                      Write(m) /\ committed' = head + 1 /\ r.offset = head
<1> DEFINE m == backlog[1].request.body
<1>1. /\ Serving /\ Head(backlog) = backlog[1]
      /\ 1 \in 1 .. Len(backlog)
  BY FirstType DEF HandleInsert
<1>2. m \in Message
  BY <1>1, BacklogType DEF HandleInsert, IsInsert
<1>3. AppendCommitted(m) \/ AppendUncommitted(m) \/ AppendFails
  BY <1>1 DEF HandleInsert
<1> HIDE DEF m
<1>4. head \in Nat
  BY DEF TypeOK
<1> DEFINE r == [Status(201) EXCEPT !.offset = head]
<1>5. r \in Reply /\ r.status = 201 /\ r.offset = head /\ r.entries = << >>
  BY <1>4, ReplyType
<1>6. /\ Status(500) \in Reply
      /\ Status(500).status = 500 /\ Status(500).entries = << >>
  BY ReplyType
<1> HIDE DEF r
<1>7. \E x \in Reply :
         /\ Respond(x)
         /\ x.entries = << >>
         /\ \/ Write(m) /\ committed' \in {committed, head + 1}
            \/ UNCHANGED <<msgs, head, committed>>
         /\ x.status = 201 =>
               Write(m) /\ committed' = head + 1 /\ x.offset = head
  <2>1. CASE AppendCommitted(m)
    <3>1. Write(m) /\ committed' = head + 1 /\ Respond(r)
      BY <2>1 DEF AppendCommitted, r
    <3> QED
      BY <1>5, <3>1
  <2>2. CASE AppendUncommitted(m)
    BY <1>6, <2>2 DEF AppendUncommitted
  <2>3. CASE AppendFails
    BY <1>6, <2>3 DEF AppendFails
  <2> QED
    BY <1>3, <2>1, <2>2, <2>3
<1> QED
  BY <1>2, <1>7 DEF m

\* A client that gives up leaves its connections to the server.
LEMMA AbandonType ==
    ASSUME TypeOK, NEW c \in Client, Abandon(c)
    PROVE  /\ backlog' \in Seq(Connection)
           /\ Len(backlog') = Len(backlog)
           /\ \A k \in 1 .. Len(backlog) :
                 /\ backlog'[k].client = backlog[k].client
                 /\ backlog'[k].request = backlog[k].request
                 /\ backlog'[k].open <=>
                       backlog[k].open /\ backlog[k].client # c
<1> DEFINE b(k) == [backlog[k] EXCEPT !.open = @ /\ backlog[k].client # c]
<1>1. DOMAIN backlog = 1 .. Len(backlog) /\ Len(backlog) \in Nat
  <2>1. backlog \in Seq(Connection)
    BY DEF TypeOK
  <2> QED
    BY <2>1
<1>2. backlog' = [k \in 1 .. Len(backlog) |-> b(k)]
  BY <1>1 DEF Abandon
<1>3. ASSUME NEW k \in 1 .. Len(backlog)
      PROVE  /\ b(k) \in Connection
             /\ b(k).client = backlog[k].client
             /\ b(k).request = backlog[k].request
             /\ b(k).open <=> backlog[k].open /\ backlog[k].client # c
  <2> DEFINE x == backlog[k]
             o == x.open /\ x.client # c
  <2>1. x \in Connection /\ o \in BOOLEAN
    BY BacklogType
  <2>2. b(k) = [x EXCEPT !.open = o]
    OBVIOUS
  <2> HIDE DEF x, o, b
  <2>3. [x EXCEPT !.open = o] = [client |-> x.client, open |-> o,
                                 request |-> x.request]
    BY <2>1 DEF Connection
  <2>4. /\ b(k) \in Connection /\ b(k).client = x.client
        /\ b(k).request = x.request /\ b(k).open = o
    BY <2>1, <2>2, <2>3 DEF Connection
  <2> QED
    BY <2>4 DEF x, o
<1> HIDE DEF b
<1> QED
  BY <1>1, <1>2, <1>3

\* A client that sends a request has one more connection.
LEMMA ConnectType ==
    ASSUME TypeOK, NEW c \in Client, NEW r \in Request, Connect(c, r)
    PROVE  LET n == Len(backlog) + 1 IN
           /\ backlog' \in Seq(Connection)
           /\ Len(backlog') = n
           /\ \A k \in 1 .. Len(backlog) : backlog'[k] = backlog[k]
           /\ backlog'[n].client = c /\ backlog'[n].open
           /\ backlog'[n].request = r
<1> DEFINE x == [client |-> c, open |-> TRUE, request |-> r]
<1>1. /\ x \in Connection /\ x.client = c /\ x.open = TRUE /\ x.request = r
  BY DEF Connection
<1>2. backlog \in Seq(Connection) /\ backlog' = Append(backlog, x)
  BY DEF Connect, TypeOK
<1> HIDE DEF x
<1> QED
  BY <1>1, <1>2

\* A client that stops to wait keeps everything else that it knows.
LEMMA StoppedType ==
    ASSUME TypeOK, NEW c, StopWaiting(c)
    PROVE  /\ producer' \in [Producer -> ProducerState]
           /\ consumer' \in [Consumer -> ConsumerState]
           /\ \A p \in Producer :
                 /\ producer'[p].number = producer[p].number
                 /\ producer'[p].waits <=> producer[p].waits /\ p # c
           /\ \A d \in Consumer :
                 /\ consumer'[d].got = consumer[d].got
                 /\ consumer'[d].waits <=> consumer[d].waits /\ d # c
<1>1. ASSUME NEW p \in Producer
      PROVE  /\ producer'[p] \in ProducerState
             /\ producer'[p].number = producer[p].number
             /\ producer'[p].waits <=> producer[p].waits /\ p # c
  <2> DEFINE x == producer[p]
             w == x.waits /\ p # c
  <2>1. x \in ProducerState /\ w \in BOOLEAN
    BY DEF TypeOK, ProducerState
  <2>2. producer'[p] = [x EXCEPT !.waits = w]
    BY DEF StopWaiting
  <2> HIDE DEF x, w
  <2>3. [x EXCEPT !.waits = w] = [number |-> x.number, waits |-> w]
    BY <2>1 DEF ProducerState
  <2>4. /\ producer'[p] \in ProducerState /\ producer'[p].number = x.number
        /\ producer'[p].waits = w
    BY <2>1, <2>2, <2>3 DEF ProducerState
  <2> QED
    BY <2>4 DEF x, w
<1>2. ASSUME NEW d \in Consumer
      PROVE  /\ consumer'[d] \in ConsumerState
             /\ consumer'[d].got = consumer[d].got
             /\ consumer'[d].waits <=> consumer[d].waits /\ d # c
  <2> DEFINE x == consumer[d]
             w == x.waits /\ d # c
  <2>1. x \in ConsumerState /\ w \in BOOLEAN
    BY DEF TypeOK, ConsumerState
  <2>2. consumer'[d] = [x EXCEPT !.waits = w]
    BY DEF StopWaiting
  <2> HIDE DEF x, w
  <2>3. [x EXCEPT !.waits = w] = [got |-> x.got, waits |-> w]
    BY <2>1 DEF ConsumerState
  <2>4. /\ consumer'[d] \in ConsumerState /\ consumer'[d].got = x.got
        /\ consumer'[d].waits = w
    BY <2>1, <2>2, <2>3 DEF ConsumerState
  <2> QED
    BY <2>4 DEF x, w
<1>3. /\ producer' = [p \in Producer |-> producer'[p]]
      /\ consumer' = [d \in Consumer |-> consumer'[d]]
  BY DEF StopWaiting
<1> QED
  BY <1>1, <1>2, <1>3

\* What one step changes of what one producer knows.
LEMMA ProducerStep ==
    ASSUME TypeOK, NEW p \in Producer
    PROVE  /\ SendInsert(p) =>
                 producer' = [producer EXCEPT
                    ![p] = [number |-> producer[p].number, waits |-> TRUE]]
           /\ ReceiveError(p) =>
                 producer' = [producer EXCEPT
                    ![p] = [number |-> producer[p].number, waits |-> FALSE]]
           /\ ReceiveAck(p) =>
                 producer' = [producer EXCEPT
                    ![p] = [number |-> producer[p].number + 1,
                            waits |-> FALSE]]
           /\ producer[p].number \in Nat
<1>1. producer \in [Producer -> ProducerState] /\ producer[p] \in ProducerState
  BY DEF TypeOK, ProducerState
<1>2. ASSUME NEW x \in ProducerState
      PROVE  /\ \A w \in BOOLEAN :
                   [x EXCEPT !.waits = w] = [number |-> x.number, waits |-> w]
             /\ \A n \in Nat :
                   [x EXCEPT !.number = n] = [number |-> n, waits |-> x.waits]
             /\ x.number \in Nat /\ x.waits \in BOOLEAN
  BY DEF ProducerState
<1>3. SendInsert(p) =>
         producer' = [producer EXCEPT ![p] = [producer[p] EXCEPT !.waits = TRUE]]
  BY <1>1 DEF SendInsert
<1>4. ReceiveError(p) =>
         producer' = [producer EXCEPT ![p] = [producer[p] EXCEPT !.waits = FALSE]]
  BY <1>1 DEF ReceiveError
<1> DEFINE n == producer[p].number + 1
           x == [number |-> n, waits |-> producer[p].waits]
           y == [number |-> n, waits |-> FALSE]
           f == [producer EXCEPT ![p] = x]
<1>5. ReceiveAck(p) => producer' = [producer EXCEPT ![p] = y]
  <2> SUFFICES ASSUME ReceiveAck(p) PROVE producer' = [producer EXCEPT ![p] = y]
    OBVIOUS
  <2>1. [producer EXCEPT ![p].number = @ + 1] = f
    <3>1. [producer[p] EXCEPT !.number = n] = x
      BY <1>1, <1>2
    <3> QED
      BY <3>1
  <2>2. x \in ProducerState /\ f \in [Producer -> ProducerState] /\ f[p] = x
    BY <1>1, <1>2 DEF ProducerState
  <2>3. [x EXCEPT !.waits = FALSE] = y
    BY <1>2, <2>2
  <2>4. [f EXCEPT ![p].waits = FALSE] = [f EXCEPT ![p] = y]
    BY <2>2, <2>3
  <2>5. producer' = [f EXCEPT ![p].waits = FALSE]
    BY <2>1 DEF ReceiveAck
  <2> HIDE DEF x, y
  <2> QED
    BY <1>1, <2>4, <2>5
<1>6. [producer[p] EXCEPT !.waits = TRUE]
         = [number |-> producer[p].number, waits |-> TRUE]
  BY <1>1, <1>2
<1>7. [producer[p] EXCEPT !.waits = FALSE]
         = [number |-> producer[p].number, waits |-> FALSE]
  BY <1>1, <1>2
<1>8. producer[p].number \in Nat
  BY <1>1, <1>2
<1> HIDE DEF n, x, f
<1> QED
  BY <1>3, <1>4, <1>5, <1>6, <1>7, <1>8 DEF n

\* The same for a consumer.
LEMMA ConsumerStep ==
    ASSUME TypeOK, NEW c \in Consumer
    PROVE  /\ SendFetch(c) =>
                 consumer' = [consumer EXCEPT
                    ![c] = [got |-> consumer[c].got, waits |-> TRUE]]
           /\ ReceiveMessages(c) =>
                 consumer' = [consumer EXCEPT
                    ![c] = [got |-> consumer[c].got \o reply[c].entries,
                            waits |-> FALSE]]
           /\ consumer[c].got \in Seq(Entry)
           /\ reply[c].entries \in Seq(Entry)
<1>1. consumer \in [Consumer -> ConsumerState] /\ consumer[c] \in ConsumerState
  BY DEF TypeOK, ConsumerState
<1>2. reply[c].entries \in Seq(Entry)
  <2>1. reply[c] \in Reply
    BY DEF TypeOK, Client
  <2> QED
    BY <2>1 DEF Reply
<1> DEFINE got == consumer[c].got \o reply[c].entries
<1>3. SendFetch(c) =>
         consumer' = [consumer EXCEPT ![c] = [consumer[c] EXCEPT !.waits = TRUE]]
  BY <1>1 DEF SendFetch
<1>4. ReceiveMessages(c) =>
         consumer' = [consumer EXCEPT
                        ![c] = [consumer[c] EXCEPT !.got = got, !.waits = FALSE]]
  BY <1>1 DEF ReceiveMessages
<1> HIDE DEF got
<1>5. ASSUME NEW x \in ConsumerState, NEW w \in BOOLEAN, NEW g
      PROVE  /\ [x EXCEPT !.waits = w] = [got |-> x.got, waits |-> w]
             /\ [x EXCEPT !.got = g, !.waits = w] = [got |-> g, waits |-> w]
             /\ x.got \in Seq(Entry)
  <2>1. [x EXCEPT !.waits = w] = [got |-> x.got, waits |-> w]
    BY DEF ConsumerState
  <2> DEFINE y == [got |-> g, waits |-> x.waits]
  <2>2. [x EXCEPT !.got = g] = y
    BY DEF ConsumerState
  <2>3. [y EXCEPT !.waits = w] = [got |-> g, waits |-> w]
    OBVIOUS
  <2>4. [x EXCEPT !.got = g, !.waits = w] = [y EXCEPT !.waits = w]
    <3> HIDE DEF y
    <3> QED
      BY <2>2
  <2>5. x.got \in Seq(Entry)
    BY DEF ConsumerState
  <2> QED
    BY <2>1, <2>3, <2>4, <2>5
<1> QED
  BY <1>1, <1>2, <1>3, <1>4, <1>5 DEF got

\* TypeOK is inductive.
LEMMA TypeStep == TypeOK /\ [Next]_vars => TypeOK'
<1> SUFFICES ASSUME TypeOK, [Next]_vars PROVE TypeOK'
  OBVIOUS
<1>0. /\ up \in BOOLEAN /\ lost \in BOOLEAN
      /\ msgs \in Seq(Message) /\ Len(msgs) \in Nat
      /\ head \in 0 .. Len(msgs) /\ committed \in 0 .. head
      /\ backlog \in Seq(Connection)
      /\ ~up => backlog = << >>
      /\ producer \in [Producer -> ProducerState]
      /\ consumer \in [Consumer -> ConsumerState]
      /\ reply \in [Client -> Reply]
      /\ acked \subseteq Entry
  BY DEF TypeOK, ProducerState, ConsumerState
<1>1. ASSUME NEW p \in Producer, SendInsert(p) PROVE TypeOK'
  <2>1. PostMessage(p, producer[p].number) \in Request /\ p \in Client
    BY RequestType, ProducerStep DEF Client
  <2>2. backlog' \in Seq(Connection) /\ up' /\ UNCHANGED <<channel, acked, reply>>
    BY <1>1, <2>1, ConnectType DEF SendInsert, Connect, channel
  <2>3. producer' \in [Producer -> ProducerState]
    <3>1. [number |-> producer[p].number, waits |-> TRUE] \in ProducerState
      BY ProducerStep DEF ProducerState
    <3> QED
      BY <1>0, <1>1, <3>1, ProducerStep
  <2> QED
    BY <1>0, <1>1, <2>2, <2>3
       DEF SendInsert, channel, TypeOK, ProducerState, ConsumerState
<1>2. ASSUME NEW c \in Consumer, SendFetch(c) PROVE TypeOK'
  <2>1. PICK r \in FetchRequests(c) \cup StrayRequests : Connect(c, r)
    BY <1>2 DEF SendFetch
  <2>2. r \in Request /\ c \in Client
    BY RequestType DEF Client
  <2>3. backlog' \in Seq(Connection) /\ up' /\ UNCHANGED <<channel, acked, reply>>
    BY <2>1, <2>2, ConnectType DEF Connect, channel
  <2>4. consumer' \in [Consumer -> ConsumerState]
    <3>1. [got |-> consumer[c].got, waits |-> TRUE] \in ConsumerState
      BY ConsumerStep DEF ConsumerState
    <3> QED
      BY <1>0, <1>2, <3>1, ConsumerStep
  <2> QED
    BY <1>0, <1>2, <2>3, <2>4
       DEF SendFetch, channel, TypeOK, ProducerState, ConsumerState
<1>3. ASSUME NEW c \in Client, GiveUp(c) PROVE TypeOK'
  <2>1. /\ backlog' \in Seq(Connection) /\ Len(backlog') = Len(backlog)
        /\ producer' \in [Producer -> ProducerState]
        /\ consumer' \in [Consumer -> ConsumerState]
    BY <1>3, AbandonType, StoppedType DEF GiveUp
  <2>2. reply' \in [Client -> Reply]
    BY <1>0, <1>3, ReplyType DEF GiveUp
  <2>3. ~up => backlog' = << >>
    <3>1. ASSUME NEW S, NEW x \in Seq(S), Len(x) = 0 PROVE x = << >>
      BY <3>1
    <3> QED
      BY <1>0, <2>1, <3>1
  <2> QED
    BY <1>0, <1>3, <2>1, <2>2, <2>3
       DEF GiveUp, channel, TypeOK, ProducerState, ConsumerState
<1>4. CASE HandleInsert
  <2> DEFINE m == backlog[1].request.body
  <2>1. PICK r \in Reply :
           /\ Respond(r)
           /\ \/ Write(m) /\ committed' \in {committed, head + 1}
              \/ UNCHANGED <<msgs, head, committed>>
    BY <1>4, InsertReply
  <2>2. m \in Message /\ Serving
    BY <1>4, InsertReply DEF HandleInsert
  <2>3. backlog' \in Seq(Connection) /\ reply' \in [Client -> Reply]
    BY <2>1, <2>2, Responded
  <2> HIDE DEF m
  <2>4. /\ msgs' \in Seq(Message)
        /\ head' \in 0 .. Len(msgs') /\ committed' \in 0 .. head'
    <3>1. CASE Write(m) /\ committed' \in {committed, head + 1}
      <4>1. msgs' \in Seq(Message) /\ head' = head + 1 /\ head' <= Len(msgs')
        BY <2>2, <3>1, Written
      <4> QED
        BY <1>0, <3>1, <4>1
    <3> QED
      BY <1>0, <2>1, <3>1
  <2> QED
    BY <1>0, <1>4, <2>2, <2>3, <2>4
       DEF HandleInsert, Serving, TypeOK, ProducerState, ConsumerState
<1>5. ASSUME NEW r \in Reply, Serving, Respond(r),
             UNCHANGED <<channel, producer, consumer, acked>>
      PROVE  TypeOK'
  <2>1. backlog' \in Seq(Connection) /\ reply' \in [Client -> Reply]
    BY <1>5, Responded
  <2> QED
    BY <1>0, <1>5, <2>1
       DEF Serving, channel, TypeOK, ProducerState, ConsumerState
<1>6. CASE HandleOther
  BY <1>5, <1>6, OtherReply DEF HandleOther
<1>7. CASE DropRequest
  BY <1>5, <1>7, ReplyType DEF DropRequest
<1>8. ASSUME NEW p \in Producer, ReceiveAck(p) \/ ReceiveError(p) PROVE TypeOK'
  <2>1. producer' \in [Producer -> ProducerState]
    <3>1. /\ [number |-> producer[p].number + 1, waits |-> FALSE]
                \in ProducerState
          /\ [number |-> producer[p].number, waits |-> FALSE] \in ProducerState
      BY ProducerStep DEF ProducerState
    <3> QED
      BY <1>0, <1>8, <3>1, ProducerStep
  <2>2. p \in Client /\ reply' \in [Client -> Reply]
    <3>1. reply' = [reply EXCEPT ![p] = NoReply]
      BY <1>8 DEF ReceiveAck, ReceiveError
    <3> QED
      BY <1>0, <3>1, ReplyType DEF Client
  <2>3. acked' \subseteq Entry
    <3>1. <<p, producer[p].number>> \in Message
      BY ProducerStep DEF Message
    <3>2. reply[p].offset \in Nat
      BY <1>0, <2>2 DEF Reply
    <3> DEFINE e == [msg |-> <<p, producer[p].number>>,
                     offset |-> reply[p].offset]
    <3>3. e \in Entry
      <4> DEFINE m == <<p, producer[p].number>>
      <4>1. m \in Message
        BY <3>1
      <4> HIDE DEF m
      <4>2. [msg |-> m, offset |-> reply[p].offset] \in Entry
        BY <3>2, <4>1 DEF Entry
      <4> QED
        BY <4>2 DEF m
    <3>4. acked' = acked \cup {e} \/ acked' = acked
      BY <1>8 DEF ReceiveAck, ReceiveError
    <3> HIDE DEF e
    <3> QED
      BY <1>0, <3>3, <3>4
  <2>4. UNCHANGED <<channel, backlog, consumer>>
    BY <1>8 DEF ReceiveAck, ReceiveError
  <2> QED
    BY <1>0, <2>1, <2>2, <2>3, <2>4
       DEF channel, TypeOK, ProducerState, ConsumerState
<1>9. ASSUME NEW c \in Consumer, ReceiveMessages(c) PROVE TypeOK'
  <2>1. consumer' \in [Consumer -> ConsumerState]
    <3>0. ASSUME NEW S, NEW x \in Seq(S), NEW y \in Seq(S) PROVE x \o y \in Seq(S)
      OBVIOUS
    <3>1. consumer[c].got \o reply[c].entries \in Seq(Entry)
      BY <3>0, ConsumerStep
    <3>2. [got |-> consumer[c].got \o reply[c].entries, waits |-> FALSE]
             \in ConsumerState
      BY <3>1 DEF ConsumerState
    <3> QED
      BY <1>0, <1>9, <3>2, ConsumerStep
  <2>2. reply' \in [Client -> Reply]
    BY <1>0, <1>9, ReplyType DEF ReceiveMessages
  <2> QED
    BY <1>0, <1>9, <2>1, <2>2
       DEF ReceiveMessages, channel, TypeOK, ProducerState, ConsumerState
<1>10. CASE Crash
  <2>1. << >> \in Seq(Connection)
    OBVIOUS
  <2>2. lost' \in BOOLEAN
    BY <1>10 DEF Crash
  <2> QED
    BY <1>0, <1>10, <2>1, <2>2 DEF Crash, TypeOK, ProducerState, ConsumerState
<1>11. CASE Restart
  BY <1>0, <1>11 DEF Restart, TypeOK, ProducerState, ConsumerState
<1>12. CASE UNCHANGED vars
  BY <1>12 DEF vars, channel, TypeOK
<1> QED
  BY <1>1, <1>2, <1>3, <1>4, <1>6, <1>7, <1>8, <1>9, <1>10, <1>11, <1>12
     DEF Next

\* An empty channel and clients that have asked for nothing.
LEMMA TypeInit == Init => TypeOK
<1> SUFFICES ASSUME Init PROVE TypeOK
  OBVIOUS
<1>1. producer \in [Producer -> ProducerState]
  BY DEF Init, ProducerState
<1>2. << >> \in Seq(Entry) /\ << >> \in Seq(Message) /\ << >> \in Seq(Connection)
  OBVIOUS
<1>3. consumer \in [Consumer -> ConsumerState]
  BY <1>2 DEF Init, ConsumerState
<1>4. reply \in [Client -> Reply]
  BY ReplyType DEF Init
<1>5. msgs \in Seq(Message) /\ head \in 0 .. Len(msgs) /\ committed \in 0 .. head
  BY <1>2 DEF Init
<1> QED
  BY <1>1, <1>2, <1>3, <1>4, <1>5
     DEF Init, TypeOK, ProducerState, ConsumerState

\* The channel, the clients and what is between them keep their types under
\* every fault.
THEOREM TypeCorrect == Spec => []TypeOK
  BY TypeInit, TypeStep, PTL DEF Spec

-----------------------------------------------------------------------------
(* Requests and their clients                                              *)

Waits(c) == IF c \in Producer THEN producer[c].waits ELSE consumer[c].waits

\* A client that waits has at most one connection of use or a reply, never
\* both, and what it asked for is what it still asks for.
Session(k) ==
    \A c \in Client : backlog[k].open /\ backlog[k].client = c =>
        /\ Waits(c)
        /\ reply[c] = NoReply
        /\ c \in Producer =>
              backlog[k].request.body = <<c, producer[c].number>>
        /\ c \notin Producer =>
              backlog[k].request \in FetchRequests(c) \cup StrayRequests

Alone(k, l) ==
    backlog[k].open /\ backlog[l].open
      /\ backlog[k].client = backlog[l].client => k = l

Sessions ==
    /\ \A k \in 1 .. Len(backlog) : Session(k)
    /\ \A k, l \in 1 .. Len(backlog) : Alone(k, l)
    /\ \A c \in Client : ~Waits(c) => reply[c] = NoReply

\* What a consumer asks for depends on what it has read.
LEMMA SameGot ==
    ASSUME NEW c, consumer'[c].got = consumer[c].got
    PROVE  FetchRequests(c)' = FetchRequests(c)
  BY DEF FetchRequests, LastRead

\* A step of the clients C keeps the connections of the others.
LEMMA SessionKept ==
    ASSUME NEW k, NEW l, Session(l), NEW C, backlog[l].client \in Client,
           backlog'[k].client = backlog[l].client,
           backlog'[k].request = backlog[l].request,
           backlog'[k].open => backlog[l].open,
           backlog'[k].open => backlog[l].client \notin C,
           reply'[backlog[l].client] = reply[backlog[l].client],
           \A p \in Producer \ C : /\ producer'[p].number = producer[p].number
                                   /\ producer'[p].waits = producer[p].waits,
           \A d \in Consumer \ C : /\ consumer'[d].got = consumer[d].got
                                   /\ consumer'[d].waits = consumer[d].waits
    PROVE  Session(k)'
<1> SUFFICES ASSUME NEW d \in Client, backlog'[k].open,
                    backlog'[k].client = d
             PROVE  /\ Waits(d)'
                    /\ reply'[d] = NoReply
                    /\ d \in Producer =>
                          backlog'[k].request.body = <<d, producer'[d].number>>
                    /\ d \notin Producer => backlog'[k].request
                                  \in FetchRequests(d)' \cup StrayRequests
  BY DEF Session
<1>1. backlog[l].open /\ d \notin C /\ backlog[l].client = d
  OBVIOUS
<1>2. CASE d \in Producer
  BY <1>1, <1>2 DEF Session, Waits
<1>3. CASE d \notin Producer
  <2>1. d \in Consumer
    BY <1>3 DEF Client
  <2>2. FetchRequests(d)' = FetchRequests(d)
    BY <1>1, <2>1, SameGot
  <2> QED
    BY <1>1, <1>3, <2>1, <2>2 DEF Session, Waits
<1> QED
  BY <1>2, <1>3

\* A client that sends a request had no connection of use and no reply.
LEMMA SendSessions ==
    ASSUME TypeOK, TypeOK', Sessions, NEW c \in Client,
           NEW r \in Request, Connect(c, r), ~Waits(c), Waits(c)',
           c \in Producer => r.body = <<c, producer'[c].number>>,
           c \notin Producer => r \in FetchRequests(c)' \cup StrayRequests,
           \A p \in Producer \ {c} : /\ producer'[p].number = producer[p].number
                                     /\ producer'[p].waits = producer[p].waits,
           \A d \in Consumer \ {c} : /\ consumer'[d].got = consumer[d].got
                                     /\ consumer'[d].waits = consumer[d].waits
    PROVE  Sessions'
<1>0. PICK n \in Nat : n = Len(backlog) + 1
  BY BacklogType
<1>1. /\ Len(backlog') = n
      /\ \A k \in 1 .. Len(backlog) : backlog'[k] = backlog[k]
      /\ backlog'[n].client = c /\ backlog'[n].open
      /\ backlog'[n].request = r
  BY <1>0, ConnectType
<1>2. /\ Len(backlog) \in Nat
      /\ \A k \in 1 .. Len(backlog) : backlog[k].client \in Client
  BY BacklogType
<1>3. UNCHANGED reply /\ reply[c] = NoReply
  BY DEF Connect, Sessions
<1>4. \A k \in 1 .. Len(backlog) : backlog[k].open => backlog[k].client # c
  BY <1>2 DEF Sessions, Session
<1>5. \A k \in 1 .. n : k \in 1 .. Len(backlog) \/ k = n
  BY <1>0, <1>2
<1>6. ASSUME NEW k \in 1 .. Len(backlog) PROVE Session(k)'
  <2>1. Session(k)
    BY DEF Sessions
  <2> QED
    BY <1>1, <1>2, <1>3, <1>4, <2>1, SessionKept
<1>7. Session(n)'
  BY <1>1, <1>3 DEF Session
<1>8. \A k, l \in 1 .. n : Alone(k, l)'
  BY <1>1, <1>4, <1>5 DEF Sessions, Alone
<1>9. ASSUME NEW d \in Client, ~Waits(d)' PROVE reply'[d] = NoReply
  <2>1. d # c /\ (Waits(d)' <=> Waits(d))
    BY <1>9 DEF Waits, Client
  <2> QED
    BY <1>3, <1>9, <2>1 DEF Sessions
<1> QED
  BY <1>1, <1>5, <1>6, <1>7, <1>8, <1>9 DEF Sessions

\* The server answers whom it answers, once.
LEMMA RespondSessions ==
    ASSUME TypeOK, Sessions, Serving, NEW r \in Reply, Respond(r),
           UNCHANGED <<producer, consumer>>
    PROVE  Sessions'
<1>1. /\ Len(backlog') = Len(backlog) - 1
      /\ \A k \in 1 .. Len(backlog') :
            k + 1 \in 1 .. Len(backlog) /\ backlog'[k] = backlog[k + 1]
      /\ \A c \in Client :
            ~backlog[1].open \/ c # backlog[1].client => reply'[c] = reply[c]
  BY Responded
<1>2. /\ 1 \in 1 .. Len(backlog) /\ Len(backlog) \in Nat
      /\ \A k \in 1 .. Len(backlog) : backlog[k].client \in Client
  BY FirstType, BacklogType
<1>3. ASSUME NEW k \in 1 .. Len(backlog') PROVE Session(k)'
  <2>1. /\ Session(k + 1) /\ k + 1 \in 1 .. Len(backlog) /\ k + 1 # 1
        /\ backlog'[k] = backlog[k + 1]
    BY <1>1 DEF Sessions
  <2>2. Alone(1, k + 1)
    BY <1>2, <2>1 DEF Sessions
  <2> DEFINE none == {}
             l == k + 1
  <2>0. /\ \A p \in Producer \ none : /\ producer'[p].number = producer[p].number
                                     /\ producer'[p].waits = producer[p].waits
        /\ \A d \in Consumer \ none : /\ consumer'[d].got = consumer[d].got
                                     /\ consumer'[d].waits = consumer[d].waits
        /\ backlog[l].client \in Client /\ backlog[l].client \notin none
        /\ Session(l) /\ backlog'[k] = backlog[l]
    BY <1>2, <2>1
  <2> HIDE DEF none, l
  <2>3. CASE ~backlog[1].open
    <3>1. reply'[backlog[l].client] = reply[backlog[l].client]
      BY <1>1, <2>0, <2>3
    <3> QED
      BY <2>0, <3>1, SessionKept
  <2>4. CASE backlog[1].open
    <3>1. CASE ~backlog[k + 1].open
      BY <2>1, <3>1 DEF Session
    <3>2. CASE backlog[k + 1].open
      <4>1. backlog[k + 1].client # backlog[1].client
        BY <2>1, <2>2, <2>4, <3>2 DEF Alone
      <4>2. reply'[backlog[l].client] = reply[backlog[l].client]
        BY <1>1, <1>2, <2>1, <4>1 DEF l
      <4> QED
        BY <2>0, <4>2, SessionKept
    <3> QED
      BY <3>1, <3>2
  <2> QED
    BY <2>3, <2>4
<1>4. ASSUME NEW k \in 1 .. Len(backlog'), NEW l \in 1 .. Len(backlog')
      PROVE  Alone(k, l)'
  <2>1. Alone(k + 1, l + 1)
    BY <1>1 DEF Sessions
  <2> QED
    BY <1>1, <2>1 DEF Alone
<1>5. ASSUME NEW c \in Client, ~Waits(c)' PROVE reply'[c] = NoReply
  <2>1. ~Waits(c) /\ reply[c] = NoReply
    BY <1>5 DEF Waits, Sessions
  <2>2. ~(backlog[1].open /\ c = backlog[1].client)
    BY <1>2, <2>1 DEF Sessions, Session
  <2> QED
    BY <1>1, <2>1, <2>2
<1> QED
  BY <1>3, <1>4, <1>5 DEF Sessions

\* A client that has its reply has no connection of use.
LEMMA ReceiveSessions ==
    ASSUME TypeOK, TypeOK', Sessions, NEW c \in Client, ~Waits(c)',
           reply[c].status # 0, reply' = [reply EXCEPT ![c] = NoReply],
           UNCHANGED backlog,
           \A p \in Producer \ {c} : /\ producer'[p].number = producer[p].number
                                     /\ producer'[p].waits = producer[p].waits,
           \A d \in Consumer \ {c} : /\ consumer'[d].got = consumer[d].got
                                     /\ consumer'[d].waits = consumer[d].waits
    PROVE  Sessions'
<1>1. reply[c] # NoReply
  BY DEF NoReply
<1>2. reply'[c] = NoReply /\ \A d \in Client \ {c} : reply'[d] = reply[d]
  BY DEF TypeOK
<1>3. \A k \in 1 .. Len(backlog) : /\ backlog[k].client \in Client
                                   /\ backlog[k].open => backlog[k].client # c
  BY <1>1, BacklogType DEF Sessions, Session
<1>4. ASSUME NEW k \in 1 .. Len(backlog) PROVE Session(k)'
  <2>1. Session(k)
    BY DEF Sessions
  <2>2. CASE backlog[k].client # c
    BY <1>2, <1>3, <2>1, <2>2, SessionKept
  <2>3. CASE backlog[k].client = c
    BY <1>3, <2>3 DEF Session
  <2> QED
    BY <2>2, <2>3
<1>5. \A k, l \in 1 .. Len(backlog) : Alone(k, l)'
  BY DEF Sessions, Alone
<1>6. ASSUME NEW d \in Client, ~Waits(d)' PROVE reply'[d] = NoReply
  <2>1. d # c => (Waits(d)' <=> Waits(d))
    BY DEF Waits, Client
  <2> QED
    BY <1>2, <1>6, <2>1 DEF Sessions
<1> QED
  BY <1>4, <1>5, <1>6 DEF Sessions

\* A client that gives up leaves nothing of use behind.
LEMMA GiveUpSessions ==
    ASSUME TypeOK, Sessions, NEW c \in Client, GiveUp(c)
    PROVE  Sessions'
<1>1. /\ Len(backlog') = Len(backlog) /\ Len(backlog) \in Nat
      /\ \A k \in 1 .. Len(backlog) :
            /\ backlog[k].client \in Client
            /\ backlog'[k].client = backlog[k].client
            /\ backlog'[k].request = backlog[k].request
            /\ backlog'[k].open <=> backlog[k].open /\ backlog[k].client # c
  BY AbandonType, BacklogType DEF GiveUp
<1>2. /\ \A p \in Producer :
            /\ producer'[p].number = producer[p].number
            /\ producer'[p].waits <=> producer[p].waits /\ p # c
      /\ \A d \in Consumer :
            /\ consumer'[d].got = consumer[d].got
            /\ consumer'[d].waits <=> consumer[d].waits /\ d # c
      /\ \A p \in Producer : /\ producer[p].waits \in BOOLEAN
                             /\ producer'[p].waits \in BOOLEAN
      /\ \A d \in Consumer : /\ consumer[d].waits \in BOOLEAN
                             /\ consumer'[d].waits \in BOOLEAN
  BY StoppedType DEF GiveUp, TypeOK, ProducerState, ConsumerState
<1>3. /\ reply'[c] = NoReply
      /\ \A d \in Client \ {c} : reply'[d] = reply[d]
  BY DEF GiveUp, TypeOK
<1>4. ASSUME NEW k \in 1 .. Len(backlog) PROVE Session(k)'
  <2>1. Session(k)
    BY DEF Sessions
  <2>2. CASE backlog[k].client # c
    <3> DEFINE C == {c}
    <3>1. /\ \A p \in Producer \ C :
                /\ producer'[p].number = producer[p].number
                /\ producer'[p].waits = producer[p].waits
          /\ \A d \in Consumer \ C :
                /\ consumer'[d].got = consumer[d].got
                /\ consumer'[d].waits = consumer[d].waits
      BY <1>2
    <3>2. backlog[k].client \in Client /\ backlog[k].client \notin C
      BY <1>1, <2>2
    <3>3. reply'[backlog[k].client] = reply[backlog[k].client]
      BY <1>3, <3>2
    <3> HIDE DEF C
    <3> QED
      BY <1>1, <2>1, <3>1, <3>2, <3>3, SessionKept
  <2>3. CASE backlog[k].client = c
    BY <1>1, <2>3 DEF Session
  <2> QED
    BY <2>2, <2>3
<1>5. ASSUME NEW k \in 1 .. Len(backlog), NEW l \in 1 .. Len(backlog)
      PROVE  Alone(k, l)'
  BY <1>1 DEF Sessions, Alone
<1>6. ASSUME NEW d \in Client, ~Waits(d)' PROVE reply'[d] = NoReply
  <2>1. d # c => (Waits(d)' <=> Waits(d))
    BY <1>2 DEF Waits, Client
  <2> QED
    BY <1>3, <1>6, <2>1 DEF Sessions
<1> QED
  BY <1>1, <1>4, <1>5, <1>6 DEF Sessions

\* No step leaves a client with two connections of use, or with a connection
\* of use beside a reply.
LEMMA SessionsStep ==
    ASSUME TypeOK, TypeOK', Sessions, [Next]_vars
    PROVE  Sessions'
<1>0. /\ producer \in [Producer -> ProducerState]
      /\ consumer \in [Consumer -> ConsumerState]
      /\ Producer \cap Consumer = {}
  BY BrokerAssumption DEF TypeOK, ProducerState, ConsumerState
<1>1. ASSUME NEW p \in Producer, SendInsert(p) PROVE Sessions'
  <2> DEFINE r == PostMessage(p, producer[p].number)
             s == [number |-> producer[p].number, waits |-> TRUE]
  <2>1. r \in Request /\ r.body = <<p, producer[p].number>> /\ p \in Client
    BY RequestType, ProducerStep DEF Client
  <2>2. producer' = [producer EXCEPT ![p] = s] /\ UNCHANGED consumer
    BY <1>1, ProducerStep DEF SendInsert
  <2>3. s.number = producer[p].number /\ s.waits = TRUE
    OBVIOUS
  <2>4. Connect(p, r)
    BY <1>1 DEF SendInsert
  <2> HIDE DEF r, s
  <2>5. /\ producer'[p].number = producer[p].number /\ producer'[p].waits
        /\ \A q \in Producer \ {p} : /\ producer'[q].number = producer[q].number
                                     /\ producer'[q].waits = producer[q].waits
        /\ \A d \in Consumer \ {p} : /\ consumer'[d].got = consumer[d].got
                                     /\ consumer'[d].waits = consumer[d].waits
    BY <1>0, <2>2, <2>3
  <2>6. ~Waits(p) /\ Waits(p)'
    BY <1>1, <2>5 DEF Waits, SendInsert
  <2> QED
    BY <2>1, <2>4, <2>5, <2>6, SendSessions
<1>2. ASSUME NEW c \in Consumer, SendFetch(c) PROVE Sessions'
  <2> DEFINE s == [got |-> consumer[c].got, waits |-> TRUE]
  <2>1. PICK r \in FetchRequests(c) \cup StrayRequests : Connect(c, r)
    BY <1>2 DEF SendFetch
  <2>2. r \in Request /\ c \in Client /\ c \notin Producer
    BY <1>0, RequestType DEF Client
  <2>3. consumer' = [consumer EXCEPT ![c] = s] /\ UNCHANGED producer
    BY <1>2, ConsumerStep DEF SendFetch
  <2>4. s.got = consumer[c].got /\ s.waits = TRUE
    OBVIOUS
  <2> HIDE DEF s
  <2>5. /\ consumer'[c].got = consumer[c].got /\ consumer'[c].waits
        /\ \A q \in Producer \ {c} : /\ producer'[q].number = producer[q].number
                                     /\ producer'[q].waits = producer[q].waits
        /\ \A d \in Consumer \ {c} : /\ consumer'[d].got = consumer[d].got
                                     /\ consumer'[d].waits = consumer[d].waits
    BY <1>0, <2>3, <2>4
  <2>6. ~Waits(c) /\ Waits(c)'
    BY <1>2, <2>2, <2>5 DEF Waits, SendFetch
  <2>7. r \in FetchRequests(c)' \cup StrayRequests
    BY <2>5, SameGot
  <2> QED
    BY <2>1, <2>2, <2>5, <2>6, <2>7, SendSessions
<1>3. ASSUME NEW c \in Client, GiveUp(c) PROVE Sessions'
  BY <1>3, GiveUpSessions
<1>4. CASE HandleInsert
  <2>1. \E r \in Reply : Respond(r)
    BY <1>4, InsertReply
  <2> QED
    BY <1>4, <2>1, RespondSessions DEF HandleInsert
<1>5. CASE HandleOther
  BY <1>5, OtherReply, RespondSessions DEF HandleOther
<1>6. CASE DropRequest
  BY <1>6, ReplyType, RespondSessions DEF DropRequest
<1>7. ASSUME NEW p \in Producer, ReceiveAck(p) \/ ReceiveError(p)
      PROVE  Sessions'
  <2>1. PICK n : producer' = [producer EXCEPT
                                ![p] = [number |-> n, waits |-> FALSE]]
    BY <1>7, ProducerStep
  <2>2. /\ UNCHANGED <<backlog, consumer>>
        /\ reply' = [reply EXCEPT ![p] = NoReply]
        /\ reply[p].status # 0
    BY <1>7 DEF ReceiveAck, ReceiveError
  <2>3. ~producer'[p].waits
    BY <1>0, <2>1
  <2>4. /\ \A q \in Producer \ {p} : producer'[q] = producer[q]
        /\ p \in Client
    BY <1>0, <2>1 DEF Client
  <2>5. ~Waits(p)'
    BY <2>3 DEF Waits
  <2> QED
    BY <2>2, <2>4, <2>5, ReceiveSessions
<1>8. ASSUME NEW c \in Consumer, ReceiveMessages(c) PROVE Sessions'
  <2>1. PICK g : consumer' = [consumer EXCEPT
                                ![c] = [got |-> g, waits |-> FALSE]]
    BY <1>8, ConsumerStep
  <2>2. /\ UNCHANGED <<backlog, producer>>
        /\ reply' = [reply EXCEPT ![c] = NoReply]
        /\ reply[c].status # 0
    BY <1>8 DEF ReceiveMessages
  <2>3. ~consumer'[c].waits
    BY <1>0, <2>1
  <2>4. /\ \A d \in Consumer \ {c} : consumer'[d] = consumer[d]
        /\ c \in Client /\ c \notin Producer
    BY <1>0, <2>1 DEF Client
  <2>5. ~Waits(c)'
    BY <2>3, <2>4 DEF Waits
  <2> QED
    BY <2>2, <2>4, <2>5, ReceiveSessions
<1>9. CASE Crash
  <2>1. backlog' = << >> /\ UNCHANGED <<producer, consumer, reply>>
    BY <1>9 DEF Crash
  <2>2. Len(backlog') = 0
    BY <2>1
  <2>3. \A d \in Client : Waits(d)' <=> Waits(d)
    BY <2>1 DEF Waits
  <2> QED
    BY <2>1, <2>2, <2>3 DEF Sessions
<1>10. CASE Restart \/ UNCHANGED vars
  <2>1. UNCHANGED <<backlog, producer, consumer, reply>>
    BY <1>10 DEF Restart, vars
  <2>2. \A c \in Consumer : FetchRequests(c)' = FetchRequests(c)
    BY <2>1, SameGot
  <2>3. \A c \in Client : Waits(c)' = Waits(c)
    BY <2>1 DEF Waits
  <2>4. \A c \in Client : c \notin Producer => c \in Consumer
    BY DEF Client
  <2>5. \A k \in 1 .. Len(backlog) : Session(k)' <=> Session(k)
    BY <2>1, <2>2, <2>3, <2>4 DEF Session
  <2> QED
    BY <2>1, <2>3, <2>5 DEF Sessions, Alone
<1> QED
  BY <1>1, <1>2, <1>3, <1>4, <1>5, <1>6, <1>7, <1>8, <1>9, <1>10 DEF Next

-----------------------------------------------------------------------------
(* Acknowledgements                                                        *)

\* The message that a reply acknowledges is committed where the reply says.
AckStored(p) ==
    reply[p].status = 201 =>
        /\ reply[p].offset < committed
        /\ msgs[reply[p].offset + 1] = <<p, producer[p].number>>

StoredInv == AckedStored /\ \A p \in Producer : AckStored(p)

\* A step keeps what is committed, and every reply it leaves or writes is
\* about a committed message.
LEMMA StoredKept ==
    ASSUME TypeOK, TypeOK', StoredInv, committed <= committed',
           \A i \in 1 .. committed : msgs'[i] = msgs[i],
           UNCHANGED acked,
           \A p \in Producer :
              \/ reply'[p].status # 201
              \/ /\ reply'[p] = reply[p]
                 /\ producer'[p].number = producer[p].number
              \/ AckStored(p)'
    PROVE  StoredInv'
<1>1. /\ committed \in Nat /\ committed' \in Nat
      /\ \A a \in acked : a.offset \in Nat
      /\ \A p \in Producer : reply[p].offset \in Nat
  BY DEF TypeOK, Entry, Client, Reply
<1>2. AckedStored'
  <2> SUFFICES ASSUME NEW a \in acked
               PROVE  a.offset < committed' /\ msgs'[a.offset + 1] = a.msg
    BY DEF AckedStored
  <2>1. a.offset < committed /\ msgs[a.offset + 1] = a.msg /\ a.offset \in Nat
    BY <1>1 DEF StoredInv, AckedStored
  <2>2. a.offset + 1 \in 1 .. committed
    BY <1>1, <2>1
  <2> QED
    BY <1>1, <2>1, <2>2
<1>3. ASSUME NEW p \in Producer PROVE AckStored(p)'
  <2>1. CASE /\ reply'[p] = reply[p] /\ reply[p].status = 201
             /\ producer'[p].number = producer[p].number
    <3>1. /\ reply[p].offset < committed /\ reply[p].offset \in Nat
          /\ msgs[reply[p].offset + 1] = <<p, producer[p].number>>
      BY <1>1, <2>1 DEF StoredInv, AckStored
    <3>2. reply[p].offset + 1 \in 1 .. committed
      BY <1>1, <3>1
    <3> QED
      BY <1>1, <2>1, <3>1, <3>2 DEF AckStored
  <2> QED
    BY <2>1 DEF AckStored
<1> QED
  BY <1>2, <1>3 DEF StoredInv

\* Only appendMessage moves the committed offset, and an INSERT is answered
\* with 201 only when it did.
LEMMA StoredStep ==
    ASSUME TypeOK, TypeOK', Sessions, StoredInv, [Next]_vars
    PROVE  StoredInv'
<1>0. /\ producer \in [Producer -> ProducerState]
      /\ reply \in [Client -> Reply]
      /\ committed \in Nat /\ head \in Nat /\ committed <= head
      /\ Len(msgs) \in Nat /\ head <= Len(msgs)
  BY DEF TypeOK, ProducerState
<1>1. ASSUME NEW p \in Producer, SendInsert(p) PROVE StoredInv'
  <2> DEFINE s == [number |-> producer[p].number, waits |-> TRUE]
  <2>1. producer' = [producer EXCEPT ![p] = s] /\ s.number = producer[p].number
    BY <1>1, ProducerStep
  <2> HIDE DEF s
  <2>2. \A q \in Producer : producer'[q].number = producer[q].number
    BY <1>0, <2>1
  <2>3. UNCHANGED <<msgs, committed, acked, reply>>
    BY <1>1 DEF SendInsert, Connect, channel
  <2> QED
    BY <1>0, <2>2, <2>3, StoredKept
<1>2. ASSUME NEW c \in Consumer, SendFetch(c) PROVE StoredInv'
  <2>1. UNCHANGED <<msgs, committed, acked, reply, producer>>
    BY <1>2 DEF SendFetch, Connect, channel
  <2> QED
    BY <2>1 DEF StoredInv, AckedStored, AckStored
<1>3. ASSUME NEW c \in Client, GiveUp(c) PROVE StoredInv'
  <2>1. UNCHANGED <<msgs, committed, acked>>
    BY <1>3 DEF GiveUp, channel
  <2>2. \A p \in Producer : producer'[p].number = producer[p].number
    BY <1>3, StoppedType DEF GiveUp
  <2>3. /\ reply'[c].status # 201
        /\ \A d \in Client \ {c} : reply'[d] = reply[d]
    BY <1>0, <1>3 DEF GiveUp, NoReply
  <2> QED
    BY <1>0, <2>1, <2>2, <2>3, StoredKept DEF Client
<1>4. CASE HandleInsert
  <2> DEFINE m == backlog[1].request.body
  <2>1. PICK r \in Reply :
           /\ Respond(r)
           /\ \/ Write(m) /\ committed' \in {committed, head + 1}
              \/ UNCHANGED <<msgs, head, committed>>
           /\ r.status = 201 =>
                 Write(m) /\ committed' = head + 1 /\ r.offset = head
    BY <1>4, InsertReply
  <2>2. m \in Message /\ Serving /\ UNCHANGED <<producer, acked>>
    BY <1>4, InsertReply DEF HandleInsert
  <2>3. /\ committed <= committed'
        /\ \A i \in 1 .. committed : msgs'[i] = msgs[i]
    <3>1. CASE Write(m) /\ committed' \in {committed, head + 1}
      <4>1. \A i \in 1 .. Len(msgs) : i # head + 1 => msgs'[i] = msgs[i]
        BY <2>2, <3>1, Written
      <4> QED
        BY <1>0, <3>1, <4>1
    <3> QED
      BY <1>0, <2>1, <3>1
  <2>4. ASSUME NEW p \in Producer, reply'[p] # reply[p], r.status = 201
        PROVE  AckStored(p)'
    <3>1. backlog[1].open /\ backlog[1].client = p /\ reply'[p] = r
      BY <2>1, <2>2, <2>4, Responded DEF Client
    <3>2. m = <<p, producer[p].number>>
      BY <2>2, <3>1, FirstType DEF Sessions, Session, Client
    <3>3. /\ committed' = head + 1 /\ r.offset = head
          /\ msgs'[head + 1] = m
      BY <2>1, <2>2, <2>4, Written
    <3> QED
      BY <1>0, <2>2, <3>1, <3>2, <3>3 DEF AckStored
  <2>5. \A p \in Producer : reply'[p] # reply[p] => reply'[p] = r
    BY <2>1, <2>2, Responded DEF Client
  <2> HIDE DEF m
  <2> QED
    BY <2>2, <2>3, <2>4, <2>5, StoredKept
<1>5. ASSUME NEW r \in Reply, Serving, Respond(r), r.status # 201,
             UNCHANGED <<channel, producer, consumer, acked>>
      PROVE  StoredInv'
  <2>1. \A p \in Producer : reply'[p] # reply[p] => reply'[p] = r
    BY <1>5, Responded DEF Client
  <2> QED
    BY <1>0, <1>5, <2>1, StoredKept DEF channel
<1>6. CASE HandleOther
  BY <1>5, <1>6, OtherReply DEF HandleOther
<1>7. CASE DropRequest
  <2>1. NoReply.status # 201
    BY DEF NoReply
  <2> QED
    BY <1>5, <1>7, <2>1, ReplyType DEF DropRequest
<1>8. ASSUME NEW p \in Producer, ReceiveAck(p) \/ ReceiveError(p)
      PROVE  StoredInv'
  <2>1. /\ UNCHANGED <<msgs, committed>> /\ p \in Client
        /\ reply' = [reply EXCEPT ![p] = NoReply]
    BY <1>8 DEF ReceiveAck, ReceiveError, channel, Client
  <2>2. PICK n : producer' = [producer EXCEPT
                                ![p] = [number |-> n, waits |-> FALSE]]
    BY <1>8, ProducerStep
  <2>3. \A q \in Producer \ {p} : /\ producer'[q] = producer[q]
                                  /\ reply'[q] = reply[q]
    BY <1>0, <2>1, <2>2 DEF Client
  <2>4. reply'[p].status # 201
    BY <1>0, <2>1 DEF NoReply
  <2>5. ASSUME NEW q \in Producer PROVE AckStored(q)'
    <3>1. CASE q = p
      BY <2>4, <3>1 DEF AckStored
    <3>2. CASE q # p
      <4>1. AckStored(q) /\ reply'[q] = reply[q] /\ producer'[q] = producer[q]
        BY <2>3, <3>2 DEF StoredInv
      <4> QED
        BY <2>1, <4>1 DEF AckStored
    <3> QED
      BY <3>1, <3>2
  <2>6. AckedStored'
    <3> DEFINE e == [msg |-> <<p, producer[p].number>>,
                     offset |-> reply[p].offset]
    <3>1. acked' = acked \/ (reply[p].status = 201 /\ acked' = acked \cup {e})
      BY <1>8 DEF ReceiveAck, ReceiveError
    <3>2. reply[p].status = 201 =>
             e.offset < committed /\ msgs[e.offset + 1] = e.msg
      BY DEF StoredInv, AckStored
    <3> HIDE DEF e
    <3> QED
      BY <2>1, <3>1, <3>2 DEF StoredInv, AckedStored
  <2> QED
    BY <2>5, <2>6 DEF StoredInv
<1>9. ASSUME NEW c \in Consumer, ReceiveMessages(c) PROVE StoredInv'
  <2>1. /\ UNCHANGED <<msgs, committed, acked, producer>> /\ c \in Client
        /\ reply' = [reply EXCEPT ![c] = NoReply]
    BY <1>9 DEF ReceiveMessages, channel, Client
  <2>2. ASSUME NEW p \in Producer PROVE reply'[p] = reply[p]
    <3>1. p # c /\ p \in Client
      BY BrokerAssumption DEF Client
    <3> QED
      BY <1>0, <2>1, <3>1
  <2> QED
    BY <1>0, <2>1, <2>2, StoredKept
<1>10. CASE Crash \/ Restart \/ UNCHANGED vars
  <2>1. UNCHANGED <<msgs, committed, acked, reply, producer>>
    BY <1>10 DEF Crash, Restart, vars, channel
  <2> QED
    BY <2>1 DEF StoredInv, AckedStored, AckStored
<1> QED
  BY <1>1, <1>2, <1>3, <1>4, <1>6, <1>7, <1>8, <1>9, <1>10 DEF Next

\* Nothing waits and nothing is answered in the beginning.
LEMMA SessionsInit == Init => TypeOK /\ Sessions /\ StoredInv
<1> SUFFICES ASSUME Init PROVE TypeOK /\ Sessions /\ StoredInv
  OBVIOUS
<1>1. TypeOK
  BY TypeInit
<1>2. Len(backlog) = 0 /\ acked = {} /\ \A c \in Client : reply[c] = NoReply
  BY DEF Init
<1>3. NoReply.status # 201
  BY DEF NoReply
<1>4. StoredInv
  BY <1>2, <1>3 DEF StoredInv, AckedStored, AckStored, Client
<1>5. Sessions
  BY <1>2 DEF Sessions
<1> QED
  BY <1>1, <1>4, <1>5

\* An acknowledged message stays in the channel, committed, where the
\* acknowledgement says, under every fault.
THEOREM AcksKept == Spec => []AckedStored
<1> DEFINE IInv == TypeOK /\ Sessions /\ StoredInv
<1>1. Init => IInv
  BY SessionsInit
<1>2. IInv /\ [Next]_vars => IInv'
  BY TypeStep, SessionsStep, StoredStep
<1>3. IInv => AckedStored
  BY DEF StoredInv
<1> QED
  BY <1>1, <1>2, <1>3, PTL DEF Spec

-----------------------------------------------------------------------------
(* The order of messages                                                   *)

Body(k) == backlog[k].request.body

\* A message that waits to be appended comes behind those of its producer
\* that count, and before those that it sent later.
BehindLog(k) ==
    \A i \in 1 .. head :
        Body(k) # << >> /\ msgs[i][1] = Body(k)[1] => msgs[i][2] <= Body(k)[2]

InOrder(k, l) ==
    Body(k) # << >> /\ Body(l) # << >> /\ Body(k)[1] = Body(l)[1] /\ k < l =>
        Body(k)[2] <= Body(l)[2]

Sent(m) == m[2] <= producer[m[1]].number

OrderInv ==
    /\ SendOrder
    /\ \A i \in 1 .. head : Sent(msgs[i])
    /\ \A k \in 1 .. Len(backlog) :
          BehindLog(k) /\ (Body(k) # << >> => Sent(Body(k)))
    /\ \A k, l \in 1 .. Len(backlog) : InOrder(k, l)

\* A producer never goes back to an earlier message.
LEMMA NumbersGrow ==
    ASSUME TypeOK, [Next]_vars, NEW p \in Producer
    PROVE  producer[p].number <= producer'[p].number
<1>0. /\ producer \in [Producer -> ProducerState]
      /\ \A q \in Producer : producer[q].number \in Nat
  BY DEF TypeOK, ProducerState
<1>1. ASSUME NEW q \in Producer,
             SendInsert(q) \/ ReceiveAck(q) \/ ReceiveError(q)
      PROVE  producer[p].number <= producer'[p].number
  <2>1. PICK n, w : /\ producer' = [producer EXCEPT
                                       ![q] = [number |-> n, waits |-> w]]
                    /\ n \in {producer[q].number, producer[q].number + 1}
    BY <1>1, ProducerStep
  <2>2. producer[q].number <= n
    BY <1>0, <2>1
  <2>3. producer'[p] = IF p = q THEN [number |-> n, waits |-> w] ELSE producer[p]
    BY <1>0, <2>1
  <2> QED
    BY <1>0, <2>2, <2>3
<1>2. ASSUME NEW c \in Client, GiveUp(c)
      PROVE  producer[p].number <= producer'[p].number
  BY <1>0, <1>2, StoppedType DEF GiveUp
<1>3. UNCHANGED producer => producer[p].number <= producer'[p].number
  BY <1>0
<1> QED
  BY <1>1, <1>2, <1>3
     DEF Next, vars, SendFetch, ReceiveMessages, HandleInsert, HandleOther,
         DropRequest, Crash, Restart

\* A step that appends no message and sends none keeps the order.
LEMMA OrderKept ==
    ASSUME TypeOK, TypeOK', OrderInv, [Next]_vars, head' <= head,
           UNCHANGED msgs,
           NEW s \in {0, 1},
           \A k \in 1 .. Len(backlog') :
              /\ k + s \in 1 .. Len(backlog)
              /\ backlog'[k].request = backlog[k + s].request
    PROVE  OrderInv'
<1>0. /\ head \in Nat /\ head' \in Nat /\ head <= Len(msgs)
      /\ Len(backlog) \in Nat /\ Len(backlog') \in Nat
      /\ \A i \in 1 .. head' : i \in 1 .. head
      /\ \A k \in 1 .. Len(backlog') : Body(k)' = Body(k + s)
  BY DEF TypeOK, Body
<1>1. ASSUME NEW m \in Message, Sent(m) PROVE Sent(m)'
  <2>1. m[1] \in Producer /\ m[2] \in Nat
    BY DEF Message
  <2>2. producer[m[1]].number <= producer'[m[1]].number
    BY <2>1, NumbersGrow
  <2>3. producer[m[1]].number \in Nat /\ producer'[m[1]].number \in Nat
    BY <2>1 DEF TypeOK
  <2> QED
    BY <1>1, <2>1, <2>2, <2>3 DEF Sent
<1>2. \A i \in 1 .. head : msgs[i] \in Message
  BY <1>0 DEF TypeOK
<1>3. SendOrder'
  BY <1>0 DEF OrderInv, SendOrder
<1>4. ASSUME NEW i \in 1 .. head' PROVE Sent(msgs[i])'
  <2>1. msgs[i] \in Message /\ Sent(msgs[i])
    BY <1>0, <1>2 DEF OrderInv
  <2>2. PICK m \in Message : m = msgs[i]
    BY <2>1
  <2>3. Sent(m)'
    BY <1>1, <2>1, <2>2
  <2> QED
    BY <2>2, <2>3 DEF Sent
<1>5. ASSUME NEW k \in 1 .. Len(backlog')
      PROVE  BehindLog(k)' /\ (Body(k)' # << >> => Sent(Body(k))')
  <2>1. /\ k + s \in 1 .. Len(backlog) /\ Body(k)' = Body(k + s)
        /\ BehindLog(k + s) /\ (Body(k + s) # << >> => Sent(Body(k + s)))
        /\ Body(k + s) # << >> => Body(k + s) \in Message
    BY <1>0, BacklogType DEF OrderInv, Body
  <2>2. BehindLog(k)'
    BY <1>0, <2>1 DEF BehindLog
  <2>3. ASSUME Body(k)' # << >> PROVE Sent(Body(k))'
    <3>1. PICK m \in Message : m = Body(k + s)
      BY <2>1, <2>3
    <3>2. Sent(m)'
      BY <1>1, <2>1, <2>3, <3>1
    <3> QED
      BY <2>1, <3>1, <3>2 DEF Sent
  <2> QED
    BY <2>2, <2>3
<1>6. ASSUME NEW k \in 1 .. Len(backlog'), NEW l \in 1 .. Len(backlog')
      PROVE  InOrder(k, l)'
  <2>1. /\ k + s \in 1 .. Len(backlog) /\ l + s \in 1 .. Len(backlog)
        /\ Body(k)' = Body(k + s) /\ Body(l)' = Body(l + s)
    BY <1>0
  <2>2. InOrder(k + s, l + s)
    BY <2>1 DEF OrderInv
  <2>3. k < l => k + s < l + s
    OBVIOUS
  <2> QED
    BY <2>1, <2>2, <2>3 DEF InOrder
<1> QED
  BY <1>3, <1>4, <1>5, <1>6 DEF OrderInv

\* The message of the first connection, appended, comes behind those that
\* count and before those that wait.
LEMMA OrderWritten ==
    ASSUME TypeOK, TypeOK', OrderInv, [Next]_vars, Serving,
           Body(1) \in Message, Write(Body(1)), NEW r \in Reply, Respond(r),
           UNCHANGED producer
    PROVE  OrderInv'
<1> DEFINE m == Body(1)
<1>0. /\ head \in Nat /\ head' = head + 1 /\ head <= Len(msgs)
      /\ Len(msgs) \in Nat
      /\ msgs'[head + 1] = m
      /\ \A i \in 1 .. head : msgs'[i] = msgs[i] /\ msgs[i] \in Message
  <2>1. /\ head \in Nat /\ head <= Len(msgs) /\ Len(msgs) \in Nat
        /\ msgs \in Seq(Message)
    BY DEF TypeOK
  <2>2. \A i \in 1 .. head : i \in 1 .. Len(msgs) /\ i # head + 1
    BY <2>1
  <2> HIDE DEF m
  <2>3. /\ head' = head + 1 /\ msgs'[head + 1] = m
        /\ \A i \in 1 .. Len(msgs) : i # head + 1 => msgs'[i] = msgs[i]
    BY Written DEF m
  <2> QED
    BY <2>1, <2>2, <2>3
<1>1. /\ 1 \in 1 .. Len(backlog)
      /\ BehindLog(1) /\ Sent(m) /\ m # << >>
  <2>1. 1 \in 1 .. Len(backlog)
    BY FirstType
  <2>2. m # << >>
    BY DEF Message
  <2> QED
    BY <2>1, <2>2 DEF OrderInv
<1>2. /\ Len(backlog') \in Nat
      /\ \A k \in 1 .. Len(backlog') :
            /\ k + 1 \in 1 .. Len(backlog) /\ Body(k)' = Body(k + 1)
            /\ BehindLog(k + 1) /\ InOrder(1, k + 1)
            /\ Body(k + 1) # << >> => Sent(Body(k + 1))
  <2>1. /\ \A k \in 1 .. Len(backlog') :
              k + 1 \in 1 .. Len(backlog) /\ Body(k)' = Body(k + 1)
    BY Responded DEF Body
  <2>2. Len(backlog') \in Nat
    BY DEF TypeOK
  <2> QED
    BY <1>1, <2>1, <2>2 DEF OrderInv
<1>3. \A i \in 1 .. head' : i \in 1 .. head \/ i = head + 1
  BY <1>0
<1> HIDE DEF m
<1>4. \A i \in 1 .. head : msgs[i][1] = m[1] => msgs[i][2] <= m[2]
  BY <1>1 DEF BehindLog, m
<1>5. SendOrder'
  <2> SUFFICES ASSUME NEW i \in 1 .. head', NEW j \in 1 .. head', i < j,
                      msgs'[i][1] = msgs'[j][1]
               PROVE  msgs'[i][2] <= msgs'[j][2]
    BY DEF SendOrder
  <2>1. i \in 1 .. head
    BY <1>0
  <2>2. CASE j \in 1 .. head
    BY <1>0, <2>1, <2>2 DEF OrderInv, SendOrder
  <2>3. CASE j = head + 1
    BY <1>0, <1>4, <2>1, <2>3
  <2> QED
    BY <1>3, <2>2, <2>3
<1>6. ASSUME NEW i \in 1 .. head' PROVE Sent(msgs[i])'
  BY <1>0, <1>1, <1>3 DEF OrderInv, Sent
<1>7. ASSUME NEW k \in 1 .. Len(backlog')
      PROVE  BehindLog(k)' /\ (Body(k)' # << >> => Sent(Body(k))')
  <2>1. /\ Body(k)' = Body(k + 1) /\ BehindLog(k + 1) /\ InOrder(1, k + 1)
        /\ 1 < k + 1
        /\ Body(k + 1) # << >> => Sent(Body(k + 1))
    BY <1>2
  <2>2. Body(k + 1) # << >> /\ m[1] = Body(k + 1)[1] => m[2] <= Body(k + 1)[2]
    BY <1>1, <2>1 DEF InOrder, m
  <2>3. BehindLog(k)'
    BY <1>0, <1>3, <2>1, <2>2 DEF BehindLog
  <2> QED
    BY <2>1, <2>3 DEF Sent
<1>8. ASSUME NEW k \in 1 .. Len(backlog'), NEW l \in 1 .. Len(backlog')
      PROVE  InOrder(k, l)'
  <2>1. InOrder(k + 1, l + 1)
    BY <1>2 DEF OrderInv
  <2>2. k < l => k + 1 < l + 1
    OBVIOUS
  <2> QED
    BY <1>2, <2>1, <2>2 DEF InOrder
<1> QED
  BY <1>5, <1>6, <1>7, <1>8 DEF OrderInv

\* A request that is sent comes behind those that wait.
LEMMA OrderSent ==
    ASSUME TypeOK, TypeOK', OrderInv, [Next]_vars,
           NEW c \in Client, NEW r \in Request, Connect(c, r),
           r.body # << >> =>
              c \in Producer /\ r.body = <<c, producer[c].number>>
    PROVE  OrderInv'
<1>0. PICK n \in Nat : n = Len(backlog) + 1
  BY BacklogType
<1>1. /\ Len(backlog') = n /\ Len(backlog) \in Nat
      /\ \A k \in 1 .. Len(backlog) : Body(k)' = Body(k)
      /\ Body(n)' = r.body
  BY <1>0, ConnectType, BacklogType DEF Body
<1>2. \A k \in 1 .. n : k \in 1 .. Len(backlog) \/ k = n
  BY <1>0, <1>1
<1>3. UNCHANGED <<msgs, head>>
  BY DEF Connect, channel
<1>4. \A p \in Producer : /\ producer[p].number <= producer'[p].number
                          /\ producer[p].number \in Nat
                          /\ producer'[p].number \in Nat
  BY NumbersGrow DEF TypeOK
<1>5. /\ \A i \in 1 .. head : msgs[i] \in Message
      /\ \A k \in 1 .. Len(backlog) : Body(k) # << >> => Body(k) \in Message
  BY BacklogType DEF TypeOK, Body
<1>6. ASSUME NEW m \in Message, Sent(m) PROVE Sent(m)'
  <2>1. m[1] \in Producer /\ m[2] \in Nat
    BY DEF Message
  <2> QED
    BY <1>4, <1>6, <2>1 DEF Sent
<1>7. ASSUME NEW m \in Message, Sent(m), r.body # << >>, m[1] = r.body[1]
      PROVE  m[2] <= r.body[2]
  BY <1>7 DEF Sent
<1>8. SendOrder'
  BY <1>3 DEF OrderInv, SendOrder
<1>9. ASSUME NEW i \in 1 .. head' PROVE Sent(msgs[i])'
  <2>1. PICK m \in Message : m = msgs[i] /\ Sent(m)
    BY <1>3, <1>5 DEF OrderInv
  <2>2. Sent(m)'
    BY <1>6, <2>1
  <2> QED
    BY <1>3, <2>1, <2>2 DEF Sent
<1>10. ASSUME NEW k \in 1 .. Len(backlog)
       PROVE  BehindLog(k)' /\ (Body(k)' # << >> => Sent(Body(k))')
  <2>1. BehindLog(k)'
    BY <1>1, <1>3 DEF OrderInv, BehindLog
  <2>2. ASSUME Body(k) # << >> PROVE Sent(Body(k))'
    <3>1. PICK m \in Message : m = Body(k) /\ Sent(m)
      BY <1>5, <2>2 DEF OrderInv
    <3>2. Sent(m)'
      BY <1>6, <3>1
    <3> QED
      BY <1>1, <3>1, <3>2 DEF Sent
  <2> QED
    BY <1>1, <2>1, <2>2
<1>11. BehindLog(n)' /\ (Body(n)' # << >> => Sent(Body(n))')
  <2>1. \A i \in 1 .. head : r.body # << >> /\ msgs[i][1] = r.body[1] =>
                                msgs[i][2] <= r.body[2]
    BY <1>5, <1>7 DEF OrderInv
  <2>2. r.body # << >> => r.body[2] <= producer'[r.body[1]].number
    BY <1>4
  <2> QED
    BY <1>1, <1>3, <2>1, <2>2 DEF BehindLog, Sent
<1>12. ASSUME NEW k \in 1 .. n, NEW l \in 1 .. n PROVE InOrder(k, l)'
  <2>1. CASE k \in 1 .. Len(backlog) /\ l \in 1 .. Len(backlog)
    BY <1>1, <2>1 DEF OrderInv, InOrder
  <2>2. CASE k \in 1 .. Len(backlog) /\ l = n
    <3>1. Body(k) # << >> /\ r.body # << >> /\ Body(k)[1] = r.body[1] =>
             Body(k)[2] <= r.body[2]
      BY <1>5, <1>7, <2>2 DEF OrderInv
    <3> QED
      BY <1>1, <2>2, <3>1 DEF InOrder
  <2>3. CASE k = n
    BY <2>3 DEF InOrder
  <2> QED
    BY <1>2, <2>1, <2>2, <2>3
<1> QED
  BY <1>1, <1>2, <1>8, <1>9, <1>10, <1>11, <1>12 DEF OrderInv

\* OrderInv is inductive beside the types.
LEMMA OrderStep ==
    ASSUME TypeOK, TypeOK', OrderInv, [Next]_vars
    PROVE  OrderInv'
<1>0. /\ head \in Nat /\ committed \in Nat /\ committed <= head
      /\ Len(backlog) \in Nat
  BY DEF TypeOK
<1>1. ASSUME NEW p \in Producer, SendInsert(p) PROVE OrderInv'
  <2> DEFINE r == PostMessage(p, producer[p].number)
  <2>1. r \in Request /\ r.body = <<p, producer[p].number>> /\ p \in Client
    BY RequestType, ProducerStep DEF Client
  <2>2. Connect(p, r)
    BY <1>1 DEF SendInsert
  <2> HIDE DEF r
  <2> QED
    BY <2>1, <2>2, OrderSent
<1>2. ASSUME NEW c \in Consumer, SendFetch(c) PROVE OrderInv'
  <2>1. PICK r \in FetchRequests(c) \cup StrayRequests : Connect(c, r)
    BY <1>2 DEF SendFetch
  <2>2. r \in Request /\ r.body = << >> /\ c \in Client
    BY RequestType DEF Client
  <2> QED
    BY <2>1, <2>2, OrderSent
<1>3. ASSUME UNCHANGED msgs, head' <= head, NEW r \in Reply, Serving, Respond(r)
      PROVE  OrderInv'
  BY <1>3, OrderKept, Responded
<1>4. ASSUME UNCHANGED msgs, head' <= head, Len(backlog') \in {0, Len(backlog)},
             \A k \in 1 .. Len(backlog') :
                backlog'[k].request = backlog[k].request
      PROVE  OrderInv'
  BY <1>0, <1>4, OrderKept
<1>5. ASSUME NEW c \in Client, GiveUp(c) PROVE OrderInv'
  <2>1. /\ Len(backlog') = Len(backlog)
        /\ \A k \in 1 .. Len(backlog) : backlog'[k].request = backlog[k].request
        /\ UNCHANGED <<msgs, head>>
    BY <1>5, AbandonType DEF GiveUp, channel
  <2> QED
    BY <1>0, <1>4, <2>1
<1>6. CASE HandleInsert
  <2>1. PICK r \in Reply :
           /\ Respond(r)
           /\ Write(Body(1)) \/ UNCHANGED <<msgs, head>>
    BY <1>6, InsertReply DEF Body
  <2>2. Serving /\ UNCHANGED producer /\ Body(1) \in Message
    BY <1>6, InsertReply DEF HandleInsert, Body
  <2> QED
    BY <1>0, <1>3, <2>1, <2>2, OrderWritten
<1>7. CASE HandleOther
  BY <1>0, <1>3, <1>7, OtherReply DEF HandleOther, channel
<1>8. CASE DropRequest
  BY <1>0, <1>3, <1>8, ReplyType DEF DropRequest, channel
<1>9. CASE Crash
  <2>1. backlog' = << >> /\ UNCHANGED <<msgs, head>>
    BY <1>9 DEF Crash
  <2>2. Len(backlog') = 0
    BY <2>1
  <2> QED
    BY <1>0, <1>4, <2>1, <2>2
<1>10. CASE \/ Restart \/ UNCHANGED vars
            \/ \E p \in Producer : ReceiveAck(p) \/ ReceiveError(p)
            \/ \E c \in Consumer : ReceiveMessages(c)
  <2>1. UNCHANGED <<backlog, msgs>> /\ head' \in {head, committed}
    BY <1>10 DEF Restart, ReceiveAck, ReceiveError, ReceiveMessages, vars, channel
  <2> QED
    BY <1>0, <1>4, <2>1
<1> QED
  BY <1>1, <1>2, <1>5, <1>6, <1>7, <1>8, <1>9, <1>10 DEF Next

\* Under every fault the messages of a producer that count are in the order
\* in which it sent them, however often it sent each.
THEOREM SendOrderKept == Spec => []SendOrder
<1> DEFINE IInv == TypeOK /\ OrderInv
<1>1. Init => IInv
  <2> SUFFICES ASSUME Init PROVE OrderInv
    BY TypeInit
  <2>1. head = 0 /\ Len(backlog) = 0
    BY DEF Init
  <2> QED
    BY <2>1 DEF OrderInv, SendOrder
<1>2. IInv /\ [Next]_vars => IInv'
  BY TypeStep, OrderStep
<1>3. IInv => SendOrder
  BY DEF OrderInv
<1> QED
  BY <1>1, <1>2, <1>3, PTL DEF Spec

-----------------------------------------------------------------------------
(* Reading                                                                 *)

\* The entries es are the messages of the channel from the position n on.
Follows(es, n) ==
    /\ n + Len(es) <= Len(msgs)
    /\ \A i \in 1 .. Len(es) :
          es[i] = [offset |-> n + i - 1, msg |-> msgs[n + i]]

\* As long as no crash has cut off a message, the process counts all that is
\* in the file, and every reply goes on where its reader is.
ReadInv ==
    ~lost =>
        /\ head = Len(msgs)
        /\ ~up => committed = head
        /\ \A c \in Consumer : /\ Follows(consumer[c].got, 0)
                               /\ Follows(reply[c].entries,
                                          Len(consumer[c].got))

\* Messages that are added to the channel change nothing that was read.
LEMMA FollowsKept ==
    ASSUME TypeOK, TypeOK', NEW es \in Seq(Entry), NEW n \in Nat,
           Follows(es, n), Len(msgs) <= Len(msgs'),
           \A i \in 1 .. Len(msgs) : msgs'[i] = msgs[i]
    PROVE  Follows(es, n)'
<1>1. Len(msgs) \in Nat /\ Len(msgs') \in Nat /\ Len(es) \in Nat
  BY DEF TypeOK
<1>2. \A i \in 1 .. Len(es) : n + i \in 1 .. Len(msgs)
  BY <1>1 DEF Follows
<1> QED
  BY <1>1, <1>2 DEF Follows

\* No entries follow everything that is in the channel.
LEMMA FollowsEmpty ==
    ASSUME TypeOK, NEW n \in Nat, n <= Len(msgs), NEW es, es = << >>
    PROVE  Follows(es, n)
<1>1. Len(es) = 0 /\ Len(msgs) \in Nat
  BY DEF TypeOK
<1> QED
  BY <1>1 DEF Follows

\* Entries that go on where others end make one row with them.
LEMMA FollowsBoth ==
    ASSUME TypeOK, NEW s \in Seq(Entry), NEW t \in Seq(Entry),
           Follows(s, 0), Follows(t, Len(s))
    PROVE  /\ Len(s \o t) = Len(s) + Len(t)
           /\ Follows(s \o t, 0)
<1>1. ASSUME NEW S, NEW x \in Seq(S), NEW y \in Seq(S)
      PROVE  /\ Len(x) \in Nat /\ Len(y) \in Nat
             /\ Len(x \o y) = Len(x) + Len(y)
             /\ \A i \in 1 .. Len(x) : (x \o y)[i] = x[i]
             /\ \A i \in Len(x) + 1 .. Len(x) + Len(y) :
                   (x \o y)[i] = y[i - Len(x)]
  OBVIOUS
<1> DEFINE z == s \o t
<1>2. /\ Len(s) \in Nat /\ Len(t) \in Nat /\ Len(z) = Len(s) + Len(t)
      /\ \A i \in 1 .. Len(s) : z[i] = s[i]
      /\ \A i \in Len(s) + 1 .. Len(s) + Len(t) : z[i] = t[i - Len(s)]
  BY <1>1
<1> HIDE DEF z
<1>3. Len(msgs) \in Nat /\ Len(s) + Len(t) <= Len(msgs)
  BY DEF TypeOK, Follows
<1>4. ASSUME NEW i \in 1 .. Len(z)
      PROVE  z[i] = [offset |-> 0 + i - 1, msg |-> msgs[0 + i]]
  <2>1. CASE i \in 1 .. Len(s)
    BY <1>2, <2>1 DEF Follows
  <2>2. CASE i \in Len(s) + 1 .. Len(s) + Len(t)
    <3>1. /\ i - Len(s) \in 1 .. Len(t)
          /\ Len(s) + (i - Len(s)) = i
      BY <1>2, <2>2
    <3>2. t[i - Len(s)] = [offset |-> Len(s) + (i - Len(s)) - 1,
                           msg |-> msgs[Len(s) + (i - Len(s))]]
      BY <3>1 DEF Follows
    <3> QED
      BY <1>2, <2>2, <3>1, <3>2
  <2> QED
    BY <1>2, <2>1, <2>2
<1>5. Follows(z, 0)
  BY <1>2, <1>3, <1>4 DEF Follows
<1> QED
  BY <1>2, <1>5 DEF z

\* A consumer that has read a message asks behind its offset, and the first
\* entry fetched, which it has, is left out.
LEMMA DropsFirst ==
    ASSUME TypeOK, NEW r, NEW n \in Nat, AskedOffset(r) = n, NEW batch \in Nat,
           n < Len(msgs)
    PROVE  Follows(DropFirst(r, FetchMessages(n, batch)), n + 1)
<1> DEFINE es == FetchMessages(n, batch)
<1>1. /\ es \in Seq(Entry) /\ Len(msgs) \in Nat
      /\ n + Len(es) <= Len(msgs) \/ es = << >>
      /\ \A i \in 1 .. Len(es) :
            es[i] = [offset |-> n + i - 1, msg |-> msgs[n + i]]
  <2>1. Len(msgs) \in Nat
    BY DEF TypeOK
  <2> QED
    BY <2>1, FetchedType
<1> HIDE DEF es
<1>2. CASE es = << >>
  <2>1. DropFirst(r, es) = << >>
    BY <1>2 DEF DropFirst
  <2> QED
    BY <1>1, <2>1, FollowsEmpty DEF es
<1>3. CASE es # << >>
  <2>1. ASSUME NEW S, es \in Seq(S)
        PROVE  /\ Len(es) \in Nat /\ Len(es) > 0
               /\ Len(Tail(es)) = Len(es) - 1
               /\ \A i \in 1 .. Len(Tail(es)) :
                     i + 1 \in 1 .. Len(es) /\ Tail(es)[i] = es[i + 1]
    BY <1>3, <2>1
  <2> DEFINE t == Tail(es)
  <2>2. /\ Len(es) \in Nat /\ Len(es) > 0 /\ Len(t) = Len(es) - 1
        /\ \A i \in 1 .. Len(t) :
              i + 1 \in 1 .. Len(es) /\ t[i] = es[i + 1]
    BY <1>1, <2>1
  <2>3. es[1].offset = n
    <3>1. es[1] = [offset |-> n + 1 - 1, msg |-> msgs[n + 1]]
      BY <1>1, <2>2
    <3>2. n + 1 - 1 = n
      OBVIOUS
    <3> QED
      BY <3>1, <3>2
  <2>4. DropFirst(r, es) = t
    BY <1>3, <2>3 DEF DropFirst
  <2> HIDE DEF t
  <2>5. ASSUME NEW i \in 1 .. Len(t)
        PROVE  t[i] = [offset |-> n + 1 + i - 1, msg |-> msgs[n + 1 + i]]
    <3>1. /\ t[i] = [offset |-> n + (i + 1) - 1, msg |-> msgs[n + (i + 1)]]
          /\ n + (i + 1) = n + 1 + i
      BY <1>1, <2>2
    <3> QED
      BY <3>1
  <2>6. n + 1 + Len(t) <= Len(msgs)
    BY <1>1, <1>3, <2>2
  <2> QED
    BY <2>4, <2>5, <2>6 DEF Follows, es
<1> QED
  BY <1>2, <1>3

\* Every answer to a consumer goes on where it is.
LEMMA AnswerFollows ==
    ASSUME TypeOK, NEW c \in Consumer, Follows(consumer[c].got, 0),
           NEW r \in FetchRequests(c) \cup StrayRequests
    PROVE  Follows(Answer(r).entries, Len(consumer[c].got))
<1> DEFINE got == consumer[c].got
<1>0. got \in Seq(Entry)
  BY ConsumerStep
<1>1. got \in Seq(Entry) /\ Len(got) \in Nat
  BY <1>0
<1>2. Len(got) <= Len(msgs)
  BY <1>1 DEF Follows, TypeOK
<1>3. \A code \in {200, 400, 404} : Status(code).entries = << >>
  BY ReplyType
<1>4. Follows(<< >>, Len(got))
  BY <1>1, <1>2, FollowsEmpty
<1>5. CASE r \in StrayRequests
  <2>1. Answer(r).entries = << >>
    <3>1. CASE Route(r) = "FETCH"
      <4>1. Answer(r) = Fetch(r) /\ (~ValidChannel(r) \/ ~ValidNumbers(r))
        BY <1>5, <3>1, StrayAssumption DEF Answer
      <4>2. Fetch(r) = Status(400)
        BY <4>1 DEF Fetch
      <4> QED
        BY <1>3, <4>1, <4>2
    <3>2. CASE Route(r) # "FETCH"
      <4>1. Route(r) \in {"PING", "SERVERID", "STATS", "FETCH", "INSERT",
                          "NOTFOUND"}
        BY DEF Route
      <4>2. \E code \in {200, 400, 404} : Answer(r) = Status(code)
        <5>1. CASE Route(r) \in {"PING", "SERVERID", "STATS"}
          BY <5>1 DEF Answer
        <5>2. CASE Route(r) = "NOTFOUND"
          BY <5>2 DEF Answer
        <5>3. CASE Route(r) = "INSERT"
          BY <5>3 DEF Answer
        <5> QED
          BY <3>2, <4>1, <5>1, <5>2, <5>3
      <4> QED
        BY <1>3, <4>2
    <3> QED
      BY <3>1, <3>2
  <2> QED
    BY <1>4, <2>1
<1>6. CASE r \in FetchRequests(c)
  <2>1. r \in Request
    BY RequestType
  <2>2. \/ Answer(r).entries = << >>
        \/ Answer(r) = Fetch(r) /\ ValidChannel(r) /\ ValidNumbers(r)
    <3>1. Answer(r) = Fetch(r) \/ \E code \in {200, 400, 404} : Answer(r) = Status(code)
      BY <2>1, AnswerCases
    <3>2. ~ValidChannel(r) \/ ~ValidNumbers(r) => Fetch(r) = Status(400)
      BY DEF Fetch
    <3> QED
      BY <1>3, <3>1, <3>2
  <2>3. CASE Answer(r) = Fetch(r) /\ ValidChannel(r) /\ ValidNumbers(r)
    <3> DEFINE next == Len(r.path) >= 4
               offset == AskedOffset(r)
               batch == AskedBatch(r) + (IF next THEN 1 ELSE 0)
               es == IF next THEN DropFirst(r, FetchMessages(offset, batch))
                             ELSE FetchMessages(offset, batch)
    <3>1. Answer(r).entries = es
      <4>1. Fetch(r) = [Status(200) EXCEPT !.entries = es]
        BY <2>3 DEF Fetch
      <4> HIDE DEF es
      <4>2. Fetch(r).entries = es
        BY <4>1 DEF Status, NoReply
      <4> QED
        BY <2>3, <4>2
    <3>2. offset \in Nat /\ batch \in Nat
      <4>1. AskedOffset(r) \in Nat /\ AskedBatch(r) \in Nat
        BY <2>1, AskedType
      <4> HIDE DEF next
      <4> QED
        BY <4>1
    <3> HIDE DEF batch
    <3>3. CASE got = << >>
      <4>0. \/ r = Get(<<"channel", "c">>, 0, 0)
            \/ r = Get(<<"channel", "c", "">>, 0, 0)
            \/ r = Get(<<"channel", "c", ":offset">>, 0, 0)
        BY <1>6, <3>3 DEF FetchRequests
      <4>1. Len(got) = 0 /\ ~next /\ offset = 0
        <5>1. CASE r = Get(<<"channel", "c">>, 0, 0)
          <6>1. Len(r.path) = 2
            BY <5>1 DEF Get
          <6> QED
            BY <3>3, <6>1 DEF AskedOffset
        <5>2. CASE \/ r = Get(<<"channel", "c", "">>, 0, 0)
                   \/ r = Get(<<"channel", "c", ":offset">>, 0, 0)
          <6>1. Len(r.path) = 3 /\ r.offset = 0
            <7>1. CASE r = Get(<<"channel", "c", "">>, 0, 0)
              BY <7>1 DEF Get
            <7>2. CASE r = Get(<<"channel", "c", ":offset">>, 0, 0)
              BY <7>2 DEF Get
            <7> QED
              BY <5>2, <7>1, <7>2
          <6> QED
            BY <3>3, <6>1 DEF AskedOffset
        <5> QED
          BY <4>0, <5>1, <5>2
      <4>2. es = FetchMessages(0, batch)
        BY <4>1
      <4>3. Follows(FetchMessages(0, batch), 0)
        <5> DEFINE fs == FetchMessages(0, batch)
        <5>1. /\ fs \in Seq(Entry)
              /\ 0 + Len(fs) <= Len(msgs) \/ fs = << >>
              /\ \A i \in 1 .. Len(fs) :
                    fs[i] = [offset |-> 0 + i - 1, msg |-> msgs[0 + i]]
          BY <3>2, FetchedType
        <5> HIDE DEF fs
        <5>2. Follows(fs, 0)
          BY <5>1, FollowsEmpty DEF Follows, TypeOK
        <5> QED
          BY <5>2 DEF fs
      <4> QED
        BY <3>1, <4>1, <4>2, <4>3
    <3>4. CASE got # << >>
      <4>0. \/ r = Get(<<"channel", "c", ":offset", "next">>, LastRead(c), 0)
            \/ \E last \in {"", ":n"}, k \in Nat :
                  r = Get(<<"channel", "c", ":offset", "next", last>>,
                          LastRead(c), k)
        BY <1>6, <3>4, BrokerAssumption DEF FetchRequests
      <4>1. next /\ offset = LastRead(c)
        <5>1. ASSUME NEW path, NEW o, NEW k, r = Get(path, o, k)
              PROVE  r.path = path /\ r.offset = o
          BY <5>1 DEF Get
        <5>2. ASSUME r = Get(<<"channel", "c", ":offset", "next">>, LastRead(c), 0)
              PROVE  /\ Len(r.path) = 4 /\ r.offset = LastRead(c)
                     /\ r.path[3] = ":offset"
          <6>1. r.path = <<"channel", "c", ":offset", "next">>
            BY <5>1, <5>2
          <6> QED
            BY <5>1, <5>2, <6>1
        <5>3. ASSUME NEW last \in {"", ":n"}, NEW k \in Nat,
                     r = Get(<<"channel", "c", ":offset", "next", last>>,
                             LastRead(c), k)
              PROVE  /\ Len(r.path) = 5 /\ r.offset = LastRead(c)
                     /\ r.path[3] = ":offset"
          <6>1. r.path = <<"channel", "c", ":offset", "next", last>>
            BY <5>1, <5>3
          <6>2. ASSUME NEW x PROVE
                  /\ Len(<<"channel", "c", ":offset", "next", x>>) = 5
                  /\ <<"channel", "c", ":offset", "next", x>>[3] = ":offset"
            OBVIOUS
          <6> QED
            BY <5>1, <5>3, <6>1, <6>2
        <5>4. /\ Len(r.path) \in {4, 5} /\ r.offset = LastRead(c)
              /\ r.path[3] = ":offset"
          BY <4>0, <5>2, <5>3
        <5>5. \A n \in {4, 5} : n >= 4 /\ n >= 3
          OBVIOUS
        <5> QED
          BY <5>4, <5>5 DEF AskedOffset
      <4>2. Len(got) \in 1 .. Len(got)
        BY <1>1, <3>4
      <4> DEFINE n == Len(got) - 1
      <4>3. LastRead(c) = n /\ n \in Nat /\ n + 1 = Len(got) /\ n < Len(msgs)
        <5>1. got[Len(got)] = [offset |-> 0 + Len(got) - 1,
                               msg |-> msgs[0 + Len(got)]]
          BY <4>2 DEF Follows
        <5> QED
          BY <1>1, <1>2, <4>2, <5>1 DEF LastRead, TypeOK
      <4>4. es = DropFirst(r, FetchMessages(n, batch))
        BY <4>1, <4>3
      <4> HIDE DEF n
      <4>5. Follows(DropFirst(r, FetchMessages(n, batch)), n + 1)
        BY <3>2, <4>1, <4>3, DropsFirst
      <4> QED
        BY <3>1, <4>3, <4>4, <4>5
    <3> QED
      BY <3>3, <3>4
  <2> QED
    BY <1>4, <2>2, <2>3
<1> QED
  BY <1>5, <1>6

\* A step that cuts off no message keeps what consumers read.
LEMMA ReadKept ==
    ASSUME TypeOK, TypeOK', ReadInv, ~lost' => ~lost,
           ~lost' => head' = Len(msgs'),
           ~lost' /\ ~up' => committed' = head',
           Len(msgs) <= Len(msgs'),
           ~lost' => \A i \in 1 .. Len(msgs) : msgs'[i] = msgs[i],
           \A c \in Consumer :
              /\ consumer'[c].got = consumer[c].got
              /\ \/ reply'[c].entries = reply[c].entries
                 \/ reply'[c].entries = << >>
                 \/ ~lost => Follows(reply'[c].entries, Len(consumer[c].got))
    PROVE  ReadInv'
<1> SUFFICES ASSUME ~lost', NEW c \in Consumer
             PROVE  /\ Follows(consumer[c].got, 0)'
                    /\ Follows(reply[c].entries, Len(consumer[c].got))'
  BY DEF ReadInv
<1>1. ~lost /\ Follows(consumer[c].got, 0)
      /\ Follows(reply[c].entries, Len(consumer[c].got))
  BY DEF ReadInv, TypeOK
<1> DEFINE got == consumer[c].got
           es == IF reply'[c].entries = << >> THEN << >> ELSE reply'[c].entries
<1>2. /\ got \in Seq(Entry) /\ consumer'[c].got = got
      /\ reply'[c].entries \in Seq(Entry)
  <2>1. reply' \in [Client -> Reply] /\ c \in Client
    BY DEF TypeOK, Client
  <2> QED
    BY <2>1, ConsumerStep DEF Reply
<1>3. PICK g \in Seq(Entry), t \in Seq(Entry) :
         g = got /\ consumer'[c].got = g /\ t = reply'[c].entries
  BY <1>2
<1>4. Len(g) \in Nat /\ Len(g) <= Len(msgs)
  BY <1>1, <1>3 DEF Follows, TypeOK
<1>5. Follows(g, 0) /\ Follows(t, Len(g))
  BY <1>1, <1>3, <1>4, FollowsEmpty
<1>6. Follows(g, 0)' /\ Follows(t, Len(g))'
  <2>1. PICK n \in Nat : n = Len(g)
    BY <1>4
  <2>2. Follows(t, n) /\ 0 \in Nat
    BY <1>5, <2>1
  <2>3. Follows(g, 0)' /\ Follows(t, n)'
    BY <1>5, <2>2, FollowsKept
  <2> QED
    BY <2>1, <2>3
<1> QED
  BY <1>3, <1>6

\* ReadInv is inductive beside the types and the sessions.
LEMMA ReadStep ==
    ASSUME TypeOK, TypeOK', Sessions, ReadInv, [Next]_vars
    PROVE  ReadInv'
<1>0. /\ consumer \in [Consumer -> ConsumerState]
      /\ reply \in [Client -> Reply]
      /\ Len(msgs) \in Nat /\ head \in Nat /\ committed \in Nat
      /\ lost \in BOOLEAN /\ up \in BOOLEAN
      /\ Producer \cap Consumer = {}
      /\ \A c \in Consumer : c \in Client /\ c \notin Producer
      /\ NoReply.entries = << >>
  BY BrokerAssumption DEF TypeOK, ConsumerState, Client, NoReply
<1>1. ASSUME UNCHANGED channel,
             \A c \in Consumer :
                /\ consumer'[c].got = consumer[c].got
                /\ \/ reply'[c].entries = reply[c].entries
                   \/ reply'[c].entries = << >>
                   \/ ~lost => Follows(reply'[c].entries, Len(consumer[c].got))
      PROVE  ReadInv'
  <2>1. /\ lost' = lost /\ msgs' = msgs /\ Len(msgs) <= Len(msgs')
        /\ ~lost' => head' = Len(msgs')
        /\ ~lost' /\ ~up' => committed' = head'
    BY <1>0, <1>1 DEF channel, ReadInv
  <2>2. ~lost' => \A i \in 1 .. Len(msgs) : msgs'[i] = msgs[i]
    BY <2>1
  <2> QED
    BY <1>1, <2>1, <2>2, ReadKept
<1>2. ASSUME NEW p \in Producer, SendInsert(p) PROVE ReadInv'
  BY <1>1, <1>2 DEF SendInsert, Connect
<1>3. ASSUME NEW c \in Consumer, SendFetch(c) PROVE ReadInv'
  <2> DEFINE s == [got |-> consumer[c].got, waits |-> TRUE]
  <2>1. consumer' = [consumer EXCEPT ![c] = s] /\ s.got = consumer[c].got
    BY <1>3, ConsumerStep
  <2> HIDE DEF s
  <2>2. \A d \in Consumer : consumer'[d].got = consumer[d].got
    BY <1>0, <2>1
  <2>3. UNCHANGED <<channel, reply>>
    BY <1>3 DEF SendFetch, Connect, channel
  <2> QED
    BY <1>1, <2>2, <2>3
<1>4. ASSUME NEW c \in Client, GiveUp(c) PROVE ReadInv'
  <2>1. \A d \in Consumer : consumer'[d].got = consumer[d].got
    BY <1>4, StoppedType DEF GiveUp
  <2>2. \A d \in Consumer : reply'[d] \in {reply[d], NoReply}
    BY <1>0, <1>4 DEF GiveUp
  <2> QED
    BY <1>0, <1>1, <1>4, <2>1, <2>2 DEF GiveUp
<1>5. CASE HandleInsert
  <2> DEFINE m == backlog[1].request.body
  <2>1. PICK r \in Reply :
           /\ Respond(r) /\ r.entries = << >>
           /\ Write(m) \/ UNCHANGED <<msgs, head, committed>>
    BY <1>5, InsertReply
  <2>2. m \in Message /\ Serving /\ UNCHANGED <<up, lost, consumer>>
    BY <1>5, InsertReply DEF HandleInsert
  <2>3. \A c \in Consumer : reply'[c] \in {reply[c], r}
    BY <1>0, <2>1, <2>2, Responded
  <2>4. /\ Len(msgs) <= Len(msgs') /\ up'
        /\ ~lost => /\ head' = Len(msgs')
                    /\ \A i \in 1 .. Len(msgs) : msgs'[i] = msgs[i]
    <3>1. CASE Write(m)
      <4>1. /\ Len(msgs') = IF head = Len(msgs) THEN head + 1 ELSE Len(msgs)
            /\ head' = head + 1
            /\ \A i \in 1 .. Len(msgs) : i # head + 1 => msgs'[i] = msgs[i]
        BY <2>2, <3>1, Written
      <4>2. ~lost => head = Len(msgs)
        BY DEF ReadInv
      <4>3. ~lost => \A i \in 1 .. Len(msgs) : i # head + 1
        BY <1>0, <4>2
      <4> QED
        BY <1>0, <2>2, <4>1, <4>2, <4>3 DEF Serving
    <3>2. CASE UNCHANGED <<msgs, head, committed>>
      BY <1>0, <2>2, <3>2 DEF Serving, ReadInv
    <3> QED
      BY <2>1, <3>1, <3>2
  <2> HIDE DEF m
  <2> QED
    BY <2>1, <2>2, <2>3, <2>4, ReadKept
<1>6. CASE HandleOther
  <2>1. PICK r \in Reply :
           Respond(r) /\ (r.entries = << >> \/ r = Answer(backlog[1].request))
    BY <1>6, OtherReply
  <2>2. Serving /\ UNCHANGED <<channel, consumer>>
    BY <1>6 DEF HandleOther
  <2>3. ASSUME NEW c \in Consumer, reply'[c] # reply[c]
        PROVE  \/ reply'[c].entries = << >>
               \/ ~lost => Follows(reply'[c].entries, Len(consumer[c].got))
    <3>1. backlog[1].open /\ backlog[1].client = c /\ reply'[c] = r
      BY <1>0, <2>1, <2>2, <2>3, Responded
    <3>2. backlog[1].request \in FetchRequests(c) \cup StrayRequests
      BY <1>0, <2>2, <3>1, FirstType DEF Sessions, Session
    <3>3. ~lost => Follows(consumer[c].got, 0)
      BY DEF ReadInv
    <3>4. ~lost => Follows(Answer(backlog[1].request).entries,
                           Len(consumer[c].got))
      BY <3>2, <3>3, AnswerFollows
    <3> QED
      BY <2>1, <3>1, <3>4
  <2> QED
    BY <1>1, <2>2, <2>3
<1>7. CASE DropRequest
  <2>1. \A c \in Consumer : reply'[c] \in {reply[c], NoReply}
    BY <1>0, <1>7, ReplyType, Responded DEF DropRequest
  <2> QED
    BY <1>0, <1>1, <1>7, <2>1 DEF DropRequest
<1>8. ASSUME NEW p \in Producer, ReceiveAck(p) \/ ReceiveError(p)
      PROVE  ReadInv'
  <2>1. /\ UNCHANGED <<channel, consumer>>
        /\ reply' = [reply EXCEPT ![p] = NoReply]
    BY <1>8 DEF ReceiveAck, ReceiveError
  <2>2. \A c \in Consumer : reply'[c] = reply[c]
    BY <1>0, <2>1
  <2> QED
    BY <1>1, <2>1, <2>2
<1>9. ASSUME NEW c \in Consumer, ReceiveMessages(c) PROVE ReadInv'
  <2> DEFINE g == consumer[c].got \o reply[c].entries
             s == [got |-> g, waits |-> FALSE]
  <2>1. /\ consumer' = [consumer EXCEPT ![c] = s] /\ s.got = g
        /\ consumer[c].got \in Seq(Entry) /\ reply[c].entries \in Seq(Entry)
    BY <1>9, ConsumerStep
  <2> HIDE DEF s
  <2>2. /\ UNCHANGED channel
        /\ reply'[c] = NoReply
        /\ \A d \in Consumer \ {c} : reply'[d] = reply[d]
    BY <1>0, <1>9 DEF ReceiveMessages
  <2>3. /\ consumer'[c].got = g
        /\ \A d \in Consumer \ {c} : consumer'[d] = consumer[d]
    BY <1>0, <2>1
  <2>4. ~lost => Follows(g, 0)
    BY <2>1, FollowsBoth DEF ReadInv
  <2>5. g \in Seq(Entry)
    <3>1. ASSUME NEW S, NEW x \in Seq(S), NEW y \in Seq(S) PROVE x \o y \in Seq(S)
      OBVIOUS
    <3> QED
      BY <2>1, <3>1
  <2> HIDE DEF g
  <2>6. PICK h \in Seq(Entry) : h = g
    BY <2>5
  <2>7. ASSUME ~lost, UNCHANGED msgs
        PROVE  Follows(h, 0)' /\ Follows(<< >>, Len(h))'
    <3>1. Follows(h, 0) /\ Len(h) \in Nat /\ Len(msgs) \in Nat
      BY <1>0, <2>4, <2>6, <2>7
    <3>2. Len(h) <= Len(msgs)
      BY <3>1 DEF Follows
    <3>3. Follows(<< >>, Len(h))
      BY <3>1, <3>2, FollowsEmpty
    <3> QED
      BY <2>7, <3>1, <3>3 DEF Follows
  <2>8. ASSUME NEW d \in Consumer, ~lost'
        PROVE  /\ Follows(consumer[d].got, 0)'
               /\ Follows(reply[d].entries, Len(consumer[d].got))'
    <3>1. ~lost /\ UNCHANGED msgs
      BY <2>2, <2>8 DEF channel
    <3>2. CASE d = c
      <4>1. consumer'[d].got = h /\ reply'[d].entries = << >>
        BY <1>0, <2>2, <2>3, <2>6, <3>2
      <4> QED
        BY <2>7, <3>1, <4>1
    <3>3. CASE d # c
      <4>1. consumer'[d] = consumer[d] /\ reply'[d] = reply[d]
        BY <2>2, <2>3, <3>3
      <4> QED
        BY <3>1, <4>1 DEF ReadInv, Follows
    <3> QED
      BY <3>2, <3>3
  <2> QED
    BY <2>2, <2>8 DEF ReadInv, channel
<1>10. CASE Crash
  <2>1. /\ UNCHANGED <<msgs, head, committed, consumer, reply>>
        /\ lost' = (lost \/ committed < head)
    BY <1>10 DEF Crash
  <2>2. committed <= head
    BY DEF TypeOK
  <2>3. /\ ~lost' => ~lost
        /\ ~lost' => head' = Len(msgs')
        /\ ~lost' => committed' = head'
        /\ Len(msgs) <= Len(msgs')
    BY <1>0, <2>1, <2>2 DEF ReadInv
  <2>4. /\ \A i \in 1 .. Len(msgs) : msgs'[i] = msgs[i]
        /\ \A c \in Consumer : /\ consumer'[c].got = consumer[c].got
                               /\ reply'[c].entries = reply[c].entries
    BY <2>1
  <2> QED
    BY <2>3, <2>4, ReadKept
<1>11. CASE Restart
  <2>1. /\ UNCHANGED <<msgs, committed, lost, consumer, reply>>
        /\ ~up /\ up' /\ head' = committed
    BY <1>11 DEF Restart
  <2>2. /\ ~lost' => ~lost
        /\ ~lost' => head' = Len(msgs')
        /\ Len(msgs) <= Len(msgs')
    BY <1>0, <2>1 DEF ReadInv
  <2>3. /\ \A i \in 1 .. Len(msgs) : msgs'[i] = msgs[i]
        /\ \A c \in Consumer : /\ consumer'[c].got = consumer[c].got
                               /\ reply'[c].entries = reply[c].entries
    BY <2>1
  <2> QED
    BY <2>1, <2>2, <2>3, ReadKept
<1>12. CASE UNCHANGED vars
  BY <1>1, <1>12 DEF vars
<1> QED
  BY <1>2, <1>3, <1>4, <1>5, <1>6, <1>7, <1>8, <1>9, <1>10, <1>11, <1>12
     DEF Next

\* While no crash has cut off a message, every consumer has read the messages
\* of the channel once and in order, from the first on, under every fault.
THEOREM ReadInOrder == Spec => []ConsumedInOrder
<1> DEFINE IInv == TypeOK /\ Sessions /\ ReadInv
<1>1. Init => IInv
  <2> SUFFICES ASSUME Init PROVE ReadInv
    BY SessionsInit
  <2>1. /\ up = TRUE /\ head = 0 /\ Len(msgs) = 0
        /\ \A c \in Consumer : /\ consumer[c].got = << >>
                               /\ reply[c].entries = << >>
    BY DEF Init, NoReply, Client
  <2>2. Follows(<< >>, 0)
    BY <2>1 DEF Follows
  <2> QED
    BY <2>1, <2>2 DEF ReadInv
<1>2. IInv /\ [Next]_vars => IInv'
  BY TypeStep, SessionsStep, ReadStep
<1>3. IInv => ConsumedInOrder
  <2> SUFFICES ASSUME TypeOK, ReadInv, ~lost, NEW c \in Consumer
               PROVE  /\ Len(consumer[c].got) <= Len(msgs)
                      /\ \A i \in 1 .. Len(consumer[c].got) :
                            consumer[c].got[i] =
                               [offset |-> i - 1, msg |-> msgs[i]]
    BY DEF ConsumedInOrder
  <2>1. PICK g \in Seq(Entry) : g = consumer[c].got
    BY ConsumerStep
  <2>2. Follows(g, 0)
    BY <2>1 DEF ReadInv
  <2>3. /\ Len(g) <= Len(msgs)
        /\ \A i \in 1 .. Len(g) : g[i] = [offset |-> i - 1, msg |-> msgs[i]]
    BY <2>2 DEF Follows, TypeOK
  <2> QED
    BY <2>1, <2>3
<1> QED
  BY <1>1, <1>2, <1>3, PTL DEF Spec
=============================================================================
