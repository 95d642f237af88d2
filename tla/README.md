# brokerd in TLA+

A verification project for brokerd: TLA+ modules of its storage engine, its
data directory, its start-up, its request handlers, its HTTP connections, its
byte streams and its parsers and writers; TLC runs on small instances; and theorems checked by
TLAPS for every value of the constants. Paths below are relative to the source
tree; `channel.cc` stands for `src/src/brokerd/channel.cc`, and `http/`,
`uri/`, `json/` for directories of `src/deps/libtransport/src/libtransport/`.

## 1. The system

brokerd is one process that keeps named *channels* in a data directory. A
channel is a sequence of messages, each named by the offset in bytes at which
its envelope begins. Clients append (`POST /channel/c`) and read
(`GET /channel/c/offset[/next[/batch]]`) over HTTP.

| component | state | operations | talks to |
|---|---|---|---|
| Channel, write path (`channel.cc`, `message.cc`, `util/varint.cc`) | list of closed segments, open segment (descriptor, `offset_begin`, `offset_head`), `needs_commit_`, a mutex; segment files with a header that holds the committed `offset_head` | `createChannel`, `openChannel`, `appendMessage`, `commit` | files: `write`, `fdatasync`, `pwrite`, `rename` |
| Channel, read path (`channel.cc`) | none of its own: a copy of the segment list, a 4096-byte buffer, cursors | `fetchMessages`, `segmentRead` | files: `pread`; the mutex for the copy only |
| Channel map and data directory (`channel_map.cc`, `util/file_lock.cc`, `util/fileutil.cc`) | `channels_`, `hostid_`, `data_dir_lock_`; `~lock`, `~serverid`, `~serverid~`, segment files `c~offset` | `openDirectory`, `findChannel`, `getUID` | other processes on the same directory, through the files and the lock |
| Request handlers (`http_server.cc`) | none | PING, SERVERID, STATS, INSERT, FETCH | channel map, channel |
| HTTP connection, parser, server (`http/v1`) | parser state and buffer, descriptor, `io_timeout_` | accept, read a request, call the handler, write the response, close | clients; one connection at a time, in one thread |
| Start-up (`brokerd.cc`, `util/flagparser.cc`) | flags, pidfile | parse flags, lock and write the pidfile, open the directory, serve, unlink the pidfile | other brokerd processes, through the pidfile |
| URI and JSON (`uri/`, `json/`) | the writer's stack of states | pure functions | handlers |
| HTTP client, cookies, SSE (libtransport) | parser buffers | not called by brokerd | |
| Byte streams and buffers (`util/inputstream.cc`, `util/outputstream.cc`, `util/buffer.cc`) | a descriptor's offset and a read buffer; a Buffer's allocation and size | the reads, seeks and writes of `InputStream`, `OutputStream`, `Buffer` | files: `read`, `lseek`, `write` |
| `brokerctl`; formatting, clocks, logging | | brokerctl is a stub | |

`--disklimit_disk` is parsed (the help text calls it `--disklimit_channel`),
but no code implements it (`doc/TODO` lists it), so no message is ever deleted.

### What is hard

* **Crashes and failures between system calls.** An append is up to six
  system calls; each may fail, and the process or the machine may die between
  any two. What is on the disk then decides what `openChannel` resumes with.
* **Two notions of position.** `offset_head` counts messages, the descriptor
  has its own position, and only `openChannel` brings the two together.
* **Reads without the lock.** `fetchMessages` copies the segment list under
  the mutex and then reads files that appends and rotations change.
* **Incremental parsing.** A length or a payload may lie across two buffers,
  a request or an event may arrive in pieces that end anywhere.
* **A buffer before a descriptor.** A `FileInputStream` is behind its
  descriptor by what its read buffer holds, and every call crosses from the
  one to the other at any byte.
* **Several processes.** Nothing but two locks and the files connects them,
  and one of the locks is lost by a mistake in a constructor.
* **Clients.** A client that gets no reply does not know what happened, and
  sends its message again.
* **One thread.** A client that stops holds up all others until a timeout; one
  that keeps sending headers, or a handler that does not return, for ever.

### What makes each component correct

* Channel: success means that the message can be read back at the offset
  returned, from then on; offsets are never used twice; committed bytes never
  change; segments tile the offsets without gap or overlap; memory and
  directory agree; abstractly, it is a log that only grows.
* Read path: adjacent messages from the start offset on, whole, each at its
  offset, none left out; a fetch from an offset that the channel gave out ends,
  and does not fail.
* Data directory: every acknowledged message is served after every restart;
  offsets of a channel increase; all processes report one server id, for ever;
  a start fails only for a reason that is still there.
* Start-up: one process per pidfile, whose pid is in it; the flags of a
  command line are taken apart without loss.
* Handlers: to clients that retry and resume, every message once and in
  order; an acknowledgement is true for ever; retries do not reorder.
* Connection: the handler gets the request that was sent, or none; a response
  arrives whole; nobody waits for ever behind a client that has stopped.
* Parsers and writers: what is written is read back.
* Streams: a call answers as if there were no buffers, and a string that was
  written whole is read back, whatever was written or read before.

PROJECT.json lists the components with their status, and every hazard at its
line with the properties that cover it.

## 2. Modules

| module | models | extends |
|---|---|---|
| `WireFormat` | `writeVarUInt`, `readVarUInt` and the envelope, over digits in base `VarintBase` (128 in the code) | |
| `WireFormatProofs` | lemmas about integers, lengths and what a buffer that holds them decodes to | `WireFormat` |
| `Channel` | the write path: one action per system call that a crash can come before | `WireFormat` |
| `ChannelInv` | the inductive invariants of Channel | `Channel` |
| `ChannelProofs` | theorems about Channel | `ChannelInv`, `WireFormatProofs` |
| `MessageLog` | abstract specification: a log that only grows, and the answers to appends | |
| `ChannelLog` | the refinement mapping from Channel to MessageLog | `Channel` |
| `ChannelLogProofs` | the refinement of MessageLog, proved | `ChannelLog`, `ChannelProofs` |
| `ChannelFetch` | the read path beside Channel, one action per `pread` and per parsed message | `Channel` |
| `ChannelFetchInv` | the inductive invariants of ChannelFetch | `ChannelFetch`, `ChannelInv` |
| `ChannelFetchProofs` | theorems about ChannelFetch | `ChannelFetchInv`, `ChannelLogProofs` |
| `DataDirectory` | `openDirectory` step by step, `findChannel`, inserts and fetches, several processes | |
| `Startup` | `main` with the pidfile, around the actions of DataDirectory | `DataDirectory` |
| `StartupProofs` | theorems about DataDirectory, and about Startup from them | `Startup` |
| `Broker` | the request handlers between one channel and its producers and consumers | |
| `BrokerProofs` | theorems about Broker | `Broker` |
| `HttpParser` | the incremental HTTP parser and the generator | |
| `HttpConnection` | server, clients and the network between them | `HttpParser` |
| `HttpConnectionInv` | the inductive invariant of HttpConnection | `HttpConnection` |
| `HttpConnectionProofs` | theorems about HttpConnection, and about the parser that they rest on | `HttpConnectionInv` |
| `ByteStream` | abstract specification: what the `InputStream` classes do for a caller, without buffers | `WireFormat` |
| `Streams` | files and Buffers written, and every `InputStream` read, round by round | `WireFormat` |
| `StreamsProofs` | theorems about Streams, and the refinement of ByteStream | `Streams`, `WireFormatProofs` |
| `Uri`, `Json`, `EventStream`, `Flags` | the parsers and writers of URIs, query strings, cookies, JSON, events and arguments | |
| `Codecs` | inputs of every kind, and what their readers and writers make of them | the four above |
| `MC*` | small instances; `MCFiles` runs DataDirectory or Streams, `MCRequests` Codecs or Broker, never the two together | |

How they compose: `Startup` runs DataDirectory's actions inside `main`;
`ChannelFetch` runs beside Channel's; `ChannelLog` maps Channel to
`MessageLog`. Three modules take as one step what another takes apart, and the
properties of that other module are the reason why they may: DataDirectory and
Broker append in one step (Channel, ChannelProofs), and Broker serves a request
whole or not at all (HttpConnection).

### Channel

| variable | code |
|---|---|
| `segs` | the segment files as any process sees them: header (`head`) and the bytes behind it (`data`), by `offset_begin` |
| `stable` | what of them would survive a power loss |
| `archive` | `segments_archive_` |
| `handle` | `segment_handle_->segment` |
| `pos` | the file position of `segment_handle_->fd`, behind the header |
| `needs_commit` | `needs_commit_`, not initialised by the constructor: either value |
| `pc`, `call` | the call that holds the mutex, and its next system call |
| `acked` | history: what clients were told |

`AppendMessage` and `Commit` take the mutex. `Rotate` is `segmentCreate` with
its rename and the change of the segment list; a crash before the rename leaves
a file under a temporary name only, which nobody lists. `SegmentAppend` is the
one `write(2)` of `messageWrite`, complete, partial or failed. `SyncData` and
`WriteHeader` are the two system calls of `segmentCommit`, in both places that
call it. `Crash`, `PowerLoss` and `OpenChannel` are the end of the process, of
the machine, and the restart. A power loss may keep or lose each header and
each body that was not synced since it changed, separately.

### ChannelFetch

`FetchMessages` copies the segment list. `NextSegment` is the loop of
`fetchMessages` with the bounds test of `segmentRead`; `ReadBuffer` is one
`pread`; `ParseMessage` one round of the inner loop. All of them run while
Channel's actions go on. The HTTP server that brokerd uses runs in one thread,
so in the shipped program only another process can append during a fetch; the
class is written for concurrent callers, with a mutex, and that is what is
checked.

### DataDirectory and Startup

`Start`, `FindServerID`, `CreateServerID`, `RenameServerID` and `OpenChannels`
are `openDirectory`, cut where another process can look at the directory or
this one can die. `files` and `names` separate a file from its name, because
`findChannel` replaces the file of a channel that it does not know, and a
process that has the old one open goes on writing to it. `locked` is the flock
on `~lock`. The constructor moves `data_dir_lock_` from itself, not from its
parameter, so the lock ends with `openDirectory`.

In `Startup`, `main` is the program counter of each process, `path` the inode
that has the pidfile's name, `owner` its flock and `text` the pid written into
it. `OpenPidfile`, `LockPidfile`, `TruncatePidfile`, `WritePidfile`, the steps
of `openDirectory`, `Listen`, `UnlinkPidfile` and `UnlockPidfile` are the
steps of `main` in their order, and `CleanUp` is where it jumps after a
failure. `raced` remembers that a pidfile was unlinked while another process
had it open: `main` unlinks before it unlocks, so that process then locks a
file without a name, and a third can lock a new one.

### Broker

The server side is the channel as one file: `msgs` is what the file holds,
`head` what the process counts (`offset_head`), `committed` what the header
covers. `backlog` is the order in which connections are served. `Route` is the
dispatch of `handleRequest` on method and path parts, `Fetch` and
`HandleInsert` are `handleRequest_FETCH` and `handleRequest_INSERT` with their
refusals and status codes; an empty part of the path is the default, zero for
the offset and one for the batch. A URI without any path makes `substr(1)`
throw, which nothing catches: that is one of the ways to `Crash`.
`FetchMessages` counts a batch down as an `int` of `IntRange` values, and
`DropFirst` is what `next` leaves out. Producers and consumers stand for what a
careful client does with the documented interface:
a producer repeats a message until it is acknowledged, a consumer asks for
what is next after the last message it has. Either may give up at any time
while the server still serves the request it left behind.

### HttpParser and HttpConnection

A text is a sequence of symbols; a symbol is one character where the parser
looks at characters, and a part of a word where it does not, so that a piece
can still end within a word. `Parse` is `HTTPParser::parse` with its states,
`readUntil` buffer and size limits, as many rounds of its loop (`ParseRound`) as
the piece has symbols; `Eof` is `eof()`. `HttpConnection` is
`HTTPServer::run`, `handleConnection` and `HTTPConnection` at one end, and
`HTTPClient::executeRequest` at the other: reads and writes of any size,
timeouts of every poll, connections closed at any point, and the SIGPIPE that
a write to a closed connection raises. `Trickle` is a client that sends one more
header line that nobody looks at: each restarts the poll, so such a client holds
the one thread as long as it likes. A body of an enormous announced length does
the same, and is not modelled besides. Lengths and status codes are read as
`std::stoul` and `std::stoi` read them (`Stoul`, `Stoi`): blanks and a sign are
skipped, what follows the digits is ignored, and a negative length is taken
modulo the size of its type (`ULongMax`).

`ConnectionAssumption` says what clients and handlers write: messages of HTTP's
grammar (`WellFormed`). No method, URI or status holds the space that ends it, no
version or header value a line break, no header key a colon; no value begins
with a space, which the parser skips; a message has at most one
`Content-Length`, and its body is not longer. Neither end checks any of this
when it writes, and what a text without it would mean is not defined. Allowed
are a method that is none, a length that is no number, only begins with one
(`2x`, read as 2) or has a sign, a body shorter than the length read, a missing
version, and words beyond the parser's limits: the server refuses what it
cannot read and waits in vain for what does not come. How long the body may be
is judged by the number that `stoul` gets (`Lengths`), so `2x` with two symbols
of body is handled. Text behind a request (`extra`) is allowed where
the request's length is the right one or is missing; `Trailing(Plain)` of the
run is the latter. A version is missing or has the four characters that
`generateHeaders` asks for.

### Codecs

`Uri` (`parseURI`, `toString`, query strings, URL encoding, cookies), `Json`
(`readJSON`, `writeJSON`, the writer's states, `toJSON` of the handlers),
`EventStream` (`sse_parser.cc` and the writer) and `Flags` (`parseArgv`,
`getString`) are pure definitions; each input is a list that
`Codecs` lets grow symbol by symbol, so that a run visits every input up to a
length.

### Streams

`disk` is the file that an output stream writes, `buffer` the Buffer; `class`
says on which of the two the streams are. `AppendLenencString` and
`AppendString` write: to a file a write may come up short, and
`appendLenencString` does not look at what its two writes return. `Reserve`,
`BufferAppend`, `Resize` and `CopyBuffer` are the operations of Buffer, whose
new memory holds any bytes. `stream` is `FileInputStream`: `offset` the
descriptor's, `buf` the `buf_len_` bytes of `buf_`, `pos` is `buf_pos_`; for
the streams over memory `buf` is all there is. `call` is the call of the
interface that runs, with the bytes it has read so far: `ReadMore` is one round
of its loop (`readNextByte`, or a block of `readNextBytes`), in which
`ReadNextChunk` is `read()` with any size, and `ReturnRead`, `ReturnEOF` and
`ReadFails` are its ends, and `AllocationFails` where a length asks for more
memory than there is (`MaxAllocation`). `SeekTo`, `Skip`, `Eof` and
`ReadByteOrderMark` have no loop. A skip or a seek of a file drops the read
buffer before it calls `lseek`; when that fails, as on a pipe, the call raises
and the bytes that were in the buffer are lost.

`ByteStream` has neither buffer nor rounds: a position in the bytes, and for
each call its answer. It describes the classes, not the wording of the
interface, from which they depart in three places: `skipNextBytes` of a file
returns the number asked for even past the end (`util/inputstream.h:69` and
`:248` say the number skipped), `seekTo` stops at the end (`:266` says it raises
an exception), and `readLine` returns true for a last line without a line end
(`:93` says false when the EOF was reached). After an error it allows the
position to be anywhere further on.

A file or a Buffer does not change while a stream reads it, and a stream has
one caller: nothing in the code would notice otherwise. `records` is a history
of what was written whole.

## 3. Runs

| run | what it shows | bounds |
|---|---|---|
| `channel` | every interleaving of appends, commits, rotations, failing system calls and crashes keeps files, memory and acknowledgements consistent, and implements MessageLog, with every acknowledged message in the log; short writes and power losses, under which acknowledged messages can be lost, are left to `faults` | messages of 2 and of 4 bytes (the second with a two-byte length), segments closed after 3 bytes, no append from offset 7 on; 55,699 states |
| `faults` | with power losses and short writes too, no header covers bytes that are not stable | two messages of 2 bytes, one rotation; 43,199 states |
| `fetch` | reads without the lock, beside appends, rotations and failing commits: adjacent, complete, whole, without errors, and from an offset that was given out they end | buffer of 3 bytes, envelopes of 2 and 4 bytes, batches 0 and 2, two rotations; 228,733 states |
| `files` | acknowledged messages are served after every restart, offsets increase; streams answer as the plain bytes would, also when `read`, `lseek` or an allocation fails, and strings written whole are read back | one process, two channels, two messages, five inserts, crashes and I/O errors everywhere; streams of 4 bytes of base 2, a read buffer of 3, memory for strings of 4, numbers 0 and 3, seeks to 5; 576,086 states |
| `startup` | pidfile and server id, of processes that start, fail and die at any step of `main`; the pidfile makes up for the lost lock on the directory | two processes with and without pidfile, one channel, two inserts; 187,015 states |
| `http` | requests in pieces are handled as sent or not at all, a whole answer arrives whole, nobody waits for ever if handlers return and clients stop sending | two clients, one with eight requests (bodies, HTTP/1.0, lengths with a suffix and a sign, too long, no HTTP) cut anywhere; 188,723 states |
| `requests` | parsers agree with writers, or with a reference reading, on every input; clients that lose replies, retry and give up: acknowledgements stay true, retries do not reorder, a consumer reads every message once and in order | inputs of 4 to 7 symbols of each kind; one producer with two messages, one consumer, batches 1 and 7 of an `int` with eight values, two connections waiting, three messages in the file, five kinds of faults; 873,507 states |

`files` and `requests` each run two parts that share no state, one or the other
from the initial state on; each part has its own properties, which hold of the
other trivially.

Why these bounds are enough. A fetch over two rotations meets a first, a
middle and a last segment, which is every position that the code tells apart.
The write path looks at the open segment and at nothing behind it, so a second
rotation repeats the first from a state of the same shape. Envelopes of two
and four bytes with a buffer of three give a message inside a buffer, one that
ends with it, and one across two buffers. In the directory, two processes and
two ids give every race for one file. The clients of `requests` can get two
messages and a copy of either into the file, so a late copy can come before,
between and behind; batch 7 with `next` is 8, which an `int` of eight values
takes for zero. Seven symbols of an event stream, each a line end, a field or a
field with its line end, are two events or one with a name, cut in two places
anywhere. In `http` the second client is there to be kept waiting. In `files` a
stream of four bytes holds two strings, or one behind a torn length, and with a
read buffer of three every string, line and mark also lies across two chunks;
the offsets reach behind the end. `files` does not check the types of the
directory again: `MainTypeOK` of `startup` has them as a conjunct, and
`TypeCorrect` is proved. The safety properties that the runs `channel`,
`faults`, `fetch`, `files`, `startup` and `http` check, those of the clients in
`requests`, and both refinements, are proved for any number of processes,
clients, messages and segments and for every buffer and batch size (section 5).

`VarintBase` is 2 or 4 in place of 128 so that a length of two bytes needs two
payload bytes and not 128; the theorems hold for every base. `MaxOffset`,
`MaxAcked`, `MaxFiles`, `MaxMessages`, `MaxBacklog`, `MaxLog`, `MaxLength`,
`MaxBytes` and `Cut` bound the runs and nothing else. Deadlock is checked where
the system always has something to do; `http` and `requests` end when the
clients have what they want or the input has its full length. Every property
has a mutant, a plausible mistake in the definition it is about, which TLC
finds by that property.

### Where the code does something else

Five runs expect a violation; TLC shows the shortest behaviour, and
PROJECT.json quotes the lines that it contradicts.

| run | what happens |
|---|---|
| `fetch_straddle` | a length that lies across two read buffers is "corrupt file": a fetch from zero fails on a sound file |
| `fetch_leftover` | bytes that a crash left behind the `offset_head` of a segment that is closed afterwards are parsed as a message; the fetch goes on inside a message of the next segment, and succeeds without an acknowledged message |
| `directory_twice` | the directory's lock ends with `openDirectory`; a second process serves from it, and both give out the same offsets |
| `flag_switch` | `--daemonize` has no short option, `parseArgv` makes a `std::string` of the NULL pointer, and the process aborts |
| `version_flag` | required flags are asked for before `--version` and `--help` are looked at, so a lone `-V` ends with "flag --datadir is required" |

More was met while modelling, and has no run of its own:

* `segmentCommit` never syncs the header it writes, so a power loss takes back
  an acknowledged message; `AckedReadable` and what follows from it are stated
  without power losses.
* A fetch returns a message whose commit failed as well; after a crash the next
  append gives its offset to another. `ConsumedInOrder` holds until that
  happens (`lost`).
* After a short write (a full disk) the descriptor is ahead of `offset_head`,
  and later appends of that process return offsets at which their messages are
  not.
* A fetch from an offset inside a message can go round for ever in
  `fetchMessages` (`channel.cc:139-155`), and the one thread with it: the loop
  goes on at the last entry there is, whether or not `segmentRead` added one.
  `FetchTerminates` is about offsets that the channel gave out, and
  `WaitingServed` assumes handlers that return.
* A channel whose name begins with a dot is not listed by `FileUtil::ls`, so a
  restart forgets it, and the next request replaces its file.
* A crash or a failed write between the exclusive creation of `~serverid~` and
  its rename makes every later start fail; `FailsOverLeftover` says that
  nothing else does.
* A FETCH of an unknown channel creates it, which the README says an insert
  does.
* Unlinking the pidfile before unlocking it admits two servers, in 32 steps;
  `SingleServer` and `PidfileProtects` hold until that happens (`raced`).
* `eof()` accepts a response that was cut within its headers.
* The streams depart from `util/inputstream.h` in the three places named above,
  and lose the bytes in their read buffer when `lseek` fails.
* A client that keeps sending headers is never timed out, because each piece
  restarts the poll (`http/v1/http_connection.cc:141`), and the headers have no
  limit together.
* The JSON reader drops `\u` escapes, query strings end at an empty key,
  `URI::toString` leaves out userinfo and port without a host.

## 4. Fairness

Safety runs assume none.

* `FetchTerminates` (`fetch`): `WF(NextSegment \/ ReadBuffer \/ ParseMessage)`.
  The thread that runs `fetchMessages` goes on when it can, which it always
  can, because it waits for nothing after it has copied the list. Nothing is
  assumed of appends, commits or rotations. The property itself is restricted
  to fetches from offsets that the channel gave out.
* `WaitingServed` (`http`): weak fairness of `Accept`, and of "a poll of the
  server returns", because it timed out or because the client sent something
  (`PollReturns`). Which of the two is not assumed, and nothing is assumed of
  the network, of the clients or of the request handlers. Two premises are
  written into the property instead, because the code does not provide them:
  `HandlersReturn`, since a fetch may go round for ever, and `ClientsStop`,
  since a client that keeps sending headers restarts the poll each time.

## 5. Proofs

Assumptions: the named ASSUMEs of the modules (`VarintBase >= 2`, messages are
sequences of bytes, bounds are naturals, finitely many processes, the faults
are among those modelled), and in the ASSUME part of a theorem:

| name | says | because |
|---|---|---|
| `NoPowerLoss` | the machine does not lose power | headers are not synced |
| `NoShortWrite` | a `write(2)` is complete or fails | the descriptor is not moved back |
| `MessagesFit` | the length of a message fits the ten bytes of the encoder's buffer | every `uint64` does |
| `NoReadError` | the files of the directory can be read; a `pread` does not fail | a start, or a fetch, may fail over any file |
| `NoCrash` | no process dies and leaves bytes behind an `offset_head` | a fetch parses them (`fetch_leftover`) |
| `NoStrayOffsets` | fetches start at zero or at an offset that the channel gave out | from inside a message a fetch reads a payload as lengths |
| `ShortLengths` | lengths take one byte (messages below 128 bytes) | a longer one may lie across two buffers (`fetch_straddle`) |
| `NoneHidden` | no channel's name begins with a dot | such channels are not listed |
| `ListenErrorIsCrash` | where listening may fail, processes may die | DataDirectory has no other way out of serving |

No assumption is made on the number of messages, segments, processes,
channels, producers or consumers.

`WireFormatProofs` is about the operators that the others use: the encoder's
loop ends when nothing is left of the value, the bytes before the last have the
continuation bit and the last has not, and the decoder, which starts from the
last digit, gets the value back. Together that is `VarUIntReadBack`, for every
base and every place in a buffer. Both loops are recursive functions on an
interval of numbers, so what they compute is shown by descending: if it were
false for some number there would be a least (or greatest) one, which the
equation of the function contradicts. `VarUIntTruncated` says when an integer
at the end of a buffer cannot be read.

`ChannelProofs` (from `ChannelInv`), in three layers because each theorem
tolerates different faults:

* `DiskInv` = types, `CommittedBytesStable`, headers never ahead of what is
  counted, `pos` within the file and not behind `offset_head`, and "between
  fdatasync and the header, what is visible is stable". It is inductive under
  every fault, power loss and short writes included. Theorems `TypeCorrect`
  and `CommitOrder`.
* `LayoutInv` adds that segments tile the offsets, that memory lists exactly
  the directory, that `needs_commit_` is never false when there is something
  to commit, and that everything acknowledged is committed. It needs the
  absence of power loss, which can take a header back. Theorems
  `SegmentsConsistent`, `MemoryIsDirectory`, `CommitRemembered`,
  `OffsetsNeverReused` and `CommittedNeverChanges`.
* `ReplyInv` adds that the descriptor stands at `offset_head`. It also needs
  the absence of short writes. Theorems `AppendsDurable`, `RepliesTruthful`.

None of these invariants is inductive alone: that `AckedReadable` survives the
next append needs `pos` behind every header, which needs `openChannel` to seek
to the header's `offset_head`, which needs that header to be the largest.

`ChannelLogProofs` adds a fourth layer, `FramedInv`: each segment file, up to
its header's `offset_head`, is whole envelopes, one behind the other; so is
what is written and not yet committed; and every acknowledged message is one
of the envelopes. Where envelopes begin is a set of positions (`Framed`), so
the invariant needs no recursion; that the recursive functions by which
`ChannelLog` decodes the files exist and visit just these positions, in order,
is the bulk of the proof (`UpwardRecursion` to `LogDecoded`). From it
`ChannelImplementsLog` (a header write adds whole messages to the log, every
other step stutters) and `AckedMessagesDecoded`.

`ChannelFetchProofs` (from `ChannelFetchInv`): `CursorInv` says where a fetch
stands, whatever the file holds: the next byte is where the last message ended,
or `next_offset` is what is left of the message begun. It is inductive under
every fault and from every start offset: `FetchesAdjacent`. `WholeInv` adds
what the bytes mean: every file is whole envelopes to its last byte; the
position, and every `offset_head` that was copied, lies between two of them,
and stays there while appends and rotations change the files, because those
only add envelopes; the message begun and every message returned are in a file
at their offsets (`FetchesAgree`); what was acknowledged before the fetch began
and is still ahead of it lies in a segment that is yet to be read
(`FetchesComplete`). That a file is whole to its last byte, and not only to
its `offset_head`, is what the proof could not do without; it is false after a
crash, and the run `fetch_leftover` came from the attempt to prove
`FetchesComplete` without `NoCrash`. `SuccessInv` adds that the segments still
ahead begin where another one ends, so that every `pread` finds a byte, and
with `ShortLengths` no length is torn: `FetchesSucceed`.

`StartupProofs`, about DataDirectory: `TypeInv` adds that every `offset_head`, in a header or
in a process, lies within its file, even with two writers. `IdentityInv` adds
that one process at a time is inside `openDirectory`, and what it may rely on
there (after it found no `~serverid` there is none; before the rename the
temporary file holds its id): theorems `TypeCorrect`, `IdentityAgreed`,
`IdentityForever`. `LeftoverInv` adds that no process is about to rename the
temporary file while one has failed over it: `OnlyLeftoversFail`. `StorageInv`
says where every acknowledged message is, that channels have files of their
own, and that a process which serves knows exactly the channels of the
directory, each by its file and as far as its header. A step keeps it as long
as one process serves: `RestartServes` and `RestartIncreases`, for a single
process.

`StartupProofs`, about Startup: every step of `main` is a step of DataDirectory or none
(`MainImplementsDirectory`), so `MainIdentityAgreed` follows. `PidfileInv`
relates the three pieces of state of a pidfile, its name, its lock and its
text, to the step each process is at: theorems `PidfileNamesServer`,
`PidfileAdmitsOne`, `MainTypeCorrect`. The two come together in
`PidfileKeepsMessages`: at most one of the processes that name a pidfile is
between the lock and the end of `main`, so at most one serves, which is what
the steps of `StorageInv` need; the pidfile does what the lost lock on the
directory was meant to do.

`StreamsProofs`: `StreamsInv` says that the read buffer mirrors the bytes before
the descriptor, that a running call has read exactly what lies between its
start and the stream's position and nothing beyond what it asked for, and that
what was written whole is where it was written. The proof treats what each
reading step does to the stream in one place (a refill keeps the position,
`ReadNextChunk`; a round moves it by what it adds to the call), and then each
call by itself. From `StreamsInv` follow `WrittenIsReadBack` (whatever precedes
it, `readLenencString` at the place of a string decodes the length that
`appendVarUInt` encoded, by the lemmas of `WireFormatProofs`) and
`StreamsImplementByteStream`: a call's last round is the step of ByteStream,
every other round stutters, because the abstract position is where the running
call began. That the digits a call collects one by one are those that the
decoder of the segment files would read in place is part of it
(`ReadVarUInt` on a piece of a buffer and on the whole agree).

`BrokerProofs`: `Sessions` says that a client that waits has one connection of
use, or a reply, and never both, and that the request in that connection is
still the one it would send. `StoredInv` adds what acknowledgements under way
say: `AcksKept`. `OrderInv` orders the channel, then the connections that
wait, then the next number of the producer: `SendOrderKept`. `ReadInv` says
that, while no crash has cut off a message, the process counts everything in
the file, and the entries of each reply go on where its reader is:
`ReadInOrder`. All of them hold under every fault of the model.

`HttpConnectionProofs` (from `HttpConnectionInv`): a text is words, each with
the place of the symbol that ends it (`EndsAt`), and `Reads` says what the
parser is when the first n symbols of a text have been read: within its k-th
word, with the k - 1 words before in the message and the rest of the n in `buf`,
or behind the empty line, with the rest in the body. That this holds wherever
the text was cut is `ParseKeeps`: one round (`RoundKeeps`) takes the parser from
one such place to the next, which for each kind of word is a lemma about the
parser's function for it (`FirstWordParsed` to `LastWordParsed`, `RoundInBody`),
and a piece is as many rounds as it takes. It needs that no word holds its
delimiter, and that `FromNumeral` reads what `ToNumeral` wrote (`NumeralRead`);
a parser is done only with as many symbols of body as were announced, which is
why `RequestDone` and `ResponseDone` can say what it then holds.
`ConnectionInv` adds that what is unread on the wire and unsent at the other
end is the text from that n on, in both directions; that nothing has been sent
to a client whose request has not been handled; and that a connection that the
server has closed is over. From it `ParsersFollow`, `TypeCorrect`,
`RequestsArrive` and `AnswersArrive`, for every set of clients, every request
and every answer, all limits of the parser, and every cut. TLC found
`ConnectionInv` to hold in every state of the run `http`.

Only model-checked: `Codecs`, whose parsers are RECURSIVE operators over their
input, and the two liveness properties. Liveness, ENABLED and RECURSIVE
operators are beyond the provers used, and so is an induction over data through
the library's induction theorems, which take an operator as a parameter; where
an induction over numbers was needed it was done by the least counterexample,
as in `WireFormatProofs` and `HttpConnectionProofs`.

## 6. Not modelled

* The width of `uint64` offsets (2^63 bytes are not reached), the magic bytes
  and the version in the header, permissions, error texts.
* What a kernel does with dirty pages after a failed `fdatasync`: the model
  keeps them dirty.
* Of the streams: `printf`, the bytes of a double, a Buffer's mark, who closes
  a descriptor, and a number too large for its variable.
* `brokerctl`, a stub without commands; formatting, clocks, logging and the
  string utilities, which keep no state brokerd depends on; the stream
  variants of `varint.cc`, which have no caller.
* statsd, which brokerd does not use, and those accessors of `json_object.cc` and
  `json_util.cc` that neither the reader nor the writer calls.
* `daemonize`, which is `daemon(3)` before the pidfile is opened, and which its
  flag cannot reach (`flag_switch`).
