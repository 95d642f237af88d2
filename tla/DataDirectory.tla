--------------------------- MODULE DataDirectory ---------------------------
(***************************************************************************)
(* The data directory and the processes that open it: openDirectory of     *)
(* channel_map.cc with its lock and server id, and the requests that find  *)
(* or create a channel.  The steps of openDirectory are those between      *)
(* which another process can look at the directory or this one can die.    *)
(* An append is one step here: Channel takes it apart.  A channel has one  *)
(* segment, in which a message takes one unit of offset.                   *)
(***************************************************************************)
EXTENDS Naturals, Sequences, FiniteSets

CONSTANTS
    Process,       \* brokerd processes started on this directory
    ChannelID,     \* the channels that clients use
    Hidden,        \* those whose names begin with a dot
    Message,       \* what clients insert
    ServerID,      \* what Random::hex128 can return
    NoServerID,
    MaxFiles,      \* bound: no channel file is created after this many
    MaxAcked,      \* bound: no insert starts after this many successes
    Faults         \* the faults that may occur

ASSUME DirectoryAssumption ==
    /\ Hidden \subseteq ChannelID
    /\ NoServerID \notin ServerID
    /\ MaxFiles \in Nat /\ MaxAcked \in Nat
    /\ Faults \subseteq {"crash", "write_error", "read_error"}

VARIABLES
    locked,        \* the processes that hold the flock on ~lock
    serverid_tmp,  \* the content of ~serverid~, or NoServerID
    serverid,      \* the content of ~serverid, or NoServerID
    files,         \* every segment file ever created, also when replaced
    names,         \* the directory: channel -> index of its file
    proc,          \* per process: step, hostid_ and channels_
    acked          \* history: the inserts that returned success, in order

vars == <<locked, serverid_tmp, serverid, files, names, proc, acked>>
storage == <<files, names, acked>>

NoChannels == [c \in {} |-> [file |-> 0, head |-> 0]]
NotRunning(step) ==
    [step |-> step, hostid |-> NoServerID, channels |-> NoChannels]
EmptyFile == [head |-> 0, data |-> << >>]

\* The function f with the value v at k.
With(f, k, v) == [x \in DOMAIN f \cup {k} |-> IF x = k THEN v ELSE f[x]]

Init ==
    /\ locked = {}
    /\ serverid_tmp = NoServerID /\ serverid = NoServerID
    /\ files = << >>
    /\ names = [c \in {} |-> 0]
    /\ proc = [p \in Process |-> NotRunning("down")]
    /\ acked = << >>

\* The process goes on with openDirectory.
GoOn(p, step, hostid) ==
    proc' = [proc EXCEPT ![p].step = step, ![p].hostid = hostid]

\* The process ends; the kernel drops its lock with its descriptors.
Exit(p, step) ==
    /\ proc' = [proc EXCEPT ![p] = NotRunning(step)]
    /\ locked' = locked \ {p}

\* Mutant: the lock is not taken.
StartUnlocked(p) ==
    /\ proc[p].step \in {"down", "failed"}
    /\ GoOn(p, "serverid", NoServerID)
    /\ UNCHANGED <<locked, serverid_tmp, serverid, storage>>

(***************************************************************************)
(* The lock is not waited for: a process that finds it taken exits, which  *)
(* changes nothing.                                                        *)
(***************************************************************************)
Start(p) ==
    /\ proc[p].step \in {"down", "failed"}
    /\ locked = {}
    /\ locked' = {p}
    /\ GoOn(p, "serverid", NoServerID)
    /\ UNCHANGED <<serverid_tmp, serverid, storage>>

\* FileUtil::exists decides whether to read the id or to invent one.
FindServerID(p) ==
    /\ proc[p].step = "serverid"
    /\ \/ serverid # NoServerID /\ GoOn(p, "list", serverid)
       \/ serverid = NoServerID /\ GoOn(p, "create", NoServerID)
    /\ UNCHANGED <<locked, serverid_tmp, serverid, storage>>

(***************************************************************************)
(* The new id goes to a temporary file, which must not exist (O_EXCL).  A  *)
(* write that fails leaves that file behind.                               *)
(***************************************************************************)
CreateServerID(p) ==
    /\ proc[p].step = "create"
    /\ \/ /\ serverid_tmp # NoServerID
          /\ Exit(p, "failed")
          /\ UNCHANGED serverid_tmp
       \/ /\ serverid_tmp = NoServerID
          /\ \E id \in ServerID :
                serverid_tmp' = id /\ GoOn(p, "rename", id)
          /\ UNCHANGED locked
       \/ /\ serverid_tmp = NoServerID
          /\ "write_error" \in Faults
          /\ serverid_tmp' \in ServerID
          /\ Exit(p, "failed")
    /\ UNCHANGED <<serverid, storage>>

RenameServerID(p) ==
    /\ proc[p].step = "rename"
    /\ serverid' = serverid_tmp
    /\ serverid_tmp' = NoServerID
    /\ GoOn(p, "list", proc[p].hostid)
    /\ UNCHANGED <<locked, storage>>

\* FileUtil::ls passes over names that begin with a dot.
Listed == DOMAIN names \ Hidden

\* Mutant: the directory is not listed.
OpenChannelsNone(p) ==
    /\ proc[p].step = "list"
    /\ proc' = [proc EXCEPT ![p].step = "serving"]
    /\ locked' = locked \ {p}
    /\ UNCHANGED <<serverid_tmp, serverid, storage>>

(***************************************************************************)
(* Every listed channel is opened at the offset_head in its header.  Then  *)
(* openDirectory returns, and its local FileLock releases the lock: the    *)
(* member data_dir_lock_ was moved from itself and holds nothing.  (That   *)
(* move reads uninitialised memory; where it faults, the step is Crash.)   *)
(***************************************************************************)
OpenChannels(p) ==
    /\ proc[p].step = "list"
    /\ \/ /\ proc' = [proc EXCEPT
                        ![p].step = "serving",
                        ![p].channels =
                            [c \in Listed |->
                                [file |-> names[c],
                                 head |-> files[names[c]].head]]]
          /\ locked' = locked \ {p}
       \/ /\ "read_error" \in Faults
          /\ Listed # {}
          /\ Exit(p, "failed")
    /\ UNCHANGED <<serverid_tmp, serverid, storage>>

\* Mutant: channels_ is not looked up.
FindChannelAnew(p, c) ==
    [files |-> Append(files, EmptyFile),
     names |-> With(names, c, Len(files) + 1),
     handle |-> [file |-> Len(files) + 1, head |-> 0]]

\* Mutant: the name is in the directory before the file is.
FindChannelUnmade(p, c) ==
    [files |-> files,
     names |-> With(names, c, Len(files) + 1),
     handle |-> [file |-> Len(files) + 1, head |-> 0]]

(***************************************************************************)
(* findChannel with create: a channel that this process does not know gets *)
(* a new file, renamed to its name; a file of that name is replaced.       *)
(***************************************************************************)
FindChannel(p, c) ==
    IF c \in DOMAIN proc[p].channels
    THEN [files |-> files, names |-> names, handle |-> proc[p].channels[c]]
    ELSE [files |-> Append(files, EmptyFile),
          names |-> With(names, c, Len(files) + 1),
          handle |-> [file |-> Len(files) + 1, head |-> 0]]

\* Bound: a channel is created only while there is room for its file.
MayFind(p, c) ==
    /\ proc[p].step = "serving"
    /\ c \in DOMAIN proc[p].channels \/ Len(files) < MaxFiles

\* The data d with the message m at the offset o, which is at most Len(d).
Put(d, o, m) == [i \in 1 .. Len(d) \cup {o + 1} |->
                    IF i = o + 1 THEN m ELSE d[i]]

\* POST /channel/:c with the body m, answered with an offset.
Insert(p, c, m) ==
    LET f == FindChannel(p, c)
        h == f.handle
    IN
    /\ MayFind(p, c)
    /\ Len(acked) < MaxAcked
    /\ files' = [f.files EXCEPT
                   ![h.file] = [head |-> h.head + 1,
                                data |-> Put(@.data, h.head, m)]]
    /\ names' = f.names
    /\ proc' = [proc EXCEPT ![p].channels =
                    With(@, c, [h EXCEPT !.head = @ + 1])]
    /\ acked' = Append(acked, [channel |-> c, offset |-> h.head, msg |-> m])
    /\ UNCHANGED <<locked, serverid_tmp, serverid>>

\* GET /channel/:c finds the channel in the same way, then reads.
Fetch(p, c) ==
    LET f == FindChannel(p, c) IN
    /\ MayFind(p, c)
    /\ files' = f.files
    /\ names' = f.names
    /\ proc' = [proc EXCEPT ![p].channels = With(@, c, f.handle)]
    /\ UNCHANGED <<locked, serverid_tmp, serverid, acked>>

Crash(p) ==
    /\ "crash" \in Faults
    /\ proc[p].step \notin {"down", "failed"}
    /\ Exit(p, "down")
    /\ UNCHANGED <<serverid_tmp, serverid, storage>>

Next ==
    \E p \in Process :
        \/ Start(p)
        \/ FindServerID(p)
        \/ CreateServerID(p)
        \/ RenameServerID(p)
        \/ OpenChannels(p)
        \/ \E c \in ChannelID, m \in Message : Insert(p, c, m)
        \/ \E c \in ChannelID : Fetch(p, c)
        \/ Crash(p)

Spec == Init /\ [][Next]_vars

-----------------------------------------------------------------------------
(* Properties                                                              *)

SegmentFile == [head : Nat, data : Seq(Message)]
Handle == [file : Nat, head : Nat]
Opening == {"serverid", "create", "rename", "list"}
MaybeServerID == ServerID \cup {NoServerID}
Step == Opening \cup {"down", "failed", "serving"}

ProcessType(p) ==
    LET known == DOMAIN proc[p].channels IN
    /\ known \subseteq ChannelID
    /\ proc[p] \in [step : Step, hostid : MaybeServerID,
                    channels : [known -> Handle]]

TypeOK ==
    /\ locked \subseteq Process
    /\ serverid_tmp \in MaybeServerID
    /\ serverid \in MaybeServerID
    /\ files \in Seq(SegmentFile)
    /\ DOMAIN names \subseteq ChannelID
    /\ names \in [DOMAIN names -> 1 .. Len(files)]
    /\ DOMAIN proc = Process
    /\ \A p \in Process : ProcessType(p)
    /\ acked \in Seq([channel : ChannelID, offset : Nat, msg : Message])

\* All processes that serve from a directory report the id in its file: two
\* that start together do not each invent one, and none outlives its file.
ServerIDAgreed ==
    \A p \in Process : proc[p].step \in {"list", "serving"} =>
        serverid # NoServerID /\ proc[p].hostid = serverid

\* The id of a directory never changes once it is there.
ServerIDForever ==
    [][serverid # NoServerID => serverid' = serverid]_vars

\* A start that gets the lock fails only over a temporary file that a process
\* which died, or could not write, left behind: the file stays.  It never
\* fails over the file of another process that is about to rename it.
FailsOverLeftover ==
    \A p \in Process : proc[p].step = "failed" => serverid_tmp # NoServerID

\* A serving process answers a GET of the offset of e with its message: it
\* knows the channel, with an offset_head behind e, and the file of that
\* name holds the message.
Serves(p, e) ==
    /\ e.channel \in DOMAIN proc[p].channels
    /\ e.offset < proc[p].channels[e.channel].head
    /\ LET d == files[names[e.channel]].data
       IN  e.offset + 1 <= Len(d) /\ d[e.offset + 1] = e.msg

\* Every message that an insert acknowledged is served at its offset by
\* every process, before and after restarts.
AckedServed ==
    \A p \in Process : \A i \in 1 .. Len(acked) :
        proc[p].step = "serving" => Serves(p, acked[i])

\* The offsets of a channel increase with each message.
OffsetsIncrease ==
    \A i, j \in 1 .. Len(acked) :
        i < j /\ acked[i].channel = acked[j].channel =>
            acked[i].offset < acked[j].offset

=============================================================================
