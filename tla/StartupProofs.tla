--------------------------- MODULE StartupProofs ---------------------------
(***************************************************************************)
(* Proofs about Startup and about the DataDirectory that it opens, for any *)
(* number of processes, channels and ids.  First what the lock on ~lock    *)
(* protects while it is held, in any run of the directory.  Then that main *)
(* runs the directory, that the pidfile names the process that serves with *)
(* it and admits one at a time, and that as long as it does, the messages  *)
(* of the directory are safe.                                              *)
(***************************************************************************)
EXTENDS Startup, FiniteSetTheorems, TLAPS

-----------------------------------------------------------------------------
(* Type correctness                                                        *)

\* TypeOK with the sets of all channel maps and of all process states.
ChannelMap == UNION {[C -> Handle] : C \in SUBSET ChannelID}
ProcessState == [step : Step, hostid : MaybeServerID, channels : ChannelMap]

DirectoryType ==
    /\ locked \subseteq Process
    /\ serverid_tmp \in MaybeServerID
    /\ serverid \in MaybeServerID
    /\ files \in Seq(SegmentFile)
    /\ DOMAIN names \subseteq ChannelID
    /\ names \in [DOMAIN names -> 1 .. Len(files)]
    /\ proc \in [Process -> ProcessState]
    /\ acked \in Seq([channel : ChannelID, offset : Nat, msg : Message])

\* No offset_head, in a header or in a process, lies behind the end of its
\* file, even when two processes write to it.
Positions ==
    /\ \A i \in 1 .. Len(files) : files[i].head <= Len(files[i].data)
    /\ \A p \in Process : \A c \in DOMAIN proc[p].channels :
          LET h == proc[p].channels[c] IN
          h.file \in 1 .. Len(files) /\ h.head <= Len(files[h.file].data)

TypeInv == DirectoryType /\ Positions

\* A map with one more channel is a map.
LEMMA WithType ==
    ASSUME NEW f \in ChannelMap, NEW c \in ChannelID, NEW h \in Handle
    PROVE  /\ With(f, c, h) \in ChannelMap
           /\ DOMAIN With(f, c, h) = DOMAIN f \cup {c}
           /\ With(f, c, h)[c] = h
           /\ \A d \in DOMAIN f \ {c} : With(f, c, h)[d] = f[d]
<1>1. PICK C \in SUBSET ChannelID : f \in [C -> Handle]
  BY DEF ChannelMap
<1>2. With(f, c, h) \in [C \cup {c} -> Handle]
  BY <1>1 DEF With
<1>3. C \cup {c} \in SUBSET ChannelID
  BY <1>1
<1>4. With(f, c, h) \in ChannelMap
  BY <1>2, <1>3 DEF ChannelMap
<1>5. DOMAIN With(f, c, h) = DOMAIN f \cup {c} /\ With(f, c, h)[c] = h
  BY DEF With
<1>6. \A d \in DOMAIN f \ {c} : With(f, c, h)[d] = f[d]
  BY DEF With
<1> QED
  BY <1>4, <1>5, <1>6

\* A message put into a file within its length leaves a file, and loses none
\* of the others.
LEMMA PutType ==
    ASSUME NEW d \in Seq(Message), NEW m \in Message,
           NEW o \in Nat, o <= Len(d)
    PROVE  /\ Put(d, o, m) \in Seq(Message)
           /\ Len(Put(d, o, m)) >= Len(d) /\ Len(Put(d, o, m)) >= o + 1
           /\ Put(d, o, m)[o + 1] = m
           /\ \A i \in 1 .. Len(d) : i # o + 1 => Put(d, o, m)[i] = d[i]
<1> DEFINE n == IF o + 1 > Len(d) THEN o + 1 ELSE Len(d)
<1>1. n \in Nat /\ 1 .. Len(d) \cup {o + 1} = 1 .. n
  OBVIOUS
<1>2. Put(d, o, m) = [i \in 1 .. n |-> IF i = o + 1 THEN m ELSE d[i]]
  BY <1>1 DEF Put
<1>3. \A i \in 1 .. n : i # o + 1 => d[i] \in Message
  OBVIOUS
<1> HIDE DEF n
<1>4. Put(d, o, m) \in Seq(Message) /\ Len(Put(d, o, m)) = n
  BY <1>1, <1>2, <1>3
<1> QED
  BY <1>1, <1>2, <1>4 DEF n

\* What findChannel returns is an open file and a position in it.
LEMMA FoundType ==
    ASSUME TypeInv, NEW p \in Process, NEW c \in ChannelID
    PROVE  LET f == FindChannel(p, c) IN
           /\ f.files \in Seq(SegmentFile)
           /\ Len(f.files) >= Len(files)
           /\ \A i \in 1 .. Len(files) : f.files[i] = files[i]
           /\ \A i \in 1 .. Len(f.files) :
                 f.files[i].head <= Len(f.files[i].data)
           /\ DOMAIN f.names \subseteq ChannelID
           /\ f.names \in [DOMAIN f.names -> 1 .. Len(f.files)]
           /\ f.handle \in Handle
           /\ f.handle.file \in 1 .. Len(f.files)
           /\ f.handle.head <= Len(f.files[f.handle.file].data)
<1>1. proc[p].channels \in ChannelMap /\ files \in Seq(SegmentFile)
  BY DEF TypeInv, DirectoryType, ProcessState
<1>2. CASE c \in DOMAIN proc[p].channels
  <2>1. proc[p].channels[c] \in Handle
    BY <1>1, <1>2 DEF ChannelMap
  <2> QED
    BY <1>1, <1>2, <2>1 DEF FindChannel, TypeInv, DirectoryType, Positions
<1>3. CASE c \notin DOMAIN proc[p].channels
  <2> DEFINE fs == Append(files, EmptyFile)
             ns == With(names, c, Len(files) + 1)
             h == [file |-> Len(files) + 1, head |-> 0]
  <2>1. EmptyFile \in SegmentFile /\ EmptyFile.head <= Len(EmptyFile.data)
    BY DEF EmptyFile, SegmentFile
  <2>2. /\ fs \in Seq(SegmentFile) /\ Len(fs) = Len(files) + 1
        /\ \A i \in 1 .. Len(files) : fs[i] = files[i]
        /\ fs[Len(files) + 1] = EmptyFile
    BY <1>1, <2>1
  <2>3. \A i \in 1 .. Len(fs) : fs[i].head <= Len(fs[i].data)
    BY <1>1, <2>1, <2>2 DEF TypeInv, Positions
  <2>4. /\ DOMAIN ns \subseteq ChannelID
        /\ ns \in [DOMAIN ns -> 1 .. Len(fs)]
    BY <1>1, <2>2 DEF With, TypeInv, DirectoryType
  <2>5. /\ h \in Handle /\ h.file \in 1 .. Len(fs)
        /\ h.head <= Len(fs[h.file].data)
    BY <1>1, <2>1, <2>2, <2>3 DEF Handle, EmptyFile
  <2>6. FindChannel(p, c) = [files |-> fs, names |-> ns, handle |-> h]
    BY <1>3 DEF FindChannel
  <2> HIDE DEF fs, ns, h
  <2> QED
    BY <1>1, <2>2, <2>3, <2>4, <2>5, <2>6
<1> QED
  BY <1>2, <1>3

\* A process that opens the directory or ends keeps its channels or loses
\* them; the files stay.
LEMMA ProcessStep ==
    ASSUME TypeInv, NEW p \in Process, NEW r \in ProcessState,
           proc' = [proc EXCEPT ![p] = r],
           r.channels \in {proc[p].channels, NoChannels},
           locked' \subseteq Process,
           serverid_tmp' \in MaybeServerID, serverid' \in MaybeServerID,
           UNCHANGED storage
    PROVE  TypeInv'
<1>1. proc' \in [Process -> ProcessState]
  BY DEF TypeInv, DirectoryType
<1>2. DirectoryType'
  BY <1>1 DEF TypeInv, DirectoryType, storage
<1>3. \A q \in Process : proc'[q].channels \in {proc[q].channels, NoChannels}
  BY DEF TypeInv, DirectoryType
<1>4. Positions'
  BY <1>3 DEF TypeInv, Positions, storage, NoChannels
<1> QED
  BY <1>2, <1>4 DEF TypeInv

\* The states between which openDirectory moves are well typed.
LEMMA StepType ==
    ASSUME TypeInv, NEW p \in Process,
           NEW step \in Opening \cup {"down", "failed", "serving"},
           NEW id \in MaybeServerID
    PROVE  /\ NotRunning(step) \in ProcessState
           /\ NotRunning(step).channels = NoChannels
           /\ GoOn(p, step, id) =>
                \E r \in ProcessState :
                    /\ proc' = [proc EXCEPT ![p] = r]
                    /\ r.channels = proc[p].channels
                    /\ r.step = step /\ r.hostid = id
<1>1. NoChannels \in ChannelMap
  <2>1. NoChannels \in [{} -> Handle]
    BY DEF NoChannels
  <2> QED
    BY <2>1 DEF ChannelMap
<1>2. NoServerID \in MaybeServerID
  BY DEF MaybeServerID
<1>3. proc[p] \in ProcessState
  BY DEF TypeInv, DirectoryType
<1> DEFINE r == [proc[p] EXCEPT !.step = step, !.hostid = id]
<1>4. /\ r \in ProcessState /\ r.channels = proc[p].channels
      /\ r.step = step /\ r.hostid = id
  BY <1>3 DEF Step, ProcessState
<1>5. GoOn(p, step, id) => proc' = [proc EXCEPT ![p] = r]
  BY <1>3 DEF GoOn, TypeInv, DirectoryType, ProcessState
<1> HIDE DEF r
<1> QED
  BY <1>1, <1>2, <1>4, <1>5 DEF NotRunning, ProcessState

\* A request leaves the directory and the processes well typed.
LEMMA RequestType ==
    ASSUME TypeInv, NEW p \in Process, NEW c \in ChannelID,
           \/ \E m \in Message : Insert(p, c, m)
           \/ Fetch(p, c)
    PROVE  TypeInv'
<1> DEFINE f == FindChannel(p, c)
           h == f.handle
<1>1. /\ f.files \in Seq(SegmentFile)
      /\ Len(f.files) >= Len(files)
      /\ \A i \in 1 .. Len(files) : f.files[i] = files[i]
      /\ \A i \in 1 .. Len(f.files) : f.files[i].head <= Len(f.files[i].data)
      /\ DOMAIN f.names \subseteq ChannelID
      /\ f.names \in [DOMAIN f.names -> 1 .. Len(f.files)]
      /\ h \in Handle /\ h.file \in 1 .. Len(f.files)
      /\ h.head <= Len(f.files[h.file].data)
  BY FoundType
<1> HIDE DEF f
<1>0. /\ proc[p].channels \in ChannelMap
      /\ \A q \in Process : proc[q] \in ProcessState
      /\ Len(files) \in Nat
      /\ \A i \in 1 .. Len(files) : Len(files[i].data) \in Nat
  <2>1. \A i \in 1 .. Len(files) : files[i] \in SegmentFile
    BY DEF TypeInv, DirectoryType
  <2>2. \A i \in 1 .. Len(files) : Len(files[i].data) \in Nat
    BY <2>1 DEF SegmentFile
  <2> QED
    BY <2>2 DEF TypeInv, DirectoryType, ProcessState
\* What both have in common: p gets the handle g, and no file shrinks.
<1>2. ASSUME NEW g \in Handle, g.file \in 1 .. Len(files'),
             g.head <= Len(files'[g.file].data),
             files' \in Seq(SegmentFile), Len(files') = Len(f.files),
             \A i \in 1 .. Len(files) :
                Len(files'[i].data) >= Len(files[i].data),
             \A i \in 1 .. Len(files') : files'[i].head <= Len(files'[i].data),
             names' = f.names,
             acked' \in Seq([channel : ChannelID, offset : Nat, msg : Message]),
             proc' = [proc EXCEPT ![p].channels = With(@, c, g)],
             UNCHANGED <<locked, serverid_tmp, serverid>>
      PROVE  TypeInv'
  <2> DEFINE r == [proc[p] EXCEPT !.channels = With(@, c, g)]
             ch == With(proc[p].channels, c, g)
  <2>1. /\ ch \in ChannelMap /\ DOMAIN ch = DOMAIN proc[p].channels \cup {c}
        /\ ch[c] = g
        /\ \A d \in DOMAIN proc[p].channels \ {c} : ch[d] = proc[p].channels[d]
    <3>1. ch \in ChannelMap
      BY <1>0, WithType
    <3>2. ch[c] = g
      BY DEF With
    <3>3. DOMAIN ch = DOMAIN proc[p].channels \cup {c}
      BY DEF With
    <3>4. \A d \in DOMAIN proc[p].channels \ {c} : ch[d] = proc[p].channels[d]
      BY DEF With
    <3> QED
      BY <3>1, <3>2, <3>3, <3>4
  <2>2. r \in ProcessState /\ r.channels = ch
    BY <1>0, <2>1 DEF ProcessState
  <2>3. /\ proc' \in [Process -> ProcessState]
        /\ proc'[p].channels = ch
        /\ \A q \in Process \ {p} : proc'[q] = proc[q]
    BY <1>2, <2>2 DEF TypeInv, DirectoryType
  <2> HIDE DEF ch, r
  <2>4. DirectoryType'
    BY <1>1, <1>2, <2>3 DEF TypeInv, DirectoryType
  <2>5. ASSUME NEW q \in Process, NEW d \in DOMAIN proc'[q].channels
        PROVE  LET k == proc'[q].channels[d] IN
               k.file \in 1 .. Len(files') /\ k.head <= Len(files'[k.file].data)
    <3>1. CASE q = p /\ d = c
      BY <1>2, <2>1, <2>3, <3>1
    <3>2. CASE ~(q = p /\ d = c)
      <4> DEFINE k == proc[q].channels[d]
      <4>1. d \in DOMAIN proc[q].channels /\ proc'[q].channels[d] = k
        BY <2>1, <2>3, <3>2
      <4>2. k \in Handle /\ k.file \in 1 .. Len(files)
            /\ k.head <= Len(files[k.file].data)
        BY <1>0, <4>1 DEF TypeInv, Positions, ProcessState, ChannelMap
      <4> HIDE DEF k
      <4>3. /\ Len(files) \in Nat /\ Len(files') \in Nat
            /\ Len(files') >= Len(files)
        BY <1>1, <1>2 DEF TypeInv, DirectoryType
      <4>4. k.file \in 1 .. Len(files')
        BY <4>2, <4>3
      <4>5. /\ files[k.file] \in SegmentFile /\ files'[k.file] \in SegmentFile
            /\ Len(files'[k.file].data) >= Len(files[k.file].data)
        BY <1>2, <4>2, <4>4 DEF TypeInv, DirectoryType
      <4> QED
        BY <4>1, <4>2, <4>4, <4>5 DEF Handle, SegmentFile
    <3> QED
      BY <3>1, <3>2
  <2> QED
    BY <1>2, <2>4, <2>5 DEF TypeInv, Positions
<1>3. ASSUME NEW m \in Message, Insert(p, c, m) PROVE TypeInv'
  <2> DEFINE old == f.files[h.file].data
             new == [head |-> h.head + 1, data |-> Put(old, h.head, m)]
             g == [h EXCEPT !.head = @ + 1]
  <2>1. /\ old \in Seq(Message) /\ h.head \in Nat /\ h.head <= Len(old)
    <3>1. f.files[h.file] \in SegmentFile
      BY <1>1
    <3>2. h.head \in Nat
      BY <1>1 DEF Handle
    <3> QED
      BY <1>1, <3>1, <3>2 DEF SegmentFile
  <2>2. /\ Put(old, h.head, m) \in Seq(Message)
        /\ Len(Put(old, h.head, m)) >= Len(old)
        /\ Len(Put(old, h.head, m)) >= h.head + 1
    BY <2>1, PutType
  <2>3. /\ new \in SegmentFile /\ Len(new.data) >= Len(old)
        /\ new.head <= Len(new.data)
    BY <2>1, <2>2 DEF SegmentFile
  <2>4. g \in Handle /\ g.file = h.file /\ g.head = new.head
    BY <1>1, <2>1 DEF Handle
  <2>5. /\ files' = [f.files EXCEPT ![h.file] = new]
        /\ names' = f.names
        /\ proc' = [proc EXCEPT ![p].channels = With(@, c, g)]
        /\ acked' = Append(acked, [channel |-> c, offset |-> h.head, msg |-> m])
        /\ UNCHANGED <<locked, serverid_tmp, serverid>>
    BY <1>3 DEF Insert, f
  <2> HIDE DEF new, g, old
  <2>6. /\ files' \in Seq(SegmentFile) /\ Len(files') = Len(f.files)
        /\ files'[h.file] = new
        /\ \A i \in 1 .. Len(f.files) : i # h.file => files'[i] = f.files[i]
    BY <1>1, <2>3, <2>5
  <2>7. \A i \in 1 .. Len(files) : Len(files'[i].data) >= Len(files[i].data)
    <3> SUFFICES ASSUME NEW i \in 1 .. Len(files)
                 PROVE  Len(files'[i].data) >= Len(files[i].data)
      OBVIOUS
    <3>1. /\ i \in 1 .. Len(f.files) /\ f.files[i] = files[i]
          /\ Len(files[i].data) \in Nat
      BY <1>0, <1>1
    <3>2. CASE i = h.file
      BY <2>3, <2>6, <3>1, <3>2 DEF old
    <3>3. CASE i # h.file
      BY <2>6, <3>1, <3>3
    <3> QED
      BY <3>2, <3>3
  <2>8. \A i \in 1 .. Len(files') : files'[i].head <= Len(files'[i].data)
    BY <1>1, <2>3, <2>6
  <2>9. acked' \in Seq([channel : ChannelID, offset : Nat, msg : Message])
    BY <2>1, <2>5 DEF TypeInv, DirectoryType
  <2>10. g.file \in 1 .. Len(files') /\ g.head <= Len(files'[g.file].data)
    BY <1>1, <2>3, <2>4, <2>6
  <2> QED
    BY <1>2, <2>4, <2>5, <2>6, <2>7, <2>8, <2>9, <2>10
<1>4. CASE Fetch(p, c)
  <2>1. /\ files' = f.files /\ names' = f.names
        /\ proc' = [proc EXCEPT ![p].channels = With(@, c, h)]
        /\ UNCHANGED <<locked, serverid_tmp, serverid, acked>>
    BY <1>4 DEF Fetch, f
  <2>2. \A i \in 1 .. Len(files) : Len(files'[i].data) >= Len(files[i].data)
    BY <1>0, <1>1, <2>1
  <2> QED
    BY <1>1, <1>2, <2>1, <2>2 DEF TypeInv, DirectoryType
<1> QED
  BY <1>3, <1>4

\* TypeInv is inductive.
LEMMA TypeStep == TypeInv /\ [Next]_vars => TypeInv'
<1> SUFFICES ASSUME TypeInv, [Next]_vars PROVE TypeInv'
  OBVIOUS
<1>1. CASE UNCHANGED vars
  BY <1>1 DEF vars, TypeInv, DirectoryType, Positions
<1>2. ASSUME NEW p \in Process, Start(p) PROVE TypeInv'
  <2>1. PICK r \in ProcessState : /\ proc' = [proc EXCEPT ![p] = r]
                                  /\ r.channels = proc[p].channels
    BY <1>2, StepType DEF Start, MaybeServerID, Opening
  <2> QED
    BY <1>2, <2>1, ProcessStep DEF Start, TypeInv, DirectoryType
<1>3. ASSUME NEW p \in Process, FindServerID(p) PROVE TypeInv'
  <2>1. PICK r \in ProcessState : /\ proc' = [proc EXCEPT ![p] = r]
                                  /\ r.channels = proc[p].channels
    BY <1>3, StepType
       DEF FindServerID, MaybeServerID, Opening, TypeInv, DirectoryType
  <2> QED
    BY <1>3, <2>1, ProcessStep DEF FindServerID, TypeInv, DirectoryType
<1>4. ASSUME NEW p \in Process, CreateServerID(p) PROVE TypeInv'
  <2>1. CASE Exit(p, "failed") /\ serverid_tmp' \in MaybeServerID
    BY <1>4, <2>1, StepType, ProcessStep
       DEF CreateServerID, Exit, TypeInv, DirectoryType
  <2>2. ASSUME NEW id \in ServerID, serverid_tmp' = id, GoOn(p, "rename", id),
               UNCHANGED locked
        PROVE  TypeInv'
    <3>1. PICK r \in ProcessState : /\ proc' = [proc EXCEPT ![p] = r]
                                    /\ r.channels = proc[p].channels
      BY <2>2, StepType DEF MaybeServerID, Opening
    <3> QED
      BY <1>4, <2>2, <3>1, ProcessStep
         DEF CreateServerID, TypeInv, DirectoryType, MaybeServerID
  <2> QED
    BY <1>4, <2>1, <2>2
       DEF CreateServerID, TypeInv, DirectoryType, MaybeServerID
<1>5. ASSUME NEW p \in Process, RenameServerID(p) PROVE TypeInv'
  <2>1. proc[p].hostid \in MaybeServerID
    BY DEF TypeInv, DirectoryType, ProcessState
  <2>2. PICK r \in ProcessState : /\ proc' = [proc EXCEPT ![p] = r]
                                  /\ r.channels = proc[p].channels
    BY <1>5, <2>1, StepType DEF RenameServerID, Opening
  <2> QED
    BY <1>5, <2>2, ProcessStep
       DEF RenameServerID, TypeInv, DirectoryType, MaybeServerID
<1>6. ASSUME NEW p \in Process, OpenChannels(p) PROVE TypeInv'
  <2>1. CASE Exit(p, "failed")
    BY <1>6, <2>1, StepType, ProcessStep
       DEF OpenChannels, Exit, TypeInv, DirectoryType
  <2> DEFINE ch == [c \in Listed |-> [file |-> names[c],
                                      head |-> files[names[c]].head]]
             r == [proc[p] EXCEPT !.step = "serving", !.channels = ch]
  <2>2. CASE proc' = [proc EXCEPT ![p].step = "serving", ![p].channels = ch]
             /\ locked' = locked \ {p}
    <3>1. \A c \in Listed : /\ names[c] \in 1 .. Len(files)
                            /\ files[names[c]] \in SegmentFile
                            /\ files[names[c]].head <= Len(files[names[c]].data)
      BY DEF Listed, TypeInv, DirectoryType, Positions
    <3>2. ch \in [Listed -> Handle] /\ Listed \in SUBSET ChannelID
      BY <3>1 DEF SegmentFile, Handle, Listed, TypeInv, DirectoryType
    <3>3. ch \in ChannelMap
      BY <3>2 DEF ChannelMap
    <3>4. \A c \in Listed : LET h == ch[c] IN
            h.file \in 1 .. Len(files) /\ h.head <= Len(files[h.file].data)
      BY <3>1
    <3> HIDE DEF ch
    <3>5. r \in ProcessState /\ r.channels = ch
      BY <3>3 DEF Step, TypeInv, DirectoryType, ProcessState
    <3>6. proc' = [proc EXCEPT ![p] = r]
      BY <2>2 DEF TypeInv, DirectoryType, ProcessState
    <3>7. /\ proc' \in [Process -> ProcessState] /\ proc'[p].channels = ch
          /\ \A q \in Process \ {p} : proc'[q] = proc[q]
      BY <3>5, <3>6 DEF TypeInv, DirectoryType
    <3>8. DirectoryType'
      BY <1>6, <2>2, <3>7 DEF OpenChannels, TypeInv, DirectoryType, storage
    <3>9. Positions'
      BY <1>6, <3>2, <3>4, <3>7 DEF OpenChannels, TypeInv, Positions, storage
    <3> QED
      BY <3>8, <3>9 DEF TypeInv
  <2> QED
    BY <1>6, <2>1, <2>2 DEF OpenChannels
<1>7. ASSUME NEW p \in Process, NEW c \in ChannelID, NEW m \in Message,
             Insert(p, c, m)
      PROVE  TypeInv'
  BY <1>7, RequestType
<1>8. ASSUME NEW p \in Process, NEW c \in ChannelID, Fetch(p, c)
      PROVE  TypeInv'
  BY <1>8, RequestType
<1>9. ASSUME NEW p \in Process, Crash(p) PROVE TypeInv'
  BY <1>9, StepType, ProcessStep DEF Crash, Exit, TypeInv, DirectoryType
<1> QED
  BY <1>1, <1>2, <1>3, <1>4, <1>5, <1>6, <1>7, <1>8, <1>9 DEF Next

\* No process runs in an empty directory.
LEMMA TypeInit == Init => TypeInv
<1> SUFFICES ASSUME Init PROVE TypeInv
  OBVIOUS
<1>1. NoChannels \in ChannelMap
  <2>1. NoChannels \in [{} -> Handle]
    BY DEF NoChannels
  <2> QED
    BY <2>1 DEF ChannelMap
<1>2. proc \in [Process -> ProcessState]
  BY <1>1 DEF Step, Init, NotRunning, ProcessState, MaybeServerID
<1>3. DirectoryType
  BY <1>2 DEF Init, DirectoryType, MaybeServerID
<1>4. Positions
  BY DEF Init, Positions, NotRunning, NoChannels
<1> QED
  BY <1>3, <1>4 DEF TypeInv

\* Types and positions hold in every reachable state.
LEMMA TypeInvariant == Spec => []TypeInv
  BY TypeInit, TypeStep, PTL DEF Spec

\* Directory, processes and lock keep their types under every fault, however
\* many processes serve from one directory.
THEOREM TypeCorrect == Spec => []TypeOK
<1>1. TypeInv => TypeOK
  <2> SUFFICES ASSUME DirectoryType PROVE TypeOK
    BY DEF TypeInv
  <2>1. ASSUME NEW p \in Process PROVE ProcessType(p)
    <3>1. proc[p] \in ProcessState
      BY DEF DirectoryType
    <3>2. PICK C \in SUBSET ChannelID : proc[p].channels \in [C -> Handle]
      BY <3>1 DEF ProcessState, ChannelMap
    <3>3. DOMAIN proc[p].channels = C
      BY <3>2
    <3> QED
      BY <3>1, <3>2, <3>3 DEF ProcessState, ProcessType
  <2> QED
    BY <2>1 DEF DirectoryType, TypeOK
<1> QED
  BY <1>1, TypeInvariant, PTL

-----------------------------------------------------------------------------
(* The identity of a directory                                             *)

\* One process at a time is inside openDirectory.
Exclusive ==
    /\ \A p, q \in locked : p = q
    /\ \A p \in Process : proc[p].step \in Opening => p \in locked

\* What the process inside openDirectory may rely on.
Identity(p) ==
    /\ proc[p].step = "create" => serverid = NoServerID
    /\ proc[p].step = "rename" =>
          /\ serverid = NoServerID
          /\ serverid_tmp # NoServerID
          /\ proc[p].hostid = serverid_tmp
    /\ proc[p].step \in {"list", "serving"} =>
          serverid # NoServerID /\ proc[p].hostid = serverid

IdentityInv ==
    /\ TypeInv
    /\ Exclusive
    /\ \A p \in Process : Identity(p)

\* A step of one process keeps the invariant if it keeps what that process
\* relies on, and touches id and temporary file only while it has the lock.
LEMMA OthersKeep ==
    ASSUME IdentityInv, TypeInv', NEW p \in Process, NEW r,
           proc' = [proc EXCEPT ![p] = r],
           serverid' = serverid \/ (p \in locked /\ serverid = NoServerID),
           serverid_tmp' = serverid_tmp \/ p \in locked,
           r.step \in Opening => p \in locked',
           locked' \in {locked, locked \ {p}}
             \/ (locked = {} /\ locked' = {p} /\ serverid' = serverid),
           Identity(p)'
    PROVE  IdentityInv'
<1>1. proc'[p] = r
  BY DEF IdentityInv, TypeInv, DirectoryType
<1>2. \A q \in Process \ {p} : proc'[q] = proc[q]
  BY DEF IdentityInv, TypeInv, DirectoryType
<1>3. Exclusive'
  BY <1>1, <1>2 DEF IdentityInv, Exclusive
<1>4. ASSUME NEW q \in Process \ {p} PROVE Identity(q)'
  <2>1. proc'[q] = proc[q] /\ Identity(q)
    BY <1>2 DEF IdentityInv
  <2>2. p \in locked => proc[q].step \notin Opening
    BY DEF IdentityInv, Exclusive
  <2>3. CASE p \in locked
    <3>1. proc[q].step \notin {"create", "rename", "list"}
      BY <2>2, <2>3 DEF Opening
    <3> QED
      BY <2>1, <3>1 DEF Identity
  <2>4. CASE p \notin locked
    BY <2>1, <2>4 DEF Identity
  <2> QED
    BY <2>3, <2>4
<1> QED
  BY <1>3, <1>4 DEF IdentityInv

\* openDirectory takes the lock before it looks at the id, and leaves it when
\* the id is settled; requests and crashes change neither.
LEMMA IdentityStep == IdentityInv /\ [Next]_vars => IdentityInv'
<1> SUFFICES ASSUME IdentityInv, [Next]_vars PROVE IdentityInv'
  OBVIOUS
<1>0. TypeInv /\ TypeInv'
  BY TypeStep DEF IdentityInv
<1>1. CASE UNCHANGED vars
  BY <1>0, <1>1 DEF vars, IdentityInv, Exclusive, Identity
<1>2. ASSUME NEW p \in Process, Start(p) PROVE IdentityInv'
  <2>1. PICK r \in ProcessState : /\ proc' = [proc EXCEPT ![p] = r]
                                  /\ r.step = "serverid"
    BY <1>0, <1>2, StepType DEF Start, MaybeServerID, Opening
  <2>2. proc'[p] = r
    BY <1>0, <2>1 DEF TypeInv, DirectoryType
  <2>3. Identity(p)'
    BY <2>1, <2>2 DEF Identity
  <2> QED
    BY <1>0, <1>2, <2>1, <2>3, OthersKeep DEF Start
<1>3. ASSUME NEW p \in Process, FindServerID(p) PROVE IdentityInv'
  <2>1. PICK r \in ProcessState :
           /\ proc' = [proc EXCEPT ![p] = r]
           /\ \/ r.step = "list" /\ r.hostid = serverid /\ serverid # NoServerID
              \/ r.step = "create" /\ serverid = NoServerID
    BY <1>0, <1>3, StepType DEF FindServerID, MaybeServerID, Opening, TypeInv,
       DirectoryType
  <2>2. proc'[p] = r
    BY <1>0, <2>1 DEF TypeInv, DirectoryType
  <2>3. Identity(p)'
    BY <1>3, <2>1, <2>2 DEF Identity, FindServerID
  <2>4. p \in locked
    BY <1>3 DEF FindServerID, IdentityInv, Exclusive, Opening
  <2> QED
    BY <1>0, <1>3, <2>1, <2>3, <2>4, OthersKeep DEF FindServerID
<1>4. ASSUME NEW p \in Process, Exit(p, "down") \/ Exit(p, "failed"),
             UNCHANGED serverid,
             serverid_tmp' = serverid_tmp \/ p \in locked
      PROVE  IdentityInv'
  <2>1. PICK step \in {"down", "failed"} : Exit(p, step)
    BY <1>4
  <2>2. /\ proc' = [proc EXCEPT ![p] = NotRunning(step)]
        /\ NotRunning(step).step = step
        /\ locked' = locked \ {p}
    BY <2>1 DEF Exit, NotRunning
  <2>3. proc'[p].step \in {"down", "failed"}
    BY <1>0, <2>2 DEF TypeInv, DirectoryType
  <2>4. Identity(p)'
    BY <2>3 DEF Identity
  <2> QED
    BY <1>0, <1>4, <2>2, <2>4, OthersKeep DEF Opening
<1>5. ASSUME NEW p \in Process, CreateServerID(p) PROVE IdentityInv'
  <2>1. p \in locked /\ serverid = NoServerID
    BY <1>5 DEF CreateServerID, IdentityInv, Exclusive, Identity, Opening
  <2>2. CASE Exit(p, "failed")
    BY <1>4, <1>5, <2>1, <2>2 DEF CreateServerID
  <2>3. ASSUME NEW id \in ServerID, serverid_tmp' = id, GoOn(p, "rename", id),
               UNCHANGED locked
        PROVE  IdentityInv'
    <3>1. PICK r \in ProcessState : /\ proc' = [proc EXCEPT ![p] = r]
                                    /\ r.step = "rename" /\ r.hostid = id
      BY <1>0, <2>3, StepType DEF MaybeServerID, Opening
    <3>2. proc'[p] = r
      BY <1>0, <3>1 DEF TypeInv, DirectoryType
    <3>3. Identity(p)'
      BY <1>5, <2>1, <2>3, <3>1, <3>2, DirectoryAssumption
         DEF Identity, CreateServerID
    <3> QED
      BY <1>0, <1>5, <2>1, <2>3, <3>1, <3>3, OthersKeep DEF CreateServerID
  <2> QED
    BY <1>5, <2>2, <2>3 DEF CreateServerID
<1>6. ASSUME NEW p \in Process, RenameServerID(p) PROVE IdentityInv'
  <2>1. /\ p \in locked /\ serverid = NoServerID
        /\ serverid_tmp # NoServerID /\ proc[p].hostid = serverid_tmp
    BY <1>6 DEF RenameServerID, IdentityInv, Exclusive, Identity, Opening
  <2>2. proc[p].hostid \in MaybeServerID
    BY <1>0 DEF TypeInv, DirectoryType, ProcessState
  <2>3. PICK r \in ProcessState : /\ proc' = [proc EXCEPT ![p] = r]
                                  /\ r.step = "list"
                                  /\ r.hostid = proc[p].hostid
    BY <1>0, <1>6, <2>2, StepType DEF RenameServerID, Opening
  <2>4. proc'[p] = r
    BY <1>0, <2>3 DEF TypeInv, DirectoryType
  <2>5. Identity(p)'
    BY <1>6, <2>1, <2>3, <2>4 DEF Identity, RenameServerID
  <2> QED
    BY <1>0, <1>6, <2>1, <2>3, <2>5, OthersKeep DEF RenameServerID
<1>7. ASSUME NEW p \in Process, OpenChannels(p) PROVE IdentityInv'
  <2>1. CASE Exit(p, "failed")
    BY <1>4, <1>7, <2>1 DEF OpenChannels
  <2>2. CASE ~Exit(p, "failed")
    <3>1. PICK ch : /\ proc' = [proc EXCEPT ![p].step = "serving",
                                            ![p].channels = ch]
                    /\ locked' = locked \ {p}
      BY <1>7, <2>2 DEF OpenChannels
    <3> DEFINE r == [proc[p] EXCEPT !.step = "serving", !.channels = ch]
    <3>2. /\ proc' = [proc EXCEPT ![p] = r]
          /\ r.step = "serving" /\ r.hostid = proc[p].hostid
      BY <1>0, <3>1 DEF TypeInv, DirectoryType, ProcessState
    <3>3. proc'[p] = r
      BY <1>0, <3>2 DEF TypeInv, DirectoryType
    <3> HIDE DEF r
    <3>4. Identity(p)'
      BY <1>7, <3>2, <3>3 DEF Identity, OpenChannels, IdentityInv
    <3> QED
      BY <1>0, <1>7, <3>1, <3>2, <3>4, OthersKeep DEF OpenChannels, Opening
  <2> QED
    BY <2>1, <2>2
<1>8. ASSUME NEW p \in Process, NEW c \in ChannelID,
             Fetch(p, c) \/ \E m \in Message : Insert(p, c, m)
      PROVE  IdentityInv'
  <2>1. /\ proc[p].step = "serving"
        /\ UNCHANGED <<locked, serverid_tmp, serverid>>
        /\ \E ch : proc' = [proc EXCEPT ![p].channels = ch]
    BY <1>8 DEF Fetch, Insert, MayFind
  <2>2. PICK ch : proc' = [proc EXCEPT ![p].channels = ch]
    BY <2>1
  <2>3. \A q \in Process : /\ proc'[q].step = proc[q].step
                           /\ proc'[q].hostid = proc[q].hostid
    BY <1>0, <2>2 DEF TypeInv, DirectoryType, ProcessState
  <2> QED
    BY <1>0, <2>1, <2>3 DEF IdentityInv, Exclusive, Identity
<1>9. ASSUME NEW p \in Process, Crash(p) PROVE IdentityInv'
  BY <1>4, <1>9 DEF Crash
<1> QED
  BY <1>1, <1>2, <1>3, <1>5, <1>6, <1>7, <1>8, <1>9 DEF Next

\* The identity invariant holds in every reachable state.
LEMMA IdentityInvariant == Spec => []IdentityInv
<1>1. Init => IdentityInv
  BY TypeInit DEF Init, IdentityInv, Exclusive, Identity, NotRunning, Opening
<1> QED
  BY <1>1, IdentityStep, PTL DEF Spec

\* All processes that serve from a directory agree with its ~serverid file
\* and so with each other, whenever they start, die or fail.
THEOREM IdentityAgreed == Spec => []ServerIDAgreed
<1>1. IdentityInv => ServerIDAgreed
  BY DEF IdentityInv, Identity, ServerIDAgreed
<1> QED
  BY <1>1, IdentityInvariant, PTL

\* The id of a directory never changes: the only step that writes the file
\* belongs to a process that found none and has had the lock since.
THEOREM IdentityForever == Spec => ServerIDForever
<1>1. IdentityInv /\ [Next]_vars =>
        [serverid # NoServerID => serverid' = serverid]_vars
  <2> SUFFICES ASSUME IdentityInv, [Next]_vars, serverid # NoServerID
               PROVE  serverid' = serverid
    OBVIOUS
  <2>1. \A p \in Process : ~RenameServerID(p)
    BY DEF IdentityInv, Identity, RenameServerID
  <2>2. ASSUME NEW p \in Process,
               \/ Start(p) \/ FindServerID(p) \/ OpenChannels(p) \/ Crash(p)
               \/ CreateServerID(p)
        PROVE  serverid' = serverid
    BY <2>2 DEF Start, FindServerID, CreateServerID, OpenChannels, Crash
  <2>3. ASSUME NEW p \in Process, NEW c \in ChannelID,
               Fetch(p, c) \/ \E m \in Message : Insert(p, c, m)
        PROVE  serverid' = serverid
    BY <2>3 DEF Fetch, Insert
  <2> QED
    BY <2>1, <2>2, <2>3 DEF Next, vars
<1> QED
  BY <1>1, IdentityInvariant, PTL DEF Spec, ServerIDForever

-----------------------------------------------------------------------------
(* What a failed start leaves behind                                       *)

NoReadError == "read_error" \notin Faults

\* The temporary file that is about to be renamed is nobody's leftover.
Leftover ==
    /\ FailsOverLeftover
    /\ \A p, q \in Process : ~(proc[p].step = "rename" /\ proc[q].step = "failed")

LeftoverInv == IdentityInv /\ Leftover

\* A start fails over the temporary file only, and while that file is there
\* nobody creates it again.
LEMMA LeftoverStep ==
    ASSUME NoReadError
    PROVE  LeftoverInv /\ [Next]_vars => LeftoverInv'
<1> SUFFICES ASSUME LeftoverInv, [Next]_vars PROVE Leftover'
  BY IdentityStep DEF LeftoverInv
<1>0. IdentityInv /\ IdentityInv' /\ proc \in [Process -> ProcessState]
  BY IdentityStep DEF LeftoverInv, IdentityInv, TypeInv, DirectoryType
<1>1. CASE UNCHANGED vars
  BY <1>1 DEF vars, LeftoverInv, Leftover, FailsOverLeftover
<1>2. ASSUME NEW p \in Process, NEW step, step \notin {"failed", "rename"},
             \A q \in Process :
                proc'[q].step = IF q = p THEN step ELSE proc[q].step,
             UNCHANGED serverid_tmp
      PROVE  Leftover'
  BY <1>2 DEF LeftoverInv, Leftover, FailsOverLeftover
<1>3. ASSUME NEW p \in Process, Start(p) PROVE Leftover'
  <2>1. \A q \in Process :
           proc'[q].step = IF q = p THEN "serverid" ELSE proc[q].step
    BY <1>0, <1>3 DEF Start, GoOn, ProcessState
  <2> QED
    BY <1>2, <1>3, <2>1 DEF Start
<1>4. ASSUME NEW p \in Process, FindServerID(p) PROVE Leftover'
  <2>1. PICK step \in {"list", "create"} : \A q \in Process :
           proc'[q].step = IF q = p THEN step ELSE proc[q].step
    BY <1>0, <1>4 DEF FindServerID, GoOn, ProcessState
  <2> QED
    BY <1>2, <1>4, <2>1 DEF FindServerID
<1>5. ASSUME NEW p \in Process, CreateServerID(p) PROVE Leftover'
  <2>1. \A q \in Process : proc[q].step = "rename" => q = p
    BY <1>0, <1>5 DEF IdentityInv, Exclusive, Opening, CreateServerID
  <2>2. CASE Exit(p, "failed") /\ serverid_tmp' # NoServerID
    <3>1. \A q \in Process :
             proc'[q].step = IF q = p THEN "failed" ELSE proc[q].step
      BY <1>0, <2>2 DEF Exit, NotRunning, ProcessState
    <3> QED
      BY <1>5, <2>1, <2>2, <3>1 DEF Leftover, FailsOverLeftover, CreateServerID
  <2>3. CASE /\ serverid_tmp = NoServerID
             /\ \E id \in ServerID : serverid_tmp' = id /\ GoOn(p, "rename", id)
    <3>1. \A q \in Process : proc[q].step # "failed"
      BY <2>3 DEF LeftoverInv, Leftover, FailsOverLeftover
    <3>2. \A q \in Process :
             proc'[q].step = IF q = p THEN "rename" ELSE proc[q].step
      BY <1>0, <2>3 DEF GoOn, ProcessState
    <3> QED
      BY <3>1, <3>2 DEF Leftover, FailsOverLeftover
  <2> QED
    BY <1>5, <2>2, <2>3, DirectoryAssumption DEF CreateServerID
<1>6. ASSUME NEW p \in Process, RenameServerID(p) PROVE Leftover'
  <2>1. \A q \in Process : proc[q].step # "failed"
    BY <1>6 DEF LeftoverInv, Leftover, RenameServerID
  <2>2. \A q \in Process :
           proc'[q].step = IF q = p THEN "list" ELSE proc[q].step
    BY <1>0, <1>6 DEF RenameServerID, GoOn, ProcessState
  <2> QED
    BY <2>1, <2>2 DEF Leftover, FailsOverLeftover
<1>7. ASSUME NEW p \in Process, OpenChannels(p) PROVE Leftover'
  <2>1. \A q \in Process :
           proc'[q].step = IF q = p THEN "serving" ELSE proc[q].step
    BY <1>0, <1>7 DEF OpenChannels, NoReadError, ProcessState
  <2> QED
    BY <1>2, <1>7, <2>1 DEF OpenChannels
<1>8. ASSUME NEW p \in Process, NEW c \in ChannelID,
             Fetch(p, c) \/ \E m \in Message : Insert(p, c, m)
      PROVE  Leftover'
  <2>1. \E ch : proc' = [proc EXCEPT ![p].channels = ch]
    BY <1>8 DEF Fetch, Insert
  <2>2. \A q \in Process : proc'[q].step = proc[q].step
    BY <1>0, <2>1 DEF ProcessState
  <2> QED
    BY <1>8, <2>2
       DEF LeftoverInv, Leftover, FailsOverLeftover, Fetch, Insert
<1>9. ASSUME NEW p \in Process, Crash(p) PROVE Leftover'
  <2>1. \A q \in Process :
           proc'[q].step = IF q = p THEN "down" ELSE proc[q].step
    BY <1>0, <1>9 DEF Crash, Exit, NotRunning, ProcessState
  <2> QED
    BY <1>2, <1>9, <2>1 DEF Crash
<1> QED
  BY <1>1, <1>3, <1>4, <1>5, <1>6, <1>7, <1>8, <1>9 DEF Next

\* A start that has the lock fails only over a temporary file that a process
\* which died or could not write has left behind, as long as the files that
\* are there can be read; the file is then still there.
THEOREM OnlyLeftoversFail ==
    ASSUME NoReadError
    PROVE  Spec => []FailsOverLeftover
<1>1. LeftoverInv /\ [Next]_vars => LeftoverInv'
  BY LeftoverStep
<1>2. Init => LeftoverInv
  BY TypeInit DEF Init, LeftoverInv, Leftover, FailsOverLeftover, IdentityInv,
     Exclusive, Identity, NotRunning, Opening
<1>3. LeftoverInv => FailsOverLeftover
  BY DEF LeftoverInv, Leftover
<1> QED
  BY <1>1, <1>2, <1>3, PTL DEF Spec

-----------------------------------------------------------------------------
(* What one process at a time keeps of the messages                        *)

NoneHidden == Hidden = {}

\* Two channels never share a file.
Separate(ns) == \A c, d \in DOMAIN ns : ns[c] = ns[d] => c = d

\* Every acknowledged message is in the file of its channel, before the
\* offset_head in its header.
Stored(fs, ns) ==
    \A i \in 1 .. Len(acked) :
        /\ acked[i].channel \in DOMAIN ns
        /\ acked[i].offset < fs[ns[acked[i].channel]].head
        /\ fs[ns[acked[i].channel]].data[acked[i].offset + 1] = acked[i].msg

\* The channels of a process are those of the directory, at the offset_head
\* in their headers.
Agrees(ch, fs, ns) ==
    /\ DOMAIN ch = DOMAIN ns
    /\ \A c \in DOMAIN ns : ch[c] = [file |-> ns[c], head |-> fs[ns[c]].head]

StorageInv ==
    /\ Separate(names)
    /\ Stored(files, names)
    /\ OffsetsIncrease
    /\ \A p \in Process : proc[p].step = "serving" =>
          Agrees(proc[p].channels, files, names)

\* At most one process serves.
OneServes ==
    \A p, q \in Process :
        proc[p].step = "serving" /\ proc[q].step = "serving" => p = q

\* What acked holds.
LEMMA AckedType ==
    ASSUME TypeInv
    PROVE  /\ acked \in Seq([channel : ChannelID, offset : Nat, msg : Message])
           /\ \A i \in 1 .. Len(acked) :
                 acked[i].channel \in ChannelID /\ acked[i].offset \in Nat
<1> DEFINE R == [channel : ChannelID, offset : Nat, msg : Message]
<1>1. acked \in Seq(R)
  BY DEF TypeInv, DirectoryType
<1>2. \A r \in R : r.channel \in ChannelID /\ r.offset \in Nat
  OBVIOUS
<1>3. ASSUME NEW S, acked \in Seq(S)
      PROVE  \A i \in 1 .. Len(acked) : acked[i] \in S
  BY <1>3
<1> HIDE DEF R
<1>4. \A i \in 1 .. Len(acked) : acked[i] \in R
  BY <1>1, <1>3
<1>5. \A i \in 1 .. Len(acked) :
         acked[i].channel \in ChannelID /\ acked[i].offset \in Nat
  BY <1>2, <1>4
<1> QED
  BY <1>1, <1>5 DEF R

\* findChannel keeps every message, and returns what the directory says.
LEMMA FoundStorage ==
    ASSUME TypeInv, StorageInv, NEW p \in Process, NEW c \in ChannelID,
           proc[p].step = "serving"
    PROVE  LET f == FindChannel(p, c) IN
           /\ Separate(f.names)
           /\ Stored(f.files, f.names)
           /\ c \in DOMAIN f.names
           /\ Agrees(With(proc[p].channels, c, f.handle), f.files, f.names)
<1> DEFINE f == FindChannel(p, c)
           ch == proc[p].channels
<1>1. ch \in ChannelMap /\ Agrees(ch, files, names)
  BY DEF StorageInv, TypeInv, DirectoryType, ProcessState
<1>2. f.handle \in Handle
  BY FoundType
<1>3. /\ DOMAIN With(ch, c, f.handle) = DOMAIN ch \cup {c}
      /\ With(ch, c, f.handle)[c] = f.handle
      /\ \A d \in DOMAIN ch \ {c} : With(ch, c, f.handle)[d] = ch[d]
  <2> HIDE DEF ch, f
  <2>1. DOMAIN With(ch, c, f.handle) = DOMAIN ch \cup {c}
    BY DEF With
  <2>2. With(ch, c, f.handle)[c] = f.handle
    BY DEF With
  <2>3. \A d \in DOMAIN ch \ {c} : With(ch, c, f.handle)[d] = ch[d]
    BY DEF With
  <2> QED
    BY <2>1, <2>2, <2>3
<1>4. CASE c \in DOMAIN ch
  <2>1. f = [files |-> files, names |-> names, handle |-> ch[c]]
    BY <1>4 DEF FindChannel
  <2>2. f.files = files /\ f.names = names /\ f.handle = ch[c]
    BY <2>1
  <2>3. Agrees(With(ch, c, ch[c]), files, names)
    BY <1>1, <1>3, <1>4, <2>2 DEF Agrees
  <2>4. c \in DOMAIN names
    BY <1>1, <1>4 DEF Agrees
  <2> QED
    BY <2>2, <2>3, <2>4 DEF StorageInv
<1>5. CASE c \notin DOMAIN ch
  <2> DEFINE n == Len(files) + 1
             fs == Append(files, EmptyFile)
             ns == With(names, c, n)
  <2>1. f = [files |-> fs, names |-> ns, handle |-> [file |-> n, head |-> 0]]
    BY <1>5 DEF FindChannel
  <2>2. c \notin DOMAIN names
    BY <1>1, <1>5 DEF Agrees
  <2>3. /\ Len(files) \in Nat
        /\ \A d \in DOMAIN names : names[d] \in 1 .. Len(files)
        /\ \A i \in 1 .. Len(files) : fs[i] = files[i]
        /\ fs[n].head = 0
    BY DEF TypeInv, DirectoryType, EmptyFile
  <2>4. /\ DOMAIN ns = DOMAIN names \cup {c}
        /\ ns[c] = n
        /\ \A d \in DOMAIN names : ns[d] = names[d]
    BY <2>2 DEF With
  <2> HIDE DEF fs, ns, n
  <2>5. \A d \in DOMAIN names : names[d] # n
    BY <2>3 DEF n
  <2>6. Separate(ns)
    BY <2>4, <2>5 DEF StorageInv, Separate
  <2>7. Stored(fs, ns)
    BY <2>3, <2>4 DEF StorageInv, Stored
  <2>8. Agrees(With(ch, c, f.handle), fs, ns)
    BY <1>1, <1>3, <1>5, <2>1, <2>2, <2>3, <2>4 DEF Agrees
  <2>9. f.files = fs /\ f.names = ns
    BY <2>1
  <2> QED
    BY <2>4, <2>6, <2>7, <2>8, <2>9
<1> QED
  BY <1>4, <1>5

\* A request of the only process that serves loses no message, and an insert
\* gets an offset behind those of the channel before it.
LEMMA RequestStorage ==
    ASSUME TypeInv, StorageInv, OneServes, NEW p \in Process,
           NEW c \in ChannelID,
           Fetch(p, c) \/ \E m \in Message : Insert(p, c, m)
    PROVE  StorageInv'
<1> DEFINE f == FindChannel(p, c)
           h == f.handle
           ch == proc[p].channels
<1>0. proc[p].step = "serving"
  BY DEF Fetch, Insert, MayFind
<1>1. /\ Separate(f.names) /\ Stored(f.files, f.names)
      /\ c \in DOMAIN f.names
      /\ Agrees(With(ch, c, h), f.files, f.names)
  BY <1>0, FoundStorage
<1>2. /\ f.files \in Seq(SegmentFile)
      /\ f.names \in [DOMAIN f.names -> 1 .. Len(f.files)]
      /\ \A i \in 1 .. Len(f.files) : f.files[i].head <= Len(f.files[i].data)
      /\ h \in Handle
  BY FoundType
<1>3. ch \in ChannelMap /\ proc \in [Process -> ProcessState]
  BY DEF TypeInv, DirectoryType, ProcessState
<1> HIDE DEF f, h
<1>4. /\ h = [file |-> f.names[c], head |-> f.files[f.names[c]].head]
      /\ h.file = f.names[c] /\ h.head = f.files[h.file].head
  <2> DEFINE w == With(ch, c, h)
  <2>1. w[c] = h
    BY DEF With
  <2>2. c \in DOMAIN f.names /\ Agrees(w, f.files, f.names)
    BY <1>1
  <2> HIDE DEF w
  <2>3. w[c] = [file |-> f.names[c], head |-> f.files[f.names[c]].head]
    BY <2>2 DEF Agrees
  <2> QED
    BY <2>1, <2>3
<1>5. ASSUME NEW g, proc' = [proc EXCEPT ![p].channels = With(@, c, g)]
      PROVE  /\ proc'[p].channels = With(ch, c, g)
             /\ \A q \in Process : proc'[q].step = proc[q].step
             /\ \A q \in Process \ {p} : proc[q].step # "serving"
  <2>1. \A q \in Process : proc'[q].step = proc[q].step
    BY <1>3, <1>5 DEF ProcessState
  <2>2. proc'[p].channels = With(ch, c, g)
    BY <1>3, <1>5 DEF ProcessState
  <2> QED
    BY <1>0, <2>1, <2>2 DEF OneServes
<1>6. CASE Fetch(p, c)
  <2>1. /\ files' = f.files /\ names' = f.names /\ UNCHANGED acked
        /\ proc' = [proc EXCEPT ![p].channels = With(@, c, h)]
    BY <1>6 DEF Fetch, f, h
  <2> QED
    BY <1>1, <1>5, <2>1 DEF StorageInv, Stored, OffsetsIncrease
<1>7. ASSUME NEW m \in Message, Insert(p, c, m) PROVE StorageInv'
  <2> DEFINE n == h.file
             o == h.head
             d == f.files[n].data
             w == Put(d, o, m)
             g == [file |-> n, head |-> o + 1]
             e == [channel |-> c, offset |-> o, msg |-> m]
  <2>1. /\ f.names[c] = n /\ n \in 1 .. Len(f.files) /\ o \in Nat
        /\ d \in Seq(Message) /\ Len(d) \in Nat /\ o <= Len(d)
    <3>1. h.file \in 1 .. Len(f.files) /\ h.head \in Nat
      BY <1>1, <1>2, <1>4 DEF Handle
    <3>2. f.files[h.file] \in SegmentFile /\ h.head <= Len(d)
      BY <1>2, <1>4, <3>1
    <3> QED
      BY <1>4, <3>1, <3>2 DEF SegmentFile
  <2>2. /\ files' = [f.files EXCEPT ![n] = [head |-> o + 1, data |-> w]]
        /\ names' = f.names
        /\ proc' = [proc EXCEPT ![p].channels = With(@, c, g)]
        /\ acked' = Append(acked, e)
    <3>1. [h EXCEPT !.head = @ + 1] = g
      BY <1>2 DEF Handle
    <3> HIDE DEF g
    <3> QED
      BY <1>7, <3>1 DEF Insert, f, h
  <2>3. /\ w[o + 1] = m
        /\ \A i \in 1 .. Len(d) : i # o + 1 => w[i] = d[i]
    BY <2>1, PutType
  <2>4. e.channel = c /\ e.offset = o /\ e.msg = m
    OBVIOUS
  <2>5. g \in Handle /\ g.file = n /\ g.head = o + 1
    BY <2>1 DEF Handle
  <2>6. /\ files'[n].head = o + 1 /\ files'[n].data = w
        /\ \A i \in 1 .. Len(f.files) : i # n => files'[i] = f.files[i]
    BY <1>2, <2>1, <2>2
  <2>7. f.files[n].data = d /\ f.files[n].head = o /\ g = [file |-> n, head |-> o + 1]
    BY <1>4
  <2> HIDE DEF n, o, d, w, g, e
  <2>8. /\ acked \in Seq([channel : ChannelID, offset : Nat, msg : Message])
        /\ \A i \in 1 .. Len(acked) : acked[i].offset \in Nat
    BY AckedType
  <2>9. /\ acked'[Len(acked) + 1] = e
        /\ \A i \in 1 .. Len(acked) : acked'[i] = acked[i]
        /\ \A i \in 1 .. Len(acked') : i \in 1 .. Len(acked) \/ i = Len(acked) + 1
    BY <2>2, <2>8
  <2>10. ASSUME NEW i \in 1 .. Len(acked)
         PROVE  LET s == files'[names'[acked[i].channel]] IN
                /\ acked[i].channel \in DOMAIN names'
                /\ acked[i].offset < s.head
                /\ s.data[acked[i].offset + 1] = acked[i].msg
    <3> DEFINE b == acked[i]
    <3>1. /\ b.channel \in DOMAIN f.names
          /\ b.offset < f.files[f.names[b.channel]].head
          /\ f.files[f.names[b.channel]].data[b.offset + 1] = b.msg
          /\ b.offset \in Nat
      BY <1>1, <2>8 DEF Stored
    <3> HIDE DEF b
    <3>2. CASE f.names[b.channel] = n
      <4>1. b.offset < o /\ d[b.offset + 1] = b.msg
        BY <2>7, <3>1, <3>2
      <4>2. b.offset + 1 \in 1 .. Len(d) /\ b.offset + 1 # o + 1
        BY <2>1, <3>1, <4>1
      <4>3. w[b.offset + 1] = b.msg /\ b.offset < o + 1
        BY <2>1, <2>3, <3>1, <4>1, <4>2
      <4> QED
        BY <2>2, <2>6, <3>1, <3>2, <4>3 DEF b
    <3>3. CASE f.names[b.channel] # n
      <4>1. f.names[b.channel] \in 1 .. Len(f.files)
        BY <1>2, <3>1
      <4> QED
        BY <2>2, <2>6, <3>1, <3>3, <4>1 DEF b
    <3> QED
      BY <3>2, <3>3
  <2>11. /\ e.channel \in DOMAIN names' /\ names'[e.channel] = n
         /\ e.offset < files'[n].head
         /\ files'[n].data[e.offset + 1] = e.msg
    BY <1>1, <2>1, <2>2, <2>3, <2>4, <2>6
  <2>12. Stored(files, names)'
    BY <2>9, <2>10, <2>11 DEF Stored
  <2>13. OffsetsIncrease'
    <3>1. ASSUME NEW i \in 1 .. Len(acked), acked[i].channel = c
          PROVE  acked[i].offset < o
      BY <1>1, <2>1, <2>7, <3>1 DEF Stored
    <3>2. OffsetsIncrease /\ Len(acked) \in Nat
      BY <2>8 DEF StorageInv
    <3> QED
      BY <2>4, <2>9, <3>1, <3>2 DEF OffsetsIncrease
  <2>14. Agrees(With(ch, c, g), files', names')
    <3> DEFINE v == With(ch, c, h)
               u == With(ch, c, g)
    <3>1. /\ DOMAIN v = DOMAIN ch \cup {c} /\ DOMAIN u = DOMAIN ch \cup {c}
          /\ u[c] = g
          /\ \A b \in DOMAIN ch \ {c} : u[b] = ch[b] /\ v[b] = ch[b]
      <4> HIDE DEF ch
      <4>1. DOMAIN v = DOMAIN ch \cup {c} /\ DOMAIN u = DOMAIN ch \cup {c}
        BY DEF With
      <4>2. u[c] = g
        BY DEF With
      <4>3. \A b \in DOMAIN ch \ {c} : u[b] = ch[b] /\ v[b] = ch[b]
        BY DEF With
      <4> HIDE DEF v, u
      <4> QED
        BY <4>1, <4>2, <4>3
    <3>2. \A b \in DOMAIN f.names \ {c} :
             f.names[b] # n /\ f.names[b] \in 1 .. Len(f.files)
      BY <1>1, <1>2, <2>1 DEF Separate
    <3>3. Agrees(v, f.files, f.names)
      BY <1>1
    <3> HIDE DEF v, u
    <3>4. /\ DOMAIN v = DOMAIN f.names
          /\ \A b \in DOMAIN f.names :
                v[b] = [file |-> f.names[b], head |-> f.files[f.names[b]].head]
      BY <3>3 DEF Agrees
    <3>5. Agrees(u, files', names')
      BY <2>1, <2>2, <2>6, <2>7, <3>1, <3>2, <3>4 DEF Agrees
    <3> QED
      BY <3>5 DEF u
  <2>15. Separate(names)'
    BY <1>1, <2>2
  <2>16. \A q \in Process : proc'[q].step = "serving" =>
            Agrees(proc'[q].channels, files', names')
    BY <1>5, <2>2, <2>14
  <2> QED
    BY <2>12, <2>13, <2>15, <2>16 DEF StorageInv
<1> QED
  BY <1>6, <1>7

\* As long as at most one process serves at a time, however many start and
\* die in turn, the files, the names and the channels in memory agree.
LEMMA StorageStep ==
    ASSUME NoneHidden, TypeInv, StorageInv, [Next]_vars, OneServes
    PROVE  StorageInv'
<1>0. proc \in [Process -> ProcessState]
  BY DEF TypeInv, DirectoryType
<1>1. ASSUME UNCHANGED storage,
             \A q \in Process : proc'[q].step = "serving" =>
                \/ proc[q].step = "serving" /\ proc'[q] = proc[q]
                \/ Agrees(proc'[q].channels, files, names)
      PROVE  StorageInv'
  BY <1>1 DEF StorageInv, storage, Stored, OffsetsIncrease
<1>2. CASE UNCHANGED vars
  BY <1>1, <1>2 DEF vars, storage
<1>3. ASSUME NEW p \in Process,
             Start(p) \/ FindServerID(p) \/ CreateServerID(p)
               \/ RenameServerID(p) \/ Crash(p)
      PROVE  StorageInv'
  <2>1. \/ \E step \in Opening : \E id : GoOn(p, step, id)
        \/ Exit(p, "down")
        \/ Exit(p, "failed")
    BY <1>3 DEF Start, FindServerID, CreateServerID, RenameServerID, Crash,
       Opening
  <2>2. proc'[p].step # "serving" /\ \A q \in Process \ {p} : proc'[q] = proc[q]
    BY <1>0, <2>1 DEF GoOn, Exit, NotRunning, Opening, ProcessState
  <2>3. UNCHANGED storage
    BY <1>3 DEF Start, FindServerID, CreateServerID, RenameServerID, Crash
  <2> QED
    BY <1>1, <2>2, <2>3
<1>4. ASSUME NEW p \in Process, OpenChannels(p) PROVE StorageInv'
  <2>1. CASE Exit(p, "failed")
    BY <1>0, <1>1, <1>4, <2>1 DEF OpenChannels, Exit, NotRunning
  <2> DEFINE ch == [c \in Listed |-> [file |-> names[c],
                                      head |-> files[names[c]].head]]
  <2>2. CASE proc' = [proc EXCEPT ![p].step = "serving", ![p].channels = ch]
    <3>1. Agrees(ch, files, names)
      BY DEF Agrees, Listed, NoneHidden
    <3> HIDE DEF ch
    <3>2. proc'[p].channels = ch /\ \A q \in Process \ {p} : proc'[q] = proc[q]
      BY <1>0, <2>2 DEF ProcessState
    <3> QED
      BY <1>1, <1>4, <3>1, <3>2 DEF OpenChannels
  <2> QED
    BY <1>4, <2>1, <2>2 DEF OpenChannels
<1> QED
  BY <1>2, <1>3, <1>4, RequestStorage DEF Next

\* What the files keep and the process knows, it serves.
LEMMA StorageServes ==
    ASSUME TypeInv, StorageInv PROVE AckedServed
<1> SUFFICES ASSUME NEW p \in Process, NEW i \in 1 .. Len(acked),
                    proc[p].step = "serving"
             PROVE  Serves(p, acked[i])
  BY DEF AckedServed
<1> DEFINE e == acked[i]
           d == e.channel
           n == names[d]
           s == files[n]
           ch == proc[p].channels
<1>1. e.offset \in Nat
  BY AckedType
<1>2. d \in DOMAIN names /\ e.offset < s.head /\ s.data[e.offset + 1] = e.msg
  BY DEF StorageInv, Stored
<1>3. n \in 1 .. Len(files) /\ s \in SegmentFile /\ s.head <= Len(s.data)
  BY <1>2 DEF TypeInv, DirectoryType, Positions
<1>4. Agrees(ch, files, names)
  BY DEF StorageInv
<1> HIDE DEF e, d, n, s, ch
<1>5. d \in DOMAIN ch /\ ch[d].head = s.head
  BY <1>2, <1>4 DEF Agrees, n, s
<1>6. e.offset + 1 <= Len(s.data)
  BY <1>1, <1>2, <1>3 DEF SegmentFile
<1> QED
  BY <1>2, <1>5, <1>6 DEF Serves, e, d, n, s, ch

\* A directory that one process at a time opens, that process dying and
\* starting again at any step, and whose channels openDirectory lists: every
\* acknowledged message is served at its offset, and offsets increase.
THEOREM RestartServes ==
    ASSUME NoneHidden, \A p, q \in Process : p = q
    PROVE  Spec => []AckedServed
<1>1. TypeInv /\ StorageInv /\ [Next]_vars => StorageInv'
  BY StorageStep DEF OneServes
<1>2. Init => StorageInv
  BY DEF Init, StorageInv, Separate, Stored, OffsetsIncrease, NotRunning
<1>3. TypeInv /\ StorageInv => AckedServed
  BY StorageServes
<1> QED
  BY <1>1, <1>2, <1>3, TypeInvariant, PTL DEF Spec

\* Under the same assumptions the offsets of a channel increase with each
\* message, across restarts too.
THEOREM RestartIncreases ==
    ASSUME NoneHidden, \A p, q \in Process : p = q
    PROVE  Spec => []OffsetsIncrease
<1>1. TypeInv /\ StorageInv /\ [Next]_vars => StorageInv'
  BY StorageStep DEF OneServes
<1>2. Init => StorageInv
  BY DEF Init, StorageInv, Separate, Stored, OffsetsIncrease, NotRunning
<1>3. StorageInv => OffsetsIncrease
  BY DEF StorageInv
<1> QED
  BY <1>1, <1>2, <1>3, TypeInvariant, PTL DEF Spec

-----------------------------------------------------------------------------
(* main runs DataDirectory                                                 *)

\* For the directory, a process that ends over its listen address is one
\* that was killed.
ListenErrorIsCrash == "listen_error" \in MainFaults => "crash" \in Faults

\* Every step of main is a step of DataDirectory or leaves it alone.
LEMMA MainStepsDirectory ==
    ASSUME ListenErrorIsCrash, [MainNext]_mainVars
    PROVE  [Next]_vars
<1>1. CASE UNCHANGED mainVars
  BY <1>1 DEF mainVars
<1>2. ASSUME NEW p \in Process, Listen(p) PROVE [Next]_vars
  <2>1. CASE UNCHANGED vars
    BY <2>1
  <2>2. CASE "listen_error" \in MainFaults /\ Exit(p, "down")
             /\ UNCHANGED <<serverid_tmp, serverid, storage>>
    <3>1. Crash(p)
      BY <1>2, <2>2 DEF Listen, Crash, ListenErrorIsCrash
    <3> QED
      BY <3>1 DEF Next
  <2> QED
    BY <1>2, <2>1, <2>2 DEF Listen
<1>3. ASSUME NEW p \in Process,
             Launch(p) \/ OpenPidfile(p) \/ LockPidfile(p)
               \/ TruncatePidfile(p) \/ WritePidfile(p) \/ LockTaken(p)
               \/ DirectoryFails(p) \/ UnlinkPidfile(p) \/ UnlockPidfile(p)
      PROVE  UNCHANGED vars
  BY <1>3 DEF Launch, OpenPidfile, LockPidfile, TruncatePidfile, WritePidfile,
     LockTaken, DirectoryFails, UnlinkPidfile, UnlockPidfile
<1>4. ASSUME NEW p \in Process,
             StartOpening(p) \/ OpenDirectory(p) \/ Kill(p)
      PROVE  [Next]_vars
  BY <1>4 DEF StartOpening, OpenDirectory, Kill, Next
<1>5. ASSUME NEW p \in Process, NEW c \in ChannelID,
             HandleFetch(p, c) \/ \E m \in Message : HandleInsert(p, c, m)
      PROVE  Next
  BY <1>5 DEF HandleFetch, HandleInsert, Next
<1> QED
  BY <1>1, <1>2, <1>3, <1>4, <1>5 DEF MainNext

\* The processes that main runs are processes of DataDirectory: what is
\* proved there of openDirectory and of the requests holds for main.
THEOREM MainImplementsDirectory ==
    ASSUME ListenErrorIsCrash
    PROVE  MainSpec => Spec
<1>1. MainInit => Init
  BY DEF MainInit
<1>2. [MainNext]_mainVars => [Next]_vars
  BY MainStepsDirectory
<1> QED
  BY <1>1, <1>2, PTL DEF MainSpec, Spec

\* All processes that serve report the id in the directory, with or without
\* a pidfile and however their starts fail.
THEOREM MainIdentityAgreed ==
    ASSUME ListenErrorIsCrash
    PROVE  MainSpec => []ServerIDAgreed
  BY MainImplementsDirectory, IdentityAgreed, PTL

-----------------------------------------------------------------------------
(* The pidfile                                                             *)

PidfileType ==
    /\ uses \subseteq Process
    /\ main \in [Process -> [step : MainStep, fd : Inode \cup {0}]]
    /\ path \in Inode \cup {0}
    /\ owner \in [Inode -> Process \cup {Nobody}]
    /\ text \in [Inode -> Process \cup {Nobody}]
    /\ raced \in BOOLEAN

Served == {"directory", "opening", "run"}
Locking == {"truncate", "write", "unlink", "unlock"}

\* A process with a pidfile has its lock from LockPidfile to its end, and
\* its pid in it from WritePidfile until it unlinks the file.
Holds(p) ==
    /\ p \notin uses => main[p].fd = 0
    /\ main[p].step \in {"down", "open"} => main[p].fd = 0
    /\ main[p].step = "open" => p \in uses
    /\ main[p].step = "lock" => main[p].fd # 0
    /\ main[p].step \in Locking => main[p].fd # 0 /\ owner[main[p].fd] = p
    /\ main[p].step \in Served /\ p \in uses =>
          main[p].fd # 0 /\ owner[main[p].fd] = p /\ text[main[p].fd] = p

\* Whoever owns a lock has the file open.
OwnersHave == \A p \in Process : \A f \in Inode : owner[f] = p => main[p].fd = f

\* Until a file is unlinked under another process, all have the same open.
OneFile ==
    ~raced => \A p \in Process :
        main[p].fd # 0 /\ main[p].step # "unlock" => main[p].fd = path

PidfileInv ==
    /\ PidfileType
    /\ OwnersHave
    /\ OneFile
    /\ \A p \in Process : Holds(p)

\* There is always an inode that nobody has open.
LEMMA FreshExists ==
    ASSUME PidfileInv, path = 0
    PROVE  /\ FreshInode \in Inode
           /\ \A p \in Process : main[p].fd # FreshInode
<1> DEFINE n == Cardinality(Process)
           g == [f \in Inode |-> CHOOSE p \in Process : main[p].fd = f]
<1>1. n \in Nat /\ IsFiniteSet(Process)
  BY FS_CardinalityType, StartupAssumption
<1>2. IsFiniteSet(Inode) /\ Cardinality(Inode) = n + 1
  BY <1>1, FS_Interval DEF Inode
<1>3. 0 \notin Inode
  BY <1>1 DEF Inode
<1>4. ASSUME Free = {} PROVE FALSE
  <2>1. \A f \in Inode : \E p \in Process : main[p].fd = f
    BY <1>3, <1>4 DEF Free, HasOpen
  <2>2. g \in [Inode -> Process] /\ \A f \in Inode : main[g[f]].fd = f
    BY <2>1
  <2> HIDE DEF g
  <2>3. \E e, f \in Inode : e # f /\ g[e] = g[f]
    BY <1>1, <1>2, <2>2, FS_PigeonHole
  <2> QED
    BY <2>2, <2>3
<1>5. FreshInode \in Free
  BY <1>4 DEF FreshInode
<1> QED
  BY <1>5 DEF Free, HasOpen

\* A process that goes on keeps the invariant if it keeps its own part.
LEMMA GoKeeps ==
    ASSUME PidfileInv, NEW p \in Process, NEW step \in MainStep, Go(p, step),
           main[p].step # "unlock", Holds(p)',
           UNCHANGED <<uses, path, owner, raced>>,
           text' \in [Inode -> Process \cup {Nobody}],
           \A f \in Inode : text'[f] = text[f] \/ owner[f] = p
    PROVE  PidfileInv'
<1>1. /\ main' \in [Process -> [step : MainStep, fd : Inode \cup {0}]]
      /\ \A q \in Process : main'[q].fd = main[q].fd
      /\ \A q \in Process \ {p} : main'[q] = main[q]
      /\ main'[p].step = step
  BY DEF Go, PidfileInv, PidfileType
<1>2. PidfileType'
  BY <1>1 DEF PidfileInv, PidfileType
<1>3. OwnersHave' /\ OneFile'
  BY <1>1 DEF PidfileInv, OwnersHave, OneFile
<1>4. ASSUME NEW q \in Process \ {p} PROVE Holds(q)'
  <2>1. main[q].fd \in Inode \cup {0} /\ Holds(q)
    BY DEF PidfileInv, PidfileType
  <2> QED
    BY <1>1, <2>1 DEF Holds
<1> QED
  BY <1>2, <1>3, <1>4 DEF PidfileInv

\* A process that ends lets go of its lock and leaves the others theirs.
LEMMA EndsKeeps ==
    ASSUME PidfileInv, NEW p \in Process, Ends(p),
           UNCHANGED <<uses, path, text, raced>>
    PROVE  PidfileInv'
<1>1. /\ main' \in [Process -> [step : MainStep, fd : Inode \cup {0}]]
      /\ \A q \in Process \ {p} : main'[q] = main[q]
      /\ main'[p] = [step |-> "down", fd |-> 0]
  BY DEF Ends, PidfileInv, PidfileType, MainStep
<1>2. /\ owner' \in [Inode -> Process \cup {Nobody}]
      /\ \A f \in Inode :
            /\ owner[f] = p => owner'[f] = Nobody
            /\ owner[f] # p => owner'[f] = owner[f]
  BY DEF Ends, PidfileInv, PidfileType
<1>3. PidfileType'
  BY <1>1, <1>2 DEF PidfileInv, PidfileType
<1>4. OwnersHave' /\ OneFile'
  BY <1>1, <1>2, StartupAssumption DEF PidfileInv, OwnersHave, OneFile
<1>5. Holds(p)'
  BY <1>1 DEF Holds, Locking, Served
<1>6. ASSUME NEW q \in Process \ {p} PROVE Holds(q)'
  <2>1. main[q].fd \in Inode \cup {0} /\ Holds(q)
    BY DEF PidfileInv, PidfileType
  <2> QED
    BY <1>1, <1>2, <2>1 DEF Holds
<1> QED
  BY <1>3, <1>4, <1>5, <1>6 DEF PidfileInv

\* The clean-up at the end of main unlinks the file only if it is open, and
\* then this process has its lock.
LEMMA CleanUpKeeps ==
    ASSUME PidfileInv, NEW p \in Process, CleanUp(p),
           main[p].step \in Served, UNCHANGED <<uses, path, text, raced>>
    PROVE  PidfileInv'
<1>1. CASE Ends(p)
  BY <1>1, EndsKeeps
<1>2. CASE Go(p, "unlink") /\ UNCHANGED owner /\ main[p].fd # 0
  <2>1. main[p].step # "unlock" /\ "unlink" \in MainStep
    BY DEF Served, MainStep
  <2>2. main'[p] = [main[p] EXCEPT !.step = "unlink"]
    BY <1>2 DEF Go, PidfileInv, PidfileType
  <2>3. main'[p].step = "unlink" /\ main'[p].fd = main[p].fd
    BY <2>2 DEF PidfileInv, PidfileType
  <2>4. Holds(p)'
    BY <1>2, <2>3 DEF PidfileInv, Holds, Locking, Served
  <2>5. text' \in [Inode -> Process \cup {Nobody}]
    BY DEF PidfileInv, PidfileType
  <2> QED
    BY <1>2, <2>1, <2>4, <2>5, GoKeeps
<1> QED
  BY <1>1, <1>2 DEF CleanUp, HasOpen

\* open finds the file that the others have open, or makes a new one that
\* nobody has.
LEMMA OpenKeeps ==
    ASSUME PidfileInv, NEW p \in Process, OpenPidfile(p)
    PROVE  PidfileInv'
<1>0. p \in uses /\ main[p].fd = 0 /\ At(p, "open")
  BY DEF OpenPidfile, PidfileInv, Holds, At
<1>1. ASSUME NEW f \in Inode, main' = [main EXCEPT ![p] = [step |-> "lock", fd |-> f]],
             UNCHANGED <<uses, owner, raced>>, path' = f,
             text' \in [Inode -> Process \cup {Nobody}],
             \A q \in Process : main[q].fd # 0 =>
                text'[main[q].fd] = text[main[q].fd],
             path = f \/ path = 0
      PROVE  PidfileInv'
  <2>1. /\ main' \in [Process -> [step : MainStep, fd : Inode \cup {0}]]
        /\ \A q \in Process \ {p} : main'[q] = main[q]
        /\ main'[p].step = "lock" /\ main'[p].fd = f
    BY <1>1 DEF PidfileInv, PidfileType, MainStep
  <2>2. PidfileType'
    BY <1>1, <2>1 DEF PidfileInv, PidfileType
  <2>3. \A g \in Inode : owner[g] # p
    <3>1. 0 \notin Inode
      BY DEF Inode
    <3> QED
      BY <1>0, <3>1 DEF PidfileInv, OwnersHave
  <2>4. OwnersHave'
    BY <1>1, <2>1, <2>3 DEF PidfileInv, OwnersHave
  <2>5. OneFile'
    BY <1>1, <2>1 DEF PidfileInv, OneFile
  <2>6. Holds(p)'
    <3>1. f # 0
      BY DEF Inode
    <3> QED
      BY <1>0, <1>1, <2>1, <3>1 DEF Holds, Locking, Served
  <2>7. ASSUME NEW q \in Process \ {p} PROVE Holds(q)'
    <3>1. Holds(q)
      BY DEF PidfileInv
    <3> QED
      BY <1>1, <2>1, <3>1 DEF Holds
  <2> QED
    BY <2>2, <2>4, <2>5, <2>6, <2>7 DEF PidfileInv
<1>2. CASE /\ path = 0
           /\ path' = FreshInode
           /\ text' = [text EXCEPT ![path'] = Nobody]
           /\ main' = [main EXCEPT ![p] = [step |-> "lock", fd |-> path']]
           /\ UNCHANGED owner
  <2>1. /\ FreshInode \in Inode
        /\ \A q \in Process : main[q].fd # FreshInode
    BY <1>2, FreshExists
  <2>2. /\ text' \in [Inode -> Process \cup {Nobody}]
        /\ \A f \in Inode : f # FreshInode => text'[f] = text[f]
    BY <1>2, <2>1 DEF PidfileInv, PidfileType
  <2>3. \A q \in Process : main[q].fd \in Inode \cup {0}
    BY DEF PidfileInv, PidfileType
  <2> HIDE DEF FreshInode
  <2>4. \A q \in Process : main[q].fd # 0 =>
           text'[main[q].fd] = text[main[q].fd]
    BY <2>1, <2>2, <2>3
  <2> QED
    BY <1>1, <1>2, <2>1, <2>2, <2>4 DEF OpenPidfile
<1>3. CASE /\ path # 0
           /\ main' = [main EXCEPT ![p] = [step |-> "lock", fd |-> path]]
           /\ UNCHANGED pidfile
  <2>1. path \in Inode /\ text \in [Inode -> Process \cup {Nobody}]
    BY <1>3 DEF PidfileInv, PidfileType
  <2> QED
    BY <1>1, <1>3, <2>1 DEF OpenPidfile, pidfile
<1>4. CASE Ends(p) /\ UNCHANGED <<path, text>>
  BY <1>4, EndsKeeps DEF OpenPidfile
<1> QED
  BY <1>2, <1>3, <1>4 DEF OpenPidfile

\* flock admits one process per inode.
LEMMA LockKeeps ==
    ASSUME PidfileInv, NEW p \in Process, LockPidfile(p)
    PROVE  PidfileInv'
<1> DEFINE f == main[p].fd
<1>1. CASE Ends(p)
  BY <1>1, EndsKeeps DEF LockPidfile
<1>2. CASE /\ owner[f] = Nobody
           /\ owner' = [owner EXCEPT ![f] = p]
           /\ Go(p, "truncate")
  <2>1. f \in Inode /\ At(p, "lock") /\ f # 0
    BY DEF LockPidfile, PidfileInv, PidfileType, Holds, At
  <2>2. /\ owner' \in [Inode -> Process \cup {Nobody}]
        /\ owner'[f] = p
        /\ \A g \in Inode : g # f => owner'[g] = owner[g]
    BY <1>2, <2>1 DEF PidfileInv, PidfileType
  <2>3. /\ main' \in [Process -> [step : MainStep, fd : Inode \cup {0}]]
        /\ \A q \in Process \ {p} : main'[q] = main[q]
        /\ main'[p].step = "truncate" /\ main'[p].fd = f
    BY <1>2 DEF Go, PidfileInv, PidfileType, MainStep
  <2>4. PidfileType'
    BY <2>2, <2>3 DEF LockPidfile, PidfileInv, PidfileType
  <2>5. OneFile'
    BY <2>1, <2>3 DEF LockPidfile, PidfileInv, OneFile, At
  <2>6. OwnersHave'
    BY <2>1, <2>2, <2>3 DEF PidfileInv, OwnersHave
  <2>7. Holds(p)'
    <3>1. p \in uses
      BY <2>1 DEF PidfileInv, Holds
    <3> QED
      BY <2>1, <2>2, <2>3, <3>1 DEF LockPidfile, Holds, Served
  <2>8. ASSUME NEW q \in Process \ {p} PROVE Holds(q)'
    <3>1. Holds(q) /\ main[q].fd \in Inode \cup {0}
      BY DEF PidfileInv, PidfileType
    <3>2. main[q].fd = f => owner[main[q].fd] # q
      BY <1>2, StartupAssumption
    <3> HIDE DEF f
    <3> QED
      BY <2>2, <2>3, <3>1, <3>2 DEF LockPidfile, Holds
  <2> QED
    BY <2>4, <2>5, <2>6, <2>7, <2>8 DEF PidfileInv
<1> QED
  BY <1>1, <1>2 DEF LockPidfile

\* The owner of the lock empties the file and writes its pid to it.
LEMMA WriteKeeps ==
    ASSUME PidfileInv, NEW p \in Process, TruncatePidfile(p) \/ WritePidfile(p)
    PROVE  PidfileInv'
<1>1. CASE Ends(p) /\ UNCHANGED text
  BY <1>1, EndsKeeps DEF TruncatePidfile, WritePidfile
<1>2. ASSUME NEW step \in {"write", "directory"}, NEW pid \in {p, Nobody},
             step = "directory" => pid = p,
             text' = [text EXCEPT ![main[p].fd] = pid], Go(p, step),
             UNCHANGED owner
      PROVE  PidfileInv'
  <2>1. /\ main[p].fd \in Inode /\ main[p].fd # 0 /\ owner[main[p].fd] = p
        /\ main[p].step # "unlock" /\ p \in uses
    BY DEF TruncatePidfile, WritePidfile, PidfileInv, PidfileType, Holds, At,
       Locking
  <2>2. /\ text' \in [Inode -> Process \cup {Nobody}]
        /\ text'[main[p].fd] = pid
        /\ \A f \in Inode : f # main[p].fd => text'[f] = text[f]
    BY <1>2, <2>1 DEF PidfileInv, PidfileType
  <2>3. main'[p].step = step /\ main'[p].fd = main[p].fd
    BY <1>2 DEF Go, PidfileInv, PidfileType
  <2>4. UNCHANGED <<uses, path, raced>> /\ step \in MainStep
    BY DEF TruncatePidfile, WritePidfile, MainStep
  <2>5. Holds(p)'
    BY <1>2, <2>1, <2>2, <2>3, <2>4 DEF Holds, Locking, Served
  <2>6. \A f \in Inode : text'[f] = text[f] \/ owner[f] = p
    BY <2>1, <2>2
  <2> QED
    BY <1>2, <2>1, <2>2, <2>4, <2>5, <2>6, GoKeeps
<1> QED
  BY <1>1, <1>2 DEF TruncatePidfile, WritePidfile

\* A file that is unlinked while nobody else has it open leaves nobody
\* behind who could lock it.
LEMMA UnlinkKeeps ==
    ASSUME PidfileInv, NEW p \in Process, UnlinkPidfile(p)
    PROVE  PidfileInv'
<1>1. main[p].step = "unlink" /\ main[p].fd # 0 /\ owner[main[p].fd] = p
  BY DEF UnlinkPidfile, PidfileInv, Holds, At, Locking
<1>2. /\ main' \in [Process -> [step : MainStep, fd : Inode \cup {0}]]
      /\ \A q \in Process : main'[q].fd = main[q].fd
      /\ \A q \in Process \ {p} : main'[q] = main[q]
      /\ main'[p].step = "unlock"
  BY DEF UnlinkPidfile, Go, PidfileInv, PidfileType, MainStep
<1>3. PidfileType'
  BY <1>2 DEF UnlinkPidfile, PidfileInv, PidfileType
<1>4. OwnersHave'
  BY <1>2 DEF UnlinkPidfile, PidfileInv, OwnersHave
<1>5. OneFile'
  <2> SUFFICES ASSUME ~raced', NEW q \in Process \ {p}, main[q].fd # 0,
                      main[q].step # "unlock"
               PROVE  FALSE
    BY <1>2 DEF OneFile
  <2>1. ~raced /\ main[q].fd # path
    BY <1>1 DEF UnlinkPidfile, HasOpen, PidfileInv, PidfileType
  <2> QED
    BY <2>1 DEF PidfileInv, OneFile
<1>6. \A q \in Process : Holds(q)'
  BY <1>1, <1>2 DEF UnlinkPidfile, PidfileInv, Holds, Locking, Served
<1> QED
  BY <1>3, <1>4, <1>5, <1>6 DEF PidfileInv

\* PidfileInv is inductive.
LEMMA PidfileStep == PidfileInv /\ [MainNext]_mainVars => PidfileInv'
<1> SUFFICES ASSUME PidfileInv, [MainNext]_mainVars PROVE PidfileInv'
  OBVIOUS
<1>1. CASE UNCHANGED startup
  BY <1>1
     DEF startup, PidfileInv, PidfileType, OwnersHave, OneFile, Holds
<1>2. ASSUME NEW p \in Process, NEW step \in Served \cup {"open"},
             Go(p, step), UNCHANGED <<uses, path, owner, text, raced>>,
             \/ main[p].step = "down" /\ step = IF p \in uses THEN "open"
                                                ELSE "directory"
             \/ main[p].step \in Served /\ step \in Served
      PROVE  PidfileInv'
  <2>1. main'[p].step = step /\ main'[p].fd = main[p].fd
    BY <1>2 DEF Go, PidfileInv, PidfileType
  <2>2. Holds(p)'
    BY <1>2, <2>1 DEF PidfileInv, Holds, Locking, Served
  <2>3. text' \in [Inode -> Process \cup {Nobody}]
    BY <1>2 DEF PidfileInv, PidfileType
  <2>4. main[p].step # "unlock" /\ step \in MainStep
    BY <1>2 DEF Served, MainStep
  <2> QED
    BY <1>2, <2>2, <2>3, <2>4, GoKeeps
<1>3. ASSUME NEW p \in Process, Launch(p) PROVE PidfileInv'
  BY <1>2, <1>3 DEF Launch, At, pidfile, Served
<1>4. ASSUME NEW p \in Process, StartOpening(p) PROVE PidfileInv'
  BY <1>2, <1>4 DEF StartOpening, At, pidfile, Served
<1>5. ASSUME NEW p \in Process, Listen(p) PROVE PidfileInv'
  <2>1. CASE Go(p, "run") /\ UNCHANGED owner
    BY <1>2, <1>5, <2>1 DEF Listen, At, Served
  <2>2. CASE CleanUp(p)
    BY <1>5, <2>2, CleanUpKeeps DEF Listen, At, Served
  <2> QED
    BY <1>5, <2>1, <2>2 DEF Listen
<1>6. ASSUME NEW p \in Process, LockTaken(p) \/ DirectoryFails(p)
      PROVE  PidfileInv'
  BY <1>6, CleanUpKeeps DEF LockTaken, DirectoryFails, At, Served
<1>7. ASSUME NEW p \in Process, UnlockPidfile(p) \/ Kill(p) PROVE PidfileInv'
  BY <1>7, EndsKeeps DEF UnlockPidfile, Kill
<1>8. ASSUME NEW p \in Process,
             \/ OpenDirectory(p)
             \/ \E c \in ChannelID : HandleFetch(p, c)
             \/ \E c \in ChannelID, m \in Message : HandleInsert(p, c, m)
      PROVE  PidfileInv'
  BY <1>1, <1>8 DEF OpenDirectory, HandleFetch, HandleInsert
<1>9. CASE UNCHANGED mainVars
  BY <1>1, <1>9 DEF mainVars
<1> QED
  BY <1>3, <1>4, <1>5, <1>6, <1>7, <1>8, <1>9, OpenKeeps, LockKeeps,
     WriteKeeps, UnlinkKeeps DEF MainNext

\* No process runs, and there is no pidfile.
LEMMA PidfileInit == MainInit => PidfileInv
<1> SUFFICES ASSUME MainInit PROVE PidfileInv
  OBVIOUS
<1>1. PidfileType
  BY DEF MainInit, PidfileType, MainStep
<1> QED
  BY <1>1, StartupAssumption
     DEF MainInit, PidfileInv, OwnersHave, OneFile, Holds, Locking, Served

\* The pidfile invariant holds in every reachable state.
LEMMA PidfileInvariant == MainSpec => []PidfileInv
  BY PidfileInit, PidfileStep, PTL DEF MainSpec

\* The pid in the pidfile is that of the process that serves with it, under
\* every fault and even if a pidfile was unlinked under another process.
THEOREM PidfileNamesServer == MainSpec => []PidfileTruth
<1>1. PidfileInv => PidfileTruth
  BY DEF PidfileInv, Holds, PidfileTruth, At, HasOpen, Served
<1> QED
  BY <1>1, PidfileInvariant, PTL

\* At most one of the processes that name one pidfile serves, under every
\* fault, until a pidfile is unlinked while another process has it open.
THEOREM PidfileAdmitsOne == MainSpec => []SingleServer
<1>1. PidfileInv => SingleServer
  <2> SUFFICES ASSUME PidfileInv, ~raced, NEW p \in uses, NEW q \in uses,
                      At(p, "run"), At(q, "run")
               PROVE  p = q
    BY DEF SingleServer
  <2>1. p \in Process /\ q \in Process
    BY DEF PidfileInv, PidfileType
  <2>2. main[p].fd = path /\ main[q].fd = path
    BY <2>1 DEF PidfileInv, Holds, OneFile, At, Served
  <2>3. owner[path] = p /\ owner[path] = q
    BY <2>1, <2>2 DEF PidfileInv, Holds, At, Served
  <2> QED
    BY <2>3
<1> QED
  BY <1>1, PidfileInvariant, PTL

\* main, the pidfile and the directory keep their types.
THEOREM MainTypeCorrect ==
    ASSUME ListenErrorIsCrash
    PROVE  MainSpec => []MainTypeOK
<1>1. PidfileInv /\ TypeOK => MainTypeOK
  BY DEF PidfileInv, PidfileType, MainTypeOK
<1> QED
  BY <1>1, PidfileInvariant, MainImplementsDirectory, TypeCorrect, PTL

-----------------------------------------------------------------------------
(* What the pidfile protects                                               *)

\* A process is inside DataDirectory only while main opens it or serves.
Inside ==
    \A p \in Process :
        proc[p].step \in {"down", "failed"} \/ main[p].step \in {"opening", "run"}

\* Where all name the pidfile and none was unlinked under another, the files
\* and the channels in memory agree.
ProtectedInv ==
    /\ TypeInv
    /\ PidfileInv
    /\ Inside
    /\ uses = Process /\ ~raced => StorageInv

\* Inside is inductive: main leaves "opening" and "run" when the process of
\* DataDirectory has ended.
LEMMA InsideStep ==
    ASSUME TypeInv, PidfileType, Inside, [MainNext]_mainVars
    PROVE  Inside'
<1>0. /\ proc \in [Process -> ProcessState]
      /\ main \in [Process -> [step : MainStep, fd : Inode \cup {0}]]
  BY DEF TypeInv, DirectoryType, PidfileType
<1>1. ASSUME NEW p \in Process,
             \A q \in Process \ {p} :
                proc'[q].step = proc[q].step /\ main'[q].step = main[q].step,
             \/ proc'[p].step \in {"down", "failed"}
             \/ main'[p].step \in {"opening", "run"}
      PROVE  Inside'
  BY <1>1 DEF Inside
<1>2. ASSUME NEW p \in Process, Ends(p) \/ \E step : Go(p, step)
      PROVE  \A q \in Process \ {p} : main'[q].step = main[q].step
  BY <1>0, <1>2 DEF Ends, Go
<1>3. ASSUME NEW p \in Process, UNCHANGED proc,
             proc[p].step \in {"down", "failed"},
             \A q \in Process \ {p} : main'[q].step = main[q].step
      PROVE  Inside'
  BY <1>1, <1>3
<1>4. ASSUME NEW p \in Process, UNCHANGED vars,
             main[p].step \notin {"opening", "run"},
             \/ Ends(p) \/ \E step : Go(p, step)
             \/ \E f : main' = [main EXCEPT ![p] = [step |-> "lock", fd |-> f]]
      PROVE  Inside'
  <2>1. \A q \in Process \ {p} : main'[q].step = main[q].step
    BY <1>0, <1>4 DEF Ends, Go
  <2>2. proc[p].step \in {"down", "failed"}
    BY <1>4 DEF Inside
  <2> QED
    BY <1>3, <1>4, <2>1, <2>2 DEF vars
<1>5. ASSUME NEW p \in Process, Launch(p) PROVE Inside'
  BY <1>4, <1>5 DEF Launch, At
<1>6. ASSUME NEW p \in Process, OpenPidfile(p) PROVE Inside'
  BY <1>4, <1>6 DEF OpenPidfile, At
<1>7. ASSUME NEW p \in Process,
             \/ LockPidfile(p) \/ TruncatePidfile(p) \/ WritePidfile(p)
             \/ UnlinkPidfile(p) \/ UnlockPidfile(p)
      PROVE  Inside'
  <2>1. UNCHANGED vars /\ main[p].step \notin {"opening", "run"}
    BY <1>7 DEF LockPidfile, TruncatePidfile, WritePidfile, UnlinkPidfile,
       UnlockPidfile, At
  <2>2. Ends(p) \/ \E step : Go(p, step)
    BY <1>7 DEF LockPidfile, TruncatePidfile, WritePidfile, UnlinkPidfile,
       UnlockPidfile
  <2> QED
    BY <1>4, <2>1, <2>2
<1>8. ASSUME NEW p \in Process, LockTaken(p) PROVE Inside'
  BY <1>4, <1>8 DEF LockTaken, CleanUp, At
<1>9. ASSUME NEW p \in Process, StartOpening(p) PROVE Inside'
  <2>1. main'[p].step = "opening"
    BY <1>0, <1>9 DEF StartOpening, Go
  <2>2. \A q \in Process \ {p} : proc'[q].step = proc[q].step
    BY <1>0, <1>9 DEF StartOpening, Start, GoOn
  <2> QED
    BY <1>1, <1>2, <1>9, <2>1, <2>2 DEF StartOpening
<1>10. ASSUME NEW p \in Process,
              \/ OpenDirectory(p)
              \/ \E c \in ChannelID : HandleFetch(p, c)
              \/ \E c \in ChannelID, m \in Message : HandleInsert(p, c, m)
       PROVE  Inside'
  <2>1. UNCHANGED main /\ main[p].step \in {"opening", "run"}
    BY <1>10 DEF OpenDirectory, HandleFetch, HandleInsert, startup, At
  <2>2. \A q \in Process \ {p} : proc'[q].step = proc[q].step
    <3>1. \/ \E step, id : GoOn(p, step, id)
          \/ Exit(p, "failed")
          \/ \E ch : proc' = [proc EXCEPT ![p].step = "serving",
                                          ![p].channels = ch]
          \/ \E ch : proc' = [proc EXCEPT ![p].channels = ch]
      BY <1>10 DEF OpenDirectory, HandleFetch, HandleInsert, FindServerID,
         CreateServerID, RenameServerID, OpenChannels, Insert, Fetch
    <3> QED
      BY <1>0, <3>1 DEF GoOn, Exit
  <2> QED
    BY <1>1, <2>1, <2>2
<1>11. ASSUME NEW p \in Process, DirectoryFails(p) PROVE Inside'
  BY <1>2, <1>3, <1>11 DEF DirectoryFails, CleanUp, vars
<1>12. ASSUME NEW p \in Process, Listen(p) PROVE Inside'
  <2>1. CASE Go(p, "run") /\ UNCHANGED vars
    <3>1. main'[p].step = "run"
      BY <1>0, <2>1 DEF Go
    <3> QED
      BY <1>1, <1>2, <2>1, <3>1 DEF vars
  <2>2. CASE Exit(p, "down") /\ CleanUp(p)
    <3>1. /\ proc'[p].step = "down"
          /\ \A q \in Process \ {p} : proc'[q].step = proc[q].step
      BY <1>0, <2>2 DEF Exit, NotRunning
    <3> QED
      BY <1>1, <1>2, <2>2, <3>1 DEF CleanUp
  <2> QED
    BY <1>12, <2>1, <2>2 DEF Listen
<1>13. ASSUME NEW p \in Process, Kill(p) PROVE Inside'
  <2>1. CASE Crash(p)
    <3>1. /\ proc'[p].step = "down"
          /\ \A q \in Process \ {p} : proc'[q].step = proc[q].step
      BY <1>0, <2>1 DEF Crash, Exit, NotRunning
    <3> QED
      BY <1>1, <1>2, <1>13, <3>1 DEF Kill
  <2>2. CASE proc[p].step \in {"down", "failed"} /\ UNCHANGED vars
    BY <1>2, <1>3, <1>13, <2>2 DEF Kill, vars
  <2> QED
    BY <1>13, <2>1, <2>2 DEF Kill
<1>14. CASE UNCHANGED mainVars
  BY <1>14 DEF mainVars, vars, startup, Inside
<1> QED
  BY <1>5, <1>6, <1>7, <1>8, <1>9, <1>10, <1>11, <1>12, <1>13, <1>14
     DEF MainNext

\* Whoever serves has the pidfile's lock, so that one process at a time does.
LEMMA PidfileExcludes ==
    ASSUME PidfileInv, Inside, uses = Process, ~raced PROVE OneServes
<1> SUFFICES ASSUME NEW p \in Process, NEW q \in Process,
                    proc[p].step = "serving", proc[q].step = "serving"
             PROVE  p = q
  BY DEF OneServes
<1>1. main[p].step \in {"opening", "run"} /\ main[q].step \in {"opening", "run"}
  BY DEF Inside
<1>2. owner[main[p].fd] = p /\ owner[main[q].fd] = q
  BY <1>1 DEF PidfileInv, Holds, Served
<1>3. main[p].fd = path /\ main[q].fd = path
  BY <1>1 DEF PidfileInv, Holds, OneFile, Served
<1> QED
  BY <1>2, <1>3

\* ProtectedInv is inductive.
LEMMA ProtectedStep ==
    ASSUME NoneHidden, ListenErrorIsCrash
    PROVE  ProtectedInv /\ [MainNext]_mainVars => ProtectedInv'
<1> SUFFICES ASSUME ProtectedInv, [MainNext]_mainVars PROVE ProtectedInv'
  OBVIOUS
<1>1. [Next]_vars
  BY MainStepsDirectory
<1>2. TypeInv' /\ PidfileInv' /\ Inside'
  BY <1>1, TypeStep, PidfileStep, InsideStep DEF ProtectedInv, PidfileInv
<1>3. uses' = uses /\ (~raced' => ~raced)
  <2>1. CASE UNCHANGED mainVars
    BY <2>1 DEF mainVars, startup
  <2> QED
    BY <2>1 DEF ProtectedInv, PidfileInv, PidfileType, MainNext, Launch,
       OpenPidfile, LockPidfile, TruncatePidfile, WritePidfile, LockTaken,
       StartOpening, OpenDirectory, DirectoryFails, Listen, HandleInsert,
       HandleFetch, UnlinkPidfile, UnlockPidfile, Kill, startup
<1>4. ASSUME (uses = Process /\ ~raced)' PROVE StorageInv'
  <2>1. uses = Process /\ ~raced
    BY <1>3, <1>4
  <2>2. TypeInv /\ StorageInv /\ OneServes
    BY <2>1, PidfileExcludes DEF ProtectedInv
  <2> QED
    BY <1>1, <2>2, StorageStep
<1> QED
  BY <1>2, <1>4 DEF ProtectedInv

\* Where every process names the pidfile it stands in for the lock on the
\* directory, which is gone once openDirectory returns: until a pidfile is
\* unlinked under another process, every acknowledged message is served at
\* its offset, and no offset is used twice.
THEOREM PidfileKeepsMessages ==
    ASSUME NoneHidden, ListenErrorIsCrash
    PROVE  MainSpec => []PidfileProtects
<1>1. MainInit => ProtectedInv
  <2>2. Init => StorageInv
    BY DEF Init, StorageInv, Separate, Stored, OffsetsIncrease, NotRunning
  <2>3. Init => Inside
    BY DEF Init, Inside, NotRunning
  <2> QED
    BY <2>2, <2>3, TypeInit, PidfileInit DEF MainInit, ProtectedInv
<1>2. ProtectedInv /\ [MainNext]_mainVars => ProtectedInv'
  BY ProtectedStep
<1>3. ProtectedInv => PidfileProtects
  BY StorageServes DEF ProtectedInv, PidfileProtects, StorageInv
<1> QED
  BY <1>1, <1>2, <1>3, PTL DEF MainSpec

=============================================================================
