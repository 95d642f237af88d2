------------------------------ MODULE Startup ------------------------------
(***************************************************************************)
(* The main function of brokerd.cc around the data directory: a process    *)
(* opens, locks and writes its pidfile, opens the directory (the actions   *)
(* of DataDirectory), serves, and unlinks the pidfile before it lets go of *)
(* the lock.  All processes name the same pidfile, or none.  The steps are *)
(* those between which another process can act or this one can die.        *)
(***************************************************************************)
EXTENDS DataDirectory

CONSTANT MainFaults   \* what may fail outside of the data directory

Nobody == "nobody"

ASSUME StartupAssumption ==
    /\ IsFiniteSet(Process)
    /\ Nobody \notin Process
    /\ MainFaults \subseteq {"pidfile_error", "listen_error"}

VARIABLES
    uses,      \* the processes started with --pidfile, fixed at the start
    main,      \* per process: the step of main and the inode of pidfile_fd
    path,      \* the inode that has the name of the pidfile, 0 if none has
    owner,     \* per inode: the process that holds its flock, or Nobody
    text,      \* per inode: the process whose pid is in it, or Nobody
    raced      \* history: a pidfile was unlinked while another process,
               \* which will find it unlocked, had it open

startup == <<uses, main, path, owner, text, raced>>
mainVars == <<vars, startup>>
pidfile == <<path, owner, text>>

\* One inode per process and one more are never all in use.
Inode == 1 .. Cardinality(Process) + 1

MainInit ==
    /\ Init
    /\ uses \in SUBSET Process
    /\ main = [p \in Process |-> [step |-> "down", fd |-> 0]]
    /\ path = 0
    /\ owner = [f \in Inode |-> Nobody]
    /\ text = [f \in Inode |-> Nobody]
    /\ raced = FALSE

At(p, step) == main[p].step = step
Go(p, step) == main' = [main EXCEPT ![p].step = step]
HasOpen(p, f) == main[p].fd = f

\* The process ends: its descriptors are closed and its flock with them.
Ends(p) ==
    /\ main' = [main EXCEPT ![p] = [step |-> "down", fd |-> 0]]
    /\ owner' = [f \in Inode |-> IF owner[f] = p THEN Nobody ELSE owner[f]]

\* From the first failure on main only cleans up.
CleanUp(p) == IF HasOpen(p, 0) THEN Ends(p)
              ELSE Go(p, "unlink") /\ UNCHANGED owner

Launch(p) ==
    /\ At(p, "down")
    /\ Go(p, IF p \in uses THEN "open" ELSE "directory")
    /\ UNCHANGED <<vars, uses, pidfile, raced>>

Free == {f \in Inode : f # path /\ \A p \in Process : ~HasOpen(p, f)}
FreshInode == CHOOSE f \in Free : TRUE

\* Mutant: the file is truncated when it is opened, before it is locked.
OpenPidfileTruncates(p) ==
    /\ At(p, "open")
    /\ path' = IF path = 0 THEN FreshInode ELSE path
    /\ text' = [text EXCEPT ![path'] = Nobody]
    /\ main' = [main EXCEPT ![p] = [step |-> "lock", fd |-> path']]
    /\ UNCHANGED <<vars, uses, owner, raced>>

\* open with O_CREAT: whatever has the name, or a new and empty file.
OpenPidfile(p) ==
    /\ At(p, "open")
    /\ \/ /\ path = 0
          /\ path' = FreshInode
          /\ text' = [text EXCEPT ![path'] = Nobody]
          /\ main' = [main EXCEPT ![p] = [step |-> "lock", fd |-> path']]
          /\ UNCHANGED owner
       \/ /\ path # 0
          /\ main' = [main EXCEPT ![p] = [step |-> "lock", fd |-> path]]
          /\ UNCHANGED pidfile
       \/ /\ "pidfile_error" \in MainFaults
          /\ Ends(p)
          /\ UNCHANGED <<path, text>>
    /\ UNCHANGED <<vars, uses, raced>>

\* Mutant: a flock that fails is taken for one that succeeds.
LockPidfileUnchecked(p) ==
    /\ At(p, "lock")
    /\ owner' = [owner EXCEPT ![main[p].fd] = IF @ = Nobody THEN p ELSE @]
    /\ Go(p, "truncate")
    /\ UNCHANGED <<vars, uses, path, text, raced>>

\* Mutant: a process that does not get the lock keeps its descriptor, so
\* that it cleans up the file of the one that has it.
LockPidfileKeepsFd(p) ==
    /\ At(p, "lock")
    /\ \/ /\ owner[main[p].fd] = Nobody
          /\ owner' = [owner EXCEPT ![main[p].fd] = p]
          /\ Go(p, "truncate")
       \/ /\ owner[main[p].fd] # Nobody
          /\ CleanUp(p)
    /\ UNCHANGED <<vars, uses, path, text, raced>>

\* flock with LOCK_NB: a process that finds the lock taken closes the file.
LockPidfile(p) ==
    /\ At(p, "lock")
    /\ \/ /\ owner[main[p].fd] = Nobody
          /\ owner' = [owner EXCEPT ![main[p].fd] = p]
          /\ Go(p, "truncate")
       \/ /\ owner[main[p].fd] # Nobody
          /\ Ends(p)
    /\ UNCHANGED <<vars, uses, path, text, raced>>

\* A failing ftruncate closes the file, and so it is not unlinked.
TruncatePidfile(p) ==
    /\ At(p, "truncate")
    /\ \/ /\ text' = [text EXCEPT ![main[p].fd] = Nobody]
          /\ Go(p, "write")
          /\ UNCHANGED owner
       \/ /\ "pidfile_error" \in MainFaults
          /\ Ends(p)
          /\ UNCHANGED text
    /\ UNCHANGED <<vars, uses, path, raced>>

\* The same for a write that fails or is short.
WritePidfile(p) ==
    /\ At(p, "write")
    /\ \/ /\ text' = [text EXCEPT ![main[p].fd] = p]
          /\ Go(p, "directory")
          /\ UNCHANGED owner
       \/ /\ "pidfile_error" \in MainFaults
          /\ Ends(p)
          /\ UNCHANGED text
    /\ UNCHANGED <<vars, uses, path, raced>>

\* openDirectory fails at once when another process holds its lock.
LockTaken(p) ==
    /\ At(p, "directory")
    /\ locked # {}
    /\ CleanUp(p)
    /\ UNCHANGED <<vars, uses, path, text, raced>>

StartOpening(p) ==
    /\ At(p, "directory")
    /\ Start(p)
    /\ Go(p, "opening")
    /\ UNCHANGED <<uses, pidfile, raced>>

OpenDirectory(p) ==
    /\ At(p, "opening")
    /\ FindServerID(p) \/ CreateServerID(p) \/ RenameServerID(p)
       \/ OpenChannels(p)
    /\ UNCHANGED startup

DirectoryFails(p) ==
    /\ At(p, "opening")
    /\ proc[p].step = "failed"
    /\ CleanUp(p)
    /\ UNCHANGED <<vars, uses, path, text, raced>>

(***************************************************************************)
(* A listen address that does not parse or cannot be bound ends the        *)
(* process; otherwise run() accepts connections and does not return.       *)
(***************************************************************************)
Listen(p) ==
    /\ At(p, "opening")
    /\ proc[p].step = "serving"
    /\ \/ Go(p, "run") /\ UNCHANGED <<vars, owner>>
       \/ /\ "listen_error" \in MainFaults
          /\ Exit(p, "down")
          /\ CleanUp(p)
          /\ UNCHANGED <<serverid_tmp, serverid, storage>>
    /\ UNCHANGED <<uses, path, text, raced>>

HandleInsert(p, c, m) ==
    /\ At(p, "run")
    /\ Insert(p, c, m)
    /\ UNCHANGED startup

HandleFetch(p, c) ==
    /\ At(p, "run")
    /\ Fetch(p, c)
    /\ UNCHANGED startup

\* Whatever has the name now is unlinked.
UnlinkPidfile(p) ==
    /\ At(p, "unlink")
    /\ path' = 0
    /\ raced' = (raced \/ /\ owner[main[p].fd] = p
                          /\ \E q \in Process \ {p} : HasOpen(q, path))
    /\ Go(p, "unlock")
    /\ UNCHANGED <<vars, uses, owner, text>>

UnlockPidfile(p) ==
    /\ At(p, "unlock")
    /\ Ends(p)
    /\ UNCHANGED <<vars, uses, path, text, raced>>

\* A crash or a signal, which main does not catch: nothing is unlinked.
Kill(p) ==
    /\ "crash" \in Faults
    /\ ~At(p, "down")
    /\ Ends(p)
    /\ \/ Crash(p)
       \/ proc[p].step \in {"down", "failed"} /\ UNCHANGED vars
    /\ UNCHANGED <<uses, path, text, raced>>

MainNext ==
    \E p \in Process :
        \/ Launch(p)
        \/ OpenPidfile(p)
        \/ LockPidfile(p)
        \/ TruncatePidfile(p)
        \/ WritePidfile(p)
        \/ LockTaken(p)
        \/ StartOpening(p)
        \/ OpenDirectory(p)
        \/ DirectoryFails(p)
        \/ Listen(p)
        \/ \E c \in ChannelID, m \in Message : HandleInsert(p, c, m)
        \/ \E c \in ChannelID : HandleFetch(p, c)
        \/ UnlinkPidfile(p)
        \/ UnlockPidfile(p)
        \/ Kill(p)

MainSpec == MainInit /\ [][MainNext]_mainVars

-----------------------------------------------------------------------------
(* Properties                                                              *)

MainStep ==
    {"down", "open", "lock", "truncate", "write", "directory", "opening",
     "run", "unlink", "unlock"}

MainTypeOK ==
    /\ TypeOK
    /\ uses \subseteq Process
    /\ main \in [Process -> [step : MainStep, fd : Inode \cup {0}]]
    /\ path \in Inode \cup {0}
    /\ owner \in [Inode -> Process \cup {Nobody}]
    /\ text \in [Inode -> Process \cup {Nobody}]
    /\ raced \in BOOLEAN

\* The pid in the pidfile is that of the process that serves with it: no
\* process that starts later, fails or dies overwrites or empties it.
PidfileTruth ==
    \A p \in Process :
        At(p, "run") /\ p \in uses /\ HasOpen(p, path) => text[path] = p

\* Of the processes that name one pidfile at most one serves, unless one was
\* unlinked while another process had it open.
SingleServer ==
    ~raced => \A p, q \in uses : At(p, "run") /\ At(q, "run") => p = q

\* Where every process names the pidfile it stands in for the lock on the
\* directory, which is gone once openDirectory returns: with the same
\* exception, processes that start, fail and die in any order serve every
\* acknowledged message at its offset, and no offset is used twice.
PidfileProtects ==
    uses = Process /\ ~raced => AckedServed /\ OffsetsIncrease

=============================================================================
