------------------------------ MODULE DotLock ------------------------------
(***************************************************************************)
(* Advisory file locking between processes: common/dotlock.c, the POSIX    *)
(* half.  A process creates a handle, then takes, releases and destroys    *)
(* the lock.  The lock is the file <name>.lock; its text names the pid and *)
(* the node of the process that created it.  It is made with link(2) from  *)
(* a private temporary file or, where the file system has no hard links,   *)
(* with open(O_EXCL) followed by three writes.  A contender that reads the *)
(* pid of a process that is gone removes the file and tries again.         *)
(*                                                                         *)
(* One handle per process (the text of dotlock.c allows a handle to be     *)
(* used by one thread at a time).  Every system call on the shared lock    *)
(* file is a step of its own; the private temporary file is represented    *)
(* by "linked" only.                                                       *)
(***************************************************************************)
EXTENDS Integers

CONSTANTS
  Procs,      \* processes that use the lock
  Nobody,     \* owner of a lock file that does not exist
  PidOf,      \* [Procs -> pids], the pid the process has on its node
  NodeOf,     \* [Procs -> node names]
  NoPid,      \* the -1 of lastpid
  HardLinks,  \* what use_hardlinks_p finds out about the file system
  NeverLock,  \* processes that called dotlock_disable
  Timeouts,   \* values callers pass to dotlock_take, in ms; -1 waits forever
  Failing,    \* the system calls on the lock file that may fail
  Crashes,    \* whether processes may die without running atexit handlers
  PidReuse,   \* whether a new process may get the pid of a dead one
  MaxTakes    \* bound: how often a process calls dotlock_take

Pids == {PidOf[p] : p \in Procs}

\* A pid names one process of a node, so pid and node together name a process.
ASSUME ProcsAssumption ==
  /\ Nobody \notin Procs
  /\ NoPid \notin Pids
  /\ NeverLock \subseteq Procs
  /\ Timeouts \subseteq Nat \cup {-1}
  /\ MaxTakes \in Nat
  /\ Failing \subseteq {"open", "write", "stat", "read", "unlink"}
  /\ HardLinks \in BOOLEAN
  /\ Crashes \in BOOLEAN /\ PidReuse \in BOOLEAN
  /\ \A p, q \in Procs : PidOf[p] = PidOf[q] /\ NodeOf[p] = NodeOf[q] => p = q

VARIABLES
  alive,    \* the running processes
  pc,       \* where each process is in the code below
  locked,   \* h->locked
  ret,      \* what the last call of dotlock_take or dotlock_release returned
  owner,    \* the process that created the lock file, or Nobody: no file
  linked,   \* the lock file is the file of its owner's current handle
  text,     \* how much of the lock file's text has been written
  timeout,  \* dotlock_take_unix: timeout
  wtime,    \* dotlock_take_unix: wtime
  lastpid,  \* dotlock_take_unix: lastpid
  seen,     \* dotlock_take_unix: pid, as read from the lock file
  raced,    \* history: a lock file of a running process was removed as stale
  takes     \* number of dotlock_take calls so far

file  == <<owner, linked, text>>
wait  == <<timeout, wtime, lastpid, seen>>
vars  == <<alive, pc, locked, ret, file, wait, raced, takes>>

\* "none": no handle; "idle": a handle and no call under way.
TakeLabels == {"try", "write", "node", "stat", "read", "probe", "steal", "wait"}
Labels == {"none", "idle", "unlink"} \cup TakeLabels

TypeOK ==
  /\ alive \subseteq Procs
  /\ pc \in [Procs -> Labels]
  /\ locked \in [Procs -> BOOLEAN]
  /\ ret \in [Procs -> {"ok", "eacces", "error"}]
  /\ owner \in Procs \cup {Nobody}
  /\ linked \in BOOLEAN
  /\ text \in {"empty", "pid", "full"}
  /\ timeout \in [Procs -> Nat \cup {-1}]
  /\ wtime \in [Procs -> Nat]
  /\ lastpid \in [Procs -> Pids \cup {NoPid}]
  /\ seen \in [Procs -> Pids \cup {NoPid}]
  /\ raced \in BOOLEAN
  /\ takes \in [Procs -> 0..MaxTakes]

Init ==
  /\ alive = Procs
  /\ pc = [p \in Procs |-> "none"]
  /\ locked = [p \in Procs |-> FALSE]
  /\ ret = [p \in Procs |-> "ok"]
  /\ owner = Nobody /\ linked = FALSE /\ text = "full"
  /\ timeout = [p \in Procs |-> 0]
  /\ wtime = [p \in Procs |-> 0]
  /\ lastpid = [p \in Procs |-> NoPid]
  /\ seen = [p \in Procs |-> NoPid]
  /\ raced = FALSE
  /\ takes = [p \in Procs |-> 0]

-----------------------------------------------------------------------------
(* Helpers *)

\* h->disable: never_lock was set when dotlock_create made the handle.
Disabled(p) == p \in NeverLock

\* h->use_o_excl, from the test that dotlock_create makes with its
\* temporary file.
UseOExcl == ~HardLinks

At(p, label) == p \in alive /\ pc[p] = label
Goto(p, label) == pc' = [pc EXCEPT ![p] = label]

\* The locals of dotlock_take_unix as a call finds them; they are dead
\* between calls.
DropLocals(p) ==
  /\ timeout' = [timeout EXCEPT ![p] = 0]
  /\ wtime' = [wtime EXCEPT ![p] = 0]
  /\ lastpid' = [lastpid EXCEPT ![p] = NoPid]
  /\ seen' = [seen EXCEPT ![p] = NoPid]

\* The call returns r and the handle is free for the next call.
Return(p, r) ==
  /\ Goto(p, "idle")
  /\ ret' = [ret EXCEPT ![p] = r]
  /\ DropLocals(p)

\* The temporary file of p, or the descriptor of its O_EXCL file, is the
\* file that is there under the lock's name (sb.st_nlink == 2).
IsLinkOf(p) == owner = p /\ linked

\* A new lock file made by p.
MakeFile(p, contents) ==
  owner' = p /\ linked' = TRUE /\ text' = contents

\* unlink (h->lockname), whoever made the file.
UnlinkFile == owner' = Nobody /\ linked' = FALSE /\ text' = "full"

\* What read_lockfile reports to p: the pid line is complete, and the node
\* line is complete and names p's own node.
Readable == owner # Nobody /\ text # "empty"

\* Bug: the node line is not compared, as if pids were unique on a network.
SameNodeAlways(p) == text = "full"

SameNode(p) == text = "full" /\ NodeOf[owner] = NodeOf[p]
IsOurs(p) == Readable /\ SameNode(p) /\ PidOf[owner] = PidOf[p]

\* kill (pid, 0) fails with ESRCH on p's node.
NoSuchProcess(p, pid) ==
  ~ \E r \in alive : PidOf[r] = pid /\ NodeOf[r] = NodeOf[p]

-----------------------------------------------------------------------------
(* Handles: dotlock_create.  A failing dotlock_create leaves nothing behind;
   where there are no hard links a good one removes its temporary file. *)

Create(p) ==
  /\ At(p, "none")
  /\ Goto(p, "idle")
  /\ UNCHANGED <<alive, locked, ret, file, wait, raced, takes>>

-----------------------------------------------------------------------------
(* dotlock_take and dotlock_take_unix *)

\* A disabled or an already locked handle returns success at once.
Take(p, t) ==
  /\ At(p, "idle") /\ takes[p] < MaxTakes
  /\ takes' = [takes EXCEPT ![p] = @ + 1]
  /\ IF Disabled(p) \/ locked[p]
       THEN Return(p, "ok")
       ELSE /\ Goto(p, "try")
            /\ timeout' = [timeout EXCEPT ![p] = t]
            /\ UNCHANGED <<ret, wtime, lastpid, seen>>
  /\ UNCHANGED <<alive, locked, file, raced>>

\* link(2); its result is ignored.
TryLink(p) ==
  /\ At(p, "try") /\ ~UseOExcl
  /\ IF owner = Nobody THEN MakeFile(p, "full") ELSE UNCHANGED file
  /\ Goto(p, "stat")
  /\ UNCHANGED <<alive, locked, ret, wait, raced, takes>>

\* stat(2) of the temporary file counts its links.
StatTemp(p) ==
  /\ At(p, "stat")
  /\ IF IsLinkOf(p)
       THEN locked' = [locked EXCEPT ![p] = TRUE] /\ Return(p, "ok")
       ELSE Goto(p, "read") /\ UNCHANGED <<locked, ret, wait>>
  /\ UNCHANGED <<alive, file, raced, takes>>

\* The link may have been made: the lock file then stays.
StatFails(p) ==
  /\ At(p, "stat") /\ "stat" \in Failing
  /\ Return(p, "error")
  /\ UNCHANGED <<alive, locked, file, raced, takes>>

TryOpen(p) ==
  /\ At(p, "try") /\ UseOExcl
  /\ IF owner = Nobody
       THEN MakeFile(p, "empty") /\ Goto(p, "write")
       ELSE UNCHANGED file /\ Goto(p, "read")
  /\ UNCHANGED <<alive, locked, ret, wait, raced, takes>>

OpenFails(p) ==
  /\ At(p, "try") /\ UseOExcl /\ "open" \in Failing
  /\ Return(p, "error")
  /\ UNCHANGED <<alive, locked, file, raced, takes>>

\* The descriptor may refer to a file that was unlinked meanwhile.
WritePid(p) ==
  /\ At(p, "write")
  /\ text' = IF IsLinkOf(p) THEN "pid" ELSE text
  /\ Goto(p, "node")
  /\ UNCHANGED <<alive, locked, ret, owner, linked, wait, raced, takes>>

\* Bug: the node name is not written.
WriteNodeSkipped(p) ==
  /\ At(p, "node")
  /\ locked' = [locked EXCEPT ![p] = TRUE]
  /\ Return(p, "ok")
  /\ UNCHANGED <<alive, file, raced, takes>>

WriteNode(p) ==
  /\ At(p, "node")
  /\ text' = IF IsLinkOf(p) THEN "full" ELSE text
  /\ locked' = [locked EXCEPT ![p] = TRUE]
  /\ Return(p, "ok")
  /\ UNCHANGED <<alive, owner, linked, raced, takes>>

\* Bug: the error path leaves the new lock file behind.
WriteFailsKeepsFile(p) ==
  /\ At(p, "write") \/ At(p, "node")
  /\ "write" \in Failing
  /\ Return(p, "error")
  /\ UNCHANGED <<alive, locked, file, raced, takes>>

WriteFails(p) ==
  /\ At(p, "write") \/ At(p, "node")
  /\ "write" \in Failing
  /\ UnlinkFile
  /\ Return(p, "error")
  /\ UNCHANGED <<alive, locked, raced, takes>>

\* read_lockfile at the end of an attempt: the file disappeared, is too
\* short, is our own, or belongs to somebody else.
ReadLockfile(p) ==
  /\ At(p, "read")
  /\ \/ /\ owner = Nobody
        /\ Goto(p, "try")
        /\ UNCHANGED <<locked, ret, wait>>
     \/ /\ owner # Nobody /\ ~Readable
        /\ Return(p, "error")
        /\ UNCHANGED locked
     \/ /\ IsOurs(p)
        /\ locked' = [locked EXCEPT ![p] = TRUE]
        /\ Return(p, "ok")
     \/ /\ Readable /\ ~IsOurs(p)
        /\ seen' = [seen EXCEPT ![p] = PidOf[owner]]
        /\ Goto(p, IF SameNode(p) THEN "probe" ELSE "wait")
        /\ UNCHANGED <<locked, ret, timeout, wtime, lastpid>>
  /\ UNCHANGED <<alive, file, raced, takes>>

ReadFails(p) ==
  /\ At(p, "read") /\ "read" \in Failing
  /\ Return(p, "error")
  /\ UNCHANGED <<alive, locked, file, raced, takes>>

\* Bug: a stale lock file is never recognised.
ProbeNever(p) ==
  /\ At(p, "probe")
  /\ Goto(p, "wait")
  /\ UNCHANGED <<alive, locked, ret, file, wait, raced, takes>>

\* kill (pid, 0)
Probe(p) ==
  /\ At(p, "probe")
  /\ Goto(p, IF NoSuchProcess(p, seen[p]) THEN "steal" ELSE "wait")
  /\ UNCHANGED <<alive, locked, ret, file, wait, raced, takes>>

\* "removing stale lockfile": whatever file is there by now.
Steal(p) ==
  /\ At(p, "steal")
  /\ UnlinkFile
  /\ raced' = (raced \/ owner \in alive)
  /\ Goto(p, "try")
  /\ UNCHANGED <<alive, locked, ret, wait, takes>>

\* The documented retry intervals, in ms.
Intervals == {50, 100, 200, 400, 800, 2000, 4000, 8000}

\* Bug: 800 is doubled like the smaller intervals.
NextWaitDoubling(w, ownerchanged) ==
  IF w = 0 \/ ownerchanged THEN 50
  ELSE IF w < 8000 THEN 2 * w ELSE w

\* wtime before it is cut down to the remaining timeout.
NextWait(w, ownerchanged) ==
  IF w = 0 \/ ownerchanged THEN 50
  ELSE IF w = 800 THEN 2000
  ELSE IF w < 8000 THEN 2 * w ELSE w

\* A positive timeout bounds the sleep; -1 does not.
Clip(w, left) == IF left > 0 /\ w > left THEN left ELSE w

\* lastpid is set once per call and never again.
Backoff(p) ==
  /\ At(p, "wait") /\ timeout[p] # 0
  /\ LET last == IF lastpid[p] = NoPid THEN seen[p] ELSE lastpid[p]
         w    == Clip(NextWait(wtime[p], seen[p] # last), timeout[p])
     IN /\ lastpid' = [lastpid EXCEPT ![p] = last]
        /\ wtime' = [wtime EXCEPT ![p] = w]
        /\ timeout' = [timeout EXCEPT ![p] = IF @ > 0 THEN @ - w ELSE @]
  /\ Goto(p, "try")
  /\ UNCHANGED <<alive, locked, ret, file, seen, raced, takes>>

GiveUp(p) ==
  /\ At(p, "wait") /\ timeout[p] = 0
  /\ Return(p, "eacces")
  /\ UNCHANGED <<alive, locked, file, raced, takes>>

-----------------------------------------------------------------------------
(* dotlock_release *)

\* read_lockfile of dotlock_release_unix; a handle that is not locked or
\* is disabled returns 0 before.
Release(p) ==
  /\ At(p, "idle") /\ locked[p]
  /\ \/ IsOurs(p) /\ Goto(p, "unlink") /\ UNCHANGED <<ret, wait>>
     \/ (~IsOurs(p) \/ "read" \in Failing) /\ Return(p, "error")
  /\ UNCHANGED <<alive, locked, file, raced, takes>>

\* unlink (h->lockname); it fails when somebody else removed the file.
ReleaseUnlink(p) ==
  /\ At(p, "unlink") /\ owner # Nobody
  /\ UnlinkFile
  /\ locked' = [locked EXCEPT ![p] = FALSE]
  /\ Return(p, "ok")
  /\ UNCHANGED <<alive, raced, takes>>

ReleaseFails(p) ==
  /\ At(p, "unlink") /\ (owner = Nobody \/ "unlink" \in Failing)
  /\ Return(p, "error")
  /\ UNCHANGED <<alive, locked, file, raced, takes>>

-----------------------------------------------------------------------------
(* The end of a handle and of a process *)

\* Bug: the lock file is removed whether or not the handle is locked.
RemoveFilesAlways(p) == UnlinkFile

\* dotlock_destroy_unix: the lock file goes if the handle is locked, the
\* temporary file goes in any case.
RemoveFiles(p) ==
  IF locked[p] THEN UnlinkFile
  ELSE linked' = (linked /\ owner # p) /\ UNCHANGED <<owner, text>>

Destroy(p) ==
  /\ At(p, "idle")
  /\ RemoveFiles(p)
  /\ locked' = [locked EXCEPT ![p] = FALSE]
  /\ Goto(p, "none")
  /\ UNCHANGED <<alive, ret, wait, raced, takes>>

\* exit: the atexit handler dotlock_remove_lockfiles destroys the handle.
Exit(p) ==
  /\ At(p, "none") \/ At(p, "idle")
  /\ RemoveFiles(p)
  /\ locked' = [locked EXCEPT ![p] = FALSE]
  /\ Goto(p, "none")
  /\ alive' = alive \ {p}
  /\ UNCHANGED <<ret, wait, raced, takes>>

\* The process is killed at any point; the files stay, and nobody has the
\* temporary file open any more.
Crash(p) ==
  /\ Crashes /\ p \in alive
  /\ alive' = alive \ {p}
  /\ locked' = [locked EXCEPT ![p] = FALSE]
  /\ Goto(p, "none")
  /\ DropLocals(p)
  /\ linked' = (linked /\ owner # p)
  /\ UNCHANGED <<ret, owner, text, raced, takes>>

\* A new process gets the pid of a dead one.
Reuse(p) ==
  /\ PidReuse /\ p \in Procs \ alive
  /\ alive' = alive \cup {p}
  /\ UNCHANGED <<pc, locked, ret, file, wait, raced, takes>>

-----------------------------------------------------------------------------

\* One step of a call that is under way.
Step(p) ==
  \/ TryLink(p) \/ StatTemp(p) \/ StatFails(p)
  \/ TryOpen(p) \/ OpenFails(p)
  \/ WritePid(p) \/ WriteNode(p) \/ WriteFails(p)
  \/ ReadLockfile(p) \/ ReadFails(p) \/ Probe(p) \/ Steal(p)
  \/ Backoff(p) \/ GiveUp(p)
  \/ ReleaseUnlink(p) \/ ReleaseFails(p)

Next ==
  \E p \in Procs :
    \/ Create(p) \/ (\E t \in Timeouts : Take(p, t)) \/ Step(p)
    \/ Release(p) \/ Destroy(p) \/ Exit(p) \/ Crash(p) \/ Reuse(p)

Spec == Init /\ [][Next]_vars

\* The kernel schedules every process, and a process that is not inside a
\* call ends some day, which releases what it took.
Fairness == \A p \in Procs : WF_vars(Step(p)) /\ WF_vars(Exit(p))

FairSpec == Spec /\ Fairness

-----------------------------------------------------------------------------
(* Properties *)

\* As long as no stale-lock removal hit the file of a running process, the
\* lock file of a process whose handle says "locked" exists, is the
\* process's own and is complete, so that every contender can read in it
\* whom it waits for.  This is what dotlock_take, dotlock_release and
\* dotlock_destroy rely on when they unlink the file by its name.
HolderOwnsFile ==
  ~raced => \A p \in Procs : locked[p] => owner = p /\ text = "full"

\* Two processes never both hold the lock.  The code does not guarantee
\* this: see the run dotlock_race.
MutualExclusion == \A p, q \in Procs : locked[p] /\ locked[q] => p = q

\* dotlock_take_unix sleeps for one of its documented intervals, or for
\* exactly what was left of the caller's timeout, and never for longer than
\* that: only the -1 of the caller is negative.
BackoffSchedule ==
  \A p \in Procs : /\ wtime[p] \in Intervals \cup {0} \/ timeout[p] = 0
                   /\ timeout[p] >= -1

\* A lock file made with O_EXCL belongs to a handle that is locked or to a
\* call that is under way: every way out of dotlock_take_unix that does not
\* lock the handle, and every dotlock_release and dotlock_destroy, cleans
\* up.  Only a killed process leaves its file behind.  With link(2) a
\* failing stat may leave one, as the source says.
NoOrphanFile ==
  UseOExcl /\ linked => locked[owner] \/ pc[owner] \in {"write", "node"}

\* Every dotlock_take returns: no contender is left asleep by a release, a
\* crash of the holder or a stale-lock removal on its node.
TakeReturns == \A p \in Procs : pc[p] \in TakeLabels ~> pc[p] \notin TakeLabels

\* dotlock.c implements the lock service of module LockService.
Service == INSTANCE LockService
             WITH holders <- {p \in Procs : locked[p]}, broken <- raced

\* Every step of dotlock.c is a step of the lock service, or invisible: a
\* lock changes hands only through Acquire and Drop, and never to a second
\* holder before a stale-lock removal hit a running process.
ImplementsLockService == Service!Spec

=============================================================================
