--------------------------- MODULE DotLockProofs ---------------------------
(***************************************************************************)
(* DotLock keeps its types, its retry schedule and the tie between a       *)
(* locked handle and the lock file, and implements LockService: for every  *)
(* set of processes, file system and choice of failures.                   *)
(***************************************************************************)
EXTENDS DotLock, TLAPS

\* A handle is locked only between calls or inside dotlock_release, and only
\* while its process runs; every dotlock_take starts with wtime = 0.
HandleState ==
  \A p \in Procs :
    /\ pc[p] \in TakeLabels \cup {"none"} => ~locked[p]
    /\ pc[p] = "unlink" => locked[p]
    /\ pc[p] \notin TakeLabels => wtime[p] = 0
    /\ p \notin alive => pc[p] = "none"

\* link(2) publishes a complete file; only O_EXCL files are seen half written.
FileState ==
  /\ HardLinks => text = "full"
  /\ \A p \in Procs : /\ pc[p] \in {"write", "node"} => ~HardLinks
                      /\ pc[p] = "stat" => HardLinks

\* The writer of an O_EXCL file still writes to the file of that name.
WriterOwnsFile ==
  ~raced => \A p \in Procs : pc[p] \in {"write", "node"} => owner = p /\ linked

\* Inductive: HolderOwnsFile alone is not, since a step that locks a handle
\* relies on what the earlier steps of the same call left in the file system.
IndInv ==
  /\ TypeOK
  /\ BackoffSchedule
  /\ HandleState
  /\ FileState
  /\ WriterOwnsFile
  /\ HolderOwnsFile

\* Every action keeps the inductive invariant; for each: the types, what holds of
\* the process's own call, and what holds of the shared lock file.
LEMMA IndInvStep == IndInv /\ [Next]_vars => IndInv'
<1> SUFFICES ASSUME IndInv, [Next]_vars PROVE IndInv'
  OBVIOUS
<1> USE ProcsAssumption DEF IndInv, Labels, TakeLabels
<1>1. ASSUME NEW p \in Procs, Create(p) PROVE IndInv'
  <2>1. TypeOK'
    BY <1>1 DEF Create, TypeOK, At, Goto, file, wait
  <2>2. BackoffSchedule' /\ HandleState'
    BY <1>1 DEF Create, TypeOK, BackoffSchedule, HandleState, At, Goto, file,
       wait
  <2>3. FileState' /\ WriterOwnsFile' /\ HolderOwnsFile'
    BY <1>1 DEF Create, TypeOK, HandleState, FileState, WriterOwnsFile,
       HolderOwnsFile, At, Goto, file, wait
  <2> QED
    BY <2>1, <2>2, <2>3
<1>2. ASSUME NEW p \in Procs, \E t \in Timeouts : Take(p, t) PROVE IndInv'
  <2>1. TypeOK'
    <3>1. PICK t \in Timeouts : Take(p, t)
      BY <1>2
    <3>2. takes' \in [Procs -> 0..MaxTakes]
      BY <3>1 DEF Take, TypeOK
    <3>3. CASE Disabled(p) \/ locked[p]
      BY <3>1, <3>2, <3>3 DEF Take, TypeOK, Return, Goto, DropLocals, file
    <3>4. CASE ~(Disabled(p) \/ locked[p])
      BY <3>1, <3>2, <3>4 DEF Take, TypeOK, Goto, file
    <3> QED
      BY <3>3, <3>4
  <2>2. BackoffSchedule' /\ HandleState'
    BY <1>2 DEF Take, TypeOK, BackoffSchedule, HandleState, At, Goto, Return,
       DropLocals, file
  <2>3. FileState' /\ WriterOwnsFile' /\ HolderOwnsFile'
    BY <1>2 DEF Take, TypeOK, HandleState, FileState, WriterOwnsFile,
       HolderOwnsFile, At, Goto, Return, DropLocals, file
  <2> QED
    BY <2>1, <2>2, <2>3
<1>3. ASSUME NEW p \in Procs, TryLink(p) PROVE IndInv'
  <2>1. TypeOK'
    BY <1>3 DEF TryLink, TypeOK, At, Goto, MakeFile, file, wait
  <2>2. BackoffSchedule' /\ HandleState'
    BY <1>3 DEF TryLink, TypeOK, BackoffSchedule, HandleState, At, Goto,
       MakeFile, file, wait
  <2>3. FileState' /\ WriterOwnsFile' /\ HolderOwnsFile'
    BY <1>3 DEF TryLink, UseOExcl, TypeOK, HandleState, FileState,
       WriterOwnsFile,
       HolderOwnsFile, At, Goto, MakeFile, file, wait
  <2> QED
    BY <2>1, <2>2, <2>3
<1>4. ASSUME NEW p \in Procs, StatTemp(p) PROVE IndInv'
  <2>1. TypeOK'
    <3>1. CASE IsLinkOf(p)
      <4>1. /\ locked' = [locked EXCEPT ![p] = TRUE] /\ Return(p, "ok")
            /\ UNCHANGED <<alive, owner, linked, text, raced, takes>>
        BY <1>4, <3>1 DEF StatTemp, file
      <4> QED
        BY <4>1 DEF TypeOK, Goto, Return, DropLocals
    <3>2. CASE ~IsLinkOf(p)
      BY <1>4, <3>2 DEF StatTemp, TypeOK, Goto, file, wait
    <3> QED
      BY <3>1, <3>2
  <2>2. BackoffSchedule' /\ HandleState'
    BY <1>4 DEF StatTemp, TypeOK, BackoffSchedule, HandleState, At, Goto,
       Return, DropLocals, IsLinkOf, file, wait
  <2>3. FileState' /\ WriterOwnsFile' /\ HolderOwnsFile'
    BY <1>4 DEF StatTemp, TypeOK, HandleState, FileState, WriterOwnsFile,
       HolderOwnsFile, At, Goto, Return, DropLocals, IsLinkOf, file, wait
  <2> QED
    BY <2>1, <2>2, <2>3
<1>5. ASSUME NEW p \in Procs, StatFails(p) PROVE IndInv'
  <2>1. TypeOK'
    BY <1>5 DEF StatFails, TypeOK, At, Goto, Return, DropLocals, file
  <2>2. BackoffSchedule' /\ HandleState'
    BY <1>5 DEF StatFails, TypeOK, BackoffSchedule, HandleState, At, Goto,
       Return, DropLocals, file
  <2>3. FileState' /\ WriterOwnsFile' /\ HolderOwnsFile'
    BY <1>5 DEF StatFails, TypeOK, HandleState, FileState, WriterOwnsFile,
       HolderOwnsFile, At, Goto, Return, DropLocals, file
  <2> QED
    BY <2>1, <2>2, <2>3
<1>6. ASSUME NEW p \in Procs, TryOpen(p) PROVE IndInv'
  <2>1. TypeOK'
    BY <1>6 DEF TryOpen, TypeOK, At, Goto, MakeFile, file, wait
  <2>2. BackoffSchedule' /\ HandleState'
    BY <1>6 DEF TryOpen, TypeOK, BackoffSchedule, HandleState, At, Goto,
       MakeFile, file, wait
  <2>3. FileState' /\ WriterOwnsFile' /\ HolderOwnsFile'
    BY <1>6 DEF TryOpen, UseOExcl, TypeOK, HandleState, FileState,
       WriterOwnsFile,
       HolderOwnsFile, At, Goto, MakeFile, file, wait
  <2> QED
    BY <2>1, <2>2, <2>3
<1>7. ASSUME NEW p \in Procs, OpenFails(p) PROVE IndInv'
  <2>1. TypeOK'
    BY <1>7 DEF OpenFails, TypeOK, At, Goto, Return, DropLocals, file
  <2>2. BackoffSchedule' /\ HandleState'
    BY <1>7 DEF OpenFails, TypeOK, BackoffSchedule, HandleState, At, Goto,
       Return, DropLocals, file
  <2>3. FileState' /\ WriterOwnsFile' /\ HolderOwnsFile'
    BY <1>7 DEF OpenFails, TypeOK, HandleState, FileState, WriterOwnsFile,
       HolderOwnsFile, At, Goto, Return, DropLocals, file
  <2> QED
    BY <2>1, <2>2, <2>3
<1>8. ASSUME NEW p \in Procs, WritePid(p) PROVE IndInv'
  <2>1. TypeOK'
    BY <1>8 DEF WritePid, TypeOK, At, Goto, IsLinkOf, wait
  <2>2. BackoffSchedule' /\ HandleState'
    BY <1>8 DEF WritePid, TypeOK, BackoffSchedule, HandleState, At, Goto,
       IsLinkOf, wait
  <2>3. FileState' /\ WriterOwnsFile' /\ HolderOwnsFile'
    BY <1>8 DEF WritePid, TypeOK, HandleState, FileState, WriterOwnsFile,
       HolderOwnsFile, At, Goto, IsLinkOf, wait
  <2> QED
    BY <2>1, <2>2, <2>3
<1>9. ASSUME NEW p \in Procs, WriteNode(p) PROVE IndInv'
  <2>1. TypeOK'
    BY <1>9 DEF WriteNode, TypeOK, At, Goto, Return, DropLocals, IsLinkOf
  <2>2. BackoffSchedule' /\ HandleState'
    BY <1>9 DEF WriteNode, TypeOK, BackoffSchedule, HandleState, At, Goto,
       Return, DropLocals, IsLinkOf
  <2>3. FileState' /\ WriterOwnsFile' /\ HolderOwnsFile'
    BY <1>9 DEF WriteNode, TypeOK, HandleState, FileState, WriterOwnsFile,
       HolderOwnsFile, At, Goto, Return, DropLocals, IsLinkOf
  <2> QED
    BY <2>1, <2>2, <2>3
<1>10. ASSUME NEW p \in Procs, WriteFails(p) PROVE IndInv'
  <2>1. TypeOK'
    BY <1>10 DEF WriteFails, TypeOK, At, Goto, Return, DropLocals, UnlinkFile
  <2>2. BackoffSchedule' /\ HandleState'
    BY <1>10 DEF WriteFails, TypeOK, BackoffSchedule, HandleState, At, Goto,
       Return, DropLocals, UnlinkFile
  <2>3. FileState' /\ WriterOwnsFile' /\ HolderOwnsFile'
    BY <1>10 DEF WriteFails, TypeOK, HandleState, FileState, WriterOwnsFile,
       HolderOwnsFile, At, Goto, Return, DropLocals, UnlinkFile
  <2> QED
    BY <2>1, <2>2, <2>3
<1>11. ASSUME NEW p \in Procs, ReadLockfile(p) PROVE IndInv'
  <2>1. TypeOK'
    <3>1. PidOf[owner] \in Pids \/ owner = Nobody
      BY DEF TypeOK, Pids
    <3>2. CASE Readable /\ ~IsOurs(p)
      BY <1>11, <3>1, <3>2 DEF ReadLockfile, TypeOK, Goto, Readable, file
    <3>3. CASE IsOurs(p)
      <4>1. /\ locked' = [locked EXCEPT ![p] = TRUE] /\ Return(p, "ok")
            /\ UNCHANGED <<alive, owner, linked, text, raced, takes>>
        BY <1>11, <3>3 DEF ReadLockfile, IsOurs, Readable, file
      <4> QED
        BY <4>1 DEF TypeOK, Goto, Return, DropLocals
    <3>4. CASE ~Readable
      BY <1>11, <3>4, SMTT(30) DEF ReadLockfile, TypeOK, Goto, Return,
         DropLocals,
         IsOurs,
         Readable, file, wait
    <3> QED
      BY <3>2, <3>3, <3>4 DEF IsOurs
  <2>2. BackoffSchedule' /\ HandleState'
    BY <1>11 DEF ReadLockfile, TypeOK, BackoffSchedule, HandleState, At, Goto,
       Return, DropLocals, Readable, SameNode, IsOurs, file, wait
  <2>3. FileState' /\ WriterOwnsFile' /\ HolderOwnsFile'
    BY <1>11 DEF ReadLockfile, TypeOK, HandleState, FileState, WriterOwnsFile,
       HolderOwnsFile, At, Goto, Return, DropLocals, Readable, SameNode,
       IsOurs, file, wait
  <2> QED
    BY <2>1, <2>2, <2>3
<1>12. ASSUME NEW p \in Procs, ReadFails(p) PROVE IndInv'
  <2>1. TypeOK'
    BY <1>12 DEF ReadFails, TypeOK, At, Goto, Return, DropLocals, file
  <2>2. BackoffSchedule' /\ HandleState'
    BY <1>12 DEF ReadFails, TypeOK, BackoffSchedule, HandleState, At, Goto,
       Return, DropLocals, file
  <2>3. FileState' /\ WriterOwnsFile' /\ HolderOwnsFile'
    BY <1>12 DEF ReadFails, TypeOK, HandleState, FileState, WriterOwnsFile,
       HolderOwnsFile, At, Goto, Return, DropLocals, file
  <2> QED
    BY <2>1, <2>2, <2>3
<1>13. ASSUME NEW p \in Procs, Probe(p) PROVE IndInv'
  <2>1. TypeOK'
    BY <1>13 DEF Probe, TypeOK, At, Goto, file, wait
  <2>2. BackoffSchedule' /\ HandleState'
    BY <1>13 DEF Probe, TypeOK, BackoffSchedule, HandleState, At, Goto, file,
       wait
  <2>3. FileState' /\ WriterOwnsFile' /\ HolderOwnsFile'
    BY <1>13 DEF Probe, TypeOK, HandleState, FileState, WriterOwnsFile,
       HolderOwnsFile, At, Goto, file, wait
  <2> QED
    BY <2>1, <2>2, <2>3
<1>14. ASSUME NEW p \in Procs, Steal(p) PROVE IndInv'
  <2>1. TypeOK'
    BY <1>14 DEF Steal, TypeOK, At, Goto, UnlinkFile, wait
  <2>2. BackoffSchedule' /\ HandleState'
    BY <1>14 DEF Steal, TypeOK, BackoffSchedule, HandleState, At, Goto,
       UnlinkFile, wait
  <2>3. FileState' /\ WriterOwnsFile' /\ HolderOwnsFile'
    BY <1>14 DEF Steal, TypeOK, HandleState, FileState, WriterOwnsFile,
       HolderOwnsFile, At, Goto, UnlinkFile, wait
  <2> QED
    BY <2>1, <2>2, <2>3
<1>15. ASSUME NEW p \in Procs, Backoff(p) PROVE IndInv'
  <2>1. TypeOK'
    BY <1>15 DEF Backoff, TypeOK, At, Goto, file, wait, NextWait, Clip
  <2>2. BackoffSchedule' /\ HandleState'
    <3> DEFINE last == IF lastpid[p] = NoPid THEN seen[p] ELSE lastpid[p]
               n == NextWait(wtime[p], seen[p] # last)
               w == Clip(n, timeout[p])
    <3>1. n \in Intervals \/ timeout[p] = 0
      BY DEF TypeOK, BackoffSchedule, NextWait, Intervals
    <3>2. wtime' = [wtime EXCEPT ![p] = w]
      BY <1>15 DEF Backoff
    <3>3. timeout' = [timeout EXCEPT ![p] = IF @ > 0 THEN @ - w ELSE @]
      BY <1>15 DEF Backoff
    <3>4. n \in Nat
      BY DEF TypeOK, NextWait
    <3>5. w = n \/ timeout'[p] = 0
      BY <3>3, <3>4 DEF TypeOK, Clip
    <3>6. BackoffSchedule'
      <4>1. SUFFICES ASSUME NEW q \in Procs
                     PROVE  /\ wtime'[q] \in Intervals \cup {0}
                               \/ timeout'[q] = 0
                            /\ timeout'[q] >= -1
        BY DEF BackoffSchedule
      <4>2. timeout'[q] >= -1
        BY <2>1 DEF TypeOK
      <4>3. wtime'[q] \in Intervals \cup {0} \/ timeout'[q] = 0
        BY <1>15, <3>1, <3>2, <3>3, <3>5 DEF Backoff, At, TypeOK,
           BackoffSchedule
      <4> QED
        BY <4>2, <4>3
    <3>7. HandleState'
      BY <1>15 DEF Backoff, At, Goto, TypeOK, HandleState
    <3> QED
      BY <3>6, <3>7
  <2>3. FileState' /\ WriterOwnsFile' /\ HolderOwnsFile'
    BY <1>15 DEF Backoff, TypeOK, HandleState, FileState, WriterOwnsFile,
       HolderOwnsFile, At, Goto, file, wait, NextWait, Clip
  <2> QED
    BY <2>1, <2>2, <2>3
<1>16. ASSUME NEW p \in Procs, GiveUp(p) PROVE IndInv'
  <2>1. TypeOK'
    BY <1>16 DEF GiveUp, TypeOK, At, Goto, Return, DropLocals, file, wait
  <2>2. BackoffSchedule' /\ HandleState'
    BY <1>16 DEF GiveUp, TypeOK, BackoffSchedule, HandleState, At, Goto,
       Return, DropLocals, file, wait
  <2>3. FileState' /\ WriterOwnsFile' /\ HolderOwnsFile'
    BY <1>16 DEF GiveUp, TypeOK, HandleState, FileState, WriterOwnsFile,
       HolderOwnsFile, At, Goto, Return, DropLocals, file, wait
  <2> QED
    BY <2>1, <2>2, <2>3
<1>17. ASSUME NEW p \in Procs, ReleaseUnlink(p) PROVE IndInv'
  <2>1. TypeOK'
    BY <1>17 DEF ReleaseUnlink, TypeOK, At, Goto, Return, DropLocals,
       UnlinkFile
  <2>2. BackoffSchedule' /\ HandleState'
    BY <1>17 DEF ReleaseUnlink, TypeOK, BackoffSchedule, HandleState, At,
       Goto, Return, DropLocals, UnlinkFile
  <2>3. FileState' /\ WriterOwnsFile' /\ HolderOwnsFile'
    BY <1>17 DEF ReleaseUnlink, TypeOK, HandleState, FileState,
       WriterOwnsFile, HolderOwnsFile, At, Goto, Return, DropLocals, UnlinkFile
  <2> QED
    BY <2>1, <2>2, <2>3
<1>18. ASSUME NEW p \in Procs, ReleaseFails(p) PROVE IndInv'
  <2>1. TypeOK'
    BY <1>18 DEF ReleaseFails, TypeOK, At, Goto, Return, DropLocals, file
  <2>2. BackoffSchedule' /\ HandleState'
    BY <1>18 DEF ReleaseFails, TypeOK, BackoffSchedule, HandleState, At, Goto,
       Return, DropLocals, file
  <2>3. FileState' /\ WriterOwnsFile' /\ HolderOwnsFile'
    BY <1>18 DEF ReleaseFails, TypeOK, HandleState, FileState, WriterOwnsFile,
       HolderOwnsFile, At, Goto, Return, DropLocals, file
  <2> QED
    BY <2>1, <2>2, <2>3
<1>19. ASSUME NEW p \in Procs, Release(p) PROVE IndInv'
  <2>1. TypeOK'
    BY <1>19 DEF Release, TypeOK, At, Goto, Return, DropLocals, Readable,
       SameNode, IsOurs, file, wait
  <2>2. BackoffSchedule' /\ HandleState'
    BY <1>19 DEF Release, TypeOK, BackoffSchedule, HandleState, At, Goto,
       Return, DropLocals, Readable, SameNode, IsOurs, file, wait
  <2>3. FileState' /\ WriterOwnsFile' /\ HolderOwnsFile'
    BY <1>19 DEF Release, TypeOK, HandleState, FileState, WriterOwnsFile,
       HolderOwnsFile, At, Goto, Return, DropLocals, Readable, SameNode,
       IsOurs, file, wait
  <2> QED
    BY <2>1, <2>2, <2>3
<1>20. ASSUME NEW p \in Procs, Destroy(p) PROVE IndInv'
  <2>1. TypeOK'
    BY <1>20 DEF Destroy, TypeOK, At, Goto, UnlinkFile, RemoveFiles, wait
  <2>2. BackoffSchedule' /\ HandleState'
    BY <1>20 DEF Destroy, TypeOK, BackoffSchedule, HandleState, At, Goto,
       UnlinkFile, RemoveFiles, wait
  <2>3. FileState' /\ WriterOwnsFile' /\ HolderOwnsFile'
    BY <1>20 DEF Destroy, TypeOK, HandleState, FileState, WriterOwnsFile,
       HolderOwnsFile, At, Goto, UnlinkFile, RemoveFiles, wait
  <2> QED
    BY <2>1, <2>2, <2>3
<1>21. ASSUME NEW p \in Procs, Exit(p) PROVE IndInv'
  <2>1. TypeOK'
    BY <1>21 DEF Exit, TypeOK, At, Goto, UnlinkFile, RemoveFiles, wait
  <2>2. BackoffSchedule' /\ HandleState'
    BY <1>21 DEF Exit, TypeOK, BackoffSchedule, HandleState, At, Goto,
       UnlinkFile, RemoveFiles, wait
  <2>3. FileState' /\ WriterOwnsFile' /\ HolderOwnsFile'
    BY <1>21 DEF Exit, TypeOK, HandleState, FileState, WriterOwnsFile,
       HolderOwnsFile, At, Goto, UnlinkFile, RemoveFiles, wait
  <2> QED
    BY <2>1, <2>2, <2>3
<1>22. ASSUME NEW p \in Procs, Crash(p) PROVE IndInv'
  <2>1. TypeOK'
    BY <1>22 DEF Crash, TypeOK, Goto, DropLocals
  <2>2. BackoffSchedule' /\ HandleState'
    BY <1>22 DEF Crash, TypeOK, BackoffSchedule, HandleState, Goto, DropLocals
  <2>3. FileState' /\ WriterOwnsFile' /\ HolderOwnsFile'
    BY <1>22 DEF Crash, TypeOK, HandleState, FileState, WriterOwnsFile,
       HolderOwnsFile, Goto, DropLocals
  <2> QED
    BY <2>1, <2>2, <2>3
<1>23. ASSUME NEW p \in Procs, Reuse(p) PROVE IndInv'
  <2>1. TypeOK'
    BY <1>23 DEF Reuse, TypeOK, file, wait
  <2>2. BackoffSchedule' /\ HandleState'
    BY <1>23 DEF Reuse, TypeOK, BackoffSchedule, HandleState, file, wait
  <2>3. FileState' /\ WriterOwnsFile' /\ HolderOwnsFile'
    BY <1>23 DEF Reuse, TypeOK, HandleState, FileState, WriterOwnsFile,
       HolderOwnsFile, file, wait
  <2> QED
    BY <2>1, <2>2, <2>3
<1>24. CASE UNCHANGED vars
  BY <1>24 DEF vars, file, wait, TypeOK, BackoffSchedule, HandleState,
     FileState, WriterOwnsFile, HolderOwnsFile
<1> QED
  BY <1>1, <1>2, <1>3, <1>4, <1>5, <1>6, <1>7, <1>8, <1>9, <1>10, <1>11,
     <1>12, <1>13, <1>14, <1>15, <1>16, <1>17, <1>18, <1>19, <1>20, <1>21,
     <1>22, <1>23, <1>24 DEF Next, Step

\* No process has a handle and there is no lock file at the start.
LEMMA IndInvInit == Init => IndInv
<1> SUFFICES ASSUME Init PROVE IndInv
  OBVIOUS
<1>1. TypeOK
  <2>1. takes \in [Procs -> 0..MaxTakes] /\ timeout \in [Procs -> Nat \cup {-1}]
    BY ProcsAssumption DEF Init
  <2>2. locked \in [Procs -> BOOLEAN] /\ linked \in BOOLEAN /\ raced \in BOOLEAN
    BY DEF Init
  <2>3. pc \in [Procs -> Labels] /\ alive \subseteq Procs
    BY DEF Init, Labels
  <2> QED
    BY <2>1, <2>2, <2>3 DEF Init, TypeOK
<1>2. BackoffSchedule
  <2>1. \A p \in Procs : wtime[p] \in Intervals \cup {0} \/ timeout[p] = 0
    BY DEF Init
  <2>2. \A p \in Procs : timeout[p] >= -1
    BY <1>1 DEF TypeOK
  <2> QED
    BY <2>1, <2>2 DEF BackoffSchedule
<1>3. HandleState
  BY DEF Init, HandleState, TakeLabels
<1>4. FileState /\ WriterOwnsFile /\ HolderOwnsFile
  BY DEF Init, FileState, WriterOwnsFile, HolderOwnsFile
<1> QED
  BY <1>1, <1>2, <1>3, <1>4 DEF IndInv

\* The inductive invariant holds in every reachable state of dotlock.c's model.
LEMMA IndInvHolds == Spec => []IndInv
  BY IndInvInit, IndInvStep, PTL DEF Spec

-----------------------------------------------------------------------------

\* Every variable of the model, the remaining timeout and the retry interval
\* of dotlock_take_unix included, keeps its type in all behaviours.
THEOREM TypeCorrect == Spec => []TypeOK
  BY IndInvHolds, PTL DEF IndInv

\* The sleeps of dotlock_take_unix follow the documented schedule for every
\* timeout a caller may pass.
THEOREM ScheduleKept == Spec => []BackoffSchedule
  BY IndInvHolds, PTL DEF IndInv

\* Until a stale-lock removal hits the file of a running process, a locked
\* handle stands for a complete lock file of its own process, whatever
\* crashes, reuse of pids and failing system calls do.
THEOREM HoldersOwnTheirFile == Spec => []HolderOwnsFile
  BY IndInvHolds, PTL DEF IndInv

-----------------------------------------------------------------------------
(* What dotlock.c leaves behind *)

\* The lock file, when it is the one of a handle, is that of a process, and
\* is accounted for.
FileAccounted == (linked => owner \in Procs) /\ NoOrphanFile

\* A step that gives a file up unlinks it: one step per action, each about
\* the process that may be the owner of the file.
LEMMA FileAccountedStep ==
  IndInv /\ FileAccounted /\ [Next]_vars => FileAccounted'
<1> SUFFICES ASSUME IndInv, FileAccounted, [Next]_vars
             PROVE  FileAccounted'
  OBVIOUS
<1> USE ProcsAssumption DEF IndInv, FileAccounted, NoOrphanFile, TypeOK
<1>1. ASSUME NEW p \in Procs, Create(p) PROVE FileAccounted'
  BY <1>1 DEF Create, At, Goto, file
<1>2. ASSUME NEW p \in Procs, \E t \in Timeouts : Take(p, t) PROVE FileAccounted'
  BY <1>2 DEF Take, At, Goto, Return, file
<1>3. ASSUME NEW p \in Procs, TryLink(p) PROVE FileAccounted'
  BY <1>3 DEF TryLink, At, Goto, UseOExcl, MakeFile, file
<1>4. ASSUME NEW p \in Procs, StatTemp(p) PROVE FileAccounted'
  BY <1>4 DEF StatTemp, At, Goto, Return, FileState, UseOExcl, file
<1>5. ASSUME NEW p \in Procs, StatFails(p) PROVE FileAccounted'
  BY <1>5 DEF StatFails, At, Return, FileState, UseOExcl, file
<1>6. ASSUME NEW p \in Procs, TryOpen(p) PROVE FileAccounted'
  BY <1>6 DEF TryOpen, At, Goto, MakeFile, file
<1>7. ASSUME NEW p \in Procs, OpenFails(p) PROVE FileAccounted'
  BY <1>7 DEF OpenFails, At, Goto, Return, file
<1>8. ASSUME NEW p \in Procs, WritePid(p) PROVE FileAccounted'
  BY <1>8 DEF WritePid, At, Goto
<1>9. ASSUME NEW p \in Procs, WriteNode(p) PROVE FileAccounted'
  BY <1>9 DEF WriteNode, At, Goto, Return
<1>10. ASSUME NEW p \in Procs, WriteFails(p) PROVE FileAccounted'
  BY <1>10 DEF WriteFails, UnlinkFile
<1>11. ASSUME NEW p \in Procs, ReadLockfile(p) PROVE FileAccounted'
  BY <1>11 DEF ReadLockfile, At, Goto, Return, file
<1>12. ASSUME NEW p \in Procs, ReadFails(p) PROVE FileAccounted'
  BY <1>12 DEF ReadFails, At, Goto, Return, file
<1>13. ASSUME NEW p \in Procs, Probe(p) PROVE FileAccounted'
  BY <1>13 DEF Probe, At, Goto, file
<1>14. ASSUME NEW p \in Procs, Steal(p) PROVE FileAccounted'
  BY <1>14 DEF Steal, UnlinkFile
<1>15. ASSUME NEW p \in Procs, Backoff(p) PROVE FileAccounted'
  BY <1>15 DEF Backoff, At, Goto, file
<1>16. ASSUME NEW p \in Procs, GiveUp(p) PROVE FileAccounted'
  BY <1>16 DEF GiveUp, At, Goto, Return, file
<1>17. ASSUME NEW p \in Procs, ReleaseUnlink(p) PROVE FileAccounted'
  BY <1>17 DEF ReleaseUnlink, UnlinkFile
<1>18. ASSUME NEW p \in Procs, ReleaseFails(p) PROVE FileAccounted'
  BY <1>18 DEF ReleaseFails, At, Goto, Return, file
<1>19. ASSUME NEW p \in Procs, Release(p) PROVE FileAccounted'
  BY <1>19 DEF Release, At, Goto, Return, file
<1>20. ASSUME NEW p \in Procs, Destroy(p) PROVE FileAccounted'
  BY <1>20 DEF Destroy, At, Goto, RemoveFiles, UnlinkFile
<1>21. ASSUME NEW p \in Procs, Exit(p) PROVE FileAccounted'
  BY <1>21 DEF Exit, At, Goto, RemoveFiles, UnlinkFile
<1>22. ASSUME NEW p \in Procs, Crash(p) PROVE FileAccounted'
  BY <1>22 DEF Crash, Goto
<1>23. ASSUME NEW p \in Procs, Reuse(p) PROVE FileAccounted'
  BY <1>23 DEF Reuse, file
<1>24. CASE UNCHANGED vars
  BY <1>24 DEF vars, file
<1> QED
  BY <1>1, <1>2, <1>3, <1>4, <1>5, <1>6, <1>7, <1>8, <1>9, <1>10, <1>11, <1>12,
     <1>13, <1>14, <1>15, <1>16, <1>17, <1>18, <1>19, <1>20, <1>21, <1>22,
     <1>23, <1>24
     DEF Next, Step

\* With O_EXCL, every way out of dotlock_take_unix that does not lock the
\* handle, and every dotlock_release and dotlock_destroy, removes the lock
\* file it made, whichever system call fails and whoever is killed.
THEOREM FilesNotOrphaned == Spec => []NoOrphanFile
<1>1. Init => FileAccounted
  BY DEF Init, FileAccounted, NoOrphanFile
<1>2. IndInv /\ FileAccounted /\ [Next]_vars => FileAccounted'
  BY FileAccountedStep
<1>3. FileAccounted => NoOrphanFile
  BY DEF FileAccounted
<1> QED
  BY <1>1, <1>2, <1>3, IndInvHolds, PTL DEF Spec

-----------------------------------------------------------------------------
(* The refinement *)

\* A step that marks p's handle as locked finds no other locked handle,
\* unless a stale-lock removal hit a running process before.
LEMMA LockingIsAcquire ==
  ASSUME IndInv, IndInv', NEW p \in Procs, ~locked[p], UNCHANGED raced,
         locked' = [locked EXCEPT ![p] = TRUE]
  PROVE  Service!Acquire(p)
<1> DEFINE H == {q \in Procs : locked[q]}
<1>1. H' = H \cup {p}
  BY DEF IndInv, TypeOK
<1>2. raced \/ H = {}
  <2>1. ASSUME ~raced, NEW q \in Procs, locked[q] PROVE FALSE
    <3>1. locked'[q] /\ locked'[p] /\ p # q
      BY <2>1 DEF IndInv, TypeOK
    <3> QED
      BY <2>1, <3>1 DEF IndInv, HolderOwnsFile
  <2> QED
    BY <2>1
<1> QED
  BY <1>1, <1>2 DEF Service!Acquire

\* A step that clears p's h->locked is a Drop of the service, or invisible.
LEMMA UnlockingIsDrop ==
  ASSUME IndInv, NEW p \in Procs, UNCHANGED raced,
         locked' = [locked EXCEPT ![p] = FALSE]
  PROVE  [Service!Next]_(Service!vars)
<1>1. CASE locked[p]
  BY <1>1 DEF IndInv, TypeOK, Service!Next, Service!Drop
<1>2. CASE ~locked[p]
  BY <1>2 DEF IndInv, TypeOK, Service!vars
<1> QED
  BY <1>1, <1>2

\* Every step of dotlock.c is a step of the lock service or a stutter.
LEMMA StepIsServiceStep ==
  IndInv /\ IndInv' /\ [Next]_vars => [Service!Next]_(Service!vars)
<1> SUFFICES ASSUME IndInv, IndInv', [Next]_vars
             PROVE  [Service!Next]_(Service!vars)
  OBVIOUS
<1> USE DEF Service!vars
<1>1. CASE UNCHANGED <<locked, raced>>
  BY <1>1
<1>2. ASSUME NEW p \in Procs, StatTemp(p) \/ WriteNode(p) \/ ReadLockfile(p),
             ~UNCHANGED locked
      PROVE  Service!Acquire(p)
  <2>1. ~locked[p]
    BY <1>2 DEF IndInv, HandleState, TakeLabels, StatTemp, WriteNode,
       ReadLockfile, At
  <2>2. locked' = [locked EXCEPT ![p] = TRUE] /\ UNCHANGED raced
    BY <1>2 DEF StatTemp, WriteNode, ReadLockfile
  <2> QED
    BY <2>1, <2>2, LockingIsAcquire
<1>3. ASSUME NEW p \in Procs,
             ReleaseUnlink(p) \/ Destroy(p) \/ Exit(p) \/ Crash(p)
      PROVE  [Service!Next]_(Service!vars)
  <2>1. locked' = [locked EXCEPT ![p] = FALSE] /\ UNCHANGED raced
    BY <1>3 DEF ReleaseUnlink, Destroy, Exit, Crash
  <2> QED
    BY <2>1, UnlockingIsDrop
<1>4. ASSUME NEW p \in Procs, Steal(p), ~UNCHANGED raced
      PROVE  Service!Break
  BY <1>4 DEF Steal, Service!Break, IndInv, TypeOK
<1>5. ASSUME NEW p \in Procs,
             \/ Create(p) \/ (\E t \in Timeouts : Take(p, t))
             \/ TryLink(p) \/ StatFails(p) \/ TryOpen(p) \/ OpenFails(p)
             \/ WritePid(p) \/ WriteFails(p) \/ ReadFails(p) \/ Probe(p)
             \/ Backoff(p) \/ GiveUp(p) \/ ReleaseFails(p) \/ Release(p)
             \/ Reuse(p)
      PROVE  UNCHANGED <<locked, raced>>
  BY <1>5 DEF Create, Take, TryLink, StatFails, TryOpen, OpenFails, WritePid,
     WriteFails, ReadFails, Probe, Backoff, GiveUp, ReleaseFails, Release, Reuse
<1>6. ASSUME NEW p \in Procs, StatTemp(p) \/ WriteNode(p) \/ ReadLockfile(p)
      PROVE  UNCHANGED raced
  BY <1>6 DEF StatTemp, WriteNode, ReadLockfile
<1>7. ASSUME NEW p \in Procs, Steal(p) PROVE UNCHANGED locked
  BY <1>7 DEF Steal
<1>8. CASE UNCHANGED vars
  BY <1>8 DEF vars
<1> QED
  BY <1>1, <1>2, <1>3, <1>4, <1>5, <1>6, <1>7, <1>8
     DEF Next, Step, Service!Next

\* dotlock.c implements the lock service: for any number of processes the
\* lock has one holder until a stale-lock removal hits a running process.
THEOREM DotLockImplementsLockService == Spec => ImplementsLockService
<1>1. Init => Service!Init
  BY DEF Init, Service!Init
<1> QED
  BY <1>1, IndInvHolds, StepIsServiceStep, PTL
     DEF Spec, ImplementsLockService, Service!Spec


=============================================================================
