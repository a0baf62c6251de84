---------------------------- MODULE LockService ----------------------------
(***************************************************************************)
(* What common/dotlock.c promises its callers: an advisory lock that at    *)
(* most one process holds.  The promise is conditional: dotlock.c removes  *)
(* a lock file it believes to be stale and that removal is not atomic, so  *)
(* the promise lasts until some process removed the lock file of a process *)
(* that is still running.  Module DotLock implements this specification.   *)
(*                                                                         *)
(* So does CallPinentry, where Procs are the connections of gpg-agent and  *)
(* the lock is entry_lock of agent/call-pinentry.c; there the promise      *)
(* lasts until the code loses count of a connection's uses.                *)
(***************************************************************************)

CONSTANT Procs

VARIABLES
  holders,  \* the processes whose last successful dotlock_take is in force
  broken    \* TRUE once a lock file of a running process was removed

vars == <<holders, broken>>

Init == holders = {} /\ broken = FALSE

Acquire(p) ==
  /\ p \notin holders
  /\ broken \/ holders = {}
  /\ holders' = holders \cup {p}
  /\ UNCHANGED broken

\* Release, destroy, exit and crash look alike from the outside.
Drop(p) ==
  /\ p \in holders
  /\ holders' = holders \ {p}
  /\ UNCHANGED broken

Break ==
  /\ broken' = TRUE
  /\ UNCHANGED holders

Next == Break \/ \E p \in Procs : Acquire(p) \/ Drop(p)

Spec == Init /\ [][Next]_vars

=============================================================================
