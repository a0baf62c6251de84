----------------------------- MODULE CallDaemon -----------------------------
(***************************************************************************)
(* How the connections of gpg-agent share one scdaemon process:            *)
(* agent/call-daemon.c.                                                    *)
(*                                                                         *)
(* The first connection that needs the daemon forks it and talks to it     *)
(* over a pipe, the primary context.  Others connect to the daemon's       *)
(* socket, or take over the primary context once its user is gone.  When   *)
(* the daemon dies a watcher thread, wait_child_thread, marks all contexts *)
(* as invalid; a context in use is released by its user.                   *)
(*                                                                         *)
(* All of this runs under start_daemon_lock, with three exceptions: the    *)
(* first lines of daemon_start, agent_kill_daemon, and the end of          *)
(* daemon_start, which stores the context after it dropped the lock.       *)
(* Threads are not preempted, but releasing memory or a context may give   *)
(* way to another thread (gcry_free takes a lock, assuan_release writes to *)
(* the peer).  So a critical section is one step, but for the loop of the  *)
(* watcher, which gives way between the release of a context and clearing  *)
(* the pointer to it; and the end of daemon_start is a step of its own     *)
(* when there is an abs_homedir to free.  The daemon may die between any   *)
(* two steps.                                                              *)
(*                                                                         *)
(* Contexts are numbered in the order of their allocation and daemons in   *)
(* the order of their start; 0 stands for NULL, and for no daemon.         *)
(***************************************************************************)
EXTENDS Integers

CONSTANTS
  Conns,           \* connections of the agent, each with its own thread
  MaxCtx,          \* bound: number of Assuan contexts ever allocated
  MaxGen,          \* bound: number of daemons ever started
  IOFailures,      \* whether allocating a context and connecting may fail
  ThreadFailures,  \* whether starting wait_child_thread may fail
  AbsHomedir       \* whether the agent runs with a non-default home directory

ASSUME DaemonAssumption ==
  /\ MaxCtx \in Nat /\ MaxGen \in Nat
  /\ IOFailures \in BOOLEAN /\ ThreadFailures \in BOOLEAN
  /\ AbsHomedir \in BOOLEAN

VARIABLES
  pc,        \* "idle", "busy" between daemon_start and daemon_unlock,
             \* "finish" at the end of daemon_start
  listed,    \* connections with a d_local structure in g->local_list
  ctx,       \* d_local->ctx
  in_use,    \* d_local->in_use
  invalid,   \* d_local->invalid
  pending,   \* the local variable ctx of daemon_start at "finish"
  primary,   \* g->primary_ctx
  reusable,  \* g->primary_ctx_reusable
  socket,    \* g->socket_name is not NULL
  open,      \* allocated contexts that are not released
  nctx,      \* number of contexts allocated so far
  peer,      \* the daemon at the other end of a context; 0: not connected
  gen,       \* number of daemons started so far
  alive,     \* the daemons that run
  watched,   \* the daemons whose wait_child_thread has not ended
  reaper,    \* the daemon whose wait_child_thread holds the lock, or 0
  todo,      \* the connections its loop has not visited yet
  freeing,   \* the connection whose context it is releasing, as a set
  caught,    \* history: connections that started to use such a context
  late       \* history: contexts that were stored after the watcher of
             \* their daemon had marked the connection

local  == <<listed, ctx, in_use, invalid, pending>>
global == <<primary, reusable, socket>>
assuan == <<open, nctx, peer>>
daemon == <<gen, alive, watched>>
reap   == <<reaper, todo, freeing>>
history == <<caught, late>>
vars == <<pc, local, global, assuan, daemon, reap, history>>

TypeOK ==
  /\ pc \in [Conns -> {"idle", "finish", "busy"}]
  /\ listed \subseteq Conns
  /\ ctx \in [Conns -> 0..nctx] /\ pending \in [Conns -> 0..nctx]
  /\ in_use \in [Conns -> BOOLEAN] /\ invalid \in [Conns -> BOOLEAN]
  /\ primary \in 0..nctx /\ reusable \in BOOLEAN /\ socket \in BOOLEAN
  /\ nctx \in 0..MaxCtx /\ open \subseteq 1..nctx
  /\ peer \in [1..MaxCtx -> 0..gen]
  /\ gen \in 0..MaxGen /\ alive \subseteq 1..gen /\ watched \subseteq 1..gen
  /\ reaper \in 0..gen
  /\ todo \subseteq Conns /\ freeing \subseteq Conns
  /\ caught \subseteq Conns /\ late \subseteq 0..nctx

Init ==
  /\ pc = [c \in Conns |-> "idle"]
  /\ listed = {}
  /\ ctx = [c \in Conns |-> 0] /\ pending = [c \in Conns |-> 0]
  /\ in_use = [c \in Conns |-> FALSE] /\ invalid = [c \in Conns |-> FALSE]
  /\ primary = 0 /\ reusable = FALSE /\ socket = FALSE
  /\ open = {} /\ nctx = 0 /\ peer = [k \in 1..MaxCtx |-> 0]
  /\ gen = 0 /\ alive = {} /\ watched = {}
  /\ reaper = 0 /\ todo = {} /\ freeing = {} /\ caught = {} /\ late = {}

\* start_daemon_lock is held by nobody.
Unlocked == reaper = 0

-----------------------------------------------------------------------------
(* daemon_start *)

\* The connection has a context: no lock is needed.
StartFast(c) ==
  /\ pc[c] = "idle" /\ c \in listed /\ ctx[c] # 0
  /\ in_use' = [in_use EXCEPT ![c] = TRUE]
  /\ pc' = [pc EXCEPT ![c] = "busy"]
  /\ caught' = caught \cup (freeing \cap {c})
  /\ UNCHANGED <<listed, ctx, invalid, pending, global, assuan, daemon, reap,
                 late>>

\* daemon_start takes the lock and finds or makes the local structure.
Enter(c) ==
  /\ pc[c] = "idle" /\ ctx[c] = 0 /\ Unlocked
  /\ listed' = listed \cup {c}

\* leave: success; the context k becomes the connection's own.
Succeed(c, k) ==
  /\ ctx' = [ctx EXCEPT ![c] = k]
  /\ in_use' = [in_use EXCEPT ![c] = TRUE]
  /\ invalid' = [invalid EXCEPT ![c] = FALSE]
  /\ pending' = [pending EXCEPT ![c] = 0]
  /\ pc' = [pc EXCEPT ![c] = "busy"]

\* leave: failure; daemon_unlock, then the new context is released.
Fail(c) ==
  /\ in_use' = [in_use EXCEPT ![c] = FALSE]
  /\ invalid' = [invalid EXCEPT ![c] = FALSE]
  /\ UNCHANGED <<pc, ctx, pending>>

CanReuse == primary # 0 /\ reusable

\* Bug: the flag stays set, so that the next connection reuses it as well.
StartReuseTwice(c) ==
  /\ Enter(c) /\ CanReuse
  /\ Succeed(c, primary)
  /\ UNCHANGED <<global, assuan, daemon, reap, history>>

StartReuse(c) ==
  /\ Enter(c) /\ CanReuse
  /\ reusable' = FALSE
  /\ Succeed(c, primary)
  /\ UNCHANGED <<primary, socket, assuan, daemon, reap, history>>

\* assuan_new
NewCtx(p) ==
  /\ nctx < MaxCtx
  /\ nctx' = nctx + 1
  /\ open' = open \cup {nctx + 1}
  /\ peer' = [peer EXCEPT ![nctx + 1] = p]

\* An additional connection over the socket of the running daemon.
StartConnect(c) ==
  /\ Enter(c) /\ ~CanReuse /\ socket
  /\ \E g \in alive : NewCtx(g)
  /\ Succeed(c, nctx + 1)
  /\ UNCHANGED <<global, daemon, reap, history>>

\* The socket is dead or its daemon does not accept, the daemon has no
\* socket, or a new daemon can't be started; without a context as well.
StartFails(c) ==
  /\ Enter(c) /\ ~CanReuse
  /\ \/ IOFailures
     \/ socket /\ alive = {}
     \/ ~socket /\ primary # 0
  /\ Fail(c)
  /\ UNCHANGED <<global, assuan, daemon, reap, history>>

\* assuan_pipe_connect forks a daemon; it may tell the name of a socket.
Fork ==
  /\ gen < MaxGen
  /\ gen' = gen + 1
  /\ alive' = alive \cup {gen + 1}
  /\ primary' = nctx + 1 /\ reusable' = FALSE /\ socket' \in BOOLEAN

\* Bug: a daemon is started although one is known to run.
MayForkAlways == TRUE

MayFork == ~CanReuse /\ ~socket /\ primary = 0

StartFork(c) ==
  /\ Enter(c) /\ MayFork
  /\ Fork /\ NewCtx(gen + 1)
  /\ watched' = watched \cup {gen + 1}
  /\ IF AbsHomedir
       THEN /\ pc' = [pc EXCEPT ![c] = "finish"]
            /\ pending' = [pending EXCEPT ![c] = nctx + 1]
            /\ in_use' = [in_use EXCEPT ![c] = TRUE]
            /\ UNCHANGED <<ctx, invalid>>
       ELSE Succeed(c, nctx + 1)
  /\ UNCHANGED <<reap, history>>

\* wait_child_thread can't be started: daemon_start fails and releases the
\* context, and g->primary_ctx still refers to it.
StartUnwatched(c) ==
  /\ Enter(c) /\ MayFork /\ ThreadFailures
  /\ Fork
  /\ nctx < MaxCtx /\ nctx' = nctx + 1
  /\ peer' = [peer EXCEPT ![nctx + 1] = gen + 1]
  /\ Fail(c)
  /\ UNCHANGED <<open, watched, reap, history>>

\* make_absfilename_try fails: err is still 0 and the context unconnected.
StartUnconnected(c) ==
  /\ Enter(c) /\ MayFork /\ IOFailures /\ AbsHomedir
  /\ NewCtx(0)
  /\ Succeed(c, nctx + 1)
  /\ UNCHANGED <<global, daemon, reap, history>>

\* The watcher of the new daemon has already been here.
Missed(c) ==
  LET g == peer[pending[c]] IN g \notin watched \/ (reaper = g /\ c \notin todo)

\* daemon_start stores the context after it dropped the lock.
StartFinish(c) ==
  /\ pc[c] = "finish"
  /\ Succeed(c, pending[c])
  /\ late' = late \cup (IF Missed(c) THEN {pending[c]} ELSE {})
  /\ UNCHANGED <<listed, global, assuan, daemon, reap, caught>>

-----------------------------------------------------------------------------
(* daemon_unlock, agent_reset_daemon and agent_kill_daemon *)

\* Bug: a context that became invalid while in use is kept.
DaemonUnlockKeeps(c) ==
  /\ pc[c] = "busy" /\ Unlocked
  /\ pc' = [pc EXCEPT ![c] = "idle"]
  /\ in_use' = [in_use EXCEPT ![c] = FALSE]
  /\ caught' = caught \ {c}
  /\ UNCHANGED <<listed, ctx, invalid, pending, global, assuan, daemon, reap,
                 late>>

\* A context that became invalid while in use is released now.
DaemonUnlock(c) ==
  /\ pc[c] = "busy" /\ Unlocked
  /\ pc' = [pc EXCEPT ![c] = "idle"]
  /\ in_use' = [in_use EXCEPT ![c] = FALSE]
  /\ IF invalid[c]
       THEN /\ open' = open \ {ctx[c]}
            /\ ctx' = [ctx EXCEPT ![c] = 0]
            /\ invalid' = [invalid EXCEPT ![c] = FALSE]
       ELSE UNCHANGED <<open, ctx, invalid>>
  /\ caught' = caught \ {c}
  /\ UNCHANGED <<listed, pending, global, nctx, peer, daemon, reap, late>>

\* The connection ends: its context is kept if it is the primary one, and
\* its local structure is taken off the list.
ResetDaemon(c) ==
  /\ pc[c] = "idle" /\ c \in listed /\ Unlocked
  /\ listed' = listed \ {c}
  /\ ctx' = [ctx EXCEPT ![c] = 0]
  /\ invalid' = [invalid EXCEPT ![c] = FALSE]
  /\ IF ctx[c] # 0 /\ ctx[c] = primary
       THEN reusable' = TRUE /\ UNCHANGED open
       ELSE open' = open \ {ctx[c]} /\ UNCHANGED reusable
  /\ UNCHANGED <<pc, in_use, pending, primary, socket, nctx, peer, daemon, reap,
                 history>>

\* KILLSCD over the primary context, without the lock.
KillDaemon ==
  /\ primary # 0 /\ peer[primary] \in alive
  /\ alive' = alive \ {peer[primary]}
  /\ UNCHANGED <<pc, local, global, assuan, gen, watched, reap, history>>

\* The daemon crashes or ends.
Die(g) ==
  /\ g \in alive
  /\ alive' = alive \ {g}
  /\ UNCHANGED <<pc, local, global, assuan, gen, watched, reap, history>>

-----------------------------------------------------------------------------
(* wait_child_thread *)

\* waitpid returned; the thread got the lock and enters its loop.
WaitChild(g) ==
  /\ g \in watched /\ g \notin alive /\ Unlocked
  /\ reaper' = g
  /\ todo' = listed
  /\ UNCHANGED <<pc, local, global, assuan, daemon, freeing, history>>

Visits(c) == reaper # 0 /\ freeing = {} /\ c \in todo

\* Bug: contexts are released under the feet of their users.
ReapableAlways(c) == ctx[c] # 0

\* The context of c is there and not in use.
Reapable(c) == ~in_use[c] /\ ctx[c] # 0

\* A context in use is only marked; daemon_unlock will release it.
ReapMark(c) ==
  /\ Visits(c) /\ ~Reapable(c)
  /\ invalid' = [invalid EXCEPT ![c] = TRUE]
  /\ todo' = todo \ {c}
  /\ UNCHANGED <<pc, listed, ctx, in_use, pending, global, assuan, daemon,
                 reaper, freeing, history>>

\* assuan_release (sl->ctx)
ReapRelease(c) ==
  /\ Visits(c) /\ Reapable(c)
  /\ invalid' = [invalid EXCEPT ![c] = TRUE]
  /\ open' = open \ {ctx[c]}
  /\ freeing' = {c}
  /\ UNCHANGED <<pc, listed, ctx, in_use, pending, global, nctx, peer, daemon,
                 reaper, todo, history>>

\* sl->ctx = NULL, and on to the next connection.
ReapClear(c) ==
  /\ c \in freeing
  /\ ctx' = [ctx EXCEPT ![c] = 0]
  /\ freeing' = {}
  /\ todo' = todo \ {c}
  /\ UNCHANGED <<pc, listed, in_use, invalid, pending, global, assuan, daemon,
                 reaper, history>>

\* Bug: the daemon still counts as started.
ReapDoneKeepsPrimary ==
  /\ reaper # 0 /\ freeing = {} /\ todo = {}
  /\ reusable' = FALSE /\ socket' = FALSE
  /\ watched' = watched \ {reaper}
  /\ reaper' = 0
  /\ UNCHANGED <<pc, local, primary, assuan, gen, alive, freeing, todo,
                 history>>

\* The daemon counts as not started, and the thread ends.
ReapDone ==
  /\ reaper # 0 /\ freeing = {} /\ todo = {}
  /\ primary' = 0 /\ reusable' = FALSE /\ socket' = FALSE
  /\ watched' = watched \ {reaper}
  /\ reaper' = 0
  /\ UNCHANGED <<pc, local, assuan, gen, alive, freeing, todo, history>>

\* One step of the thread's critical section.
Reap ==
  \/ \E c \in Conns : ReapMark(c) \/ ReapRelease(c) \/ ReapClear(c)
  \/ ReapDone

Start(c) ==
  \/ StartFast(c) \/ StartReuse(c) \/ StartConnect(c) \/ StartFails(c)
  \/ StartFork(c) \/ StartUnwatched(c) \/ StartUnconnected(c)
  \/ StartFinish(c)

Next ==
  \/ \E c \in Conns : Start(c) \/ DaemonUnlock(c) \/ ResetDaemon(c)
  \/ \E g \in 1..gen : WaitChild(g) \/ Die(g)
  \/ Reap \/ KillDaemon

Spec == Init /\ [][Next]_vars

\* The watcher thread is scheduled once waitpid returns, and gets the lock.
FairSpec ==
  Spec /\ WF_vars(Reap) /\ \A g \in 1..MaxGen : WF_vars(WaitChild(g))

-----------------------------------------------------------------------------
(* Properties *)

\* Two daemons never run at the same time, however deaths, kills, failed
\* starts and restarts interleave: a card reader has one owner.
OneDaemon == \A g, h \in alive : g = h

\* c works, or is about to work, with context k.
Holds(c, k) == k # 0 /\ (ctx[c] = k \/ pending[c] = k)

\* No two connections use the same context, and a primary context that is
\* up for reuse is nobody's: the answers of the daemon never go to the
\* wrong connection.
ContextNotShared ==
  /\ \A c, d \in Conns, k \in 1..nctx : Holds(c, k) /\ Holds(d, k) => c = d
  /\ reusable => \A c \in Conns : ~Holds(c, primary)

\* No connection, and not the module's global state, refers to a context
\* that was released, and between daemon_start and daemon_unlock a context
\* is there.  Left out are the primary context of a daemon without
\* a watcher, which daemon_start releases when it fails; what the watcher is
\* about to clear in its critical section; and the connections caught in it:
\* the first lines of daemon_start take no lock, so that one that enters
\* meanwhile is given the context that assuan_release has just released.
ContextsValid ==
  /\ Unlocked /\ primary # 0 /\ peer[primary] \in watched => primary \in open
  /\ \A c \in Conns :
       /\ pending[c] \in open \cup {0}
       /\ c \notin freeing \cup caught =>
            ctx[c] \in open \cup (IF pc[c] = "busy" THEN {} ELSE {0})

\* The daemons that count as started: their end has not been noticed.
Current == watched \cup (IF primary = 0 THEN {} ELSE {peer[primary]})

\* The context of c belongs to a daemon that counts as started, or was never
\* connected.
Served(c) == peer[ctx[c]] \in Current \cup {0}

\* An idle connection never keeps the context of a daemon whose end was
\* noticed, so that its next daemon_start does not get a dead context.  Left
\* out are the late ones: daemon_start stores its context and clears the
\* invalid mark after it dropped the lock, and overwrites what a watcher
\* that ran in between has marked.
IdleContextCurrent ==
  \A c \in Conns : pc[c] = "idle" /\ ctx[c] \notin late \cup {0} => Served(c)

\* A dead daemon that has a watcher is forgotten, so that the next
\* daemon_start forks a new one.
DeadDaemonForgotten ==
  \A g \in 1..MaxGen :
    (g \in watched \ alive) ~> (primary = 0 \/ peer[primary] # g)

=============================================================================
