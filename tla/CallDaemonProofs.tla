-------------------------- MODULE CallDaemonProofs --------------------------
(***************************************************************************)
(* At most one daemon runs, no two connections share a context, and none   *)
(* keeps one that was released or whose daemon is known to have ended: for *)
(* any number of connections, and with all the failures of CallDaemon.     *)
(***************************************************************************)
EXTENDS CallDaemon, TLAPS

\* primary_ctx is the flag for "a daemon was started": while it is NULL no
\* daemon runs or is waited for, and only the youngest ever does.  The thread
\* that clears the flag holds the lock, and its daemon is that one and dead.
FlagIsTruthful ==
  /\ alive \subseteq {gen} /\ watched \subseteq {gen}
  /\ primary = 0 => alive = {} /\ watched = {}
  /\ reaper # 0 => reaper = gen /\ alive = {}

\* daemon_start holds a context in its local variable only on its way out.
PendingState ==
  \A c \in Conns :
    /\ pc[c] # "finish" => pending[c] = 0
    /\ pc[c] = "finish" => ctx[c] = 0

IndInv == TypeOK /\ FlagIsTruthful /\ PendingState /\ ContextNotShared

\* The agent starts without a daemon.
LEMMA IndInvInit == Init => IndInv
<1> SUFFICES ASSUME Init PROVE IndInv
  OBVIOUS
<1>1. TypeOK
  <2>1. /\ in_use \in [Conns -> BOOLEAN] /\ invalid \in [Conns -> BOOLEAN]
        /\ reusable \in BOOLEAN /\ socket \in BOOLEAN
    BY DEF Init
  <2>2. /\ pc \in [Conns -> {"idle", "finish", "busy"}]
        /\ ctx \in [Conns -> 0..nctx] /\ pending \in [Conns -> 0..nctx]
        /\ peer \in [1..MaxCtx -> 0..gen]
    BY DEF Init
  <2> QED
    BY <2>1, <2>2, DaemonAssumption DEF Init, TypeOK
<1>2. FlagIsTruthful /\ PendingState /\ ContextNotShared
  BY DEF Init, FlagIsTruthful, PendingState, ContextNotShared, Holds
<1> QED
  BY <1>1, <1>2 DEF IndInv

\* A context that was just allocated is not shared with anybody.
LEMMA FreshContextNotShared ==
  ASSUME TypeOK, ContextNotShared, NEW c \in Conns,
         nctx' = nctx + 1, reusable' = FALSE, ctx[c] = 0,
         \/ ctx' = ctx /\ pending' = [pending EXCEPT ![c] = nctx + 1]
         \/ /\ ctx' = [ctx EXCEPT ![c] = nctx + 1]
            /\ pending' = [pending EXCEPT ![c] = 0]
  PROVE  ContextNotShared'
<1> SUFFICES ASSUME NEW d \in Conns, NEW e \in Conns, NEW k \in 1..(nctx + 1),
                    Holds(d, k)', Holds(e, k)'
             PROVE  d = e
  BY DEF ContextNotShared
<1>1. CASE k = nctx + 1
  <2>1. nctx \in Nat /\ \A b \in Conns : ctx[b] \in 0..nctx /\ pending[b] \in 0..nctx
    BY DaemonAssumption DEF TypeOK
  <2>2. \A b \in Conns : b # c => ctx'[b] = ctx[b] /\ pending'[b] = pending[b]
    BY DEF TypeOK
  <2>3. \A b \in Conns : b # c => ~Holds(b, k)'
    BY <1>1, <2>1, <2>2 DEF Holds
  <2> QED
    BY <2>3
<1>2. CASE k # nctx + 1
  BY <1>2 DEF Holds, TypeOK, ContextNotShared
<1> QED
  BY <1>1, <1>2

\* Every step keeps the invariant, the failing ones included.
LEMMA IndInvStep == IndInv /\ [Next]_vars => IndInv'
<1> SUFFICES ASSUME IndInv, [Next]_vars PROVE IndInv'
  OBVIOUS
<1> USE DaemonAssumption DEF IndInv, history
<1>1. ASSUME NEW c \in Conns, StartFast(c) PROVE IndInv'
  <2>1. TypeOK'
    BY <1>1 DEF StartFast, local, global, assuan, daemon, reap,
       TypeOK
  <2>2. FlagIsTruthful'
    BY <1>1 DEF StartFast, local, global, assuan, daemon, reap,
       TypeOK,
       FlagIsTruthful
  <2>3. PendingState' /\ ContextNotShared'
    BY <1>1 DEF StartFast, local, global, assuan, daemon, reap,
       TypeOK,
       PendingState, ContextNotShared, Holds
  <2> QED
    BY <2>1, <2>2, <2>3
<1>2. ASSUME NEW c \in Conns, StartReuse(c) PROVE IndInv'
  <2>1. TypeOK'
    BY <1>2 DEF StartReuse, Enter, Succeed, CanReuse, assuan, daemon, reap,
       TypeOK
  <2>2. FlagIsTruthful'
    BY <1>2 DEF StartReuse, Enter, Succeed, CanReuse, assuan, daemon, reap,
       TypeOK,
       FlagIsTruthful
  <2>3. PendingState' /\ ContextNotShared'
    BY <1>2, SMTT(30) DEF StartReuse, Enter, Succeed, CanReuse, assuan,
       daemon, reap,
       TypeOK,
       PendingState, ContextNotShared, Holds
  <2> QED
    BY <2>1, <2>2, <2>3
<1>3. ASSUME NEW c \in Conns, StartConnect(c) PROVE IndInv'
  <2>1. TypeOK'
    BY <1>3, SMTT(30) DEF StartConnect, Enter, NewCtx, Succeed, CanReuse,
       global,
       daemon, reap,
       TypeOK
  <2>2. FlagIsTruthful'
    BY <1>3 DEF StartConnect, Enter, NewCtx, Succeed, CanReuse, global,
       daemon, reap, TypeOK, FlagIsTruthful
  <2>3. PendingState' /\ ContextNotShared'
    BY <1>3, SMTT(30) DEF StartConnect, Enter, NewCtx, Succeed, CanReuse,
       global,
       daemon, reap, TypeOK, PendingState, ContextNotShared, Holds
  <2> QED
    BY <2>1, <2>2, <2>3
<1>4. ASSUME NEW c \in Conns, StartFails(c) PROVE IndInv'
  <2>1. TypeOK'
    BY <1>4 DEF StartFails, Enter, Fail, CanReuse, global, assuan, daemon,
       reap,
       TypeOK
  <2>2. FlagIsTruthful'
    BY <1>4 DEF StartFails, Enter, Fail, CanReuse, global, assuan, daemon,
       reap,
       TypeOK, FlagIsTruthful
  <2>3. PendingState' /\ ContextNotShared'
    BY <1>4 DEF StartFails, Enter, Fail, CanReuse, global, assuan, daemon,
       reap,
       TypeOK, PendingState, ContextNotShared, Holds
  <2> QED
    BY <2>1, <2>2, <2>3
<1>5. ASSUME NEW c \in Conns, StartFork(c) PROVE IndInv'
  <2>1. TypeOK'
    <3>1. /\ gen' = gen + 1 /\ gen' \in 0..MaxGen
          /\ nctx' = nctx + 1 /\ nctx' \in 0..MaxCtx
      BY <1>5 DEF TypeOK, StartFork, Enter, Fork, NewCtx, Succeed
    <3>2. peer' \in [1..MaxCtx -> 0..gen']
      BY <1>5, <3>1 DEF TypeOK, StartFork, Enter, Fork, NewCtx, Succeed
    <3>3. ctx' \in [Conns -> 0..nctx'] /\ pending' \in [Conns -> 0..nctx']
      <4>1. \/ ctx' = ctx /\ pending' = [pending EXCEPT ![c] = nctx + 1]
            \/ /\ ctx' = [ctx EXCEPT ![c] = nctx + 1]
               /\ pending' = [pending EXCEPT ![c] = 0]
        BY <1>5 DEF StartFork, Succeed
      <4>2. 0..nctx \subseteq 0..nctx' /\ 0 \in 0..nctx' /\ nctx + 1 \in 0..nctx'
        BY <3>1 DEF TypeOK
      <4>3. ctx \in [Conns -> 0..nctx'] /\ pending \in [Conns -> 0..nctx']
        BY <4>2 DEF TypeOK
      <4> QED
        BY <4>1, <4>2, <4>3
    <3>4. in_use' \in [Conns -> BOOLEAN] /\ invalid' \in [Conns -> BOOLEAN]
      BY <1>5 DEF TypeOK, StartFork, Enter, Fork, NewCtx, Succeed
    <3>5. /\ open' \subseteq 1..nctx' /\ alive' \subseteq 1..gen'
          /\ watched' \subseteq 1..gen'
      BY <1>5, <3>1 DEF TypeOK, StartFork, Enter, Fork, NewCtx, Succeed
    <3>6. primary' = nctx + 1 /\ reusable' = FALSE /\ socket' \in BOOLEAN
      BY <1>5 DEF StartFork, Fork
    <3>7. pc' \in [Conns -> {"idle", "finish", "busy"}] /\ listed' \subseteq Conns
      BY <1>5 DEF TypeOK, StartFork, Enter, Fork, NewCtx, Succeed
    <3>8. primary' \in 0..nctx'
      BY <3>1, <3>6 DEF TypeOK
    <3>9. reusable' \in BOOLEAN /\ socket' \in BOOLEAN
      BY <3>6
    <3>10. /\ reaper' \in 0..gen' /\ todo' \subseteq Conns
           /\ freeing' \subseteq Conns /\ caught' \subseteq Conns
           /\ late' \subseteq 0..nctx'
      BY <1>5, <3>1 DEF TypeOK, StartFork, reap
    <3> QED
      BY <3>1, <3>2, <3>3, <3>4, <3>5, <3>7, <3>8, <3>9, <3>10 DEF TypeOK
  <2>2. FlagIsTruthful'
    BY <1>5 DEF StartFork, Enter, Unlocked, MayFork, Fork, NewCtx, Succeed,
       reap,
       TypeOK,
       FlagIsTruthful
  <2>3. PendingState' /\ ContextNotShared'
    <3>1. nctx' = nctx + 1 /\ reusable' = FALSE /\ ctx[c] = 0 /\ pc[c] = "idle"
      BY <1>5 DEF StartFork, Enter, Fork, NewCtx
    <3>2. CASE AbsHomedir
      <4>1. /\ ctx' = ctx /\ pending' = [pending EXCEPT ![c] = nctx + 1]
            /\ pc' = [pc EXCEPT ![c] = "finish"]
        BY <1>5, <3>2 DEF StartFork
      <4> QED
        BY <3>1, <4>1, FreshContextNotShared DEF TypeOK, PendingState
    <3>3. CASE ~AbsHomedir
      <4>1. /\ ctx' = [ctx EXCEPT ![c] = nctx + 1]
            /\ pending' = [pending EXCEPT ![c] = 0]
            /\ pc' = [pc EXCEPT ![c] = "busy"]
        BY <1>5, <3>3 DEF StartFork, Succeed
      <4> QED
        BY <3>1, <4>1, FreshContextNotShared DEF TypeOK, PendingState
    <3> QED
      BY <3>2, <3>3
  <2> QED
    BY <2>1, <2>2, <2>3
<1>6. ASSUME NEW c \in Conns, StartUnwatched(c) PROVE IndInv'
  <2>1. TypeOK'
    <3>1. /\ gen' = gen + 1 /\ gen' \in 0..MaxGen
          /\ nctx' = nctx + 1 /\ nctx' \in 0..MaxCtx
      BY <1>6 DEF TypeOK, StartUnwatched, Enter, Fork, Fail
    <3>2. peer' \in [1..MaxCtx -> 0..gen']
      BY <1>6, <3>1 DEF TypeOK, StartUnwatched, Enter, Fork, Fail
    <3>3. ctx' \in [Conns -> 0..nctx'] /\ pending' \in [Conns -> 0..nctx']
      BY <1>6, <3>1 DEF TypeOK, StartUnwatched, Enter, Fork, Fail
    <3>4. in_use' \in [Conns -> BOOLEAN] /\ invalid' \in [Conns -> BOOLEAN]
      BY <1>6 DEF TypeOK, StartUnwatched, Enter, Fork, Fail
    <3>5. /\ open' \subseteq 1..nctx' /\ alive' \subseteq 1..gen'
          /\ watched' \subseteq 1..gen'
      BY <1>6, <3>1 DEF TypeOK, StartUnwatched, Enter, Fork, Fail
    <3>6. primary' = nctx + 1 /\ reusable' = FALSE /\ socket' \in BOOLEAN
      BY <1>6 DEF StartUnwatched, Fork
    <3>7. pc' \in [Conns -> {"idle", "finish", "busy"}] /\ listed' \subseteq Conns
      BY <1>6 DEF TypeOK, StartUnwatched, Enter, Fork, Fail
    <3>8. primary' \in 0..nctx'
      BY <3>1, <3>6 DEF TypeOK
    <3>9. reusable' \in BOOLEAN /\ socket' \in BOOLEAN
      BY <3>6
    <3>10. /\ reaper' \in 0..gen' /\ todo' \subseteq Conns
           /\ freeing' \subseteq Conns /\ caught' \subseteq Conns
           /\ late' \subseteq 0..nctx'
      BY <1>6, <3>1 DEF TypeOK, StartUnwatched, reap
    <3> QED
      BY <3>1, <3>2, <3>3, <3>4, <3>5, <3>7, <3>8, <3>9, <3>10 DEF TypeOK
  <2>2. FlagIsTruthful'
    BY <1>6 DEF StartUnwatched, Enter, Unlocked, MayFork, Fork, Fail, reap,
       TypeOK,
       FlagIsTruthful
  <2>3. PendingState' /\ ContextNotShared'
    BY <1>6 DEF StartUnwatched, Enter, Unlocked, MayFork, Fork, Fail, reap,
       TypeOK,
       PendingState, ContextNotShared, Holds
  <2> QED
    BY <2>1, <2>2, <2>3
<1>7. ASSUME NEW c \in Conns, StartUnconnected(c) PROVE IndInv'
  <2>1. TypeOK'
    BY <1>7, SMTT(30) DEF StartUnconnected, Enter, MayFork, NewCtx, Succeed,
       global,
       daemon, reap,
       TypeOK
  <2>2. FlagIsTruthful'
    BY <1>7 DEF StartUnconnected, Enter, MayFork, NewCtx, Succeed, global,
       daemon, reap, TypeOK, FlagIsTruthful
  <2>3. PendingState' /\ ContextNotShared'
    BY <1>7, SMTT(30) DEF StartUnconnected, Enter, MayFork, NewCtx, Succeed,
       global,
       daemon, reap, TypeOK, PendingState, ContextNotShared, Holds
  <2> QED
    BY <2>1, <2>2, <2>3
<1>8. ASSUME NEW c \in Conns, StartFinish(c) PROVE IndInv'
  <2>1. TypeOK'
    <3>1. late' \subseteq 0..nctx'
      <4>1. late' \subseteq late \cup {pending[c]} /\ nctx' = nctx
        BY <1>8 DEF StartFinish, assuan
      <4> QED
        BY <4>1 DEF TypeOK
    <3>2. in_use' \in [Conns -> BOOLEAN] /\ invalid' \in [Conns -> BOOLEAN]
      BY <1>8 DEF StartFinish, Succeed, TypeOK
    <3>3. ctx' \in [Conns -> 0..nctx'] /\ pending' \in [Conns -> 0..nctx']
      BY <1>8 DEF StartFinish, Succeed, assuan, TypeOK
    <3> QED
      BY <1>8, <3>1, <3>2, <3>3 DEF StartFinish, Succeed, global, assuan,
         daemon, reap, TypeOK
  <2>2. FlagIsTruthful'
    BY <1>8 DEF StartFinish, Succeed, global, assuan, daemon, reap,
       TypeOK,
       FlagIsTruthful
  <2>3. PendingState' /\ ContextNotShared'
    BY <1>8 DEF StartFinish, Succeed, global, assuan, daemon, reap,
       TypeOK,
       PendingState, ContextNotShared, Holds
  <2> QED
    BY <2>1, <2>2, <2>3
<1>9. ASSUME NEW c \in Conns, DaemonUnlock(c) PROVE IndInv'
  <2>1. TypeOK'
    <3>1. open' \subseteq 1..nctx /\ ctx' \in [Conns -> 0..nctx]
      <4>1. open' \subseteq open
        BY <1>9 DEF DaemonUnlock
      <4>2. ctx' = ctx \/ ctx' = [ctx EXCEPT ![c] = 0]
        BY <1>9 DEF DaemonUnlock
      <4>3. ctx \in [Conns -> 0..nctx] /\ 0 \in 0..nctx
        BY DEF TypeOK
      <4>4. ctx' \in [Conns -> 0..nctx]
        BY <4>2, <4>3
      <4> QED
        BY <4>1, <4>4 DEF TypeOK
    <3>2. in_use' \in [Conns -> BOOLEAN]
      BY <1>9 DEF DaemonUnlock, TypeOK
    <3>3. invalid' \in [Conns -> BOOLEAN]
      <4>1. CASE invalid[c]
        BY <1>9, <4>1 DEF DaemonUnlock, TypeOK
      <4>2. CASE ~invalid[c]
        BY <1>9, <4>2 DEF DaemonUnlock, TypeOK
      <4> QED
        BY <4>1, <4>2
    <3> QED
      BY <1>9, <3>1, <3>2, <3>3 DEF DaemonUnlock, global, daemon, reap,
       TypeOK
  <2>2. FlagIsTruthful'
    BY <1>9 DEF DaemonUnlock, global, daemon, reap, TypeOK, FlagIsTruthful
  <2>3. PendingState' /\ ContextNotShared'
    BY <1>9 DEF DaemonUnlock, global, daemon, reap, TypeOK, PendingState,
       ContextNotShared, Holds
  <2> QED
    BY <2>1, <2>2, <2>3
<1>10. ASSUME NEW c \in Conns, ResetDaemon(c) PROVE IndInv'
  <2>1. TypeOK'
    <3>1. open' \subseteq 1..nctx /\ reusable' \in BOOLEAN
      BY <1>10 DEF ResetDaemon, TypeOK
    <3>2. ctx' \in [Conns -> 0..nctx] /\ invalid' \in [Conns -> BOOLEAN]
      BY <1>10 DEF ResetDaemon, TypeOK
    <3> QED
      BY <1>10, <3>1, <3>2 DEF ResetDaemon, daemon, reap,
       TypeOK
  <2>2. FlagIsTruthful'
    BY <1>10 DEF ResetDaemon, daemon, reap, TypeOK, FlagIsTruthful
  <2>3. PendingState' /\ ContextNotShared'
    BY <1>10 DEF ResetDaemon, daemon, reap, TypeOK, PendingState,
       ContextNotShared,
       Holds
  <2> QED
    BY <2>1, <2>2, <2>3
<1>11. CASE KillDaemon
  <2>1. TypeOK'
    BY <1>11 DEF KillDaemon, local, global, assuan, reap,
       TypeOK
  <2>2. FlagIsTruthful'
    BY <1>11 DEF KillDaemon, local, global, assuan, reap, TypeOK,
       FlagIsTruthful
  <2>3. PendingState' /\ ContextNotShared'
    BY <1>11 DEF KillDaemon, local, global, assuan, reap, TypeOK, PendingState,
       ContextNotShared, Holds
  <2> QED
    BY <2>1, <2>2, <2>3
<1>12. ASSUME NEW g \in 1..gen, Die(g) PROVE IndInv'
  <2>1. TypeOK'
    BY <1>12 DEF Die, local, global, assuan, reap,
       TypeOK
  <2>2. FlagIsTruthful'
    BY <1>12 DEF Die, local, global, assuan, reap, TypeOK, FlagIsTruthful
  <2>3. PendingState' /\ ContextNotShared'
    BY <1>12 DEF Die, local, global, assuan, reap, TypeOK, PendingState,
       ContextNotShared, Holds
  <2> QED
    BY <2>1, <2>2, <2>3
<1>13. ASSUME NEW g \in 1..gen, WaitChild(g) PROVE IndInv'
  <2>1. TypeOK'
    BY <1>13 DEF WaitChild, Unlocked, local, global, assuan, daemon, TypeOK
  <2>2. FlagIsTruthful'
    BY <1>13 DEF WaitChild, Unlocked, local, global, assuan, daemon, TypeOK,
       FlagIsTruthful
  <2>3. PendingState' /\ ContextNotShared'
    BY <1>13 DEF WaitChild, Unlocked, local, global, assuan, daemon, TypeOK,
       PendingState, ContextNotShared, Holds
  <2> QED
    BY <2>1, <2>2, <2>3
<1>14. ASSUME NEW c \in Conns, ReapMark(c) PROVE IndInv'
  <2>1. TypeOK'
    BY <1>14 DEF ReapMark, Visits, global, assuan, daemon, TypeOK
  <2>2. FlagIsTruthful'
    BY <1>14 DEF ReapMark, Visits, global, assuan, daemon, TypeOK,
       FlagIsTruthful
  <2>3. PendingState' /\ ContextNotShared'
    BY <1>14 DEF ReapMark, Visits, global, assuan, daemon, TypeOK,
       PendingState, ContextNotShared, Holds
  <2> QED
    BY <2>1, <2>2, <2>3
<1>15. ASSUME NEW c \in Conns, ReapRelease(c) PROVE IndInv'
  <2>1. TypeOK'
    BY <1>15 DEF ReapRelease, Visits, global, daemon, TypeOK
  <2>2. FlagIsTruthful'
    BY <1>15 DEF ReapRelease, Visits, global, daemon, TypeOK,
       FlagIsTruthful
  <2>3. PendingState' /\ ContextNotShared'
    BY <1>15 DEF ReapRelease, Visits, global, daemon, TypeOK,
       PendingState, ContextNotShared, Holds
  <2> QED
    BY <2>1, <2>2, <2>3
<1>16. ASSUME NEW c \in Conns, ReapClear(c) PROVE IndInv'
  <2>1. TypeOK'
    BY <1>16 DEF ReapClear, global, assuan, daemon, TypeOK
  <2>2. FlagIsTruthful'
    BY <1>16 DEF ReapClear, global, assuan, daemon, TypeOK,
       FlagIsTruthful
  <2>3. PendingState' /\ ContextNotShared'
    BY <1>16 DEF ReapClear, global, assuan, daemon, TypeOK,
       PendingState, ContextNotShared, Holds
  <2> QED
    BY <2>1, <2>2, <2>3
<1>17. CASE ReapDone
  <2>1. TypeOK'
    <3>1. primary' = 0 /\ reusable' = FALSE /\ socket' = FALSE /\ reaper' = 0
      BY <1>17 DEF ReapDone
    <3>2. primary' \in 0..nctx /\ reaper' \in 0..gen
      BY <3>1 DEF TypeOK
    <3>3. reusable' \in BOOLEAN /\ socket' \in BOOLEAN
      BY <3>1
    <3> QED
      BY <1>17, <3>2, <3>3 DEF ReapDone, local, assuan, TypeOK
  <2>2. FlagIsTruthful'
    BY <1>17 DEF ReapDone, local, assuan, TypeOK,
       FlagIsTruthful
  <2>3. PendingState' /\ ContextNotShared'
    BY <1>17 DEF ReapDone, local, assuan, TypeOK,
       PendingState, ContextNotShared, Holds
  <2> QED
    BY <2>1, <2>2, <2>3
<1>18. CASE UNCHANGED vars
  <2>1. TypeOK'
    BY <1>18 DEF vars, local, global, assuan, daemon, reap,
       TypeOK
  <2>2. FlagIsTruthful'
    BY <1>18 DEF vars, local, global, assuan, daemon, reap, TypeOK,
       FlagIsTruthful
  <2>3. PendingState' /\ ContextNotShared'
    BY <1>18 DEF vars, local, global, assuan, daemon, reap, TypeOK,
       PendingState,
       ContextNotShared, Holds
  <2> QED
    BY <2>1, <2>2, <2>3
<1> QED
  BY <1>1, <1>2, <1>3, <1>4, <1>5, <1>6, <1>7, <1>8, <1>9, <1>10, <1>11,
     <1>12, <1>13, <1>18, <1>14, <1>15, <1>16, <1>17 DEF Next, Start, Reap

\* The inductive invariant holds in every reachable state.
LEMMA IndInvHolds == Spec => []IndInv
  BY IndInvInit, IndInvStep, PTL DEF Spec

-----------------------------------------------------------------------------

\* The contexts, flags and daemons of call-daemon.c keep their types.
THEOREM DaemonTypes == Spec => []TypeOK
  BY IndInvHolds, PTL DEF IndInv

\* For any number of connections at most one scdaemon runs, although
\* daemon_start decides by primary_ctx only, and even when its watcher can't
\* be started.
THEOREM AtMostOneDaemon == Spec => []OneDaemon
<1>1. IndInv => OneDaemon
  BY DEF IndInv, FlagIsTruthful, OneDaemon
<1> QED
  BY <1>1, IndInvHolds, PTL

\* For any number of connections no two of them share an Assuan context,
\* whether it was new, handed on for reuse or kept by a late daemon_start.
THEOREM ContextsNotShared == Spec => []ContextNotShared
  BY IndInvHolds, PTL DEF IndInv

-----------------------------------------------------------------------------
(* Contexts that were released, and those of daemons that ended *)

\* What is known of a connection: who is between daemon_start and
\* daemon_unlock is flagged, and has a context to store at the end of
\* daemon_start; only a connection with a d_local structure has a
\* context; the mark of a watcher stays on a connection that is in use, and
\* then its context is not the primary one of another daemon; who was caught
\* by the watcher is marked.
Marks(c) ==
  /\ in_use[c] = (pc[c] # "idle")
  /\ pc[c] = "finish" => pending[c] # 0
  /\ c \notin listed => ctx[c] = 0 /\ pc[c] = "idle"
  /\ pc[c] = "idle" /\ invalid[c] => ctx[c] = 0 \/ c \in freeing
  /\ c \in freeing => /\ ctx[c] # 0 /\ invalid[c] /\ pc[c] # "finish"
                      /\ pc[c] = "busy" => c \in caught
  /\ c \in caught => /\ pc[c] = "busy" /\ invalid[c]
                     /\ c \in freeing \/ ctx[c] = 0
  /\ Unlocked /\ pc[c] = "busy" /\ invalid[c] /\ primary # 0
       => ctx[c] # primary

\* A context that is neither late nor marked is that of the current daemon;
\* a watcher leaves none behind.
Serves(c) ==
  ctx[c] \notin late \cup {0} =>
    /\ ~invalid[c] \/ c \in freeing => Served(c)
    /\ reaper # 0 /\ c \notin todo /\ ~invalid[c] => peer[ctx[c]] = 0

\* The watcher releases one context at a time, with the lock; the primary
\* context is that of the youngest daemon, and there if it can be reused.
Watcher ==
  /\ reaper = 0 => freeing = {}
  /\ \A c, d \in freeing : c = d
  /\ primary # 0 => peer[primary] = gen
  /\ CanReuse => primary \in open

Valid == /\ Watcher /\ ContextsValid
         /\ \A c \in Conns : Marks(c) /\ Serves(c)

\* The part of ContextsValid that is about one connection.
HasContext(c) ==
  /\ pending[c] \in open \cup {0}
  /\ c \notin freeing \cup caught =>
       ctx[c] \in open \cup (IF pc[c] = "busy" THEN {} ELSE {0})

PrimaryOpen ==
  Unlocked /\ primary # 0 /\ peer[primary] \in watched => primary \in open

\* The invariant, connection by connection.
LEMMA ValidParts ==
  /\ Valid <=> /\ Watcher /\ PrimaryOpen
               /\ \A c \in Conns : Marks(c) /\ Serves(c) /\ HasContext(c)
  /\ Valid' <=> /\ Watcher' /\ PrimaryOpen'
                /\ \A c \in Conns : Marks(c)' /\ Serves(c)' /\ HasContext(c)'
  BY DEF Valid, ContextsValid, PrimaryOpen, HasContext

\* What the types say of the numbers of contexts and daemons.
LEMMA Numbers ==
  ASSUME IndInv
  PROVE  /\ nctx \in Nat /\ gen \in Nat /\ MaxCtx \in Nat /\ nctx <= MaxCtx
         /\ primary \in 0..nctx /\ (primary # 0 => primary \in 1..MaxCtx)
         /\ open \subseteq 1..nctx /\ watched \subseteq 1..gen
         /\ \A c \in Conns : /\ ctx[c] \in 0..nctx /\ pending[c] \in 0..nctx
                             /\ ctx[c] # 0 => ctx[c] \in 1..MaxCtx
                             /\ ctx[c] # nctx + 1 /\ pending[c] # nctx + 1
         /\ primary # nctx + 1
  BY DaemonAssumption DEF IndInv, TypeOK

\* A step leaves the variables of connection d alone.
Same(d) ==
  /\ pc'[d] = pc[d] /\ ctx'[d] = ctx[d] /\ in_use'[d] = in_use[d]
  /\ invalid'[d] = invalid[d] /\ pending'[d] = pending[d]
  /\ d \in listed' <=> d \in listed
  /\ d \in freeing' <=> d \in freeing
  /\ d \in caught' <=> d \in caught

\* A step of one connection keeps what is known of the others, if it does
\* not release their contexts and their daemon is still the current one.
LEMMA Others ==
  ASSUME IndInv, Valid, NEW S \in SUBSET Conns, UNCHANGED reaper,
         late \subseteq late',
         \A d \in S : /\ Same(d) /\ (d \in todo => d \in todo')
                      /\ ctx[d] # 0 => peer'[ctx[d]] = peer[ctx[d]]
                      /\ ctx[d] # 0 /\ Served(d) => Served(d)'
                      /\ ctx[d] # 0 /\ ctx[d] = primary' => primary' = primary
                      /\ \A k \in open \ open' : ~Holds(d, k)
  PROVE  \A d \in S : Marks(d)' /\ Serves(d)' /\ HasContext(d)'
<1> SUFFICES ASSUME NEW d \in S
             PROVE  Marks(d)' /\ Serves(d)' /\ HasContext(d)'
  OBVIOUS
<1>1. Marks(d) /\ Serves(d) /\ HasContext(d)
  BY ValidParts
<1>2. Same(d)
  OBVIOUS
<1>3. Marks(d)'
  BY <1>1, <1>2 DEF Marks, Same, Unlocked
<1>4. Serves(d)'
  BY <1>1, <1>2 DEF Serves, Same
<1>5. HasContext(d)'
  <2>1. pending[d] # 0 => pending[d] \in open' \/ ~Holds(d, pending[d])
    BY <1>1 DEF HasContext
  <2>2. ctx[d] \in open => ctx[d] \in open' \/ ~Holds(d, ctx[d])
    OBVIOUS
  <2>3. 0 \notin open
    BY Numbers
  <2> QED
    BY <1>1, <1>2, <2>1, <2>2, <2>3 DEF HasContext, Same, Holds
<1> QED
  BY <1>3, <1>4, <1>5

\* What becomes of a connection that succeeds or fails, and of the others.
LEMMA Succeeds ==
  ASSUME IndInv, NEW c \in Conns, NEW k, Succeed(c, k),
         listed' \in {listed, listed \cup {c}}, UNCHANGED <<freeing, caught>>
  PROVE  /\ pc'[c] = "busy" /\ ctx'[c] = k /\ in_use'[c] = TRUE
         /\ invalid'[c] = FALSE /\ pending'[c] = 0
         /\ \A d \in Conns \ {c} : Same(d)
  BY DEF IndInv, TypeOK, Succeed, Same

\* The same when daemon_start fails.
LEMMA Fails ==
  ASSUME IndInv, NEW c \in Conns, Fail(c), listed' = listed \cup {c},
         UNCHANGED <<freeing, caught>>
  PROVE  /\ pc'[c] = pc[c] /\ ctx'[c] = ctx[c] /\ in_use'[c] = FALSE
         /\ invalid'[c] = FALSE /\ pending'[c] = pending[c]
         /\ \A d \in Conns \ {c} : Same(d)
  BY DEF IndInv, TypeOK, Fail, Same

\* The rest of the invariant when the global variables stay.
LEMMA GlobalsKept ==
  ASSUME IndInv, Valid, UNCHANGED <<primary, gen, watched, reap>>,
         reusable' => reusable,
         primary # 0 => peer'[primary] = peer[primary],
         primary \in open => primary \in open'
  PROVE  Watcher' /\ PrimaryOpen'
<1>1. Watcher /\ PrimaryOpen
  BY ValidParts
<1> QED
  BY <1>1 DEF Watcher, PrimaryOpen, CanReuse, Unlocked, reap

\* A connection that is not marked, with a context of the current daemon.
LEMMA Fresh ==
  ASSUME NEW c \in Conns, pc'[c] = "busy", in_use'[c] = TRUE,
         invalid'[c] = FALSE, pending'[c] = 0, c \in listed',
         c \notin caught', c \notin freeing',
         ctx'[c] \in open', ctx'[c] \in late' \/ Served(c)',
         reaper' = 0
  PROVE  Marks(c)' /\ Serves(c)' /\ HasContext(c)'
  BY DEF Marks, Serves, HasContext, Unlocked

\* Who enters daemon_start with the lock has no context, and no watcher is
\* at work.
LEMMA Entered ==
  ASSUME IndInv, Valid, NEW c \in Conns, Enter(c)
  PROVE  /\ pc[c] = "idle" /\ ctx[c] = 0 /\ pending[c] = 0
         /\ reaper = 0 /\ freeing = {} /\ c \notin caught
         /\ listed' = listed \cup {c}
<1>1. Watcher /\ Marks(c)
  BY ValidParts
<1> QED
  BY <1>1 DEF Enter, Unlocked, Watcher, Marks, IndInv, PendingState

\* daemon_start takes the context the connection has, without the lock: if
\* the watcher is releasing it the connection counts as caught.
LEMMA StartFastValid ==
  ASSUME IndInv, Valid, NEW c \in Conns, StartFast(c)
  PROVE  Valid'
<1>1. Watcher /\ PrimaryOpen /\ Marks(c) /\ Serves(c) /\ HasContext(c)
  BY ValidParts
<1>2. /\ pc[c] = "idle" /\ c \in listed /\ ctx[c] # 0
      /\ UNCHANGED <<listed, ctx, invalid, pending, global, assuan, daemon,
                     reap, late>>
      /\ caught' = caught \cup (freeing \cap {c})
  BY DEF StartFast
<1>3. /\ pc'[c] = "busy" /\ in_use'[c] = TRUE
      /\ \A d \in Conns \ {c} : Same(d)
  BY <1>2 DEF StartFast, IndInv, TypeOK, Same, reap
<1>4. \A d \in Conns \ {c} : Marks(d)' /\ Serves(d)' /\ HasContext(d)'
  <2>1. \A d \in Conns : Served(d) => Served(d)'
    BY <1>2 DEF Served, Current, global, assuan, daemon
  <2> QED
    BY <1>2, <1>3, <2>1, Others DEF global, assuan, daemon, reap
<1>5. Marks(c)' /\ HasContext(c)'
  <2>1. c \notin caught /\ pending[c] = 0 /\ (reaper = 0 => c \notin freeing)
    BY <1>1, <1>2 DEF Marks, Watcher, IndInv, PendingState
  <2>2. c \in caught' <=> c \in freeing
    BY <1>2, <2>1
  <2>3. invalid[c] => c \in freeing
    BY <1>1, <1>2 DEF Marks
  <2>4. Marks(c)'
    BY <1>1, <1>2, <1>3, <2>1, <2>2, <2>3 DEF Marks, Unlocked, reap
  <2>5. HasContext(c)'
    BY <1>1, <1>2, <1>3, <2>1, <2>2 DEF HasContext, assuan, reap
  <2> QED
    BY <2>4, <2>5
<1>6. Serves(c)'
  BY <1>1, <1>2 DEF Serves, Served, Current, global, assuan, daemon, reap
<1>7. Watcher' /\ PrimaryOpen'
  BY <1>2, GlobalsKept DEF global, assuan, daemon
<1> QED
  BY <1>4, <1>5, <1>6, <1>7, ValidParts

\* A primary context that is up for reuse is connected to the daemon.
LEMMA StartReuseValid ==
  ASSUME IndInv, Valid, NEW c \in Conns, StartReuse(c)
  PROVE  Valid'
<1>1. Watcher /\ PrimaryOpen
  BY ValidParts
<1>2. /\ reaper = 0 /\ freeing = {} /\ c \notin caught
      /\ listed' = listed \cup {c}
  BY Entered DEF StartReuse
<1>3. /\ primary # 0 /\ primary \in open /\ reusable' = FALSE
      /\ UNCHANGED <<primary, socket, assuan, daemon, reap, history>>
  BY <1>1 DEF StartReuse, CanReuse, Watcher
<1>4. /\ pc'[c] = "busy" /\ ctx'[c] = primary /\ in_use'[c] = TRUE
      /\ invalid'[c] = FALSE /\ pending'[c] = 0
      /\ \A d \in Conns \ {c} : Same(d)
  BY <1>2, <1>3, Succeeds DEF StartReuse, reap, history
<1>5. \A d \in Conns \ {c} : Marks(d)' /\ Serves(d)' /\ HasContext(d)'
  <2>1. \A d \in Conns \ {c} : Served(d) => Served(d)'
    BY <1>3, <1>4 DEF Served, Current, assuan, daemon, Same
  <2> QED
    BY <1>3, <1>4, <2>1, Others DEF assuan, reap, history
<1>6. Marks(c)' /\ Serves(c)' /\ HasContext(c)'
  <2>1. Served(c)'
    BY <1>3, <1>4 DEF Served, Current, assuan, daemon
  <2> QED
    BY <1>2, <1>3, <1>4, <2>1, Fresh DEF assuan, reap, history
<1>7. Watcher' /\ PrimaryOpen'
  BY <1>3, GlobalsKept DEF assuan, daemon
<1> QED
  BY <1>5, <1>6, <1>7, ValidParts

\* A new context is the last one, and the others stay connected.
LEMMA NewContext ==
  ASSUME IndInv, NEW p, NewCtx(p)
  PROVE  /\ nctx + 1 \in 1..MaxCtx /\ peer'[nctx + 1] = p
         /\ open' = open \cup {nctx + 1}
         /\ \A d \in Conns : ctx[d] # 0 => peer'[ctx[d]] = peer[ctx[d]]
         /\ primary # 0 => peer'[primary] = peer[primary]
<1>1. nctx + 1 \in 1..MaxCtx
  BY Numbers DEF NewCtx
<1>2. \A k \in 1..MaxCtx :
        peer'[k] = IF k = nctx + 1 THEN p ELSE peer[k]
  BY DEF NewCtx, IndInv, TypeOK
<1> QED
  BY <1>1, <1>2, Numbers DEF NewCtx

\* A connection over the socket is one to the current daemon.
LEMMA StartConnectValid ==
  ASSUME IndInv, Valid, NEW c \in Conns,
         StartConnect(c) \/ StartUnconnected(c)
  PROVE  Valid'
<1>1. Watcher /\ PrimaryOpen
  BY ValidParts
<1>2. /\ reaper = 0 /\ freeing = {} /\ c \notin caught
      /\ listed' = listed \cup {c}
  BY Entered DEF StartConnect, StartUnconnected
<1>3. PICK g \in alive \cup {0} : NewCtx(g)
  BY DEF StartConnect, StartUnconnected
<1>4. /\ Succeed(c, nctx + 1)
      /\ UNCHANGED <<global, daemon, reap, history>>
  BY DEF StartConnect, StartUnconnected
<1>5. /\ peer'[nctx + 1] = g
      /\ open' = open \cup {nctx + 1}
      /\ \A d \in Conns : ctx[d] # 0 => peer'[ctx[d]] = peer[ctx[d]]
      /\ primary # 0 => peer'[primary] = peer[primary]
  BY <1>3, NewContext
<1>6. /\ pc'[c] = "busy" /\ ctx'[c] = nctx + 1 /\ in_use'[c] = TRUE
      /\ invalid'[c] = FALSE /\ pending'[c] = 0
      /\ \A d \in Conns \ {c} : Same(d)
  BY <1>2, <1>4, Succeeds DEF reap, history
<1>7. Current' = Current
  BY <1>4, <1>5 DEF Current, global, daemon
<1>8. \A d \in Conns \ {c} : Marks(d)' /\ Serves(d)' /\ HasContext(d)'
  <2>1. \A d \in Conns \ {c} : ctx[d] # 0 /\ Served(d) => Served(d)'
    BY <1>5, <1>6, <1>7 DEF Served, Same
  <2> QED
    BY <1>4, <1>5, <1>6, <2>1, Others DEF global, reap, history
<1>9. Marks(c)' /\ Serves(c)' /\ HasContext(c)'
  <2>1. g \in Current \cup {0}
    BY <1>1 DEF Watcher, Current, IndInv, FlagIsTruthful
  <2>2. Served(c)'
    BY <1>5, <1>6, <1>7, <2>1 DEF Served
  <2> QED
    BY <1>2, <1>4, <1>5, <1>6, <2>2, Fresh DEF reap, history
<1>10. Watcher' /\ PrimaryOpen'
  BY <1>4, <1>5, GlobalsKept DEF global, daemon
<1> QED
  BY <1>8, <1>9, <1>10, ValidParts

\* A connection that failed is as it was.
LEMMA Failed ==
  ASSUME IndInv, Valid, NEW c \in Conns, Enter(c), Fail(c),
         UNCHANGED <<freeing, caught>>
  PROVE  Marks(c)' /\ Serves(c)' /\ HasContext(c)'
<1>1. /\ pc[c] = "idle" /\ ctx[c] = 0 /\ pending[c] = 0
      /\ reaper = 0 /\ freeing = {} /\ c \notin caught
      /\ listed' = listed \cup {c}
  BY Entered
<1>2. /\ pc'[c] = pc[c] /\ ctx'[c] = ctx[c] /\ in_use'[c] = FALSE
      /\ invalid'[c] = FALSE /\ pending'[c] = pending[c]
  BY <1>1, Fails
<1> QED
  BY <1>1, <1>2 DEF Marks, Serves, HasContext

\* A daemon_start that fails without a fork leaves all contexts alone.
LEMMA StartFailsValid ==
  ASSUME IndInv, Valid, NEW c \in Conns, StartFails(c)
  PROVE  Valid'
<1>1. /\ Enter(c) /\ Fail(c) /\ listed' = listed \cup {c}
      /\ UNCHANGED <<global, assuan, daemon, reap, history>>
  BY Entered DEF StartFails
<1>2. Marks(c)' /\ Serves(c)' /\ HasContext(c)'
  BY <1>1, Failed DEF reap, history
<1>3. \A d \in Conns \ {c} : Same(d)
  BY <1>1, Fails DEF reap, history
<1>4. \A d \in Conns \ {c} : Marks(d)' /\ Serves(d)' /\ HasContext(d)'
  <2>1. \A d \in Conns \ {c} : Served(d) => Served(d)'
    BY <1>1, <1>3 DEF Served, Current, global, assuan, daemon, Same
  <2> QED
    BY <1>1, <1>3, <2>1, Others DEF global, assuan, reap, history
<1>5. Watcher' /\ PrimaryOpen'
  BY <1>1, GlobalsKept DEF global, assuan, daemon
<1> QED
  BY <1>2, <1>4, <1>5, ValidParts

\* Before a daemon is forked nobody has a context of another one, but those
\* that are marked or late.
LEMMA NoneServed ==
  ASSUME IndInv, Valid, MayFork
  PROVE  /\ primary = 0 /\ watched = {} /\ Current = {}
         /\ \A d \in Conns : Served(d) => peer[ctx[d]] = 0
  BY DEF MayFork, IndInv, FlagIsTruthful, Current, Served

\* What Fork makes of the global variables.
LEMMA Forked ==
  ASSUME IndInv, Valid, MayFork, Fork, UNCHANGED reap, reaper = 0,
         nctx' = nctx + 1, nctx < MaxCtx,
         peer' = [peer EXCEPT ![nctx + 1] = gen + 1],
         watched' \in {watched, watched \cup {gen + 1}},
         open' = IF watched' = watched THEN open ELSE open \cup {nctx + 1}
  PROVE  /\ Watcher' /\ PrimaryOpen'
         /\ peer'[nctx + 1] = gen + 1
         /\ \A d \in Conns : /\ ctx[d] # 0 => peer'[ctx[d]] = peer[ctx[d]]
                             /\ ctx[d] # primary'
<1>1. /\ nctx + 1 \in 1..MaxCtx /\ gen \in Nat /\ watched = {}
      /\ nctx \in Nat
  BY Numbers, NoneServed
<1>2. \A k \in 1..MaxCtx :
        peer'[k] = IF k = nctx + 1 THEN gen + 1 ELSE peer[k]
  BY DEF IndInv, TypeOK
<1>3. primary' = nctx + 1 /\ reusable' = FALSE /\ gen' = gen + 1
  BY DEF Fork
<1>4. Watcher'
  <2>1. Watcher
    BY ValidParts
  <2> QED
    BY <1>1, <1>2, <1>3, <2>1 DEF Watcher, CanReuse, reap
<1>5. PrimaryOpen'
  BY <1>1, <1>2, <1>3 DEF PrimaryOpen
<1> QED
  BY <1>1, <1>2, <1>3, <1>4, <1>5, Numbers

\* A new daemon's pipe becomes the primary context, and the connection's
\* own one at once or at the end of daemon_start.
LEMMA StartForkValid ==
  ASSUME IndInv, Valid, NEW c \in Conns, StartFork(c)
  PROVE  Valid'
<1>1. /\ Enter(c) /\ MayFork /\ Fork /\ NewCtx(gen + 1)
      /\ watched' = watched \cup {gen + 1}
      /\ UNCHANGED <<reap, history>>
  BY DEF StartFork
<1>2. /\ pc[c] = "idle" /\ ctx[c] = 0
      /\ reaper = 0 /\ freeing = {} /\ c \notin caught
      /\ listed' = listed \cup {c}
  BY <1>1, Entered
<1>3. /\ nctx' = nctx + 1 /\ nctx < MaxCtx
      /\ peer' = [peer EXCEPT ![nctx + 1] = gen + 1]
      /\ open' = open \cup {nctx + 1}
  BY <1>1 DEF NewCtx
<1>4. gen + 1 \notin watched
  BY <1>1, NoneServed
<1>5. /\ Watcher' /\ PrimaryOpen'
      /\ peer'[nctx + 1] = gen + 1
      /\ \A d \in Conns : /\ ctx[d] # 0 => peer'[ctx[d]] = peer[ctx[d]]
                          /\ ctx[d] # primary'
  <2>1. open' = IF watched' = watched THEN open ELSE open \cup {nctx + 1}
    BY <1>1, <1>3, <1>4
  <2> QED
    BY <1>1, <1>2, <1>3, <2>1, Forked
<1>6. CASE ~AbsHomedir
  <2>1. /\ pc'[c] = "busy" /\ ctx'[c] = nctx + 1 /\ in_use'[c] = TRUE
        /\ invalid'[c] = FALSE /\ pending'[c] = 0
        /\ \A d \in Conns \ {c} : Same(d)
    BY <1>1, <1>2, <1>6, Succeeds DEF StartFork, reap, history
  <2>2. \A d \in Conns \ {c} : ctx[d] # 0 /\ Served(d) => Served(d)'
    BY <1>1, <1>5, <2>1, NoneServed DEF Served, Same
  <2>3. \A d \in Conns \ {c} : Marks(d)' /\ Serves(d)' /\ HasContext(d)'
    BY <1>1, <1>3, <1>5, <2>1, <2>2, Others DEF reap, history
  <2>4. Served(c)'
    BY <1>1, <1>5, <2>1 DEF Served, Current
  <2>5. Marks(c)' /\ Serves(c)' /\ HasContext(c)'
    BY <1>1, <1>2, <1>3, <2>1, <2>4, Fresh DEF reap, history
  <2> QED
    BY <1>5, <2>3, <2>5, ValidParts
<1>7. CASE AbsHomedir
  <2>1. /\ pc'[c] = "finish" /\ ctx'[c] = 0 /\ in_use'[c] = TRUE
        /\ invalid'[c] = invalid[c] /\ pending'[c] = nctx + 1
        /\ \A d \in Conns \ {c} : Same(d)
    BY <1>1, <1>2, <1>7 DEF StartFork, IndInv, TypeOK, Same, reap, history
  <2>2. \A d \in Conns \ {c} : ctx[d] # 0 /\ Served(d) => Served(d)'
    BY <1>1, <1>5, <2>1, NoneServed DEF Served, Same
  <2>3. \A d \in Conns \ {c} : Marks(d)' /\ Serves(d)' /\ HasContext(d)'
    BY <1>1, <1>3, <1>5, <2>1, <2>2, Others DEF reap, history
  <2>4. Marks(c)' /\ Serves(c)' /\ HasContext(c)'
    BY <1>1, <1>2, <1>3, <2>1, Numbers
       DEF Marks, Serves, HasContext, reap, history
  <2> QED
    BY <1>5, <2>3, <2>4, ValidParts
<1> QED
  BY <1>6, <1>7

\* Without a watcher the context of the new daemon is released at once.
LEMMA StartUnwatchedValid ==
  ASSUME IndInv, Valid, NEW c \in Conns, StartUnwatched(c)
  PROVE  Valid'
<1>1. /\ Enter(c) /\ MayFork /\ Fork /\ Fail(c)
      /\ nctx' = nctx + 1 /\ nctx < MaxCtx
      /\ peer' = [peer EXCEPT ![nctx + 1] = gen + 1]
      /\ UNCHANGED <<open, watched, reap, history>>
  BY DEF StartUnwatched
<1>2. reaper = 0 /\ listed' = listed \cup {c}
  BY <1>1, Entered
<1>3. /\ Watcher' /\ PrimaryOpen'
      /\ \A d \in Conns : /\ ctx[d] # 0 => peer'[ctx[d]] = peer[ctx[d]]
                          /\ ctx[d] # primary'
  BY <1>1, <1>2, Forked
<1>4. Marks(c)' /\ Serves(c)' /\ HasContext(c)'
  BY <1>1, Failed DEF reap, history
<1>5. \A d \in Conns \ {c} : Same(d)
  BY <1>1, <1>2, Fails DEF reap, history
<1>6. \A d \in Conns \ {c} : ctx[d] # 0 /\ Served(d) => Served(d)'
  BY <1>1, <1>3, <1>5, NoneServed DEF Served, Same
<1>7. \A d \in Conns \ {c} : Marks(d)' /\ Serves(d)' /\ HasContext(d)'
  BY <1>1, <1>3, <1>5, <1>6, Others DEF reap, history
<1> QED
  BY <1>3, <1>4, <1>7, ValidParts

\* Not missed: the watcher of the new daemon is still to come.
LEMMA StartFinishValid ==
  ASSUME IndInv, Valid, NEW c \in Conns, StartFinish(c)
  PROVE  Valid'
<1>1. Watcher /\ PrimaryOpen /\ Marks(c) /\ Serves(c) /\ HasContext(c)
  BY ValidParts
<1>2. /\ pc[c] = "finish" /\ Succeed(c, pending[c])
      /\ late' = late \cup (IF Missed(c) THEN {pending[c]} ELSE {})
      /\ UNCHANGED <<listed, global, assuan, daemon, reap, caught>>
  BY DEF StartFinish
<1>3. /\ pc'[c] = "busy" /\ ctx'[c] = pending[c] /\ in_use'[c] = TRUE
      /\ invalid'[c] = FALSE /\ pending'[c] = 0
      /\ \A d \in Conns \ {c} : Same(d)
  BY <1>2, Succeeds DEF reap
<1>4. \A d \in Conns \ {c} : Marks(d)' /\ Serves(d)' /\ HasContext(d)'
  <2>1. \A d \in Conns \ {c} : Served(d) => Served(d)'
    BY <1>2, <1>3 DEF Served, Current, global, assuan, daemon, Same
  <2> QED
    BY <1>2, <1>3, <2>1, Others DEF global, assuan, reap
<1>5. Marks(c)'
  BY <1>1, <1>2, <1>3 DEF Marks, reap
<1>6. HasContext(c)'
  <2>1. c \notin caught /\ c \notin freeing /\ pending[c] \in open \cup {0}
    BY <1>1, <1>2 DEF Marks, HasContext
  <2>2. pending[c] # 0
    BY <1>1, <1>2 DEF Marks
  <2> QED
    BY <1>2, <1>3, <2>1, <2>2 DEF HasContext, assuan, reap
<1>7. Serves(c)'
  <2> SUFFICES ASSUME ctx'[c] \notin late' \cup {0}
               PROVE  Serves(c)'
    BY DEF Serves
  <2>1. ~Missed(c)
    BY <1>2, <1>3
  <2>2. /\ peer[pending[c]] \in watched
        /\ reaper = peer[pending[c]] => c \in todo
    BY <2>1 DEF Missed
  <2>3. Served(c)'
    BY <1>2, <1>3, <2>2 DEF Served, Current, assuan, daemon
  <2>4. reaper # 0 => c \in todo
    BY <2>2 DEF IndInv, FlagIsTruthful
  <2> QED
    BY <1>2, <2>3, <2>4 DEF Serves, reap
<1>8. Watcher' /\ PrimaryOpen'
  BY <1>2, GlobalsKept DEF global, assuan, daemon
<1> QED
  BY <1>4, <1>5, <1>6, <1>7, <1>8, ValidParts

\* The context that is released is nobody else's, and not the primary one.
LEMMA DaemonUnlockValid ==
  ASSUME IndInv, Valid, NEW c \in Conns, DaemonUnlock(c)
  PROVE  Valid'
<1>1. Watcher /\ PrimaryOpen /\ Marks(c) /\ Serves(c) /\ HasContext(c)
  BY ValidParts
<1>2. /\ pc[c] = "busy" /\ reaper = 0 /\ caught' = caught \ {c}
      /\ UNCHANGED <<listed, pending, global, nctx, peer, daemon, reap, late>>
      /\ open' = IF invalid[c] THEN open \ {ctx[c]} ELSE open
  BY DEF DaemonUnlock, Unlocked
<1>3. /\ pc'[c] = "idle" /\ in_use'[c] = FALSE /\ invalid'[c] = FALSE
      /\ ctx'[c] = IF invalid[c] THEN 0 ELSE ctx[c]
      /\ \A d \in Conns \ {c} : Same(d)
  <2>1. CASE invalid[c]
    BY <1>2, <2>1 DEF DaemonUnlock, IndInv, TypeOK, Same, reap
  <2>2. CASE ~invalid[c]
    <3>1. invalid[c] = FALSE
      BY <2>2 DEF IndInv, TypeOK
    <3> QED
      BY <1>2, <2>2, <3>1 DEF DaemonUnlock, IndInv, TypeOK, Same, reap
  <2> QED
    BY <2>1, <2>2
<1>4. /\ freeing = {} /\ pending[c] = 0
      /\ invalid[c] /\ primary # 0 => ctx[c] # primary
      /\ c \in caught => ctx[c] = 0 /\ invalid[c]
  BY <1>1, <1>2 DEF Watcher, Marks, Unlocked, IndInv, PendingState
<1>5. \A d \in Conns \ {c} : Marks(d)' /\ Serves(d)' /\ HasContext(d)'
  <2>1. \A d \in Conns \ {c} : Served(d) => Served(d)'
    BY <1>2, <1>3 DEF Served, Current, global, daemon, Same
  <2>2. \A d \in Conns \ {c} : \A k \in open \ open' : ~Holds(d, k)
    <3> SUFFICES ASSUME NEW d \in Conns \ {c}, NEW k \in open \ open'
                 PROVE  ~Holds(d, k)
      OBVIOUS
    <3>1. k = ctx[c] /\ k # 0 /\ k \in 1..nctx
      BY <1>2, Numbers
    <3> QED
      BY <3>1 DEF IndInv, ContextNotShared, Holds
  <2> QED
    BY <1>2, <1>3, <2>1, <2>2, Others DEF global, reap
<1>6. Marks(c)'
  BY <1>1, <1>2, <1>3, <1>4 DEF Marks, reap
<1>7. HasContext(c)'
  <2>1. CASE invalid[c]
    BY <1>1, <1>2, <1>3, <1>4, <2>1 DEF HasContext
  <2>2. CASE ~invalid[c]
    BY <1>1, <1>2, <1>3, <1>4, <2>2 DEF HasContext
  <2> QED
    BY <2>1, <2>2
<1>8. Serves(c)'
  BY <1>1, <1>2, <1>3
     DEF Serves, Served, Current, global, daemon, reap
<1>9. Watcher' /\ PrimaryOpen'
  <2>1. primary \in open => primary \in open'
    BY <1>2, <1>4, Numbers
  <2> QED
    BY <1>2, <2>1, GlobalsKept DEF global, daemon
<1> QED
  BY <1>5, <1>6, <1>7, <1>8, <1>9, ValidParts

\* A context is kept for reuse if it is the primary one, which is connected.
LEMMA ResetDaemonValid ==
  ASSUME IndInv, Valid, NEW c \in Conns, ResetDaemon(c)
  PROVE  Valid'
<1>1. Watcher /\ PrimaryOpen /\ Marks(c) /\ Serves(c) /\ HasContext(c)
  BY ValidParts
<1>2. /\ pc[c] = "idle" /\ reaper = 0 /\ listed' = listed \ {c}
      /\ UNCHANGED <<pc, in_use, pending, primary, socket, nctx, peer, daemon,
                     reap, history>>
      /\ open' \in {open, open \ {ctx[c]}}
      /\ ctx[c] # 0 /\ ctx[c] = primary => open' = open
      /\ reusable' => reusable \/ (ctx[c] # 0 /\ ctx[c] = primary)
  BY DEF ResetDaemon, Unlocked
<1>3. /\ ctx'[c] = 0 /\ invalid'[c] = FALSE
      /\ \A d \in Conns \ {c} : Same(d)
  BY <1>2 DEF ResetDaemon, IndInv, TypeOK, Same, reap, history
<1>4. freeing = {} /\ pending[c] = 0 /\ c \notin caught
  BY <1>1, <1>2 DEF Watcher, Marks, IndInv, PendingState
<1>5. \A d \in Conns \ {c} : Marks(d)' /\ Serves(d)' /\ HasContext(d)'
  <2>1. \A d \in Conns \ {c} : Served(d) => Served(d)'
    BY <1>2, <1>3 DEF Served, Current, daemon, Same
  <2>2. \A d \in Conns \ {c} : \A k \in open \ open' : ~Holds(d, k)
    <3> SUFFICES ASSUME NEW d \in Conns \ {c}, NEW k \in open \ open'
                 PROVE  ~Holds(d, k)
      OBVIOUS
    <3>1. k = ctx[c] /\ k # 0 /\ k \in 1..nctx
      BY <1>2, Numbers
    <3> QED
      BY <3>1 DEF IndInv, ContextNotShared, Holds
  <2> QED
    BY <1>2, <1>3, <2>1, <2>2, Others DEF reap, history
<1>6. Marks(c)' /\ Serves(c)' /\ HasContext(c)'
  BY <1>1, <1>2, <1>3, <1>4 DEF Marks, Serves, HasContext, reap, history
<1>7. primary \in open => primary \in open'
  BY <1>2, Numbers
<1>8. Watcher' /\ PrimaryOpen'
  <2>1. ctx[c] # 0 /\ ctx[c] = primary => primary \in open
    BY <1>1, <1>4 DEF HasContext
  <2>2. Watcher'
    BY <1>1, <1>2, <1>7, <2>1 DEF Watcher, CanReuse, daemon, reap
  <2>3. PrimaryOpen'
    BY <1>1, <1>2, <1>7 DEF PrimaryOpen, Unlocked, daemon, reap
  <2> QED
    BY <2>2, <2>3
<1> QED
  BY <1>5, <1>6, <1>8, ValidParts

\* The end of a daemon is noticed later.
LEMMA EndValid ==
  ASSUME IndInv, Valid,
         \/ UNCHANGED vars
         \/ UNCHANGED <<pc, local, global, assuan, gen, watched, reap, history>>
  PROVE  Valid'
<1>1. UNCHANGED <<pc, local, global, assuan, gen, watched, reap, history>>
  BY DEF vars, daemon
<1>2. \A d \in Conns : Same(d) /\ (Served(d) => Served(d)')
  BY <1>1 DEF Same, Served, Current, local, global, assuan, reap, history
<1>3. \A d \in Conns : Marks(d)' /\ Serves(d)' /\ HasContext(d)'
  BY <1>1, <1>2, Others DEF global, assuan, reap, history
<1>4. Watcher' /\ PrimaryOpen'
  BY <1>1, GlobalsKept DEF global, assuan
<1> QED
  BY <1>3, <1>4, ValidParts

\* The watcher is going to visit all connections that have a context.
LEMMA WaitChildValid ==
  ASSUME IndInv, Valid, NEW g \in 1..gen, WaitChild(g)
  PROVE  Valid'
<1>1. /\ reaper' = g /\ reaper = 0 /\ todo' = listed
      /\ UNCHANGED <<pc, local, global, assuan, daemon, freeing, history>>
  BY DEF WaitChild, Unlocked
<1>2. reaper' # 0
  BY <1>1, Numbers
<1>3. Watcher' /\ PrimaryOpen'
  <2>1. Watcher
    BY ValidParts
  <2> QED
    BY <1>1, <1>2, <2>1
       DEF Watcher, PrimaryOpen, Unlocked, CanReuse, global, assuan, daemon
<1>4. ASSUME NEW d \in Conns
      PROVE  Marks(d)' /\ Serves(d)' /\ HasContext(d)'
  <2>1. Marks(d) /\ Serves(d) /\ HasContext(d)
    BY ValidParts
  <2>2. Same(d)
    BY <1>1 DEF Same, local, history
  <2>3. Marks(d)'
    BY <1>2, <2>1, <2>2 DEF Marks, Same, Unlocked
  <2>4. Serves(d)'
    BY <1>1, <2>1
       DEF Serves, Marks, Served, Current, local, global, assuan, daemon,
           history
  <2>5. HasContext(d)'
    BY <1>1, <2>1, <2>2 DEF HasContext, Same, assuan
  <2> QED
    BY <2>3, <2>4, <2>5
<1> QED
  BY <1>3, <1>4, ValidParts

\* Only a connection that is in use or has no context is merely marked.
LEMMA ReapMarkValid ==
  ASSUME IndInv, Valid, NEW c \in Conns, ReapMark(c)
  PROVE  Valid'
<1>1. Watcher /\ Marks(c) /\ Serves(c) /\ HasContext(c)
  BY ValidParts
<1>2. /\ reaper # 0 /\ freeing = {} /\ ~Reapable(c) /\ todo' = todo \ {c}
      /\ UNCHANGED <<pc, listed, ctx, in_use, pending, global, assuan, daemon,
                     reaper, freeing, history>>
  BY DEF ReapMark, Visits
<1>3. invalid'[c] = TRUE /\ \A d \in Conns \ {c} : Same(d)
  BY <1>2 DEF ReapMark, IndInv, TypeOK, Same, history
<1>4. \A d \in Conns \ {c} : Marks(d)' /\ Serves(d)' /\ HasContext(d)'
  <2>1. \A d \in Conns \ {c} : Served(d) => Served(d)'
    BY <1>2 DEF Served, Current, global, assuan, daemon
  <2> QED
    BY <1>2, <1>3, <2>1, Others DEF global, assuan, history
<1>5. Marks(c)'
  BY <1>1, <1>2, <1>3 DEF Marks, Reapable, Unlocked, history
<1>6. Serves(c)' /\ HasContext(c)'
  BY <1>1, <1>2, <1>3 DEF Serves, HasContext, assuan, history
<1>7. Watcher' /\ PrimaryOpen'
  BY <1>1, <1>2
     DEF Watcher, PrimaryOpen, Unlocked, CanReuse, global, assuan, daemon
<1> QED
  BY <1>4, <1>5, <1>6, <1>7, ValidParts

\* The context of an idle connection is not up for reuse.
LEMMA ReapReleaseValid ==
  ASSUME IndInv, Valid, NEW c \in Conns, ReapRelease(c)
  PROVE  Valid'
<1>1. Watcher /\ Marks(c) /\ Serves(c) /\ HasContext(c)
  BY ValidParts
<1>2. /\ reaper # 0 /\ freeing = {} /\ Reapable(c) /\ freeing' = {c}
      /\ open' = open \ {ctx[c]}
      /\ UNCHANGED <<pc, listed, ctx, in_use, pending, global, nctx, peer,
                     daemon, reaper, todo, history>>
  BY DEF ReapRelease, Visits
<1>3. invalid'[c] = TRUE /\ \A d \in Conns \ {c} : Same(d)
  BY <1>2 DEF ReapRelease, IndInv, TypeOK, Same, history
<1>4. pc[c] = "idle" /\ ctx[c] # 0 /\ ~invalid[c] /\ pending[c] = 0
  BY <1>1, <1>2 DEF Marks, Reapable, IndInv, PendingState
<1>5. \A d \in Conns \ {c} : Marks(d)' /\ Serves(d)' /\ HasContext(d)'
  <2>1. \A d \in Conns \ {c} : Served(d) => Served(d)'
    BY <1>2 DEF Served, Current, global, daemon
  <2>2. \A d \in Conns \ {c} : \A k \in open \ open' : ~Holds(d, k)
    <3> SUFFICES ASSUME NEW d \in Conns \ {c}, NEW k \in open \ open'
                 PROVE  ~Holds(d, k)
      OBVIOUS
    <3>1. k = ctx[c] /\ k # 0 /\ k \in 1..nctx
      BY <1>2, Numbers
    <3> QED
      BY <3>1 DEF IndInv, ContextNotShared, Holds
  <2> QED
    BY <1>2, <1>3, <2>1, <2>2, Others DEF global, history
<1>6. Marks(c)'
  BY <1>1, <1>2, <1>3, <1>4 DEF Marks, Unlocked, history
<1>7. Serves(c)' /\ HasContext(c)'
  <2>1. ctx[c] \notin late \cup {0} => Served(c)
    BY <1>1, <1>4 DEF Serves
  <2>2. Served(c) => Served(c)'
    BY <1>2 DEF Served, Current, global, daemon
  <2> QED
    BY <1>2, <1>3, <1>4, <2>1, <2>2 DEF Serves, HasContext, history
<1>8. Watcher' /\ PrimaryOpen'
  <2>1. CanReuse => primary # ctx[c]
    BY <1>4 DEF CanReuse, IndInv, ContextNotShared, Holds
  <2> QED
    BY <1>1, <1>2, <2>1
       DEF Watcher, PrimaryOpen, Unlocked, CanReuse, global, daemon
<1> QED
  BY <1>5, <1>6, <1>7, <1>8, ValidParts

\* The pointer is cleared: who entered daemon_start meanwhile was caught.
LEMMA ReapClearValid ==
  ASSUME IndInv, Valid, NEW c \in Conns, ReapClear(c)
  PROVE  Valid'
<1>1. Watcher /\ Marks(c) /\ Serves(c) /\ HasContext(c)
  BY ValidParts
<1>2. /\ c \in freeing /\ freeing' = {} /\ todo' = todo \ {c}
      /\ UNCHANGED <<pc, listed, in_use, invalid, pending, global, assuan,
                     daemon, reaper, history>>
  BY DEF ReapClear
<1>3. reaper # 0 /\ freeing = {c}
  BY <1>1, <1>2 DEF Watcher
<1>4. ctx'[c] = 0 /\ \A d \in Conns \ {c} : Same(d)
  BY <1>2, <1>3 DEF ReapClear, IndInv, TypeOK, Same, history
<1>5. \A d \in Conns \ {c} : Marks(d)' /\ Serves(d)' /\ HasContext(d)'
  <2>1. \A d \in Conns \ {c} : Served(d) => Served(d)'
    BY <1>2, <1>4 DEF Served, Current, global, assuan, daemon, Same
  <2> QED
    BY <1>2, <1>4, <2>1, Others DEF global, assuan, history
<1>6. Marks(c)'
  BY <1>1, <1>2, <1>3, <1>4 DEF Marks, Unlocked, history
<1>7. Serves(c)' /\ HasContext(c)'
  BY <1>1, <1>2, <1>4 DEF Serves, HasContext, Marks, assuan, history
<1>8. Watcher' /\ PrimaryOpen'
  BY <1>1, <1>2, <1>3
     DEF Watcher, PrimaryOpen, Unlocked, CanReuse, global, assuan, daemon
<1> QED
  BY <1>5, <1>6, <1>7, <1>8, ValidParts

\* All connections were visited: what is neither marked nor late was never
\* connected.
LEMMA ReapDoneValid ==
  ASSUME IndInv, Valid, ReapDone
  PROVE  Valid'
<1>1. /\ reaper # 0 /\ freeing = {} /\ todo = {}
      /\ primary' = 0 /\ reusable' = FALSE /\ watched' = watched \ {reaper}
      /\ reaper' = 0
      /\ UNCHANGED <<pc, local, assuan, gen, alive, freeing, todo, history>>
  BY DEF ReapDone
<1>2. Watcher' /\ PrimaryOpen'
  BY <1>1 DEF Watcher, PrimaryOpen, CanReuse
<1>3. ASSUME NEW d \in Conns
      PROVE  Marks(d)' /\ Serves(d)' /\ HasContext(d)'
  <2>1. Marks(d) /\ Serves(d) /\ HasContext(d)
    BY ValidParts
  <2>2. Same(d)
    BY <1>1 DEF Same, local, history
  <2>3. Marks(d)'
    BY <1>1, <2>1, <2>2 DEF Marks, Same
  <2>4. Serves(d)'
    BY <1>1, <2>1 DEF Serves, Served, local, assuan, history
  <2>5. HasContext(d)'
    BY <1>1, <2>1, <2>2 DEF HasContext, Same, assuan
  <2> QED
    BY <2>3, <2>4, <2>5
<1> QED
  BY <1>2, <1>3, ValidParts

\* No connection has a context when the agent starts.
LEMMA ValidInit == Init => Valid
<1> SUFFICES ASSUME Init PROVE Valid
  OBVIOUS
<1>1. Watcher /\ PrimaryOpen
  BY DEF Init, Watcher, PrimaryOpen, CanReuse
<1>2. ASSUME NEW c \in Conns
      PROVE  Marks(c) /\ Serves(c) /\ HasContext(c)
  <2>1. /\ in_use[c] = FALSE /\ pc[c] = "idle" /\ ctx[c] = 0
        /\ pending[c] = 0 /\ invalid[c] = FALSE
        /\ freeing = {} /\ caught = {} /\ late = {}
    BY DEF Init
  <2> QED
    BY <2>1 DEF Marks, Serves, HasContext
<1> QED
  BY <1>1, <1>2, ValidParts

\* Every step of the connections, the daemon and the watcher keeps Valid.
LEMMA ValidStep ==
  IndInv /\ Valid /\ [Next]_vars => Valid'
<1> SUFFICES ASSUME IndInv, Valid, [Next]_vars PROVE Valid'
  OBVIOUS
<1>1. ASSUME NEW c \in Conns, Start(c) PROVE Valid'
  BY <1>1, StartFastValid, StartReuseValid, StartConnectValid,
     StartFailsValid, StartForkValid, StartUnwatchedValid, StartFinishValid
     DEF Start
<1>2. ASSUME NEW c \in Conns, DaemonUnlock(c) \/ ResetDaemon(c) PROVE Valid'
  BY <1>2, DaemonUnlockValid, ResetDaemonValid
<1>3. ASSUME NEW g \in 1..gen, WaitChild(g) \/ Die(g) PROVE Valid'
  BY <1>3, WaitChildValid, EndValid DEF Die
<1>4. ASSUME Reap PROVE Valid'
  BY <1>4, ReapMarkValid, ReapReleaseValid, ReapClearValid, ReapDoneValid
     DEF Reap
<1>5. ASSUME KillDaemon \/ UNCHANGED vars PROVE Valid'
  BY <1>5, EndValid DEF KillDaemon
<1> QED
  BY <1>1, <1>2, <1>3, <1>4, <1>5 DEF Next

\* Valid is an invariant of call-daemon.c.
LEMMA ValidHolds == Spec => []Valid
<1>1. Spec => []IndInv
  BY IndInvHolds
<1> QED
  BY <1>1, ValidInit, ValidStep, PTL DEF Spec

\* No connection and not g->primary_ctx refers to a released context, and
\* a connection in use has one.
THEOREM ContextsStayValid == Spec => []ContextsValid
<1>1. Valid => ContextsValid
  BY DEF Valid
<1> QED
  BY <1>1, ValidHolds, PTL

\* For any number of connections, an idle one keeps no context of a daemon
\* whose end wait_child_thread has noticed, but for the late ones.
THEOREM IdleContexts == Spec => []IdleContextCurrent
<1>1. Valid => IdleContextCurrent
  <2> SUFFICES ASSUME Valid, NEW c \in Conns, pc[c] = "idle",
                      ctx[c] \notin late \cup {0}
               PROVE  Served(c)
    BY DEF IdleContextCurrent
  <2> QED
    BY DEF Valid, Marks, Serves
<1> QED
  BY <1>1, ValidHolds, PTL

=============================================================================
