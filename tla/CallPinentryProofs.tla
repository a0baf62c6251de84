------------------------- MODULE CallPinentryProofs -------------------------
(***************************************************************************)
(* Proofs about CallPinentry, for any number of connections and of calls,  *)
(* with every failure that the model has.                                  *)
(***************************************************************************)
EXTENDS CallPinentry, TLAPS

\* What is true of c while nothing is lost.  Its count is that of its uses,
\* and it holds the lock exactly when it has one.  A thread that waits for
\* the lock is not in the callback of its own dialog; one that joins joins
\* its own popup; a connection leaves no popup behind.
Tracked(c) ==
  /\ active[c] = Uses(c)
  /\ holder = c <=> Uses(c) > 0
  /\ pc[c] = "lock" => why[c] # "check"
  /\ pc[c] = "join" => popup_tid = c
  /\ pc[c] = "closed" => popup_tid # c

\* Lost or not: only a thread without a use waits for the lock.
WaitersUnused == \A c \in Conns : pc[c] = "lock" => active[c] = 0

AllTracked == ~lost => entry_ctx = holder /\ \A c \in Conns : Tracked(c)

IndInv == TypeOK /\ WaitersUnused /\ AllTracked

-----------------------------------------------------------------------------
\* Every step keeps the types.
LEMMA TypeStep == TypeOK /\ [Next]_vars => TypeOK'
<1> SUFFICES ASSUME TypeOK, [Next]_vars PROVE TypeOK'
  OBVIOUS
<1> USE DEF TypeOK, pinentry, popup, At, Goto, For, Lose
<1>1. ASSUME NEW c \in Conns, Open(c) PROVE TypeOK'
  BY <1>1 DEF Open
<1>2. ASSUME NEW c \in Conns, NEW w \in {"ask", "popup"}, Call(c, w)
      PROVE  TypeOK'
  BY <1>2, PinentryAssumption DEF Call, StartPinentry
<1>3. ASSUME NEW c \in Conns, CheckCallback(c) PROVE TypeOK'
  BY <1>3 DEF CheckCallback, StartPinentry
<1>4. ASSUME NEW c \in Conns, Locked(c) PROVE TypeOK'
  BY <1>4 DEF Locked
<1>5. ASSUME NEW c \in Conns, LockTimeout(c) \/ LaunchFails(c) PROVE TypeOK'
  BY <1>5 DEF LockTimeout, LaunchFails, Resume
<1>6. ASSUME NEW c \in Conns, FlushFails(c) \/ NewFails(c) PROVE TypeOK'
  <2>1. lost' \in BOOLEAN
    BY <1>6 DEF FlushFails, NewFails
  <2> QED
    BY <1>6, <2>1 DEF FlushFails, NewFails, Resume
<1>7. ASSUME NEW c \in Conns, Finish(c) \/ PopupFails(c) PROVE TypeOK'
  BY <1>7 DEF Finish, PopupFails, UnlockPinentry, Resume
<1>8. ASSUME NEW c \in Conns, PopupStart(c) PROVE TypeOK'
  BY <1>8 DEF PopupStart
<1>9. ASSUME NEW c \in Conns, PopupJoined(c) PROVE TypeOK'
  BY <1>9 DEF PopupJoined, UnlockPinentry
<1>10. ASSUME NEW c \in Conns, Dismiss(c) PROVE TypeOK'
  BY <1>10 DEF Dismiss, PopupStop
<1>11. ASSUME NEW c \in Conns, CardLost(c) PROVE TypeOK'
  BY <1>11 DEF CardLost
<1>12. ASSUME NEW c \in Conns, Close(c) PROVE TypeOK'
  BY <1>12 DEF Close, PopupStop
<1>13. CASE PopupEnds
  BY <1>13 DEF PopupEnds
<1>14. CASE UNCHANGED vars
  BY <1>14 DEF vars
<1> QED
  BY <1>1, <1>2, <1>3, <1>4, <1>5, <1>6, <1>7, <1>8, <1>9, <1>10, <1>11,
     <1>12, <1>13, <1>14 DEF Next

\* start_pinentry waits for the lock only with a count of 0, and the count
\* does not change meanwhile.
LEMMA WaitersStep == IndInv /\ [Next]_vars => WaitersUnused'
<1> SUFFICES ASSUME IndInv, [Next]_vars, NEW d \in Conns, pc'[d] = "lock"
             PROVE  active'[d] = 0
  BY DEF WaitersUnused
<1> USE DEF IndInv, TypeOK, WaitersUnused, pinentry, popup, At, Goto
<1>1. ASSUME NEW c \in Conns, Open(c) PROVE active'[d] = 0
  BY <1>1 DEF Open
<1>2. ASSUME NEW c \in Conns,
             (\E w \in {"ask", "popup"} : Call(c, w)) \/ CheckCallback(c)
      PROVE  active'[d] = 0
  BY <1>2 DEF Call, CheckCallback, StartPinentry
<1>3. ASSUME NEW c \in Conns, Locked(c) PROVE active'[d] = 0
  BY <1>3 DEF Locked
<1>4. ASSUME NEW c \in Conns,
             \/ LockTimeout(c) \/ LaunchFails(c) \/ FlushFails(c)
             \/ NewFails(c)
      PROVE  active'[d] = 0
  BY <1>4 DEF LockTimeout, LaunchFails, FlushFails, NewFails, Resume
<1>5. ASSUME NEW c \in Conns, Finish(c) \/ PopupFails(c) \/ PopupJoined(c)
      PROVE  active'[d] = 0
  BY <1>5 DEF Finish, PopupFails, PopupJoined, UnlockPinentry, Resume
<1>6. ASSUME NEW c \in Conns,
             PopupStart(c) \/ Dismiss(c) \/ CardLost(c) \/ Close(c)
      PROVE  active'[d] = 0
  BY <1>6 DEF PopupStart, Dismiss, CardLost, Close, PopupStop
<1>7. CASE PopupEnds \/ UNCHANGED vars
  BY <1>7 DEF PopupEnds, vars
<1> QED
  BY <1>1, <1>2, <1>3, <1>4, <1>5, <1>6, <1>7 DEF Next

\* A step of one connection leaves d tracked if it neither gives d the lock
\* or the popup nor takes them from d.
LEMMA OthersKept ==
  ASSUME NEW d \in Conns, Tracked(d),
         pc'[d] = pc[d], why'[d] = why[d], active'[d] = active[d],
         holder' = d <=> holder = d, popup_tid' = d <=> popup_tid = d
  PROVE  Tracked(d)'
  BY DEF Tracked, Uses

\* Every step that loses nothing keeps all connections tracked.
LEMMA TrackedStep == IndInv /\ [Next]_vars => AllTracked'
<1> SUFFICES ASSUME IndInv, [Next]_vars, ~lost'
             PROVE  entry_ctx' = holder' /\ \A d \in Conns : Tracked(d)'
  BY DEF AllTracked
<1> USE DEF pinentry, popup, At, Goto, For, Lose
<1>0. /\ TypeOK /\ WaitersUnused /\ Nobody \notin Conns
      /\ ~lost => entry_ctx = holder /\ \A d \in Conns : Tracked(d)
  BY PinentryAssumption DEF IndInv, AllTracked
<1>1. ASSUME NEW c \in Conns, Open(c)
      PROVE  entry_ctx' = holder' /\ \A d \in Conns : Tracked(d)'
  <2>1. ~lost /\ Tracked(c)'
    BY <1>0, <1>1 DEF Open, TypeOK, WaitersUnused, Tracked, Uses
  <2>2. ASSUME NEW d \in Conns, d # c PROVE Tracked(d)'
    BY <1>0, <1>1, <2>1, <2>2, OthersKept DEF Open, TypeOK
  <2> QED
    BY <1>0, <1>1, <2>1, <2>2 DEF Open
<1>2. ASSUME NEW c \in Conns, NEW w \in {"ask", "popup"}, Call(c, w)
      PROVE  entry_ctx' = holder' /\ \A d \in Conns : Tracked(d)'
  <2>1. ~lost /\ Tracked(c)'
    BY <1>0, <1>2 DEF Call, StartPinentry, TypeOK, WaitersUnused, Tracked, Uses
  <2>2. ASSUME NEW d \in Conns, d # c PROVE Tracked(d)'
    <3>1. /\ pc'[d] = pc[d] /\ why'[d] = why[d] /\ active'[d] = active[d]
          /\ holder' = d <=> holder = d
          /\ popup_tid' = d <=> popup_tid = d
      BY <1>0, <1>2, <2>1, <2>2 DEF Call, StartPinentry, TypeOK
    <3> QED
      BY <1>0, <2>1, <2>2, <3>1, OthersKept
  <2> QED
    BY <1>0, <1>2, <2>1, <2>2 DEF Call, StartPinentry, TypeOK
<1>3. ASSUME NEW c \in Conns, CheckCallback(c)
      PROVE  entry_ctx' = holder' /\ \A d \in Conns : Tracked(d)'
  <2>1. ~lost /\ Tracked(c)'
    BY <1>0, <1>3 DEF CheckCallback, StartPinentry, TypeOK, WaitersUnused,
       Tracked, Uses
  <2>2. ASSUME NEW d \in Conns, d # c PROVE Tracked(d)'
    <3>1. /\ pc'[d] = pc[d] /\ why'[d] = why[d] /\ active'[d] = active[d]
          /\ holder' = d <=> holder = d
          /\ popup_tid' = d <=> popup_tid = d
      BY <1>0, <1>3, <2>1, <2>2 DEF CheckCallback, StartPinentry, TypeOK
    <3> QED
      BY <1>0, <2>1, <2>2, <3>1, OthersKept
  <2> QED
    BY <1>0, <1>3, <2>1, <2>2 DEF CheckCallback, StartPinentry, TypeOK
<1>4. ASSUME NEW c \in Conns, Locked(c)
      PROVE  entry_ctx' = holder' /\ \A d \in Conns : Tracked(d)'
  <2>1. ~lost /\ Tracked(c)'
    BY <1>0, <1>4 DEF Locked, TypeOK, WaitersUnused, Tracked, Uses
  <2>2. ASSUME NEW d \in Conns, d # c PROVE Tracked(d)'
    <3>1. /\ pc'[d] = pc[d] /\ why'[d] = why[d] /\ active'[d] = active[d]
          /\ holder' = d <=> holder = d
          /\ popup_tid' = d <=> popup_tid = d
      BY <1>0, <1>4, <2>1, <2>2 DEF Locked, TypeOK
    <3> QED
      BY <1>0, <2>1, <2>2, <3>1, OthersKept
  <2> QED
    BY <1>0, <1>4, <2>1, <2>2 DEF Locked, TypeOK
<1>5. ASSUME NEW c \in Conns, LockTimeout(c) \/ LaunchFails(c)
      PROVE  entry_ctx' = holder' /\ \A d \in Conns : Tracked(d)'
  <2>1. ~lost /\ Tracked(c)'
    BY <1>0, <1>5 DEF LockTimeout, LaunchFails, Resume, TypeOK,
       WaitersUnused, Tracked, Uses
  <2>2. ASSUME NEW d \in Conns, d # c PROVE Tracked(d)'
    <3>1. /\ pc'[d] = pc[d] /\ why'[d] = why[d] /\ active'[d] = active[d]
          /\ holder' = d <=> holder = d
          /\ popup_tid' = d <=> popup_tid = d
      BY <1>0, <1>5, <2>1, <2>2 DEF LockTimeout, LaunchFails, Resume, TypeOK
    <3> QED
      BY <1>0, <2>1, <2>2, <3>1, OthersKept
  <2> QED
    BY <1>0, <1>5, <2>1, <2>2 DEF LockTimeout, LaunchFails, Resume, TypeOK
<1>7. ASSUME NEW c \in Conns, Finish(c) \/ PopupFails(c)
      PROVE  entry_ctx' = holder' /\ \A d \in Conns : Tracked(d)'
  <2>1. ~lost /\ Tracked(c)'
    BY <1>0, <1>7 DEF Finish, PopupFails, UnlockPinentry, Resume, TypeOK,
       WaitersUnused, Tracked, Uses
  <2>2. ASSUME NEW d \in Conns, d # c PROVE Tracked(d)'
    <3>1. /\ pc'[d] = pc[d] /\ why'[d] = why[d] /\ active'[d] = active[d]
          /\ holder' = d <=> holder = d
          /\ popup_tid' = d <=> popup_tid = d
      BY <1>0, <1>7, <2>1, <2>2 DEF Finish, PopupFails, UnlockPinentry,
         Resume, TypeOK, WaitersUnused, Tracked, Uses
    <3> QED
      BY <1>0, <2>1, <2>2, <3>1, OthersKept
  <2> QED
    BY <1>0, <1>7, <2>1, <2>2 DEF Finish, PopupFails, UnlockPinentry, Resume,
       TypeOK, WaitersUnused, Tracked, Uses
<1>8. ASSUME NEW c \in Conns, PopupStart(c)
      PROVE  entry_ctx' = holder' /\ \A d \in Conns : Tracked(d)'
  <2>0. ~lost /\ popup_tid = Nobody
    BY <1>8 DEF PopupStart
  <2>1. ~lost /\ Tracked(c)'
    BY <1>0, <1>8, <2>0 DEF PopupStart, TypeOK, Tracked, Uses
  <2>2. ASSUME NEW d \in Conns, d # c PROVE Tracked(d)'
    <3>1. /\ pc'[d] = pc[d] /\ why'[d] = why[d] /\ active'[d] = active[d]
          /\ holder' = d <=> holder = d
          /\ popup_tid' = d <=> popup_tid = d
      BY <1>0, <1>8, <2>0, <2>1, <2>2 DEF PopupStart, TypeOK
    <3> QED
      BY <1>0, <2>1, <2>2, <3>1, OthersKept
  <2> QED
    BY <1>0, <1>8, <2>1, <2>2 DEF PopupStart, TypeOK
<1>9. ASSUME NEW c \in Conns, PopupJoined(c)
      PROVE  entry_ctx' = holder' /\ \A d \in Conns : Tracked(d)'
  <2>1. ~lost /\ Tracked(c)'
    BY <1>0, <1>9 DEF PopupJoined, UnlockPinentry, TypeOK, WaitersUnused,
       Tracked, Uses
  <2>2. ASSUME NEW d \in Conns, d # c PROVE Tracked(d)'
    <3>1. /\ pc'[d] = pc[d] /\ why'[d] = why[d] /\ active'[d] = active[d]
          /\ holder' = d <=> holder = d
          /\ popup_tid' = d <=> popup_tid = d
      BY <1>0, <1>9, <2>1, <2>2 DEF PopupJoined, UnlockPinentry, TypeOK,
         WaitersUnused, Tracked, Uses
    <3> QED
      BY <1>0, <2>1, <2>2, <3>1, OthersKept
  <2> QED
    BY <1>0, <1>9, <2>1, <2>2 DEF PopupJoined, UnlockPinentry, TypeOK,
       WaitersUnused, Tracked, Uses
<1>10. ASSUME NEW c \in Conns, Dismiss(c)
      PROVE  entry_ctx' = holder' /\ \A d \in Conns : Tracked(d)'
  <2>1. ~lost /\ Tracked(c)'
    BY <1>0, <1>10 DEF Dismiss, PopupStop, TypeOK, WaitersUnused, Tracked, Uses
  <2>2. ASSUME NEW d \in Conns, d # c PROVE Tracked(d)'
    <3>1. /\ pc'[d] = pc[d] /\ why'[d] = why[d] /\ active'[d] = active[d]
          /\ holder' = d <=> holder = d
          /\ popup_tid' = d <=> popup_tid = d
      BY <1>0, <1>10, <2>1, <2>2 DEF Dismiss, PopupStop, TypeOK
    <3> QED
      BY <1>0, <2>1, <2>2, <3>1, OthersKept
  <2> QED
    BY <1>0, <1>10, <2>1, <2>2 DEF Dismiss, PopupStop, TypeOK
<1>11. ASSUME NEW c \in Conns, CardLost(c)
      PROVE  entry_ctx' = holder' /\ \A d \in Conns : Tracked(d)'
  <2>1. ~lost /\ Tracked(c)'
    BY <1>0, <1>11 DEF CardLost, TypeOK, WaitersUnused, Tracked, Uses
  <2>2. ASSUME NEW d \in Conns, d # c PROVE Tracked(d)'
    <3>1. /\ pc'[d] = pc[d] /\ why'[d] = why[d] /\ active'[d] = active[d]
          /\ holder' = d <=> holder = d
          /\ popup_tid' = d <=> popup_tid = d
      BY <1>0, <1>11, <2>1, <2>2 DEF CardLost, TypeOK
    <3> QED
      BY <1>0, <2>1, <2>2, <3>1, OthersKept
  <2> QED
    BY <1>0, <1>11, <2>1, <2>2 DEF CardLost, TypeOK
<1>12. ASSUME NEW c \in Conns, Close(c)
      PROVE  entry_ctx' = holder' /\ \A d \in Conns : Tracked(d)'
  <2>0. /\ ~lost
        /\ \/ PopupStop(c) /\ popup_tid = c
           \/ Goto(c, "closed") /\ active[c] = 0
    BY <1>12 DEF Close, PopupStop
  <2>1. ~lost /\ Tracked(c)'
    BY <1>0, <1>12, <2>0 DEF Close, PopupStop, TypeOK, Tracked, Uses
  <2>2. ASSUME NEW d \in Conns, d # c PROVE Tracked(d)'
    <3>1. /\ pc'[d] = pc[d] /\ why'[d] = why[d] /\ active'[d] = active[d]
          /\ holder' = d <=> holder = d
          /\ popup_tid' = d <=> popup_tid = d
      BY <1>0, <1>12, <2>1, <2>2 DEF Close, PopupStop, TypeOK
    <3> QED
      BY <1>0, <2>1, <2>2, <3>1, OthersKept
  <2> QED
    BY <1>0, <1>12, <2>1, <2>2 DEF Close, PopupStop, TypeOK
<1>6. ASSUME NEW c \in Conns, FlushFails(c) \/ NewFails(c) PROVE FALSE
  BY <1>6 DEF FlushFails, NewFails
<1>13. CASE PopupEnds \/ UNCHANGED vars
  BY <1>0, <1>13 DEF PopupEnds, vars, Tracked, Uses
<1> QED
  BY <1>1, <1>2, <1>3, <1>4, <1>5, <1>6, <1>7, <1>8, <1>9, <1>10, <1>11,
     <1>12, <1>13 DEF Next

\* Nobody is connected at the start.
LEMMA IndInvInit == Init => IndInv
<1> SUFFICES ASSUME Init PROVE IndInv
  OBVIOUS
<1>1. lost \in BOOLEAN
  BY DEF Init
<1>2. TypeOK
  BY <1>1, PinentryAssumption DEF Init, TypeOK
<1>3. WaitersUnused /\ AllTracked
  BY PinentryAssumption DEF Init, WaitersUnused, AllTracked, Tracked, Uses
<1> QED
  BY <1>2, <1>3 DEF IndInv

\* The inductive invariant holds in every reachable state.
LEMMA IndInvHolds == Spec => []IndInv
<1>1. IndInv /\ [Next]_vars => IndInv'
  BY TypeStep, WaitersStep, TrackedStep DEF IndInv
<1> QED
  BY <1>1, IndInvInit, PTL DEF Spec

-----------------------------------------------------------------------------

\* Every variable keeps its type; the popup and the lock are those of one
\* connection or of nobody.
THEOREM TypeCorrect == Spec => []TypeOK
  BY IndInvHolds, PTL DEF IndInv

\* pinentry_active counts the uses of each connection and goes with the lock,
\* until start_pinentry, a second or a foreign popup, or the end of a
\* connection loses track.
THEOREM CountKept == Spec => []CountIsExact
<1>1. IndInv => CountIsExact
  BY DEF IndInv, AllTracked, Tracked, CountIsExact
<1> QED
  BY <1>1, IndInvHolds, PTL

-----------------------------------------------------------------------------
(* The refinement *)

\* A step that leaves the counts alone is at most a Break of the service.
LEMMA LosingIsBreak ==
  ASSUME IndInv, IndInv', UNCHANGED active, lost => lost'
  PROVE  [Service!Next]_(Service!vars)
<1>1. Users' = Users
  BY DEF Users
<1>2. CASE lost' = lost
  BY <1>1, <1>2 DEF Service!vars
<1>3. CASE lost' # lost
  BY <1>1, <1>3 DEF IndInv, TypeOK, Service!Next, Service!Break
<1> QED
  BY <1>2, <1>3

\* A step that does not raise the count of c from 0, and touches no other
\* count, is at most a Drop.
LEMMA CountingIsDrop ==
  ASSUME IndInv, NEW c \in Conns, NEW n \in Int, UNCHANGED lost,
         active' = [active EXCEPT ![c] = n], n > 0 => active[c] > 0
  PROVE  [Service!Next]_(Service!vars)
<1>1. CASE n > 0 \/ ~(active[c] > 0)
  <2>1. Users' = Users
    BY <1>1 DEF Users, IndInv, TypeOK
  <2> QED
    BY <2>1 DEF Service!vars
<1>2. CASE ~(n > 0) /\ active[c] > 0
  <2>1. Users' = Users \ {c} /\ c \in Users
    BY <1>2 DEF Users, IndInv, TypeOK
  <2> QED
    BY <2>1 DEF Service!Next, Service!Drop
<1> QED
  BY <1>1, <1>2

\* Who takes the free entry_lock is the only user, unless something was lost.
LEMMA LockedIsAcquire ==
  ASSUME IndInv, NEW c \in Conns, Locked(c)
  PROVE  [Service!Next]_(Service!vars)
<1>1. CASE UNCHANGED active
  <2>1. Users' = Users
    BY <1>1 DEF Users
  <2> QED
    BY <2>1 DEF Locked, Service!vars
<1>2. CASE active' = [active EXCEPT ![c] = 1]
  <2>1. lost \/ Users = {}
    BY PinentryAssumption
       DEF IndInv, TypeOK, AllTracked, Tracked, Users, Locked
  <2>2. Users' = Users \cup {c}
    BY <1>2 DEF Users, IndInv, TypeOK
  <2>3. CASE c \in Users
    BY <2>2, <2>3 DEF Locked, Service!vars
  <2>4. CASE c \notin Users
    BY <2>1, <2>2, <2>4 DEF Locked, Service!Next, Service!Acquire
  <2> QED
    BY <2>3, <2>4
<1> QED
  BY <1>1, <1>2 DEF Locked

\* Every step is a step of the lock service or a stutter.
LEMMA StepIsServiceStep ==
  IndInv /\ IndInv' /\ [Next]_vars => [Service!Next]_(Service!vars)
<1> SUFFICES ASSUME IndInv, IndInv', [Next]_vars
             PROVE  [Service!Next]_(Service!vars)
  OBVIOUS
<1>1. ASSUME NEW c \in Conns, Open(c) PROVE [Service!Next]_(Service!vars)
  <2>1. UNCHANGED lost /\ active' = [active EXCEPT ![c] = 0]
    BY <1>1 DEF Open
  <2>2. 0 \in Int /\ (0 > 0 => active[c] > 0)
    OBVIOUS
  <2> QED
    BY <2>1, <2>2, CountingIsDrop
<1>2. ASSUME NEW c \in Conns,
             (\E w \in {"ask", "popup"} : Call(c, w)) \/ CheckCallback(c)
      PROVE  [Service!Next]_(Service!vars)
  <2>1. UNCHANGED lost
    BY <1>2 DEF Call, CheckCallback
  <2>2. CASE active[c] = 0
    BY <1>2, <2>1, <2>2, LosingIsBreak DEF Call, CheckCallback, StartPinentry
  <2>3. CASE active[c] # 0
    <3>1. active' = [active EXCEPT ![c] = active[c] + 1]
      BY <1>2, <2>3 DEF Call, CheckCallback, StartPinentry
    <3>2. active[c] \in Int
      BY DEF IndInv, TypeOK
    <3>3. active[c] + 1 \in Int /\ (active[c] + 1 > 0 => active[c] > 0)
      BY <2>3, <3>2
    <3> QED
      BY <2>1, <3>1, <3>3, CountingIsDrop
  <2> QED
    BY <2>2, <2>3
<1>3. ASSUME NEW c \in Conns, Locked(c) PROVE [Service!Next]_(Service!vars)
  BY <1>3, LockedIsAcquire
<1>4. ASSUME NEW c \in Conns, Finish(c) \/ PopupFails(c) \/ PopupJoined(c)
      PROVE  [Service!Next]_(Service!vars)
  <2>1. active' = [active EXCEPT ![c] = active[c] - 1] /\ UNCHANGED lost
    BY <1>4 DEF Finish, PopupFails, PopupJoined, UnlockPinentry
  <2>2. active[c] \in Int
    BY DEF IndInv, TypeOK
  <2>3. active[c] - 1 \in Int /\ (active[c] - 1 > 0 => active[c] > 0)
    BY <2>2
  <2> QED
    BY <2>1, <2>3, CountingIsDrop
<1>5. ASSUME NEW c \in Conns, FlushFails(c)
      PROVE  [Service!Next]_(Service!vars)
  <2>1. lost' = TRUE /\ active' = [active EXCEPT ![c] = active[c] - 1]
    BY <1>5 DEF FlushFails, Lose
  <2>2. active[c] = 0
    BY <1>5 DEF FlushFails, At, IndInv, WaitersUnused
  <2>3. Users' = Users
    BY <2>1, <2>2 DEF Users, IndInv, TypeOK
  <2> QED
    BY <2>1, <2>3 DEF Service!Next, Service!Break
<1>6. ASSUME NEW c \in Conns,
             \/ LockTimeout(c) \/ LaunchFails(c) \/ NewFails(c)
             \/ PopupStart(c) \/ Dismiss(c) \/ CardLost(c) \/ Close(c)
      PROVE  [Service!Next]_(Service!vars)
  <2>1. UNCHANGED active
    BY <1>6 DEF LockTimeout, LaunchFails, NewFails, PopupStart, Dismiss,
       CardLost, Close, PopupStop
  <2>2. lost' = lost \/ (\E P \in BOOLEAN : Lose(P))
    BY <1>6 DEF LockTimeout, LaunchFails, NewFails, PopupStart, Dismiss,
       CardLost, Close, PopupStop
  <2>3. lost => lost'
    BY <2>2 DEF Lose
  <2> QED
    BY <2>1, <2>3, LosingIsBreak
<1>7. CASE PopupEnds \/ UNCHANGED vars
  BY <1>7, LosingIsBreak DEF PopupEnds, vars
<1> QED
  BY <1>1, <1>2, <1>3, <1>4, <1>5, <1>6, <1>7 DEF Next

\* entry_lock serializes the pinentry: for any number of connections, one at
\* a time has uses counted, until the code loses track.
THEOREM PinentryImplementsLockService == Spec => ImplementsLockService
<1>1. Init => Service!Init
  BY DEF Init, Service!Init, Users
<1> QED
  BY <1>1, IndInvHolds, StepIsServiceStep, PTL
     DEF Spec, ImplementsLockService, Service!Spec

=============================================================================
