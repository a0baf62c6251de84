---------------------------- MODULE CallPinentry ----------------------------
(***************************************************************************)
(* How the connections of gpg-agent share the one pinentry:                *)
(* agent/call-pinentry.c.                                                  *)
(*                                                                         *)
(* start_pinentry takes entry_lock, or gives up after a minute, and starts *)
(* the process; unlock_pinentry ends it.  pinentry_active counts the uses  *)
(* of one connection: the callback that checks a passphrase may ask for a  *)
(* confirmation while its own dialog is up, and a popup, which scdaemon    *)
(* demands while the user works with the pinpad of a reader, stays after   *)
(* the call that showed it has returned.                                   *)
(*                                                                         *)
(* The popup is served by a thread of its own.  popup_tid and entry_ctx    *)
(* are global, and agent_popup_message_stop looks at them without the      *)
(* lock.  Threads are not preempted: a step reaches from one blocking call *)
(* (the lock, the dialog, the card, npth_join) to the next.  The dialogs   *)
(* of agent_askpin, agent_get_passphrase, agent_get_confirmation and       *)
(* agent_clear_passphrase differ in what they send, and are one here.      *)
(***************************************************************************)
EXTENDS Integers

CONSTANTS
  Conns,     \* connections of the agent, each with its own thread
  Ssh,       \* those of the ssh-agent protocol
  Nobody,    \* no connection: the value of a free lock and of NULL
  Failing,   \* the calls that may fail between the lock and the count
  CardLoss,  \* whether scdaemon may die while a popup is up
  MaxCalls   \* bound: number of calls for the pinentry by a connection

ASSUME PinentryAssumption ==
  /\ Nobody \notin Conns /\ Ssh \subseteq Conns
  /\ Failing \subseteq {"fflush", "assuan_new"}
  /\ CardLoss \in BOOLEAN /\ MaxCalls \in Nat

VARIABLES
  pc,         \* "closed"; "idle"; "lock": waits for entry_lock; "talk": uses
              \* the pinentry; "card": talks to scdaemon, which asked for a
              \* popup; "join": waits for the popup's thread
  why,        \* what for: "ask", "check" (asked by the callback of an ask),
              \* "popup", or "close"
  active,     \* ctrl->pinentry_active
  holder,     \* who owns entry_lock
  entry_ctx,  \* whose start_pinentry made the current context
  popup_tid,  \* whose popup the current popup thread serves
  thread,     \* that thread: "none", "shown", "killed" (its pinentry was), or
              \* "done"
  calls,      \* number of calls so far
  lost        \* history: the count and the lock have parted, see Lose

pinentry == <<holder, entry_ctx>>
popup == <<popup_tid, thread>>
vars == <<pc, why, active, pinentry, popup, calls, lost>>

TypeOK ==
  /\ pc \in [Conns -> {"closed", "idle", "lock", "talk", "card", "join"}]
  /\ why \in [Conns -> {"ask", "check", "popup", "close"}]
  /\ active \in [Conns -> Int]
  /\ holder \in Conns \cup {Nobody} /\ entry_ctx \in Conns \cup {Nobody}
  /\ popup_tid \in Conns \cup {Nobody}
  /\ thread \in {"none", "shown", "killed", "done"}
  /\ calls \in [Conns -> 0..MaxCalls]
  /\ lost \in BOOLEAN

Init ==
  /\ pc = [c \in Conns |-> "closed"] /\ why = [c \in Conns |-> "ask"]
  /\ active = [c \in Conns |-> 0]
  /\ holder = Nobody /\ entry_ctx = Nobody
  /\ popup_tid = Nobody /\ thread = "none"
  /\ calls = [c \in Conns |-> 0] /\ lost = FALSE

At(c, l) == pc[c] = l
Goto(c, l) == pc' = [pc EXCEPT ![c] = l]
For(c, w) == why' = [why EXCEPT ![c] = w]

\* From here on the lock is not given back although its count says so, if P.
Lose(P) == lost' = (lost \/ P)

\* A new connection has a new ctrl object, filled with 0.
Open(c) ==
  /\ At(c, "closed") /\ Goto(c, "idle")
  /\ active' = [active EXCEPT ![c] = 0]
  /\ UNCHANGED <<why, pinentry, popup, calls, lost>>

-----------------------------------------------------------------------------
(* start_pinentry and unlock_pinentry *)

\* Bug: the lock is released with every use that ends.
UnlockPinentryAlways(c) ==
  /\ active' = [active EXCEPT ![c] = @ - 1]
  /\ entry_ctx' = Nobody /\ holder' = Nobody

UnlockPinentry(c) ==
  /\ active' = [active EXCEPT ![c] = @ - 1]
  /\ IF active[c] = 1 THEN entry_ctx' = Nobody /\ holder' = Nobody
                      ELSE UNCHANGED pinentry

\* Bug: a recursive use is not counted.
StartPinentryUncounted(c) ==
  IF active[c] # 0
    THEN Goto(c, "talk") /\ UNCHANGED active
    ELSE Goto(c, "lock") /\ UNCHANGED active

\* A recursive use is counted; the thread holds the lock already.
StartPinentry(c) ==
  IF active[c] # 0
    THEN Goto(c, "talk") /\ active' = [active EXCEPT ![c] = @ + 1]
    ELSE Goto(c, "lock") /\ UNCHANGED active

\* A command asks for a passphrase or a confirmation, or scdaemon demands a
\* popup.
Call(c, w) ==
  /\ At(c, "idle") /\ calls[c] < MaxCalls /\ w \in {"ask", "popup"}
  /\ calls' = [calls EXCEPT ![c] = @ + 1]
  /\ For(c, w) /\ StartPinentry(c)
  /\ UNCHANGED <<pinentry, popup, lost>>

\* check_cb (try_unprotect_cb) asks for a confirmation.
CheckCallback(c) ==
  /\ At(c, "talk") /\ why[c] = "ask" /\ entry_ctx # Nobody
  /\ For(c, "check") /\ StartPinentry(c)
  /\ UNCHANGED <<pinentry, popup, calls, lost>>

\* Where a connection goes on after a failed start_pinentry or the end of a
\* dialog.  pin_cb of scdaemon returns an error of the popup; popup_prompt
\* ignores it, and scdaemon will ask to close the popup all the same.
Resume(c) ==
  \/ why[c] = "check" /\ Goto(c, "talk") /\ For(c, "ask")
  \/ why[c] # "check" /\ Goto(c, "idle") /\ UNCHANGED why
  \/ why[c] = "popup" /\ Goto(c, "card") /\ UNCHANGED why

\* entry_lock is taken and the pinentry runs.
Locked(c) ==
  /\ At(c, "lock") /\ holder = Nobody
  /\ holder' = c
  /\ IF entry_ctx # Nobody
       THEN UNCHANGED <<entry_ctx, active>>
       ELSE entry_ctx' = c /\ active' = [active EXCEPT ![c] = 1]
  /\ Goto(c, "talk")
  /\ UNCHANGED <<why, popup, calls, lost>>

\* ETIMEDOUT
LockTimeout(c) ==
  /\ At(c, "lock") /\ holder # Nobody
  /\ Resume(c)
  /\ UNCHANGED <<active, pinentry, popup, calls, lost>>

\* The pinentry can't be started, an option is refused, or the client
\* cancels: counted, and unlocked again.
LaunchFails(c) ==
  /\ At(c, "lock") /\ holder = Nobody /\ entry_ctx = Nobody
  /\ Resume(c)
  /\ UNCHANGED <<active, pinentry, popup, calls, lost>>

\* fflush fails: unlock_pinentry counts down from 0 and keeps the lock.
FlushFails(c) ==
  /\ At(c, "lock") /\ holder = Nobody /\ entry_ctx = Nobody
  /\ "fflush" \in Failing
  /\ holder' = c /\ active' = [active EXCEPT ![c] = @ - 1]
  /\ Resume(c) /\ Lose(TRUE)
  /\ UNCHANGED <<entry_ctx, popup, calls>>

\* assuan_new fails: the lock is kept.
NewFails(c) ==
  /\ At(c, "lock") /\ holder = Nobody /\ entry_ctx = Nobody
  /\ "assuan_new" \in Failing
  /\ holder' = c
  /\ Resume(c) /\ Lose(TRUE)
  /\ UNCHANGED <<active, entry_ctx, popup, calls>>

\* The user answers, cancels or fails, the client goes away (watch_sock), or
\* a command fails: the dialog ends.
Finish(c) ==
  /\ At(c, "talk") /\ why[c] # "popup"
  /\ UnlockPinentry(c) /\ Resume(c)
  /\ UNCHANGED <<popup, calls, lost>>

-----------------------------------------------------------------------------
(* agent_popup_message_start and agent_popup_message_stop *)

\* The thread is created; the connection goes on with the card.
PopupStart(c) ==
  /\ At(c, "talk") /\ why[c] = "popup" /\ entry_ctx # Nobody
  /\ popup_tid' = c /\ thread' = "shown"
  /\ Lose(popup_tid # Nobody)
  /\ Goto(c, "card")
  /\ UNCHANGED <<why, active, pinentry, calls>>

\* The pinentry refuses, or the thread can't be created.
PopupFails(c) ==
  /\ At(c, "talk") /\ why[c] = "popup"
  /\ UnlockPinentry(c) /\ Resume(c)
  /\ UNCHANGED <<popup, calls, lost>>

\* CONFIRM returns: the user pressed the button, or the pinentry is killed.
PopupEnds ==
  /\ thread \in {"shown", "killed"} /\ thread' = "done"
  /\ UNCHANGED <<pc, why, active, pinentry, popup_tid, calls, lost>>

\* Bug: the thread is joined before anything makes it end.
PopupStopUnkilled(c) ==
  /\ popup_tid # Nobody /\ entry_ctx # Nobody
  /\ Lose(popup_tid # c)
  /\ Goto(c, "join")
  /\ UNCHANGED <<active, pinentry, popup_tid, calls, thread>>

\* The pinentry is killed, unless the thread is through with it.
PopupStop(c) ==
  /\ popup_tid # Nobody /\ entry_ctx # Nobody
  /\ Lose(popup_tid # c)
  /\ Goto(c, "join")
  /\ thread' = IF thread = "done" THEN "done" ELSE "killed"
  /\ UNCHANGED <<active, pinentry, popup_tid, calls>>

\* npth_join returns.
PopupJoined(c) ==
  /\ At(c, "join") /\ thread \in {"done", "none"}
  /\ popup_tid' = Nobody /\ thread' = "none"
  /\ UnlockPinentry(c)
  /\ Goto(c, IF why[c] = "close" THEN "closed" ELSE "idle")
  /\ UNCHANGED <<why, calls, lost>>

\* scdaemon asks to close the popup (DISMISSPINPADPROMPT).
Dismiss(c) ==
  /\ At(c, "card")
  /\ \/ PopupStop(c)
     \/ /\ popup_tid = Nobody \/ entry_ctx = Nobody
        /\ Goto(c, "idle")
        /\ UNCHANGED <<active, pinentry, popup, calls, lost>>
  /\ UNCHANGED why

\* scdaemon is gone, and the popup stays.
CardLost(c) ==
  /\ At(c, "card") /\ CardLoss /\ Goto(c, "idle")
  /\ UNCHANGED <<why, active, pinentry, popup, calls, lost>>

\* The condition of agent_reset_query, which the ssh handler does not call.
MustReset(c) ==
  /\ c \notin Ssh
  /\ entry_ctx # Nobody /\ popup_tid # Nobody /\ active[c] # 0

\* The connection ends.
Close(c) ==
  /\ At(c, "idle") /\ For(c, "close")
  /\ \/ MustReset(c) /\ PopupStop(c)
     \/ /\ ~MustReset(c) /\ Goto(c, "closed") /\ Lose(active[c] # 0)
        /\ UNCHANGED <<active, pinentry, popup, calls>>

Next ==
  \/ \E c \in Conns :
       \/ Open(c) \/ (\E w \in {"ask", "popup"} : Call(c, w))
       \/ CheckCallback(c)
       \/ Locked(c) \/ LockTimeout(c) \/ LaunchFails(c) \/ FlushFails(c)
       \/ NewFails(c) \/ Finish(c)
       \/ PopupStart(c) \/ PopupFails(c) \/ PopupJoined(c) \/ Dismiss(c)
       \/ CardLost(c) \/ Close(c)
  \/ PopupEnds

Spec == Init /\ [][Next]_vars

\* A killed pinentry ends, and the thread that joins goes on.  Nothing is
\* assumed of the user.
FairSpec ==
  /\ Spec
  /\ WF_vars(thread = "killed" /\ PopupEnds)
  /\ \A c \in Conns : WF_vars(PopupJoined(c))

-----------------------------------------------------------------------------
(* Properties *)

\* The uses that c makes of the pinentry: its dialog, the confirmation on
\* top of it, and its popup.
Uses(c) == (IF pc[c] # "talk" THEN 0 ELSE IF why[c] = "check" THEN 2 ELSE 1)
           + (IF popup_tid = c THEN 1 ELSE 0)

\* pinentry_active is the number of uses, and who has one holds the lock and
\* started the pinentry that runs, whatever recursion, popups, time-outs and
\* failures there were, until the code loses track in one of the ways that
\* Lose marks.
CountIsExact ==
  ~lost =>
    /\ \A c \in Conns : active[c] = Uses(c) /\ (holder = c <=> Uses(c) > 0)
    /\ entry_ctx = holder

\* agent_popup_message_stop returns: it makes the thread end that it joins.
StopReturns ==
  \A c \in Conns : (pc[c] = "join" /\ ~lost) ~> (pc[c] # "join" \/ lost)

\* The connections with a use of the pinentry.
Users == {c \in Conns : active[c] > 0}

Service == INSTANCE LockService
             WITH Procs <- Conns, holders <- Users, broken <- lost

\* start_pinentry and unlock_pinentry implement a lock with one holder, until
\* the code loses track of it: pinentry calls are serialized.
ImplementsLockService == Service!Spec

=============================================================================
