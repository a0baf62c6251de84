------------------------------- MODULE ScdApp -------------------------------
(***************************************************************************)
(* Card contexts of scdaemon and the sessions that use them: scd/app.c and *)
(* scd/command.c.                                                          *)
(*                                                                         *)
(* A card context belongs to a token (a USB key, say) that was found by a  *)
(* scan.  It is on the list at card_top until the main loop finds that the *)
(* token is gone, or that a reset was requested; then it is released, and  *)
(* the sessions that have it as their current card are told so.            *)
(*                                                                         *)
(* Each session is a thread, and the main loop is one.  They are not       *)
(* preempted, but give way when they wait for a lock, talk to the card or  *)
(* the client, or write to the log; here every request for a lock and      *)
(* every exchange with a card or a client ends a step.  A thread that      *)
(* asks for the lock of a context that was released reads freed memory;    *)
(* nothing can be said of what follows, and behaviours end there.          *)
(*                                                                         *)
(* The order of the list, which select_application changes, is left out:   *)
(* any card may be the first.  So are the applications of a card.          *)
(***************************************************************************)
EXTENDS Integers, FiniteSets

CONSTANTS
  Sessions,   \* connections
  Tokens,     \* cards, each in its reader
  Serials,    \* serial numbers that clients ask for; a token is one
  Ids,        \* card contexts; bound: how many are ever allocated
  None,
  Main,       \* the thread of handle_connections
  MaxCmds,    \* bound: commands
  MaxPlugs    \* bound: how often a token is plugged in or pulled

ASSUME SessionsAssumption == IsFiniteSet(Sessions)
ASSUME SerialsAssumption == Tokens \subseteq Serials
ASSUME IdsAssumption == Ids \subseteq Nat \ {0}
ASSUME NoneAssumption == None \notin Sessions \cup Serials \cup {Main}
ASSUME MainAssumption == Main \notin Sessions
ASSUME BoundsAssumption == MaxCmds \in Nat /\ MaxPlugs \in Nat

Threads == Sessions \cup {Main}

VARIABLES
  plugged,       \* the tokens that are plugged in
  card,          \* card contexts
  listed,        \* the contexts on the list at card_top
  freed,         \* the contexts that were released
  listLock,      \* owner of card_list_lock
  cardLock,      \* owner of the lock of each context
  sess,          \* ctrl: card_ctx, server_local->card_removed
  lockedSession, \* locked_session
  th,            \* where each thread is
  touched,       \* a thread asked for the lock of a released context
  leaked,        \* history: references that DEVINFO forgot
  working,       \* history: the context a session worked with
  cmds, plugs

locks == <<listLock, cardLock>>
history == <<leaked, working>>
vars == <<plugged, card, listed, freed, locks, sess, lockedSession, th,
          touched, history, cmds, plugs>>

\* token: None for an id that is not allocated; dead: the token was pulled;
\* known: the main loop has seen a status.
Card == [token : Tokens \cup {None}, refs : Nat, reset : BOOLEAN,
         dead : BOOLEAN, known : BOOLEAN]

Ctx == Ids \cup {0}

Session == [ctx : Ctx, removed : BOOLEAN, live : BOOLEAN]

\* The lock a thread asks for by its pc, and what it does otherwise.
ListPcs == {"select", "find", "switch", "devinfo", "wait", "woken", "poll"}
CardPcs == {"pick", "use", "ref", "unref", "look", "reset", "check"}
IoPcs == {"scan", "op", "looking", "resetting", "sleep", "sending", "status"}
RestPcs == {"idle", "watch", "lockwait", "ended"}

\* card: the local variable; todo: the rest of a loop over the cards, and in
\* a scan the cards it found; want: the card a client asks for by its serial
\* number; next: what follows.
Thread == [pc : ListPcs \cup CardPcs \cup IoPcs \cup RestPcs,
           card : Ctx, todo : SUBSET Ids, want : Serials \cup {None},
           next : {"idle", "use", "find", "switch", "watch", "serialno",
                   "direct", "drop", "end", "first", "again", "none",
                   "reported"}]

At0(pc) == [pc |-> pc, card |-> 0, todo |-> {}, want |-> None,
            next |-> "idle"]
Rest == At0("idle")
Turn == At0("poll")  \* of the main loop

Init == /\ plugged \in SUBSET Tokens
        /\ card = [c \in Ids |-> [token |-> None, refs |-> 0, reset |-> FALSE,
                                  dead |-> FALSE, known |-> FALSE]]
        /\ listed = {} /\ freed = {}
        /\ listLock = None /\ cardLock = [c \in Ids |-> None]
        /\ sess = [s \in Sessions |-> [ctx |-> 0, removed |-> FALSE,
                                       live |-> TRUE]]
        /\ lockedSession = None
        /\ th = [t \in Threads |-> IF t = Main THEN Turn ELSE Rest]
        /\ touched = FALSE
        /\ leaked = [c \in Ids |-> 0]
        /\ working = [s \in Sessions |-> 0]
        /\ cmds = 0 /\ plugs = 0

-----------------------------------------------------------------------------
At(t, pc) == th[t].pc = pc /\ ~touched

\* The thread gets the lock it asks for; the step decides how long it is kept.
GetsList(t, pc) == At(t, pc) /\ listLock = None
GetsCard(t, pc) == /\ At(t, pc) /\ th[t].card \notin freed
                   /\ cardLock[th[t].card] = None

Goto(t, pc) == th' = [th EXCEPT ![t].pc = pc]
GotoCard(t, pc, c) == th' = [th EXCEPT ![t].pc = pc, ![t].card = c]

\* A loop over the cards begins, and it ends.
Loop(t, pc) == \E c \in listed :
                 th' = [th EXCEPT ![t].pc = pc, ![t].card = c,
                                  ![t].todo = listed \ {c}]
Leave(t, pc) == th' = [th EXCEPT ![t].pc = pc, ![t].todo = {},
                                 ![t].want = None]
Return(t) == th' = [th EXCEPT ![t] = Rest]

LockCard(t) == cardLock' = [cardLock EXCEPT ![th[t].card] = t]
UnlockCard(t) == cardLock' = [cardLock EXCEPT ![th[t].card] = None]

\* IS_LOCKED
IsLocked(s) == lockedSession # None /\ lockedSession # s

\* A session reads a command.
Command(s) == /\ At(s, "idle") /\ sess[s].live /\ cmds < MaxCmds
              /\ cmds' = cmds + 1

\* open_card succeeds at once or goes on with select_application; what is
\* left out are the errors, which end the command.
OpenCard(s, pc) ==
  /\ ~sess[s].removed /\ ~IsLocked(s)
  /\ th' = [th EXCEPT ![s].pc = IF sess[s].ctx # 0 THEN pc ELSE "select",
                      ![s].card = sess[s].ctx, ![s].next = pc]

-----------------------------------------------------------------------------
(***************************************************************************)
(* select_application                                                      *)
(***************************************************************************)
\* The list is locked; devices are scanned if the caller wants it or there
\* is no card.
Select(s) ==
  /\ GetsList(s, "select")
  /\ listLock' = s
  /\ IF th[s].next = "serialno" \/ listed = {}
     THEN Goto(s, "scan")
     ELSE Loop(s, "pick")
  /\ UNCHANGED <<plugged, card, listed, freed, cardLock, sess, lockedSession,
                 touched, history, cmds, plugs>>

\* app_new_register for a token that has no reader open; the scan looks at
\* each once.
Register(s) ==
  /\ At(s, "scan")
  /\ \E k \in plugged, c \in Ids :
       /\ \A d \in listed : card[d].token = k =>
                             card[d].dead /\ d \notin th[s].todo
       /\ card[c].token = None
       /\ \A d \in Ids : d < c => card[d].token # None
       /\ card' = [card EXCEPT ![c].token = k]
       /\ listed' = listed \cup {c}
       /\ th' = [th EXCEPT ![s].todo = @ \cup {c}]
  /\ UNCHANGED <<plugged, freed, locks, sess, lockedSession, touched,
                 history, cmds, plugs>>

\* The loop ends; errors with single readers do not end the command.
ScanEnd(s) ==
  /\ At(s, "scan")
  /\ Loop(s, "pick")
  /\ UNCHANGED <<plugged, card, listed, freed, locks, sess, lockedSession,
                 touched, history, cmds, plugs>>

\* What cmd_serialno does at its end: the flag of the session and of those
\* with the same slot.
SerialnoFlags(s, ss, ok) ==
  [q \in Sessions |->
     IF q = s \/ (ss[s].ctx # 0 /\ ss[q].ctx = ss[s].ctx)
     THEN [ss[q] EXCEPT !.removed = ~ok]
     ELSE ss[q]]

SerialnoEnds(s, ss, ok) == /\ sess' = SerialnoFlags(s, ss, ok)
                           /\ Return(s)

\* No such card, or not with the application asked for.
SerialnoFails(s) == listLock' = None /\ SerialnoEnds(s, sess, FALSE)

\* cmd_devinfo goes to wait, the client having been told of a change or not.
Watch(s, told) == th' = [th EXCEPT ![s] =
                           [At0("wait") EXCEPT !.next = told]]

\* Bug: the list stays locked.
SelectFailsLocked(s) ==
  /\ UNCHANGED <<listLock, sess>>
  /\ Return(s)

SelectFails(s) ==
  \/ th[s].next = "serialno" /\ SerialnoFails(s)
  \/ /\ th[s].next # "serialno"
     /\ listLock' = None /\ UNCHANGED sess
     /\ IF th[s].next = "watch" THEN Watch(s, "first") ELSE Return(s)

\* The devices cannot be listed, or there is no card.
ScanFails(s) ==
  /\ At(s, "scan") /\ th[s].todo = {}
  /\ SelectFails(s)
  /\ UNCHANGED <<plugged, card, listed, freed, cardLock, lockedSession,
                 touched, history, cmds, plugs>>

\* The lock of a card that is not the one asked for is dropped again.
PickOther(s) ==
  /\ GetsCard(s, "pick")
  /\ th[s].want # None /\ card[th[s].card].token # th[s].want
  /\ \/ \E c \in th[s].todo :
          /\ th' = [th EXCEPT ![s].card = c, ![s].todo = @ \ {c}]
          /\ UNCHANGED <<listLock, sess>>
     \/ th[s].todo = {} /\ SerialnoFails(s)
  /\ UNCHANGED <<plugged, card, listed, freed, cardLock, lockedSession,
                 touched, history, cmds, plugs>>

Wanted(s) == /\ GetsCard(s, "pick")
             /\ th[s].want # None => card[th[s].card].token = th[s].want

PickFails(s) ==
  /\ Wanted(s) /\ th[s].next = "serialno"
  /\ SerialnoFails(s)
  /\ UNCHANGED <<plugged, card, listed, freed, cardLock, lockedSession,
                 touched, history, cmds, plugs>>

\* Bug: the reference is not counted.
ReferencedNot(c) == card

\* A use of the card is counted.
Referenced(c) == [card EXCEPT ![c].refs = @ + 1]

\* The card is found, and becomes the current one of the session.
Current(s, c) == [sess EXCEPT ![s].ctx = c]

Pick(s) ==
  LET c == th[s].card
      ss == Current(s, c)
  IN  /\ Wanted(s) /\ th[s].next # "watch"
      /\ listLock' = None
      /\ card' = Referenced(c)
      /\ \/ th[s].next = "serialno" /\ SerialnoEnds(s, ss, TRUE)
         \/ th[s].next = "serialno" /\ sess' = ss /\ Leave(s, "use")  \* --all
         \/ /\ th[s].next # "serialno"
            /\ sess' = ss /\ Leave(s, th[s].next)
      /\ UNCHANGED <<plugged, listed, freed, cardLock, lockedSession,
                     touched, history, cmds, plugs>>

\* cmd_devinfo sets card_ctx to NULL before it calls card_unref with it.
PickForgotten(s) ==
  /\ Wanted(s) /\ th[s].next = "watch"
  /\ listLock' = None
  /\ card' = Referenced(th[s].card)
  /\ leaked' = [leaked EXCEPT ![th[s].card] = @ + 1]
  /\ Watch(s, "first")
  /\ UNCHANGED <<plugged, listed, freed, cardLock, sess, lockedSession,
                 touched, working, cmds, plugs>>

-----------------------------------------------------------------------------
(***************************************************************************)
(* Commands that use the card                                              *)
(***************************************************************************)
\* READCERT, GETATTR, PKSIGN and many more, with the current card.
Use(s) ==
  /\ Command(s) /\ OpenCard(s, "use")
  /\ UNCHANGED <<plugged, card, listed, freed, locks, sess, lockedSession,
                 touched, history, plugs>>

\* app_sign and the like: the card is locked for the operation, during which
\* the client may be asked for a PIN.
OpStart(s) ==
  /\ GetsCard(s, "use")
  /\ LockCard(s)
  /\ Goto(s, "op")
  /\ working' = IF th[s].next = "use" /\ working[s] = 0
                THEN [working EXCEPT ![s] = th[s].card]
                ELSE working
  /\ UNCHANGED <<plugged, card, listed, freed, listLock, sess, lockedSession,
                 touched, leaked, cmds, plugs>>

\* It ends, with success or not.
OpEnd(s) ==
  /\ At(s, "op")
  /\ UnlockCard(s)
  /\ \/ /\ th[s].next = "serialno"
        /\ \E ok \in BOOLEAN : SerialnoEnds(s, sess, ok)
     \/ th[s].next = "use" /\ Return(s) /\ UNCHANGED sess
     \/ th[s].next = "direct" /\ Goto(s, "unref") /\ UNCHANGED sess
  /\ UNCHANGED <<plugged, card, listed, freed, listLock, lockedSession,
                 touched, history, cmds, plugs>>

\* PKSIGN and others with a keygrip look for a card that has the key,
\* app_do_with_keygrip, and use it without making it the current one.
Direct(s) ==
  /\ Command(s) /\ OpenCard(s, "find")
  /\ UNCHANGED <<plugged, card, listed, freed, locks, sess, lockedSession,
                 touched, history, plugs>>

Find(s) ==
  /\ GetsList(s, "find")
  /\ \/ /\ listed = {} /\ Return(s) /\ UNCHANGED listLock
     \/ /\ listLock' = s
        /\ Loop(s, "look")
  /\ UNCHANGED <<plugged, card, listed, freed, cardLock, sess, lockedSession,
                 touched, history, cmds, plugs>>

Look(s) ==
  /\ GetsCard(s, "look")
  /\ LockCard(s)
  /\ Goto(s, "looking")
  /\ UNCHANGED <<plugged, card, listed, freed, listLock, sess, lockedSession,
                 touched, history, cmds, plugs>>

LookedNext(s) ==
  /\ At(s, "looking")
  /\ UnlockCard(s)
  /\ \/ \E c \in th[s].todo :
          /\ th' = [th EXCEPT ![s].pc = "look", ![s].card = c,
                              ![s].todo = @ \ {c}]
          /\ UNCHANGED listLock
     \/ th[s].todo = {} /\ listLock' = None /\ Return(s)
  /\ UNCHANGED <<plugged, card, listed, freed, sess, lockedSession, touched,
                 history, cmds, plugs>>

Found(s) ==
  /\ At(s, "looking")
  /\ UnlockCard(s) /\ listLock' = None
  /\ th' = [th EXCEPT ![s].pc = "ref", ![s].todo = {},
                      ![s].next = "direct"]
  /\ UNCHANGED <<plugged, card, listed, freed, sess, lockedSession, touched,
                 history, cmds, plugs>>

\* card_ref
Ref(s) ==
  /\ GetsCard(s, "ref")
  /\ card' = Referenced(th[s].card)
  /\ Goto(s, "use")
  /\ UNCHANGED <<plugged, listed, freed, locks, sess, lockedSession, touched,
                 history, cmds, plugs>>

\* Bug: LOCK stays.
UnlockedNot(s) == lockedSession

\* do_reset, cmd_restart and the end of a session release LOCK.
Unlocked(s) == IF lockedSession = s THEN None ELSE lockedSession

\* card_unref
Unref(s) ==
  /\ GetsCard(s, "unref")
  /\ card' = [card EXCEPT ![th[s].card].refs = @ - 1]
  /\ \/ /\ th[s].next = "serialno" /\ Goto(s, "select")
        /\ UNCHANGED <<sess, lockedSession>>
     \/ /\ th[s].next = "direct" /\ Return(s)
        /\ UNCHANGED <<sess, lockedSession>>
     \/ /\ th[s].next = "drop" /\ Return(s)
        /\ lockedSession' = Unlocked(s)
        /\ UNCHANGED sess
     \/ /\ th[s].next = "end" /\ th' = [th EXCEPT ![s] = At0("ended")]
        /\ lockedSession' = Unlocked(s)
        /\ sess' = [sess EXCEPT ![s].live = FALSE]
  /\ UNCHANGED <<plugged, listed, freed, locks, touched, history, cmds,
                 plugs>>

-----------------------------------------------------------------------------
(***************************************************************************)
(* Commands about the card                                                 *)
(***************************************************************************)
\* The session gives up its card and goes on when that is done.
Drop(s, next) ==
  /\ sess' = [sess EXCEPT ![s].ctx = 0]
  /\ th' = [th EXCEPT ![s].pc = "unref", ![s].card = sess[s].ctx,
                      ![s].next = next]

\* SERIALNO: the current card is given up before the scan.
Serialno(s, want) ==
  /\ Command(s) /\ ~IsLocked(s)
  /\ sess' = [sess EXCEPT ![s].ctx = 0, ![s].removed = FALSE]
  /\ th' = [th EXCEPT ![s] =
              [pc |-> IF sess[s].ctx # 0 THEN "unref" ELSE "select",
               card |-> sess[s].ctx, todo |-> {}, want |-> want,
               next |-> "serialno"]]
  /\ working' = [working EXCEPT ![s] = 0]
  /\ UNCHANGED <<plugged, card, listed, freed, locks, lockedSession, touched,
                 leaked, plugs>>

\* SERIALNO <apptype> with a current card: the application may be in use,
\* selected already, or one to switch to.
SerialnoApp(s) ==
  /\ Command(s) /\ ~IsLocked(s) /\ sess[s].ctx # 0
  /\ \/ \E ok \in BOOLEAN : SerialnoEnds(s, sess, ok)
     \/ /\ sess' = [sess EXCEPT ![s].removed = FALSE]
        /\ th' = [th EXCEPT ![s].pc = "use", ![s].card = sess[s].ctx,
                            ![s].next = "serialno"]
  /\ working' = [working EXCEPT ![s] = 0]
  /\ UNCHANGED <<plugged, card, listed, freed, locks, lockedSession, touched,
                 leaked, plugs>>

\* SWITCHCARD, app_switch_current_card.
Switchcard(s) ==
  /\ Command(s) /\ ~sess[s].removed /\ ~IsLocked(s)
  /\ th' = [th EXCEPT ![s] =
              [pc |-> IF sess[s].ctx # 0 THEN "switch" ELSE "select",
               card |-> 0, todo |-> {}, want |-> None, next |-> "switch"]]
  /\ working' = [working EXCEPT ![s] = 0]
  /\ UNCHANGED <<plugged, card, listed, freed, locks, sess, lockedSession,
                 touched, leaked, plugs>>

\* Bug: the card given up stays referenced.
SwitchedNoUnref(s, c) == Referenced(c)

\* card_ref for the new card and card_unref for the old one.
Switched(s, c) ==
  [d \in Ids |-> [card[d] EXCEPT !.refs =
                   @ + (IF d = c THEN 1 ELSE 0)
                     - (IF d = sess[s].ctx THEN 1 ELSE 0)]]

Switch(s) ==
  /\ GetsList(s, "switch")
  /\ \/ UNCHANGED <<card, sess>>
     \/ \E c \in listed :
          /\ sess[s].ctx # 0
          /\ sess' = Current(s, c)
          /\ card' = Switched(s, c)
  /\ Return(s)
  /\ UNCHANGED <<plugged, listed, freed, locks, lockedSession, touched,
                 history, cmds, plugs>>

\* RESET.  Another session holds LOCK: only the context goes.
Reset(s) ==
  /\ Command(s)
  /\ \/ sess[s].ctx = 0
        /\ lockedSession' = Unlocked(s)
        /\ UNCHANGED <<sess, th>>
     \/ sess[s].ctx # 0 /\ IsLocked(s) /\ Drop(s, "drop")
        /\ UNCHANGED lockedSession
     \/ sess[s].ctx # 0 /\ ~IsLocked(s) /\ GotoCard(s, "reset", sess[s].ctx)
        /\ UNCHANGED <<sess, lockedSession>>
  /\ working' = [working EXCEPT ![s] = 0]
  /\ UNCHANGED <<plugged, card, listed, freed, locks, touched, leaked, plugs>>

\* card_reset with a reset of the card.
ResetStart(s) ==
  /\ GetsCard(s, "reset")
  /\ LockCard(s)
  /\ Goto(s, "resetting")
  /\ UNCHANGED <<plugged, card, listed, freed, listLock, sess, lockedSession,
                 touched, history, cmds, plugs>>

ResetSent(s) ==
  /\ At(s, "resetting")
  /\ card' = [card EXCEPT ![th[s].card].reset = TRUE]
  /\ UnlockCard(s)
  /\ Goto(s, "sleep")
  /\ UNCHANGED <<plugged, listed, freed, listLock, sess, lockedSession,
                 touched, history, cmds, plugs>>

Slept(s) ==
  /\ At(s, "sleep")
  /\ lockedSession' = Unlocked(s)
  /\ Return(s)
  /\ UNCHANGED <<plugged, card, listed, freed, locks, sess, touched, history,
                 cmds, plugs>>

\* RESTART
Restart(s) ==
  /\ Command(s)
  /\ \/ sess[s].ctx = 0 /\ lockedSession' = Unlocked(s)
        /\ UNCHANGED <<sess, th>>
     \/ sess[s].ctx # 0 /\ Drop(s, "drop") /\ UNCHANGED lockedSession
  /\ working' = [working EXCEPT ![s] = 0]
  /\ UNCHANGED <<plugged, card, listed, freed, locks, touched, leaked, plugs>>

\* The client goes, the end of scd_command_handler.
Bye(s) ==
  /\ At(s, "idle") /\ sess[s].live
  /\ \/ /\ sess[s].ctx = 0
        /\ lockedSession' = Unlocked(s)
        /\ sess' = [sess EXCEPT ![s].live = FALSE]
        /\ Goto(s, "ended")
     \/ sess[s].ctx # 0 /\ Drop(s, "end") /\ UNCHANGED lockedSession
  /\ UNCHANGED <<plugged, card, listed, freed, locks, touched, history, cmds,
                 plugs>>

\* LOCK, with --wait if it is another's, and UNLOCK.
Lock(s) ==
  /\ Command(s)
  /\ \/ /\ lockedSession \in {None, s}
        /\ lockedSession' = s /\ UNCHANGED th
     \/ IsLocked(s) /\ Goto(s, "lockwait") /\ UNCHANGED lockedSession
  /\ UNCHANGED <<plugged, card, listed, freed, locks, sess, touched, history,
                 plugs>>

LockRetry(s) ==
  /\ At(s, "lockwait") /\ lockedSession = None
  /\ lockedSession' = s
  /\ Return(s)
  /\ UNCHANGED <<plugged, card, listed, freed, locks, sess, touched, history,
                 cmds, plugs>>

Unlock(s) ==
  /\ Command(s) /\ lockedSession = s
  /\ lockedSession' = None
  /\ UNCHANGED <<plugged, card, listed, freed, locks, sess, th, touched,
                 history, plugs>>

-----------------------------------------------------------------------------
(***************************************************************************)
(* DEVINFO --watch                                                         *)
(***************************************************************************)
Devinfo(s) ==
  /\ Command(s)
  /\ th' = [th EXCEPT ![s].pc = "devinfo", ![s].next = "first"]
  /\ working' = [working EXCEPT ![s] = 0]
  /\ UNCHANGED <<plugged, card, listed, freed, locks, sess, lockedSession,
                 touched, leaked, plugs>>

\* app_send_devinfo writes to the client with the list locked.
SendDevinfo(s) ==
  /\ GetsList(s, "devinfo")
  /\ listLock' = s
  /\ th' = [th EXCEPT ![s].pc = "sending",
                      ![s].next = IF @ = "again" /\ listed = {} THEN "none"
                                  ELSE @]
  /\ UNCHANGED <<plugged, card, listed, freed, cardLock, sess, lockedSession,
                 touched, history, cmds, plugs>>

\* First time: open_card, and the reference to the card is forgotten.
SentFirst(s) ==
  LET c == sess[s].ctx
      ss == [sess EXCEPT ![s].removed = FALSE]
  IN  /\ At(s, "sending") /\ th[s].next = "first"
      /\ listLock' = None
      /\ \/ /\ IsLocked(s)
            /\ sess' = ss /\ Return(s) /\ UNCHANGED leaked
         \/ /\ ~IsLocked(s) /\ c # 0
            /\ sess' = [ss EXCEPT ![s].ctx = 0]
            /\ leaked' = [leaked EXCEPT ![c] = @ + 1]
            /\ Watch(s, "first")
         \/ /\ ~IsLocked(s) /\ c = 0
            /\ sess' = ss
            /\ th' = [th EXCEPT ![s].pc = "select", ![s].next = "watch"]
            /\ UNCHANGED leaked
      /\ UNCHANGED <<plugged, card, listed, freed, cardLock, lockedSession,
                     touched, working, cmds, plugs>>

SentAgain(s) ==
  /\ At(s, "sending") /\ th[s].next \in {"again", "none"}
  /\ listLock' = None
  /\ IF th[s].next = "none" THEN Return(s) ELSE Watch(s, "again")
  /\ UNCHANGED <<plugged, card, listed, freed, cardLock, sess, lockedSession,
                 touched, history, cmds, plugs>>

\* app_wait
Wait(s) ==
  /\ GetsList(s, "wait")
  /\ Goto(s, "watch")
  /\ UNCHANGED <<plugged, card, listed, freed, locks, sess, lockedSession,
                 touched, history, cmds, plugs>>

Woken(s) ==
  /\ GetsList(s, "woken")
  /\ th' = [th EXCEPT ![s].pc = "devinfo", ![s].next = "again"]
  /\ UNCHANGED <<plugged, card, listed, freed, locks, sess, lockedSession,
                 touched, history, cmds, plugs>>

-----------------------------------------------------------------------------
(***************************************************************************)
(* scd_update_reader_status_file, in each turn of the main loop            *)
(***************************************************************************)
Poll ==
  /\ GetsList(Main, "poll")
  /\ listLock' = Main
  /\ Loop(Main, "check")
  /\ UNCHANGED <<plugged, card, listed, freed, cardLock, sess, lockedSession,
                 touched, history, cmds, plugs>>

Check ==
  /\ GetsCard(Main, "check")
  /\ LockCard(Main)
  /\ Goto(Main, "status")
  /\ UNCHANGED <<plugged, card, listed, freed, listLock, sess, lockedSession,
                 touched, history, cmds, plugs>>

\* The next card, or the end: who waits for a change is woken.
CheckNext(reported) ==
  \/ \E c \in th[Main].todo :
       /\ th' = [th EXCEPT ![Main] =
                   [pc |-> "check", card |-> c, todo |-> @.todo \ {c},
                    want |-> None,
                    next |-> IF reported THEN "reported" ELSE @.next]]
       /\ UNCHANGED listLock
  \/ /\ th[Main].todo = {}
     /\ listLock' = None
     /\ th' = [t \in Threads |->
                 IF t = Main THEN Turn
                 ELSE IF th[t].pc = "watch"
                         /\ (reported \/ th[Main].next = "reported")
                      THEN [th[t] EXCEPT !.pc = "woken"]
                      ELSE th[t]]

\* Bug: the request to reset is not looked at.
GoneIfDead(c) == card[c].dead

Gone(c) == card[c].dead \/ card[c].reset

\* The card is there, or its status could not be read.
StillThere ==
  LET c == th[Main].card
  IN  /\ At(Main, "status")
      /\ ~Gone(c)
      /\ \/ /\ card' = [card EXCEPT ![c].known = TRUE]
            /\ CheckNext(~card[c].known)
         \/ UNCHANGED card /\ CheckNext(FALSE)
      /\ UnlockCard(Main)
      /\ UNCHANGED <<plugged, listed, freed, sess, lockedSession, touched,
                     history, cmds, plugs>>

\* send_client_notifications and deallocate_card.
Users(c) == {s \in Sessions : sess[s].ctx = c}

\* Bug: the card of the session stays.
NotifiedKeeps(c) ==
  [s \in Sessions |->
     IF s \in Users(c) THEN [sess[s] EXCEPT !.removed = TRUE] ELSE sess[s]]

\* Bug: the session is not told.
NotifiedNoFlag(c) ==
  [s \in Sessions |->
     IF s \in Users(c) THEN [sess[s] EXCEPT !.ctx = 0] ELSE sess[s]]

Notified(c) ==
  [s \in Sessions |->
     IF s \in Users(c)
     THEN [sess[s] EXCEPT !.ctx = 0, !.removed = TRUE]
     ELSE sess[s]]

Removal ==
  LET c == th[Main].card
  IN  /\ At(Main, "status")
      /\ Gone(c)
      /\ sess' = Notified(c)
      /\ card' = [card EXCEPT ![c].refs = @ - Cardinality(Users(c))]
      /\ listed' = listed \ {c}
      /\ freed' = freed \cup {c}
      /\ UnlockCard(Main)
      /\ CheckNext(TRUE)
      /\ UNCHANGED <<plugged, lockedSession, touched, history, cmds, plugs>>

-----------------------------------------------------------------------------
\* The user plugs in a token, or pulls it: its reader is gone for good.
Plug(k) == /\ k \notin plugged /\ plugs < MaxPlugs /\ ~touched
           /\ plugged' = plugged \cup {k}
           /\ plugs' = plugs + 1
           /\ UNCHANGED <<card, listed, freed, locks, sess, lockedSession,
                          th, touched, history, cmds>>

Pull(k) == /\ k \in plugged /\ plugs < MaxPlugs /\ ~touched
           /\ plugged' = plugged \ {k}
           /\ card' = [c \in Ids |-> [card[c] EXCEPT
                         !.dead = @ \/ card[c].token = k]]
           /\ plugs' = plugs + 1
           /\ UNCHANGED <<listed, freed, locks, sess, lockedSession, th,
                          touched, history, cmds>>

\* A thread asks for the lock of a context that is no more.
Touch(t) == /\ ~touched /\ th[t].pc \in CardPcs /\ th[t].card \in freed
            /\ touched' = TRUE
            /\ UNCHANGED <<plugged, card, listed, freed, locks, sess,
                           lockedSession, th, history, cmds, plugs>>

Starts(s) == \/ Use(s) \/ Direct(s) \/ SerialnoApp(s) \/ Switchcard(s)
             \/ \E want \in Serials \cup {None} : Serialno(s, want)
             \/ Reset(s) \/ Restart(s) \/ Bye(s) \/ Lock(s) \/ Unlock(s)
             \/ Devinfo(s)

Goes(s) == \/ Select(s) \/ Register(s) \/ ScanEnd(s) \/ ScanFails(s)
           \/ PickOther(s) \/ PickFails(s) \/ Pick(s) \/ PickForgotten(s)
           \/ OpStart(s) \/ OpEnd(s)
           \/ Find(s) \/ Look(s) \/ LookedNext(s) \/ Found(s)
           \/ Ref(s) \/ Unref(s) \/ Switch(s)
           \/ ResetStart(s) \/ ResetSent(s) \/ Slept(s) \/ LockRetry(s)
           \/ SendDevinfo(s) \/ SentFirst(s) \/ SentAgain(s)
           \/ Wait(s) \/ Woken(s) \/ Touch(s)

MainLoop == Poll \/ Check \/ StillThere \/ Removal \/ Touch(Main)

Next == \/ \E s \in Sessions : Starts(s) \/ Goes(s)
        \/ MainLoop
        \/ \E k \in Tokens : Plug(k) \/ Pull(k)

Spec == Init /\ [][Next]_vars

\* Threads that can go on do so, also when a lock they wait for is taken by
\* others in between: the main loop pauses after each turn, and there are
\* few sessions.  An operation ends: the client answers or goes away.
Fairness == /\ \A s \in Sessions : SF_vars(Goes(s))
            /\ SF_vars(MainLoop)

FairSpec == Spec /\ Fairness

-----------------------------------------------------------------------------
\* The variables have their types.
TypeOK == /\ plugged \subseteq Tokens
          /\ card \in [Ids -> Card]
          /\ listed \subseteq Ids /\ freed \subseteq Ids
          /\ listLock \in Threads \cup {None}
          /\ cardLock \in [Ids -> Threads \cup {None}]
          /\ sess \in [Sessions -> Session]
          /\ lockedSession \in Sessions \cup {None}
          /\ th \in [Threads -> Thread]
          /\ touched \in BOOLEAN
          /\ leaked \in [Ids -> Nat]
          /\ working \in [Sessions -> Ctx]

\* Threads that hold a reference of their own to c: card_ref was called, or
\* the session gave up c and has not called card_unref.
Holders(c) == {s \in Sessions :
                 /\ th[s].card = c
                 /\ \/ th[s].pc = "unref"
                    \/ th[s].pc \in {"use", "op"} /\ th[s].next = "direct"}

\* ref_count is the number of the users of a card, and of the references
\* that DEVINFO forgot: card_unref never finds it at 0, which is a log_bug.
RefsExact == \A c \in listed :
               card[c].refs = Cardinality(Users(c)) + Cardinality(Holders(c))
                                + leaked[c]

\* A session's current card is on the list: whichever way it was chosen,
\* its removal reaches the session.
ContextListed == \A s \in Sessions : sess[s].ctx \in listed \cup {0}

\* An operation with the current card uses the context of the one before,
\* unless the client asked for another (SERIALNO, SWITCHCARD, DEVINFO or a
\* reset): a token that was pulled or reset is not replaced behind its back.
SameCard == \A s \in Sessions :
              th[s].pc = "op" /\ th[s].next = "use"
                => th[s].card = working[s]

\* LOCK is released with the session, on every way out.
LockerLives == lockedSession # None => sess[lockedSession].live

\* Every command returns, but for those that wait for another session or
\* for a change: no way out keeps a lock, and no two threads wait for each
\* other.
CommandsReturn ==
  \A s \in Sessions :
    th[s].pc \notin RestPcs ~> th[s].pc \in RestPcs \/ touched

\* A token that was pulled, or reset, leaves the list.
RemovalNoticed ==
  \A c \in Ids : c \in listed /\ (card[c].dead \/ card[c].reset)
                   ~> c \in freed \/ touched

\* DEVINFO --watch that has reported a device ends when none is left.
WatchEnds ==
  \A s \in Sessions :
    th[s].pc = "watch" /\ th[s].next = "again" /\ listed = {}
      ~> th[s].pc # "watch" \/ listed # {} \/ touched
=============================================================================
