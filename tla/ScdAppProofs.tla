---------------------------- MODULE ScdAppProofs ----------------------------
(***************************************************************************)
(* Proofs about ScdApp: the reference counts of the card contexts, the     *)
(* contexts of the sessions and the holder of LOCK.                        *)
(***************************************************************************)
EXTENDS ScdApp, FiniteSetTheorems, TLAPS

Pcs == ListPcs \cup CardPcs \cup IoPcs \cup RestPcs
Nexts == {"idle", "use", "find", "switch", "watch", "serialno", "direct",
          "drop", "end", "first", "again", "none", "reported"}

\* The contexts that were ever allocated.
Known == listed \cup freed

\* A context is either on the list or released, and what was never allocated
\* is referenced by nobody.
Cards == \A c \in Ids :
           /\ c \in listed => c \notin freed
           /\ c \in Known => card[c].token # None
           /\ card[c].token = None => card[c].refs = 0 /\ leaked[c] = 0

\* The places where a thread is about to lock, or has locked, its card.
AtCard == CardPcs \cup {"op", "looking", "resetting", "status"}

\* The local variables of a thread point to contexts that were allocated.
LocalOK(t) == /\ th[t].card \in Known \cup {0}
              /\ th[t].todo \subseteq Known
              /\ th[t].pc \in AtCard => th[t].card # 0

\* The main loop visits each context on the list once: nobody else takes one
\* from the list.
MainOK == /\ th[Main].pc # "poll" => th[Main].card \in listed
          /\ th[Main].todo \subseteq listed \ {th[Main].card}

Selecting(s) == th[s].pc \in {"select", "scan", "pick"}

\* select_application is called without a current card only; card_ref in
\* app_do_with_keygrip only; and a session that ended does nothing.
PhaseOK(s) == /\ Selecting(s) =>
                   /\ sess[s].ctx = 0
                   /\ th[s].next \in {"use", "find", "switch", "serialno",
                                      "watch"}
              /\ th[s].pc = "unref" /\ th[s].next = "serialno" =>
                   sess[s].ctx = 0
              /\ th[s].pc = "ref" => th[s].next = "direct"
              /\ ~sess[s].live => th[s].pc = "ended"

\* The client asked for another card, or has none.
Asks(s) == \/ Selecting(s)
           \/ th[s].pc \in {"switch", "devinfo", "sending", "wait", "watch",
                            "woken"}
           \/ th[s].pc \in {"use", "op", "unref"} /\ th[s].next = "serialno"

Ending(s) == \/ th[s].pc = "ended"
             \/ th[s].pc = "unref" /\ th[s].next = "end"

\* The session was told that its card is gone.
Told(s) == sess[s].ctx = 0 /\ sess[s].removed

\* The current card is the one the session worked with, unless it asked for
\* another or was told that it is gone.
WorkOK(s) == /\ Asks(s) => working[s] = 0
             /\ \/ Ending(s) \/ Told(s)
                \/ working[s] \in {0, sess[s].ctx}
             /\ th[s].pc = "use" /\ th[s].next = "use" =>
                  /\ Told(s) \/ sess[s].ctx = th[s].card
                  /\ working[s] \in {0, th[s].card}
             /\ th[s].pc = "op" /\ th[s].next = "use" =>
                  th[s].card = working[s]

\* The inductive invariant.
Inv == /\ TypeOK /\ Cards /\ RefsExact /\ ContextListed /\ MainOK
       /\ LockerLives
       /\ \A t \in Threads : LocalOK(t)
       /\ \A s \in Sessions : PhaseOK(s) /\ WorkOK(s)

\* What is known of session s before each of its steps.
Here(s) == /\ TypeOK /\ s \in Threads
           /\ th \in [Threads -> Thread] /\ th[s] \in Thread
           /\ sess \in [Sessions -> Session] /\ sess[s] \in Session
           /\ listed \subseteq Ids
           /\ LocalOK(s) /\ PhaseOK(s) /\ WorkOK(s)

\* What a step of session s leaves to the others: a card_removed flag may be
\* set or cleared with the current card it is about.
Apart(s) == /\ \A t \in Threads \ {s} : th'[t] = th[t]
            /\ \A q \in Sessions \ {s} :
                 /\ working'[q] = working[q]
                 /\ sess'[q].ctx = sess[q].ctx /\ sess'[q].live = sess[q].live
                 /\ sess[q].ctx = 0 => sess'[q].removed = sess[q].removed

\* Session s holds a reference to the card of its thread.
Holds(s) == \/ th[s].pc = "unref"
            \/ th[s].pc \in {"use", "op"} /\ th[s].next = "direct"

\* The references of session s to c, as its current card and otherwise.
Uses(s, c) == IF sess[s].ctx = c THEN 1 ELSE 0
Keeps(s, c) == IF Holds(s) /\ th[s].card = c THEN 1 ELSE 0

\* Nothing leaves the list.
Kept == listed \subseteq listed' /\ freed \subseteq freed'

-----------------------------------------------------------------------------
(***************************************************************************)
(* The operators that the actions are made of                              *)
(***************************************************************************)
\* Moves of a thread: it changes its own record, and only the named fields.
LEMMA GotoMoves ==
  ASSUME th \in [Threads -> Thread], NEW t \in Threads, NEW pc \in Pcs,
         Goto(t, pc)
  PROVE  /\ th' \in [Threads -> Thread]
         /\ th'[t].pc = pc /\ th'[t].card = th[t].card
         /\ th'[t].todo = th[t].todo /\ th'[t].want = th[t].want
         /\ th'[t].next = th[t].next
         /\ \A q \in Threads \ {t} : th'[q] = th[q]
<1> DEFINE r == [th[t] EXCEPT !.pc = pc]
<1>1. r \in Thread
  BY DEF Thread, Pcs
<1>2. th' = [th EXCEPT ![t] = r]
  BY DEF Goto
<1> QED
  BY <1>1, <1>2

\* The thread goes on with a card.
LEMMA GotoCardMoves ==
  ASSUME th \in [Threads -> Thread], NEW t \in Threads, NEW pc \in Pcs,
         NEW c \in Ctx, GotoCard(t, pc, c)
  PROVE  /\ th' \in [Threads -> Thread]
         /\ th'[t].pc = pc /\ th'[t].card = c
         /\ th'[t].todo = th[t].todo /\ th'[t].want = th[t].want
         /\ th'[t].next = th[t].next
         /\ \A q \in Threads \ {t} : th'[q] = th[q]
<1> DEFINE r == [th[t] EXCEPT !.pc = pc, !.card = c]
<1>1. r \in Thread
  BY DEF Thread, Pcs
<1>2. th' = [th EXCEPT ![t] = r]
  BY DEF GotoCard
<1> QED
  BY <1>1, <1>2

\* A loop over the list begins with one of its cards.
LEMMA LoopMoves ==
  ASSUME th \in [Threads -> Thread], NEW t \in Threads, NEW pc \in Pcs,
         listed \subseteq Ids, Loop(t, pc)
  PROVE  /\ th' \in [Threads -> Thread]
         /\ th'[t].pc = pc /\ th'[t].card \in listed
         /\ th'[t].todo = listed \ {th'[t].card} /\ th'[t].want = th[t].want
         /\ th'[t].next = th[t].next
         /\ \A q \in Threads \ {t} : th'[q] = th[q]
<1>1. PICK c \in listed :
        th' = [th EXCEPT ![t].pc = pc, ![t].card = c,
                         ![t].todo = listed \ {c}]
  BY DEF Loop
<1> DEFINE r == [th[t] EXCEPT !.pc = pc, !.card = c, !.todo = listed \ {c}]
<1>2. r \in Thread
  BY DEF Thread, Pcs, Ctx
<1>3. th' = [th EXCEPT ![t] = r]
  BY <1>1
<1> QED
  BY <1>2, <1>3

\* A loop is left.
LEMMA LeaveMoves ==
  ASSUME th \in [Threads -> Thread], NEW t \in Threads, NEW pc \in Pcs,
         Leave(t, pc)
  PROVE  /\ th' \in [Threads -> Thread]
         /\ th'[t].pc = pc /\ th'[t].card = th[t].card
         /\ th'[t].todo = {} /\ th'[t].next = th[t].next
         /\ \A q \in Threads \ {t} : th'[q] = th[q]
<1> DEFINE r == [th[t] EXCEPT !.pc = pc, !.todo = {}, !.want = None]
<1>1. r \in Thread
  BY DEF Thread, Pcs
<1>2. th' = [th EXCEPT ![t] = r]
  BY DEF Leave
<1> QED
  BY <1>1, <1>2

\* A thread that has just begun is a thread.
LEMMA AtZero ==
  ASSUME NEW pc \in Pcs
  PROVE  At0(pc) \in Thread
BY DEF At0, Thread, Pcs, Ctx

\* The command ends.
LEMMA ReturnMoves ==
  ASSUME th \in [Threads -> Thread], NEW t \in Threads, Return(t)
  PROVE  /\ th' \in [Threads -> Thread]
         /\ th'[t] = At0("idle")
         /\ \A q \in Threads \ {t} : th'[q] = th[q]
BY AtZero DEF Return, Rest, Pcs, RestPcs

\* app_send_devinfo waits for a change.
LEMMA WatchMoves ==
  ASSUME th \in [Threads -> Thread], NEW t \in Threads,
         NEW told \in {"first", "again"}, Watch(t, told)
  PROVE  /\ th' \in [Threads -> Thread]
         /\ th'[t].pc = "wait" /\ th'[t].card = 0 /\ th'[t].todo = {}
         /\ th'[t].next = told
         /\ \A q \in Threads \ {t} : th'[q] = th[q]
<1> DEFINE r == [At0("wait") EXCEPT !.next = told]
<1>1. r = [pc |-> "wait", card |-> 0, todo |-> {}, want |-> None,
           next |-> told]
  BY DEF At0
<1>2. r \in Thread
  BY <1>1 DEF Thread, ListPcs, Ctx
<1>3. th' = [th EXCEPT ![t] = r]
  BY DEF Watch
<1> QED
  BY <1>1, <1>2, <1>3

\* open_card goes on with the current card or selects one.
LEMMA OpenCardMoves ==
  ASSUME TypeOK, NEW s \in Sessions, NEW pc \in {"use", "find"},
         OpenCard(s, pc)
  PROVE  /\ th' \in [Threads -> Thread]
         /\ th'[s].pc = IF sess[s].ctx # 0 THEN pc ELSE "select"
         /\ th'[s].card = sess[s].ctx /\ th'[s].todo = th[s].todo
         /\ th'[s].next = pc
         /\ \A q \in Threads \ {s} : th'[q] = th[q]
<1> DEFINE p == IF sess[s].ctx # 0 THEN pc ELSE "select"
           r == [th[s] EXCEPT !.pc = p, !.card = sess[s].ctx, !.next = pc]
<1>1. s \in Threads /\ th[s] \in Thread /\ sess[s].ctx \in Ctx
  BY DEF TypeOK, Threads, Session
<1>2. r \in Thread
  BY <1>1 DEF Thread, ListPcs, CardPcs
<1>3. th' = [th EXCEPT ![s] = r]
  BY <1>1 DEF OpenCard
<1> QED
  BY <1>1, <1>2, <1>3 DEF TypeOK

\* The context of a session is set or cleared.
LEMMA ContextSet ==
  ASSUME sess \in [Sessions -> Session], NEW s \in Sessions, NEW c \in Ctx,
         sess' = [sess EXCEPT ![s].ctx = c]
  PROVE  /\ sess' \in [Sessions -> Session]
         /\ sess'[s].ctx = c /\ sess'[s].removed = sess[s].removed
         /\ sess'[s].live = sess[s].live
         /\ \A q \in Sessions \ {s} : sess'[q] = sess[q]
<1> DEFINE r == [sess[s] EXCEPT !.ctx = c]
<1>1. r \in Session
  BY DEF Session
<1>2. sess' = [sess EXCEPT ![s] = r]
  OBVIOUS
<1> QED
  BY <1>1, <1>2

\* The card_removed flag of a session is set or cleared.
LEMMA FlagSet ==
  ASSUME sess \in [Sessions -> Session], NEW s \in Sessions,
         NEW flag \in BOOLEAN, sess' = [sess EXCEPT ![s].removed = flag]
  PROVE  /\ sess' \in [Sessions -> Session]
         /\ sess'[s].ctx = sess[s].ctx /\ sess'[s].removed = flag
         /\ sess'[s].live = sess[s].live
         /\ \A q \in Sessions \ {s} : sess'[q] = sess[q]
<1> DEFINE r == [sess[s] EXCEPT !.removed = flag]
<1>1. r \in Session
  BY DEF Session
<1>2. sess' = [sess EXCEPT ![s] = r]
  OBVIOUS
<1> QED
  BY <1>1, <1>2

\* A session is about to give its current card up.
LEMMA DropMoves ==
  ASSUME TypeOK, NEW s \in Sessions, NEW next \in Nexts, Drop(s, next)
  PROVE  /\ th' \in [Threads -> Thread]
         /\ th'[s].pc = "unref" /\ th'[s].card = sess[s].ctx
         /\ th'[s].todo = th[s].todo /\ th'[s].next = next
         /\ \A q \in Threads \ {s} : th'[q] = th[q]
         /\ sess' \in [Sessions -> Session]
         /\ sess'[s].ctx = 0 /\ sess'[s].removed = sess[s].removed
         /\ sess'[s].live = sess[s].live
         /\ \A q \in Sessions \ {s} : sess'[q] = sess[q]
<1> DEFINE r == [th[s] EXCEPT !.pc = "unref", !.card = sess[s].ctx,
                              !.next = next]
<1>1. s \in Threads /\ th[s] \in Thread /\ sess[s].ctx \in Ctx
  BY DEF TypeOK, Threads, Session
<1>2. r \in Thread
  BY <1>1 DEF Thread, CardPcs, Nexts
<1>3. th' = [th EXCEPT ![s] = r]
  BY <1>1 DEF Drop
<1>4. sess \in [Sessions -> Session] /\ 0 \in Ctx
      /\ sess' = [sess EXCEPT ![s].ctx = 0]
  BY DEF Drop, TypeOK, Ctx
<1>5. /\ sess' \in [Sessions -> Session]
      /\ sess'[s].ctx = 0 /\ sess'[s].removed = sess[s].removed
      /\ sess'[s].live = sess[s].live
      /\ \A q \in Sessions \ {s} : sess'[q] = sess[q]
  BY <1>4, ContextSet
<1> QED
  BY <1>1, <1>2, <1>3, <1>5 DEF TypeOK

\* The end of cmd_serialno: a flag changes for s, and for the sessions with
\* the same current card.
LEMMA SerialnoMoves ==
  ASSUME TypeOK, NEW s \in Sessions, NEW ss \in [Sessions -> Session],
         NEW ok \in BOOLEAN, SerialnoEnds(s, ss, ok)
  PROVE  /\ th' \in [Threads -> Thread]
         /\ th'[s] = At0("idle")
         /\ \A q \in Threads \ {s} : th'[q] = th[q]
         /\ sess' \in [Sessions -> Session]
         /\ sess'[s].ctx = ss[s].ctx /\ sess'[s].removed = ~ok
         /\ sess'[s].live = ss[s].live
         /\ \A q \in Sessions \ {s} :
              /\ sess'[q].ctx = ss[q].ctx /\ sess'[q].live = ss[q].live
              /\ ss[q].ctx = 0 => sess'[q].removed = ss[q].removed
<1>1. s \in Threads /\ th \in [Threads -> Thread] /\ Return(s)
  BY DEF TypeOK, Threads, SerialnoEnds
<1>2. sess' = SerialnoFlags(s, ss, ok)
  BY DEF SerialnoEnds
<1>3. \A q \in Sessions : [ss[q] EXCEPT !.removed = ~ok] \in Session
  BY DEF Session
<1>4. sess' \in [Sessions -> Session]
  BY <1>2, <1>3 DEF SerialnoFlags
<1>5. \A q \in Sessions : sess'[q] = ss[q]
        \/ (sess'[q] = [ss[q] EXCEPT !.removed = ~ok]
            /\ (q = s \/ (ss[s].ctx # 0 /\ ss[q].ctx = ss[s].ctx)))
  BY <1>2 DEF SerialnoFlags
<1>6. sess'[s] = [ss[s] EXCEPT !.removed = ~ok]
  BY <1>2 DEF SerialnoFlags
<1>7. \A q \in Sessions \ {s} :
              /\ sess'[q].ctx = ss[q].ctx /\ sess'[q].live = ss[q].live
              /\ ss[q].ctx = 0 => sess'[q].removed = ss[q].removed
  BY <1>5 DEF Session
<1>8. /\ sess'[s].ctx = ss[s].ctx /\ sess'[s].removed = ~ok
      /\ sess'[s].live = ss[s].live
  BY <1>6
<1> QED
  BY <1>1, <1>4, <1>7, <1>8, ReturnMoves

\* card_ref
LEMMA ReferencedCounts ==
  ASSUME card \in [Ids -> Card], NEW c \in Ids, card' = Referenced(c)
  PROVE  /\ card' \in [Ids -> Card]
         /\ card'[c].refs = card[c].refs + 1 /\ card'[c].token = card[c].token
         /\ \A d \in Ids \ {c} : card'[d] = card[d]
<1> DEFINE r == [card[c] EXCEPT !.refs = @ + 1]
<1>1. card[c] \in Card /\ card[c].refs \in Nat
  BY DEF Card
<1>2. r \in Card /\ r.refs = card[c].refs + 1 /\ r.token = card[c].token
  BY <1>1 DEF Card
<1>3. card' = [card EXCEPT ![c] = r]
  BY DEF Referenced
<1> QED
  BY <1>2, <1>3

\* One element more, and one less.
LEMMA OneMore ==
  ASSUME NEW S \in SUBSET Sessions, NEW s \in Sessions, s \notin S
  PROVE  Cardinality(S \cup {s}) = Cardinality(S) + 1
BY SessionsAssumption, FS_Subset, FS_AddElement

\* A session leaves a set of sessions.
LEMMA OneLess ==
  ASSUME NEW S \in SUBSET Sessions, NEW s \in S
  PROVE  /\ Cardinality(S \ {s}) = Cardinality(S) - 1
         /\ Cardinality(S) >= 1
<1>1. IsFiniteSet(S) /\ IsFiniteSet(S \ {s})
  BY SessionsAssumption, FS_Subset
<1>2. Cardinality(S \ {s}) = Cardinality(S) - 1
  BY <1>1, FS_RemoveElement
<1>3. Cardinality(S \ {s}) \in Nat /\ Cardinality(S) \in Nat
  BY <1>1, FS_CardinalityType
<1> QED
  BY <1>2, <1>3

\* The sessions in a set can be counted.
LEMMA Counted ==
  ASSUME NEW S \in SUBSET Sessions
  PROVE  Cardinality(S) \in Nat
BY SessionsAssumption, FS_Subset, FS_CardinalityType

-----------------------------------------------------------------------------
(***************************************************************************)
(* Steps of one session, seen by the others                                *)
(***************************************************************************)
\* A step of session s that keeps its own part keeps everybody's.
LEMMA Framed ==
  ASSUME Inv, NEW s \in Sessions, Apart(s), Kept,
         LocalOK(s)', PhaseOK(s)', WorkOK(s)'
  PROVE  /\ MainOK'
         /\ \A t \in Threads : LocalOK(t)'
         /\ \A q \in Sessions : PhaseOK(q)' /\ WorkOK(q)'
<1>1. MainOK'
  BY MainAssumption DEF Inv, Apart, Kept, MainOK, Threads
<1>2. ASSUME NEW t \in Threads \ {s} PROVE LocalOK(t)'
  BY DEF Inv, Apart, Kept, LocalOK, Known
<1>3. ASSUME NEW q \in Sessions \ {s} PROVE PhaseOK(q)'
  BY DEF Inv, Apart, PhaseOK, Selecting, Threads
<1>4. ASSUME NEW q \in Sessions \ {s} PROVE WorkOK(q)'
  BY DEF Inv, Apart, WorkOK, Asks, Selecting, Ending, Told, Threads
<1> QED
  BY <1>1, <1>2, <1>3, <1>4

\* A step that neither takes nor gives back a reference.
LEMMA Quiet ==
  ASSUME Inv, NEW s \in Sessions, Apart(s),
         UNCHANGED <<listed, freed, leaked>>,
         \A c \in Ids : /\ card'[c].refs = card[c].refs
                        /\ card'[c].token = card[c].token,
         sess'[s].ctx = sess[s].ctx,
         \/ ~Holds(s) /\ ~Holds(s)'
         \/ Holds(s) /\ Holds(s)' /\ th'[s].card = th[s].card
  PROVE  Cards' /\ RefsExact' /\ ContextListed'
<1>1. Cards'
  BY DEF Inv, Cards, Known
<1>2. ContextListed'
  BY DEF Inv, Apart, ContextListed
<1>3. ASSUME NEW c \in Ids PROVE Users(c)' = Users(c)
  BY DEF Apart, Users
<1>4. ASSUME NEW c \in Ids PROVE Holders(c)' = Holders(c)
  BY DEF Apart, Holders, Holds, Threads
<1>5. RefsExact'
  BY <1>3, <1>4 DEF Inv, TypeOK, RefsExact
<1> QED
  BY <1>1, <1>2, <1>5

\* A session counts once in a set of sessions.
LEMMA SplitCount ==
  ASSUME NEW S \in SUBSET Sessions, NEW s \in Sessions
  PROVE  /\ Cardinality(S) = Cardinality(S \ {s})
                               + (IF s \in S THEN 1 ELSE 0)
         /\ Cardinality(S \ {s}) \in Nat
<1>1. Cardinality(S \ {s}) \in Nat
  BY Counted
<1>2. CASE s \in S
  BY <1>1, <1>2, OneLess, Counted
<1>3. CASE s \notin S
  <2>1. S \ {s} = S
    BY <1>3
  <2> QED
    BY <1>1, <1>3, <2>1
<1> QED
  BY <1>1, <1>2, <1>3

\* How a step of session s changes the numbers of users and of holders.
LEMMA UsersChange ==
  ASSUME NEW s \in Sessions, Apart(s), NEW c \in Ids
  PROVE  /\ Cardinality(Users(c)') = Cardinality(Users(c))
                                      + Uses(s, c)' - Uses(s, c)
         /\ Cardinality(Users(c)) \in Nat
         /\ Cardinality(Users(c)) >= Uses(s, c)
<1> DEFINE S == Users(c)
           T == Users(c)'
<1>1. S \in SUBSET Sessions /\ T \in SUBSET Sessions
  BY DEF Users
<1>2. S \ {s} = T \ {s}
  BY DEF Users, Apart
<1>3. /\ (IF s \in S THEN 1 ELSE 0) = Uses(s, c)
      /\ (IF s \in T THEN 1 ELSE 0) = Uses(s, c)'
  BY DEF Users, Uses
<1>4. /\ Cardinality(S) = Cardinality(S \ {s}) + Uses(s, c)
      /\ Cardinality(S \ {s}) \in Nat
  BY <1>1, <1>3, SplitCount
<1>5. Cardinality(T) = Cardinality(T \ {s}) + Uses(s, c)'
  BY <1>1, <1>3, SplitCount
<1>6. Uses(s, c) \in 0..1 /\ Uses(s, c)' \in 0..1
  BY DEF Uses
<1> HIDE DEF S, T
<1>7. /\ Cardinality(T) = Cardinality(S) + Uses(s, c)' - Uses(s, c)
      /\ Cardinality(S) \in Nat /\ Cardinality(S) >= Uses(s, c)
  BY <1>2, <1>4, <1>5, <1>6
<1> QED
  BY <1>7 DEF S, T

\* The same for the sessions that hold a reference outside their context.
LEMMA HoldersChange ==
  ASSUME NEW s \in Sessions, Apart(s), NEW c \in Ids
  PROVE  /\ Cardinality(Holders(c)') = Cardinality(Holders(c))
                                        + Keeps(s, c)' - Keeps(s, c)
         /\ Cardinality(Holders(c)) \in Nat
         /\ Cardinality(Holders(c)) >= Keeps(s, c)
<1> DEFINE S == Holders(c)
           T == Holders(c)'
<1>1. S \in SUBSET Sessions /\ T \in SUBSET Sessions
  BY DEF Holders
<1>2. S \ {s} = T \ {s}
  BY DEF Holders, Apart, Threads
<1>3. /\ (IF s \in S THEN 1 ELSE 0) = Keeps(s, c)
      /\ (IF s \in T THEN 1 ELSE 0) = Keeps(s, c)'
  BY DEF Holders, Keeps, Holds
<1>4. /\ Cardinality(S) = Cardinality(S \ {s}) + Keeps(s, c)
      /\ Cardinality(S \ {s}) \in Nat
  BY <1>1, <1>3, SplitCount
<1>5. Cardinality(T) = Cardinality(T \ {s}) + Keeps(s, c)'
  BY <1>1, <1>3, SplitCount
<1>6. Keeps(s, c) \in 0..1 /\ Keeps(s, c)' \in 0..1
  BY DEF Keeps
<1> HIDE DEF S, T
<1>7. /\ Cardinality(T) = Cardinality(S) + Keeps(s, c)' - Keeps(s, c)
      /\ Cardinality(S) \in Nat /\ Cardinality(S) >= Keeps(s, c)
  BY <1>2, <1>4, <1>5, <1>6
<1> QED
  BY <1>7 DEF S, T

\* A step of session s that counts the references it takes and gives back.
LEMMA Balanced ==
  ASSUME Inv, TypeOK', NEW s \in Sessions, Apart(s),
         UNCHANGED <<listed, freed>>,
         sess'[s].ctx \in listed \cup {0},
         \A c \in Ids : card'[c].token = card[c].token,
         \A c \in Ids \ listed : /\ card'[c].refs = card[c].refs
                                 /\ leaked'[c] = leaked[c],
         \A c \in listed :
           card'[c].refs + Uses(s, c) + Keeps(s, c) + leaked[c]
             = card[c].refs + Uses(s, c)' + Keeps(s, c)' + leaked'[c]
  PROVE  Cards' /\ RefsExact' /\ ContextListed'
<1>1. Cards'
  BY DEF Inv, Cards, Known
<1>2. ContextListed'
  BY DEF Inv, Apart, ContextListed
<1>3. ASSUME NEW c \in listed
      PROVE  card'[c].refs = Cardinality(Users(c)') + Cardinality(Holders(c)')
                               + leaked'[c]
  <2>1. c \in Ids /\ card[c].refs \in Nat /\ card'[c].refs \in Nat
        /\ leaked[c] \in Nat /\ leaked'[c] \in Nat
    BY DEF Inv, TypeOK, Card
  <2>2. card[c].refs = Cardinality(Users(c)) + Cardinality(Holders(c))
                         + leaked[c]
    BY DEF Inv, RefsExact
  <2>3. /\ Uses(s, c) \in 0..1 /\ Uses(s, c)' \in 0..1
        /\ Keeps(s, c) \in 0..1 /\ Keeps(s, c)' \in 0..1
    BY DEF Uses, Keeps
  <2>4. /\ Cardinality(Users(c)') = Cardinality(Users(c))
                                      + Uses(s, c)' - Uses(s, c)
        /\ Cardinality(Users(c)) \in Nat
    BY <2>1, UsersChange
  <2>5. /\ Cardinality(Holders(c)') = Cardinality(Holders(c))
                                        + Keeps(s, c)' - Keeps(s, c)
        /\ Cardinality(Holders(c)) \in Nat
    BY <2>1, HoldersChange
  <2>6. card'[c].refs + Uses(s, c) + Keeps(s, c) + leaked[c]
          = card[c].refs + Uses(s, c)' + Keeps(s, c)' + leaked'[c]
    OBVIOUS
  <2> DEFINE a == card[c].refs
             b == card'[c].refs
             l == leaked[c]
             m == leaked'[c]
             u == Cardinality(Users(c))
             h == Cardinality(Holders(c))
             v == Cardinality(Users(c)')
             i == Cardinality(Holders(c)')
             x == Uses(s, c)
             y == Uses(s, c)'
             p == Keeps(s, c)
             q == Keeps(s, c)'
  <2>7. /\ a \in Nat /\ b \in Nat /\ l \in Nat /\ m \in Nat
        /\ u \in Nat /\ h \in Nat
        /\ x \in 0..1 /\ y \in 0..1 /\ p \in 0..1 /\ q \in 0..1
        /\ a = u + h + l /\ v = u + y - x /\ i = h + q - p
        /\ b + x + p + l = a + y + q + m
    BY <2>1, <2>2, <2>3, <2>4, <2>5, <2>6
  <2> HIDE DEF a, b, l, m, u, h, v, i, x, y, p, q
  <2>8. b = v + i + m
    BY <2>7
  <2> QED
    BY <2>8 DEF b, v, i, m
<1>4. RefsExact'
  BY <1>3 DEF RefsExact
<1> QED
  BY <1>1, <1>2, <1>4

\* What the invariant says of the types where session s is.
LEMMA HereNow ==
  ASSUME Inv, NEW s \in Sessions
  PROVE  Here(s)
BY DEF Inv, TypeOK, Threads, Here

\* A command with the current card.
LEMMA UseInv ==
  ASSUME Inv, NEW s \in Sessions, Use(s)
  PROVE  Inv'
<1>1. Here(s)
  BY HereNow
<1>2. /\ th' \in [Threads -> Thread]
      /\ th'[s].pc = IF sess[s].ctx # 0 THEN "use" ELSE "select"
      /\ th'[s].card = sess[s].ctx /\ th'[s].todo = th[s].todo
      /\ th'[s].next = "use"
      /\ \A q \in Threads \ {s} : th'[q] = th[q]
  BY <1>1, OpenCardMoves DEF Here, Use
<1>3. TypeOK'
  BY <1>1, <1>2 DEF Here, TypeOK, Use, locks, history
<1>4. Apart(s) /\ Kept
  BY <1>1, <1>2 DEF Apart, Kept, Use, history
<1>5. LocalOK(s)'
  BY <1>1, <1>2, IdsAssumption
     DEF Here, Inv, ContextListed, LocalOK, Known, AtCard, CardPcs, Use
<1>6. PhaseOK(s)'
  BY <1>1, <1>2 DEF PhaseOK, Selecting, Use, Command
<1>7. WorkOK(s)'
  BY <1>1, <1>2
     DEF Here, WorkOK, Asks, Selecting, Ending, Told, Use, Command, OpenCard,
         At, history
<1>8. LockerLives'
  BY <1>1, <1>2, <1>4 DEF Inv, LockerLives, Use
<1>9. Cards' /\ RefsExact' /\ ContextListed'
  BY <1>1, <1>2, <1>4, Quiet DEF Holds, Use, Command, At, history
<1> QED
  BY <1>3, <1>4, <1>5, <1>6, <1>7, <1>8, <1>9, Framed DEF Inv

\* A command with a keygrip.
LEMMA DirectInv ==
  ASSUME Inv, NEW s \in Sessions, Direct(s)
  PROVE  Inv'
<1>1. Here(s)
  BY HereNow
<1>2. /\ th' \in [Threads -> Thread]
      /\ th'[s].pc = IF sess[s].ctx # 0 THEN "find" ELSE "select"
      /\ th'[s].card = sess[s].ctx /\ th'[s].todo = th[s].todo
      /\ th'[s].next = "find"
      /\ \A q \in Threads \ {s} : th'[q] = th[q]
  BY <1>1, OpenCardMoves DEF Here, Direct
<1>3. TypeOK'
  BY <1>1, <1>2 DEF Here, TypeOK, Direct, locks, history
<1>4. Apart(s) /\ Kept
  BY <1>1, <1>2 DEF Apart, Kept, Direct, history
<1>5. LocalOK(s)'
  BY <1>1, <1>2, IdsAssumption
     DEF Here, Inv, ContextListed, LocalOK, Known, AtCard, CardPcs, Direct
<1>6. PhaseOK(s)'
  BY <1>1, <1>2 DEF PhaseOK, Selecting, Direct, Command
<1>7. WorkOK(s)'
  BY <1>1, <1>2
     DEF Here, WorkOK, Asks, Selecting, Ending, Told, Direct, Command,
         OpenCard, At, history
<1>8. LockerLives'
  BY <1>1, <1>2, <1>4 DEF Inv, LockerLives, Direct
<1>9. Cards' /\ RefsExact' /\ ContextListed'
  BY <1>1, <1>2, <1>4, Quiet DEF Holds, Direct, Command, At, history
<1> QED
  BY <1>3, <1>4, <1>5, <1>6, <1>7, <1>8, <1>9, Framed DEF Inv

\* select_application locks the list, and may scan.
LEMMA SelectInv ==
  ASSUME Inv, NEW s \in Sessions, Select(s)
  PROVE  Inv'
<1>1. Here(s)
  BY HereNow
<1>2. /\ th' \in [Threads -> Thread]
      /\ th'[s].pc \in {"scan", "pick"} /\ th'[s].next = th[s].next
      /\ th'[s].card = th[s].card \/ th'[s].card \in listed
      /\ th'[s].todo = th[s].todo \/ th'[s].todo \subseteq listed
      /\ th'[s].pc = "pick" => th'[s].card \in listed
      /\ \A q \in Threads \ {s} : th'[q] = th[q]
  BY <1>1, GotoMoves, LoopMoves DEF Here, Select, Pcs, IoPcs, CardPcs
<1>3. TypeOK'
  BY <1>1, <1>2 DEF Here, TypeOK, Select, history
<1>4. Apart(s) /\ Kept
  BY <1>1, <1>2 DEF Apart, Kept, Select, history
<1>5. LocalOK(s)'
  BY <1>1, <1>2, IdsAssumption
     DEF Here, LocalOK, Known, AtCard, CardPcs, Select
<1>6. PhaseOK(s)'
  BY <1>1, <1>2 DEF Here, PhaseOK, Selecting, Select, GetsList, At
<1>7. WorkOK(s)'
  BY <1>1, <1>2
     DEF Here, WorkOK, Asks, Selecting, Select, GetsList, At, history
<1>8. LockerLives'
  BY <1>1, <1>2, <1>4 DEF Inv, LockerLives, Select
<1>9. Cards' /\ RefsExact' /\ ContextListed'
  BY <1>1, <1>2, <1>4, Quiet DEF Holds, Select, GetsList, At, history
<1> QED
  BY <1>3, <1>4, <1>5, <1>6, <1>7, <1>8, <1>9, Framed DEF Inv

\* The scan of the readers is over.
LEMMA ScanEndInv ==
  ASSUME Inv, NEW s \in Sessions, ScanEnd(s)
  PROVE  Inv'
<1>1. Here(s)
  BY HereNow
<1>2. /\ th' \in [Threads -> Thread]
      /\ th'[s].pc = "pick" /\ th'[s].next = th[s].next
      /\ th'[s].card \in listed
      /\ th'[s].todo \subseteq listed
      /\ \A q \in Threads \ {s} : th'[q] = th[q]
  BY <1>1, LoopMoves DEF Here, ScanEnd, Pcs, CardPcs
<1>3. TypeOK'
  BY <1>1, <1>2 DEF Here, TypeOK, ScanEnd, locks, history
<1>4. Apart(s) /\ Kept
  BY <1>1, <1>2 DEF Apart, Kept, ScanEnd, history
<1>5. LocalOK(s)'
  BY <1>1, <1>2, IdsAssumption DEF Here, LocalOK, Known, ScanEnd
<1>6. PhaseOK(s)'
  BY <1>1, <1>2 DEF Here, PhaseOK, Selecting, ScanEnd, At
<1>7. WorkOK(s)'
  BY <1>1, <1>2 DEF Here, WorkOK, Asks, Selecting, ScanEnd, At, history
<1>8. LockerLives'
  BY <1>1, <1>2, <1>4 DEF Inv, LockerLives, ScanEnd
<1>9. Cards' /\ RefsExact' /\ ContextListed'
  BY <1>1, <1>2, <1>4, Quiet DEF Holds, ScanEnd, At, history
<1> QED
  BY <1>3, <1>4, <1>5, <1>6, <1>7, <1>8, <1>9, Framed DEF Inv

\* An operation locks its card.
LEMMA OpStartInv ==
  ASSUME Inv, NEW s \in Sessions, OpStart(s)
  PROVE  Inv'
<1>1. Here(s)
  BY HereNow
<1>2. /\ th' \in [Threads -> Thread]
      /\ th'[s].pc = "op" /\ th'[s].card = th[s].card
      /\ th'[s].todo = th[s].todo /\ th'[s].next = th[s].next
      /\ \A q \in Threads \ {s} : th'[q] = th[q]
  BY <1>1, GotoMoves DEF Here, OpStart, Pcs, IoPcs
<1>3. TypeOK'
  BY <1>1, <1>2 DEF Here, TypeOK, Ctx, OpStart, LockCard, LocalOK, Known
<1>4. Apart(s) /\ Kept
  BY <1>1, <1>2 DEF Apart, Kept, OpStart
<1>5. LocalOK(s)'
  BY <1>1, <1>2, IdsAssumption
     DEF Here, LocalOK, Known, AtCard, CardPcs, OpStart, GetsCard, At
<1>6. PhaseOK(s)'
  BY <1>1, <1>2 DEF Here, PhaseOK, Selecting, OpStart, GetsCard, At
<1>7. WorkOK(s)'
  BY <1>1, <1>2
     DEF Here, TypeOK, WorkOK, Asks, Selecting, Ending, Told, OpStart,
         GetsCard, At
<1>8. LockerLives'
  BY <1>1, <1>2, <1>4 DEF Inv, LockerLives, OpStart
<1>9. Cards' /\ RefsExact' /\ ContextListed'
  BY <1>1, <1>2, <1>4, Quiet DEF Holds, OpStart, GetsCard, At
<1> QED
  BY <1>3, <1>4, <1>5, <1>6, <1>7, <1>8, <1>9, Framed DEF Inv

\* app_do_with_keygrip looks into the next card, with its lock.
LEMMA LookInv ==
  ASSUME Inv, NEW s \in Sessions, Look(s)
  PROVE  Inv'
<1>1. Here(s)
  BY HereNow
<1>2. /\ th' \in [Threads -> Thread]
      /\ th'[s].pc = "looking" /\ th'[s].card = th[s].card
      /\ th'[s].todo = th[s].todo /\ th'[s].next = th[s].next
      /\ \A q \in Threads \ {s} : th'[q] = th[q]
  BY <1>1, GotoMoves DEF Here, Look, Pcs, IoPcs
<1>3. TypeOK'
  BY <1>1, <1>2 DEF Here, TypeOK, Look, LockCard, history
<1>4. Apart(s) /\ Kept
  BY <1>1, <1>2 DEF Apart, Kept, Look, history
<1>5. LocalOK(s)'
  BY <1>1, <1>2, IdsAssumption
     DEF Here, LocalOK, Known, AtCard, CardPcs, Look, GetsCard, At
<1>6. PhaseOK(s)'
  BY <1>1, <1>2 DEF Here, PhaseOK, Selecting, Look, GetsCard, At
<1>7. WorkOK(s)'
  BY <1>1, <1>2
     DEF Here, WorkOK, Asks, Selecting, Ending, Told, Look, GetsCard, At,
         history
<1>8. LockerLives'
  BY <1>1, <1>2, <1>4 DEF Inv, LockerLives, Look
<1>9. Cards' /\ RefsExact' /\ ContextListed'
  BY <1>1, <1>2, <1>4, Quiet DEF Holds, Look, GetsCard, At, history
<1> QED
  BY <1>3, <1>4, <1>5, <1>6, <1>7, <1>8, <1>9, Framed DEF Inv

\* card_reset locks the card and resets it.
LEMMA ResetStartInv ==
  ASSUME Inv, NEW s \in Sessions, ResetStart(s)
  PROVE  Inv'
<1>1. Here(s)
  BY HereNow
<1>2. /\ th' \in [Threads -> Thread]
      /\ th'[s].pc = "resetting" /\ th'[s].card = th[s].card
      /\ th'[s].todo = th[s].todo /\ th'[s].next = th[s].next
      /\ \A q \in Threads \ {s} : th'[q] = th[q]
  BY <1>1, GotoMoves DEF Here, ResetStart, Pcs, IoPcs
<1>3. TypeOK'
  BY <1>1, <1>2 DEF Here, TypeOK, ResetStart, LockCard, history
<1>4. Apart(s) /\ Kept
  BY <1>1, <1>2 DEF Apart, Kept, ResetStart, history
<1>5. LocalOK(s)'
  BY <1>1, <1>2, IdsAssumption
     DEF Here, LocalOK, Known, AtCard, CardPcs, ResetStart, GetsCard, At
<1>6. PhaseOK(s)'
  BY <1>1, <1>2 DEF Here, PhaseOK, Selecting, ResetStart, GetsCard, At
<1>7. WorkOK(s)'
  BY <1>1, <1>2
     DEF Here, WorkOK, Asks, Selecting, Ending, Told, ResetStart, GetsCard, At,
         history
<1>8. LockerLives'
  BY <1>1, <1>2, <1>4 DEF Inv, LockerLives, ResetStart
<1>9. Cards' /\ RefsExact' /\ ContextListed'
  BY <1>1, <1>2, <1>4, Quiet DEF Holds, ResetStart, GetsCard, At, history
<1> QED
  BY <1>3, <1>4, <1>5, <1>6, <1>7, <1>8, <1>9, Framed DEF Inv

\* DEVINFO --watch goes to sleep.
LEMMA WaitInv ==
  ASSUME Inv, NEW s \in Sessions, Wait(s)
  PROVE  Inv'
<1>1. Here(s)
  BY HereNow
<1>2. /\ th' \in [Threads -> Thread]
      /\ th'[s].pc = "watch" /\ th'[s].card = th[s].card
      /\ th'[s].todo = th[s].todo /\ th'[s].next = th[s].next
      /\ \A q \in Threads \ {s} : th'[q] = th[q]
  BY <1>1, GotoMoves DEF Here, Wait, Pcs, RestPcs
<1>3. TypeOK'
  BY <1>1, <1>2 DEF Here, TypeOK, Wait, locks, history
<1>4. Apart(s) /\ Kept
  BY <1>1, <1>2 DEF Apart, Kept, Wait, history
<1>5. LocalOK(s)'
  BY <1>1, <1>2, IdsAssumption DEF Here, LocalOK, Known, AtCard, CardPcs, Wait
<1>6. PhaseOK(s)'
  BY <1>1, <1>2 DEF Here, PhaseOK, Selecting, Wait, GetsList, At
<1>7. WorkOK(s)'
  BY <1>1, <1>2 DEF Here, WorkOK, Asks, Wait, GetsList, At, history
<1>8. LockerLives'
  BY <1>1, <1>2, <1>4 DEF Inv, LockerLives, Wait
<1>9. Cards' /\ RefsExact' /\ ContextListed'
  BY <1>1, <1>2, <1>4, Quiet DEF Holds, Wait, GetsList, At, history
<1> QED
  BY <1>3, <1>4, <1>5, <1>6, <1>7, <1>8, <1>9, Framed DEF Inv

\* After the pause of cmd_reset LOCK is released.
LEMMA SleptInv ==
  ASSUME Inv, NEW s \in Sessions, Slept(s)
  PROVE  Inv'
<1>1. Here(s)
  BY HereNow
<1>2. /\ th' \in [Threads -> Thread]
      /\ th'[s] = At0("idle")
      /\ \A q \in Threads \ {s} : th'[q] = th[q]
  BY <1>1, ReturnMoves DEF Here, Slept
<1>3. TypeOK'
  BY <1>1, <1>2 DEF Here, TypeOK, Slept, Unlocked, locks, history
<1>4. Apart(s) /\ Kept
  BY <1>1, <1>2 DEF Apart, Kept, Slept, history
<1>5. LocalOK(s)'
  BY <1>1, <1>2, IdsAssumption DEF LocalOK, AtCard, CardPcs, At0
<1>6. PhaseOK(s)'
  BY <1>1, <1>2 DEF Here, PhaseOK, Selecting, At0, Slept, At
<1>7. WorkOK(s)'
  BY <1>1, <1>2
     DEF Here, WorkOK, Asks, Selecting, Ending, Told, At0, Slept, At, history
<1>8. LockerLives'
  BY <1>1, <1>2, <1>4 DEF Inv, LockerLives, Slept, Unlocked
<1>9. Cards' /\ RefsExact' /\ ContextListed'
  BY <1>1, <1>2, <1>4, Quiet DEF Holds, At0, Slept, At, history
<1> QED
  BY <1>3, <1>4, <1>5, <1>6, <1>7, <1>8, <1>9, Framed DEF Inv

\* LOCK --wait tries again.
LEMMA LockRetryInv ==
  ASSUME Inv, NEW s \in Sessions, LockRetry(s)
  PROVE  Inv'
<1>1. Here(s)
  BY HereNow
<1>2. /\ th' \in [Threads -> Thread]
      /\ th'[s] = At0("idle")
      /\ \A q \in Threads \ {s} : th'[q] = th[q]
  BY <1>1, ReturnMoves DEF Here, LockRetry
<1>3. TypeOK'
  BY <1>1, <1>2 DEF Here, TypeOK, LockRetry, locks, history
<1>4. Apart(s) /\ Kept
  BY <1>1, <1>2 DEF Apart, Kept, LockRetry, history
<1>5. LocalOK(s)'
  BY <1>1, <1>2, IdsAssumption DEF LocalOK, AtCard, CardPcs, At0
<1>6. PhaseOK(s)'
  BY <1>1, <1>2 DEF Here, PhaseOK, Selecting, At0, LockRetry, At
<1>7. WorkOK(s)'
  BY <1>1, <1>2
     DEF Here, WorkOK, Asks, Selecting, Ending, Told, At0, LockRetry, At,
         history
<1>8. LockerLives'
  BY <1>1, <1>2, <1>4 DEF Inv, LockerLives, PhaseOK, LockRetry, At
<1>9. Cards' /\ RefsExact' /\ ContextListed'
  BY <1>1, <1>2, <1>4, Quiet DEF Holds, At0, LockRetry, At, history
<1> QED
  BY <1>3, <1>4, <1>5, <1>6, <1>7, <1>8, <1>9, Framed DEF Inv

\* LOCK is got, refused or waited for.
LEMMA LockInv ==
  ASSUME Inv, NEW s \in Sessions, Lock(s)
  PROVE  Inv'
<1>1. Here(s)
  BY HereNow
<1>2. /\ th' \in [Threads -> Thread]
      /\ th'[s].pc \in {"idle", "lockwait"} /\ th'[s].card = th[s].card
      /\ th'[s].todo = th[s].todo /\ th'[s].next = th[s].next
      /\ \A q \in Threads \ {s} : th'[q] = th[q]
  BY <1>1, GotoMoves DEF Here, Lock, Command, At, Pcs, RestPcs
<1>3. TypeOK'
  BY <1>1, <1>2 DEF Here, TypeOK, Lock, locks, history
<1>4. Apart(s) /\ Kept
  BY <1>1, <1>2 DEF Apart, Kept, Lock, history
<1>5. LocalOK(s)'
  BY <1>1, <1>2, IdsAssumption DEF Here, LocalOK, Known, AtCard, CardPcs, Lock
<1>6. PhaseOK(s)'
  BY <1>1, <1>2 DEF PhaseOK, Selecting, Lock, Command
<1>7. WorkOK(s)'
  BY <1>1, <1>2
     DEF Here, WorkOK, Asks, Selecting, Ending, Told, Lock, Command, At,
         history
<1>8. LockerLives'
  BY <1>1, <1>2, <1>4 DEF Inv, LockerLives, PhaseOK, Lock
<1>9. Cards' /\ RefsExact' /\ ContextListed'
  BY <1>1, <1>2, <1>4, Quiet DEF Holds, Lock, Command, At, history
<1> QED
  BY <1>3, <1>4, <1>5, <1>6, <1>7, <1>8, <1>9, Framed DEF Inv

\* UNLOCK.
LEMMA UnlockInv ==
  ASSUME Inv, NEW s \in Sessions, Unlock(s)
  PROVE  Inv'
<1>1. Here(s)
  BY HereNow
<1>2. th' = th
  BY <1>1 DEF Unlock
<1>3. TypeOK'
  BY <1>1, <1>2 DEF Here, TypeOK, Unlock, locks, history
<1>4. Apart(s) /\ Kept
  BY <1>1, <1>2 DEF Apart, Kept, Unlock, history
<1>5. LocalOK(s)'
  BY <1>1, <1>2, IdsAssumption DEF Here, LocalOK, Known, Unlock
<1>6. PhaseOK(s)'
  BY <1>1, <1>2 DEF Here, PhaseOK, Selecting, Unlock
<1>7. WorkOK(s)'
  BY <1>1, <1>2
     DEF Here, WorkOK, Asks, Selecting, Ending, Told, Unlock, history
<1>8. LockerLives'
  BY <1>1, <1>2, <1>4 DEF LockerLives, Unlock
<1>9. Cards' /\ RefsExact' /\ ContextListed'
  BY <1>1, <1>2, <1>4, Quiet DEF Holds, Unlock, history
<1> QED
  BY <1>3, <1>4, <1>5, <1>6, <1>7, <1>8, <1>9, Framed DEF Inv

\* The card has not got the application that was asked for.
LEMMA PickFailsInv ==
  ASSUME Inv, NEW s \in Sessions, PickFails(s)
  PROVE  Inv'
<1>1. Here(s)
  BY HereNow
<1>2. /\ th' \in [Threads -> Thread]
      /\ th'[s] = At0("idle")
      /\ sess'[s].removed
      /\ listLock' = None
      /\ \A q \in Threads \ {s} : th'[q] = th[q]
      /\ sess' \in [Sessions -> Session]
      /\ sess'[s].ctx = sess[s].ctx /\ sess'[s].live = sess[s].live
      /\ \A q \in Sessions \ {s} :
           /\ sess'[q].ctx = sess[q].ctx /\ sess'[q].live = sess[q].live
           /\ sess[q].ctx = 0 => sess'[q].removed = sess[q].removed
  BY <1>1, SerialnoMoves DEF Here, PickFails, SerialnoFails
<1>3. TypeOK'
  BY <1>1, <1>2 DEF Here, TypeOK, PickFails, history
<1>4. Apart(s) /\ Kept
  BY <1>1, <1>2 DEF Apart, Kept, PickFails, history
<1>5. LocalOK(s)'
  BY <1>1, <1>2, IdsAssumption DEF LocalOK, AtCard, CardPcs, At0
<1>6. PhaseOK(s)'
  BY <1>1, <1>2
     DEF Here, PhaseOK, Selecting, At0, PickFails, Wanted, GetsCard, At
<1>7. WorkOK(s)'
  BY <1>1, <1>2
     DEF Here, WorkOK, PhaseOK, Asks, Selecting, Told, At0, PickFails, Wanted,
         GetsCard, At
<1>8. LockerLives'
  BY <1>1, <1>2, <1>4 DEF Inv, TypeOK, LockerLives, PickFails
<1>9. Cards' /\ RefsExact' /\ ContextListed'
  BY <1>1, <1>2, <1>4, Quiet
     DEF Holds, At0, PickFails, Wanted, GetsCard, At, history
<1> QED
  BY <1>3, <1>4, <1>5, <1>6, <1>7, <1>8, <1>9, Framed DEF Inv

\* SERIALNO with an application and a current card.
LEMMA SerialnoAppInv ==
  ASSUME Inv, NEW s \in Sessions, SerialnoApp(s)
  PROVE  Inv'
<1>1. Here(s)
  BY HereNow
<1>2. /\ th' \in [Threads -> Thread]
      /\ \/ th'[s] = At0("idle")
         \/ /\ th'[s].pc = "use" /\ th'[s].next = "serialno"
            /\ th'[s].card = sess[s].ctx /\ th'[s].todo = th[s].todo
      /\ \A q \in Threads \ {s} : th'[q] = th[q]
      /\ sess' \in [Sessions -> Session]
      /\ sess'[s].ctx = sess[s].ctx /\ sess'[s].live = sess[s].live
      /\ \A q \in Sessions \ {s} :
           /\ sess'[q].ctx = sess[q].ctx /\ sess'[q].live = sess[q].live
           /\ sess[q].ctx = 0 => sess'[q].removed = sess[q].removed
  <2>1. CASE \E ok \in BOOLEAN : SerialnoEnds(s, sess, ok)
    BY <1>1, <2>1, SerialnoMoves DEF Here
  <2>2. CASE /\ sess' = [sess EXCEPT ![s].removed = FALSE]
             /\ th' = [th EXCEPT ![s].pc = "use", ![s].card = sess[s].ctx,
                                 ![s].next = "serialno"]
    <3> DEFINE r == [th[s] EXCEPT !.pc = "use", !.card = sess[s].ctx,
                                  !.next = "serialno"]
    <3>1. r \in Thread
      BY <1>1 DEF Here, Thread, Session, CardPcs
    <3>2. th' = [th EXCEPT ![s] = r]
      BY <1>1, <2>2
    <3>3. /\ th' \in [Threads -> Thread]
          /\ th'[s].pc = "use" /\ th'[s].next = "serialno"
          /\ th'[s].card = sess[s].ctx /\ th'[s].todo = th[s].todo
          /\ \A q \in Threads \ {s} : th'[q] = th[q]
      BY <1>1, <3>1, <3>2 DEF Here
    <3> QED
      BY <1>1, <2>2, <3>3, FlagSet DEF Here
  <2> QED
    BY <2>1, <2>2 DEF SerialnoApp
<1>3. TypeOK'
  BY <1>1, <1>2 DEF Here, TypeOK, Ctx, SerialnoApp, locks
<1>4. Apart(s) /\ Kept
  BY <1>1, <1>2 DEF Apart, Kept, SerialnoApp
<1>5. LocalOK(s)'
  BY <1>1, <1>2, IdsAssumption
     DEF Here, Inv, ContextListed, LocalOK, Known, AtCard, CardPcs, At0,
         SerialnoApp
<1>6. PhaseOK(s)'
  BY <1>1, <1>2 DEF PhaseOK, Selecting, At0, SerialnoApp, Command
<1>7. WorkOK(s)'
  BY <1>1, <1>2 DEF Here, TypeOK, WorkOK, At0, SerialnoApp
<1>8. LockerLives'
  BY <1>1, <1>2, <1>4 DEF Inv, TypeOK, LockerLives, SerialnoApp
<1>9. Cards' /\ RefsExact' /\ ContextListed'
  BY <1>1, <1>2, <1>4, Quiet DEF Holds, At0, SerialnoApp, Command, At
<1> QED
  BY <1>3, <1>4, <1>5, <1>6, <1>7, <1>8, <1>9, Framed DEF Inv

\* SWITCHCARD looks for another card.
LEMMA SwitchcardInv ==
  ASSUME Inv, NEW s \in Sessions, Switchcard(s)
  PROVE  Inv'
<1>1. Here(s)
  BY HereNow
<1>2. /\ th' \in [Threads -> Thread]
      /\ th'[s].pc \in {"switch", "select"}
      /\ sess[s].ctx # 0 => th'[s].pc = "switch"
      /\ th'[s].card = 0 /\ th'[s].todo = {} /\ th'[s].next = "switch"
      /\ \A q \in Threads \ {s} : th'[q] = th[q]
  <2> DEFINE r == [pc |-> IF sess[s].ctx # 0 THEN "switch" ELSE "select",
                   card |-> 0, todo |-> {}, want |-> None,
                   next |-> "switch"]
  <2>1. r \in Thread
    BY DEF Thread, ListPcs, Ctx
  <2>2. th' = [th EXCEPT ![s] = r]
    BY DEF Switchcard
  <2> QED
    BY <1>1, <2>1, <2>2 DEF Here
<1>3. TypeOK'
  BY <1>1, <1>2 DEF Here, TypeOK, Ctx, Switchcard, locks
<1>4. Apart(s) /\ Kept
  BY <1>1, <1>2 DEF Apart, Kept, Switchcard
<1>5. LocalOK(s)'
  BY <1>1, <1>2, IdsAssumption DEF LocalOK, AtCard, CardPcs
<1>6. PhaseOK(s)'
  BY <1>1, <1>2 DEF PhaseOK, Selecting, Switchcard, Command
<1>7. WorkOK(s)'
  BY <1>1, <1>2 DEF Here, TypeOK, WorkOK, Switchcard
<1>8. LockerLives'
  BY <1>1, <1>2, <1>4 DEF Inv, LockerLives, Switchcard
<1>9. Cards' /\ RefsExact' /\ ContextListed'
  BY <1>1, <1>2, <1>4, Quiet DEF Holds, Switchcard, Command, At
<1> QED
  BY <1>3, <1>4, <1>5, <1>6, <1>7, <1>8, <1>9, Framed DEF Inv

\* DEVINFO, once or with --watch.
LEMMA DevinfoInv ==
  ASSUME Inv, NEW s \in Sessions, Devinfo(s)
  PROVE  Inv'
<1>1. Here(s)
  BY HereNow
<1>2. /\ th' \in [Threads -> Thread]
      /\ th'[s].pc = "devinfo" /\ th'[s].next = "first"
      /\ th'[s].card = th[s].card /\ th'[s].todo = th[s].todo
      /\ \A q \in Threads \ {s} : th'[q] = th[q]
  <2> DEFINE r == [th[s] EXCEPT !.pc = "devinfo", !.next = "first"]
  <2>1. r \in Thread
    BY <1>1 DEF Here, Thread, ListPcs
  <2>2. th' = [th EXCEPT ![s] = r]
    BY <1>1 DEF Devinfo
  <2> QED
    BY <1>1, <2>1, <2>2 DEF Here
<1>3. TypeOK'
  BY <1>1, <1>2 DEF Here, TypeOK, Ctx, Devinfo, locks
<1>4. Apart(s) /\ Kept
  BY <1>1, <1>2 DEF Apart, Kept, Devinfo
<1>5. LocalOK(s)'
  BY <1>1, <1>2, IdsAssumption
     DEF Here, LocalOK, Known, AtCard, CardPcs, Devinfo
<1>6. PhaseOK(s)'
  BY <1>1, <1>2 DEF PhaseOK, Selecting, Devinfo, Command
<1>7. WorkOK(s)'
  BY <1>1, <1>2 DEF Here, TypeOK, WorkOK, Devinfo
<1>8. LockerLives'
  BY <1>1, <1>2, <1>4 DEF Inv, LockerLives, Devinfo
<1>9. Cards' /\ RefsExact' /\ ContextListed'
  BY <1>1, <1>2, <1>4, Quiet DEF Holds, Devinfo, Command, At
<1> QED
  BY <1>3, <1>4, <1>5, <1>6, <1>7, <1>8, <1>9, Framed DEF Inv

\* A change of the list wakes DEVINFO --watch.
LEMMA WokenInv ==
  ASSUME Inv, NEW s \in Sessions, Woken(s)
  PROVE  Inv'
<1>1. Here(s)
  BY HereNow
<1>2. /\ th' \in [Threads -> Thread]
      /\ th'[s].pc = "devinfo" /\ th'[s].next = "again"
      /\ th'[s].card = th[s].card /\ th'[s].todo = th[s].todo
      /\ \A q \in Threads \ {s} : th'[q] = th[q]
  <2> DEFINE r == [th[s] EXCEPT !.pc = "devinfo", !.next = "again"]
  <2>1. r \in Thread
    BY <1>1 DEF Here, Thread, ListPcs
  <2>2. th' = [th EXCEPT ![s] = r]
    BY <1>1 DEF Woken
  <2> QED
    BY <1>1, <2>1, <2>2 DEF Here
<1>3. TypeOK'
  BY <1>1, <1>2 DEF Here, TypeOK, Woken, locks, history
<1>4. Apart(s) /\ Kept
  BY <1>1, <1>2 DEF Apart, Kept, Woken, history
<1>5. LocalOK(s)'
  BY <1>1, <1>2, IdsAssumption DEF Here, LocalOK, Known, AtCard, CardPcs, Woken
<1>6. PhaseOK(s)'
  BY <1>1, <1>2 DEF Here, PhaseOK, Selecting, Woken, GetsList, At
<1>7. WorkOK(s)'
  BY <1>1, <1>2 DEF Here, WorkOK, Asks, Woken, GetsList, At, history
<1>8. LockerLives'
  BY <1>1, <1>2, <1>4 DEF Inv, LockerLives, Woken
<1>9. Cards' /\ RefsExact' /\ ContextListed'
  BY <1>1, <1>2, <1>4, Quiet DEF Holds, Woken, GetsList, At, history
<1> QED
  BY <1>3, <1>4, <1>5, <1>6, <1>7, <1>8, <1>9, Framed DEF Inv

\* app_do_with_keygrip has found the key.
LEMMA FoundInv ==
  ASSUME Inv, NEW s \in Sessions, Found(s)
  PROVE  Inv'
<1>1. Here(s)
  BY HereNow
<1>2. /\ th' \in [Threads -> Thread]
      /\ th'[s].pc = "ref" /\ th'[s].next = "direct"
      /\ th'[s].card = th[s].card /\ th'[s].todo = {}
      /\ \A q \in Threads \ {s} : th'[q] = th[q]
  <2> DEFINE r == [th[s] EXCEPT !.pc = "ref", !.todo = {},
                              !.next = "direct"]
  <2>1. r \in Thread
    BY <1>1 DEF Here, Thread, CardPcs
  <2>2. th' = [th EXCEPT ![s] = r]
    BY <1>1 DEF Found
  <2> QED
    BY <1>1, <2>1, <2>2 DEF Here
<1>3. TypeOK'
  BY <1>1, <1>2 DEF Here, TypeOK, Found, UnlockCard, history
<1>4. Apart(s) /\ Kept
  BY <1>1, <1>2 DEF Apart, Kept, Found, history
<1>5. LocalOK(s)'
  BY <1>1, <1>2, IdsAssumption DEF Here, LocalOK, Known, AtCard, Found, At
<1>6. PhaseOK(s)'
  BY <1>1, <1>2 DEF Here, PhaseOK, Selecting, Found, At
<1>7. WorkOK(s)'
  BY <1>1, <1>2
     DEF Here, WorkOK, Asks, Selecting, Ending, Told, Found, At, history
<1>8. LockerLives'
  BY <1>1, <1>2, <1>4 DEF Inv, LockerLives, Found
<1>9. Cards' /\ RefsExact' /\ ContextListed'
  BY <1>1, <1>2, <1>4, Quiet DEF Holds, Found, At, history
<1> QED
  BY <1>3, <1>4, <1>5, <1>6, <1>7, <1>8, <1>9, Framed DEF Inv

\* DEVINFO writes the list.
LEMMA SendDevinfoInv ==
  ASSUME Inv, NEW s \in Sessions, SendDevinfo(s)
  PROVE  Inv'
<1>1. Here(s)
  BY HereNow
<1>2. /\ th' \in [Threads -> Thread]
      /\ th'[s].pc = "sending" /\ th'[s].card = th[s].card
      /\ th'[s].todo = th[s].todo
      /\ \A q \in Threads \ {s} : th'[q] = th[q]
  <2> DEFINE n == IF th[s].next = "again" /\ listed = {} THEN "none"
                  ELSE th[s].next
             r == [th[s] EXCEPT !.pc = "sending", !.next = n]
  <2>1. r \in Thread
    BY <1>1 DEF Here, Thread, IoPcs
  <2>2. th' = [th EXCEPT ![s] = r]
    BY <1>1 DEF SendDevinfo
  <2> QED
    BY <1>1, <2>1, <2>2 DEF Here
<1>3. TypeOK'
  BY <1>1, <1>2 DEF Here, TypeOK, SendDevinfo, history
<1>4. Apart(s) /\ Kept
  BY <1>1, <1>2 DEF Apart, Kept, SendDevinfo, history
<1>5. LocalOK(s)'
  BY <1>1, <1>2, IdsAssumption
     DEF Here, LocalOK, Known, AtCard, CardPcs, SendDevinfo
<1>6. PhaseOK(s)'
  BY <1>1, <1>2 DEF Here, PhaseOK, Selecting, SendDevinfo, GetsList, At
<1>7. WorkOK(s)'
  BY <1>1, <1>2 DEF Here, WorkOK, Asks, SendDevinfo, GetsList, At, history
<1>8. LockerLives'
  BY <1>1, <1>2, <1>4 DEF Inv, LockerLives, SendDevinfo
<1>9. Cards' /\ RefsExact' /\ ContextListed'
  BY <1>1, <1>2, <1>4, Quiet DEF Holds, SendDevinfo, GetsList, At, history
<1> QED
  BY <1>3, <1>4, <1>5, <1>6, <1>7, <1>8, <1>9, Framed DEF Inv

\* DEVINFO has written the list again.
LEMMA SentAgainInv ==
  ASSUME Inv, NEW s \in Sessions, SentAgain(s)
  PROVE  Inv'
<1>1. Here(s)
  BY HereNow
<1>2. /\ th' \in [Threads -> Thread]
      /\ \/ th'[s] = At0("idle")
         \/ th'[s].pc = "wait" /\ th'[s].card = 0 /\ th'[s].todo = {}
      /\ \A q \in Threads \ {s} : th'[q] = th[q]
  BY <1>1, ReturnMoves, WatchMoves DEF Here, SentAgain
<1>3. TypeOK'
  BY <1>1, <1>2 DEF Here, TypeOK, SentAgain, history
<1>4. Apart(s) /\ Kept
  BY <1>1, <1>2 DEF Apart, Kept, SentAgain, history
<1>5. LocalOK(s)'
  BY <1>1, <1>2, IdsAssumption DEF LocalOK, AtCard, CardPcs, At0
<1>6. PhaseOK(s)'
  BY <1>1, <1>2 DEF Here, PhaseOK, Selecting, At0, SentAgain, At
<1>7. WorkOK(s)'
  BY <1>1, <1>2 DEF Here, WorkOK, Asks, At0, SentAgain, At, history
<1>8. LockerLives'
  BY <1>1, <1>2, <1>4 DEF Inv, LockerLives, SentAgain
<1>9. Cards' /\ RefsExact' /\ ContextListed'
  BY <1>1, <1>2, <1>4, Quiet DEF Holds, At0, SentAgain, At, history
<1> QED
  BY <1>3, <1>4, <1>5, <1>6, <1>7, <1>8, <1>9, Framed DEF Inv

\* app_do_with_keygrip begins its loop.
LEMMA FindInv ==
  ASSUME Inv, NEW s \in Sessions, Find(s)
  PROVE  Inv'
<1>1. Here(s)
  BY HereNow
<1>2. /\ th' \in [Threads -> Thread]
      /\ \/ th'[s] = At0("idle")
         \/ /\ th'[s].pc = "look" /\ th'[s].card \in listed
            /\ th'[s].todo \subseteq listed /\ th'[s].next = th[s].next
      /\ \A q \in Threads \ {s} : th'[q] = th[q]
  BY <1>1, ReturnMoves, LoopMoves DEF Here, Find, Pcs, CardPcs
<1>3. TypeOK'
  BY <1>1, <1>2 DEF Here, TypeOK, Find, history
<1>4. Apart(s) /\ Kept
  BY <1>1, <1>2 DEF Apart, Kept, Find, history
<1>5. LocalOK(s)'
  BY <1>1, <1>2, IdsAssumption
     DEF Here, LocalOK, Known, AtCard, CardPcs, At0, Find
<1>6. PhaseOK(s)'
  BY <1>1, <1>2 DEF Here, PhaseOK, Selecting, At0, Find, GetsList, At
<1>7. WorkOK(s)'
  BY <1>1, <1>2
     DEF Here, WorkOK, Asks, Selecting, Ending, Told, At0, Find, GetsList, At,
         history
<1>8. LockerLives'
  BY <1>1, <1>2, <1>4 DEF Inv, LockerLives, Find
<1>9. Cards' /\ RefsExact' /\ ContextListed'
  BY <1>1, <1>2, <1>4, Quiet DEF Holds, At0, Find, GetsList, At, history
<1> QED
  BY <1>3, <1>4, <1>5, <1>6, <1>7, <1>8, <1>9, Framed DEF Inv

\* The key is not on this card: the lock is dropped, the loop goes on.
LEMMA LookedNextInv ==
  ASSUME Inv, NEW s \in Sessions, LookedNext(s)
  PROVE  Inv'
<1>1. Here(s)
  BY HereNow
<1>2. /\ th' \in [Threads -> Thread]
      /\ \/ th'[s] = At0("idle")
         \/ /\ th'[s].pc = "look" /\ th'[s].card \in th[s].todo
            /\ th'[s].todo \subseteq th[s].todo
            /\ th'[s].next = th[s].next
      /\ th[s].pc = "looking"
      /\ UNCHANGED <<card, listed, freed, leaked, working, sess,
                      lockedSession>>
      /\ \A q \in Threads \ {s} : th'[q] = th[q]
  <2>1. /\ th[s].pc = "looking"
        /\ UNCHANGED <<card, listed, freed, leaked, working, sess,
                       lockedSession>>
    BY DEF LookedNext, At, history
  <2>2. CASE Return(s)
    BY <1>1, <2>1, <2>2, ReturnMoves DEF Here
  <2>3. ASSUME NEW c \in th[s].todo,
               th' = [th EXCEPT ![s].pc = "look", ![s].card = c,
                                ![s].todo = @ \ {c}]
        PROVE  /\ th' \in [Threads -> Thread]
               /\ th'[s].pc = "look" /\ th'[s].card \in th[s].todo
               /\ th'[s].todo \subseteq th[s].todo
               /\ th'[s].next = th[s].next
               /\ \A q \in Threads \ {s} : th'[q] = th[q]
    <3> DEFINE r == [th[s] EXCEPT !.pc = "look", !.card = c,
                                  !.todo = th[s].todo \ {c}]
    <3>1. r \in Thread
      BY <1>1 DEF Here, Thread, CardPcs, Ctx
    <3>2. th' = [th EXCEPT ![s] = r]
      BY <1>1, <2>3
    <3> QED
      BY <1>1, <3>1, <3>2 DEF Here
  <2> QED
    BY <2>1, <2>2, <2>3 DEF LookedNext
<1>3. TypeOK'
  BY <1>1, <1>2 DEF Here, TypeOK, LookedNext, UnlockCard
<1>4. Apart(s) /\ Kept
  BY <1>1, <1>2 DEF Apart, Kept
<1>5. LocalOK(s)'
  BY <1>1, <1>2, IdsAssumption
     DEF Here, LocalOK, Known, AtCard, CardPcs, At0, Thread
<1>6. PhaseOK(s)'
  BY <1>1, <1>2 DEF Here, PhaseOK, Selecting, At0
<1>7. WorkOK(s)'
  BY <1>1, <1>2 DEF Here, WorkOK, Asks, Selecting, Ending, Told, At0
<1>8. LockerLives'
  BY <1>1, <1>2, <1>4 DEF Inv, LockerLives
<1>9. Cards' /\ RefsExact' /\ ContextListed'
  BY <1>1, <1>2, <1>4, Quiet DEF Holds, At0
<1> QED
  BY <1>3, <1>4, <1>5, <1>6, <1>7, <1>8, <1>9, Framed DEF Inv

\* The card is not the one asked for: the lock is dropped.
LEMMA PickOtherInv ==
  ASSUME Inv, NEW s \in Sessions, PickOther(s)
  PROVE  Inv'
<1>1. Here(s)
  BY HereNow
<1>2. /\ th' \in [Threads -> Thread]
      /\ \/ th'[s] = At0("idle") /\ sess'[s].removed
         \/ /\ th'[s].pc = "pick" /\ th'[s].card \in th[s].todo
            /\ th'[s].todo \subseteq th[s].todo
            /\ th'[s].next = th[s].next /\ sess' = sess
      /\ \A q \in Threads \ {s} : th'[q] = th[q]
      /\ sess' \in [Sessions -> Session]
      /\ sess'[s].ctx = sess[s].ctx /\ sess'[s].live = sess[s].live
      /\ \A q \in Sessions \ {s} :
           /\ sess'[q].ctx = sess[q].ctx /\ sess'[q].live = sess[q].live
           /\ sess[q].ctx = 0 => sess'[q].removed = sess[q].removed
  <2>1. CASE SerialnoFails(s)
    BY <1>1, <2>1, SerialnoMoves DEF Here, SerialnoFails
  <2>2. ASSUME NEW c \in th[s].todo,
               th' = [th EXCEPT ![s].card = c, ![s].todo = @ \ {c}]
        PROVE  /\ th' \in [Threads -> Thread]
               /\ th'[s].pc = "pick" /\ th'[s].card \in th[s].todo
               /\ th'[s].todo \subseteq th[s].todo
               /\ th'[s].next = th[s].next
               /\ \A q \in Threads \ {s} : th'[q] = th[q]
    <3> DEFINE r == [th[s] EXCEPT !.card = c, !.todo = th[s].todo \ {c}]
    <3>1. r \in Thread
      BY <1>1 DEF Here, Thread, Ctx
    <3>2. th' = [th EXCEPT ![s] = r]
      BY <1>1, <2>2
    <3> QED
      BY <1>1, <3>1, <3>2 DEF Here, Thread, PickOther, GetsCard, At
  <2> QED
    BY <1>1, <2>1, <2>2 DEF PickOther, Here
<1>3. TypeOK'
  BY <1>1, <1>2 DEF Here, TypeOK, PickOther, SerialnoFails, history
<1>4. Apart(s) /\ Kept
  BY <1>1, <1>2 DEF Apart, Kept, PickOther, history
<1>5. LocalOK(s)'
  BY <1>1, <1>2, IdsAssumption
     DEF Here, LocalOK, Known, AtCard, CardPcs, At0, PickOther, Thread
<1>6. PhaseOK(s)'
  BY <1>1, <1>2 DEF Here, PhaseOK, Selecting, At0, PickOther, GetsCard, At
<1>7. WorkOK(s)'
  BY <1>1, <1>2
     DEF Here, WorkOK, Asks, Selecting, At0, PickOther, GetsCard, At, history
<1>8. LockerLives'
  BY <1>1, <1>2, <1>4 DEF Inv, TypeOK, LockerLives, PickOther
<1>9. Cards' /\ RefsExact' /\ ContextListed'
  BY <1>1, <1>2, <1>4, Quiet DEF Holds, At0, PickOther, GetsCard, At, history
<1> QED
  BY <1>3, <1>4, <1>5, <1>6, <1>7, <1>8, <1>9, Framed DEF Inv

\* No card.
LEMMA ScanFailsInv ==
  ASSUME Inv, NEW s \in Sessions, ScanFails(s)
  PROVE  Inv'
<1>1. Here(s)
  BY HereNow
<1>2. /\ th' \in [Threads -> Thread]
      /\ \/ th'[s] = At0("idle")
         \/ th'[s].pc = "wait" /\ th'[s].card = 0 /\ th'[s].todo = {}
      /\ sess'[s].removed \/ sess' = sess
      /\ listLock' = None
      /\ \A q \in Threads \ {s} : th'[q] = th[q]
      /\ sess' \in [Sessions -> Session]
      /\ sess'[s].ctx = sess[s].ctx /\ sess'[s].live = sess[s].live
      /\ \A q \in Sessions \ {s} :
           /\ sess'[q].ctx = sess[q].ctx /\ sess'[q].live = sess[q].live
           /\ sess[q].ctx = 0 => sess'[q].removed = sess[q].removed
  BY <1>1, SerialnoMoves, ReturnMoves, WatchMoves, ZenonT(40)
     DEF Here, ScanFails, SelectFails, SerialnoFails
<1>3. TypeOK'
  BY <1>1, <1>2 DEF Here, TypeOK, ScanFails, history
<1>4. Apart(s) /\ Kept
  BY <1>1, <1>2 DEF Apart, Kept, ScanFails, history
<1>5. LocalOK(s)'
  BY <1>1, <1>2, IdsAssumption DEF LocalOK, AtCard, CardPcs, At0
<1>6. PhaseOK(s)'
  BY <1>1, <1>2 DEF Here, PhaseOK, Selecting, At0, ScanFails, At
<1>7. WorkOK(s)'
  BY <1>1, <1>2 DEF Here, WorkOK, Asks, Selecting, At0, ScanFails, At, history
<1>8. LockerLives'
  BY <1>1, <1>2, <1>4 DEF Inv, TypeOK, LockerLives, ScanFails
<1>9. Cards' /\ RefsExact' /\ ContextListed'
  BY <1>1, <1>2, <1>4, Quiet DEF Holds, At0, ScanFails, At, history
<1> QED
  BY <1>3, <1>4, <1>5, <1>6, <1>7, <1>8, <1>9, Framed DEF Inv

\* An operation ends and unlocks the card.
LEMMA OpEndInv ==
  ASSUME Inv, NEW s \in Sessions, OpEnd(s)
  PROVE  Inv'
<1>1. Here(s)
  BY HereNow
<1>2. /\ th' \in [Threads -> Thread]
      /\ \/ th'[s] = At0("idle")
         \/ /\ th'[s].pc = "unref" /\ th[s].next = "direct"
            /\ th'[s].card = th[s].card /\ th'[s].todo = th[s].todo
            /\ th'[s].next = th[s].next
      /\ sess' = sess \/ th[s].next = "serialno"
      /\ th'[s].pc = "idle" => th[s].next # "direct"
      /\ \A q \in Threads \ {s} : th'[q] = th[q]
      /\ sess' \in [Sessions -> Session]
      /\ sess'[s].ctx = sess[s].ctx /\ sess'[s].live = sess[s].live
      /\ \A q \in Sessions \ {s} :
           /\ sess'[q].ctx = sess[q].ctx /\ sess'[q].live = sess[q].live
           /\ sess[q].ctx = 0 => sess'[q].removed = sess[q].removed
  <2>1. CASE th[s].next = "serialno"
    <3>1. PICK ok \in BOOLEAN : SerialnoEnds(s, sess, ok)
      BY <2>1 DEF OpEnd
    <3> QED
      BY <1>1, <2>1, <3>1, SerialnoMoves DEF Here
  <2>2. CASE th[s].next = "use" /\ Return(s) /\ UNCHANGED sess
    BY <1>1, <2>2, ReturnMoves DEF Here
  <2>3. CASE th[s].next = "direct" /\ Goto(s, "unref") /\ UNCHANGED sess
    BY <1>1, <2>3, GotoMoves DEF Here, Pcs, CardPcs
  <2> QED
    BY <2>1, <2>2, <2>3 DEF OpEnd
<1>3. TypeOK'
  BY <1>1, <1>2 DEF Here, TypeOK, OpEnd, UnlockCard, history
<1>4. Apart(s) /\ Kept
  BY <1>1, <1>2 DEF Apart, Kept, OpEnd, history
<1>5. LocalOK(s)'
  BY <1>1, <1>2, IdsAssumption
     DEF Here, LocalOK, Known, AtCard, CardPcs, At0, OpEnd, At
<1>6. PhaseOK(s)'
  BY <1>1, <1>2 DEF Here, PhaseOK, Selecting, At0, OpEnd, At
<1>7. WorkOK(s)'
  BY <1>1, <1>2
     DEF Here, WorkOK, Asks, Selecting, Ending, Told, At0, OpEnd, At, history
<1>8. LockerLives'
  BY <1>1, <1>2, <1>4 DEF Inv, TypeOK, LockerLives, OpEnd
<1>9. Cards' /\ RefsExact' /\ ContextListed'
  BY <1>1, <1>2, <1>4, Quiet DEF Holds, At0, OpEnd, At, history
<1> QED
  BY <1>3, <1>4, <1>5, <1>6, <1>7, <1>8, <1>9, Framed DEF Inv

\* card_reset is over, and the card unlocked.
LEMMA ResetSentInv ==
  ASSUME Inv, NEW s \in Sessions, ResetSent(s)
  PROVE  Inv'
<1>1. Here(s)
  BY HereNow
<1>2. /\ th' \in [Threads -> Thread]
      /\ th'[s].pc = "sleep" /\ th'[s].card = th[s].card
      /\ th'[s].todo = th[s].todo /\ th'[s].next = th[s].next
      /\ card' \in [Ids -> Card]
      /\ \A c \in Ids : /\ card'[c].refs = card[c].refs
                        /\ card'[c].token = card[c].token
      /\ \A q \in Threads \ {s} : th'[q] = th[q]
  <2> DEFINE d == th[s].card
             r == [card[d] EXCEPT !.reset = TRUE]
  <2>1. d \in Ids
    BY <1>1 DEF Here, TypeOK, LocalOK, Known, AtCard, ResetSent, At
  <2>2. card[d] \in Card /\ r \in Card
    <3>1. card \in [Ids -> Card]
      BY <1>1 DEF Here, TypeOK
    <3>2. card[d] \in Card
      BY <2>1, <3>1, Zenon
    <3> HIDE DEF d
    <3> QED
      BY <3>2 DEF Card
  <2>3. r.refs = card[d].refs /\ r.token = card[d].token
    BY <2>2
  <2>4. card' = [card EXCEPT ![d] = r]
    BY <1>1, <2>1 DEF ResetSent
  <2>5. /\ card' \in [Ids -> Card]
        /\ \A c \in Ids : /\ card'[c].refs = card[c].refs
                          /\ card'[c].token = card[c].token
    BY <1>1, <2>1, <2>2, <2>3, <2>4 DEF Here, TypeOK
  <2> QED
    BY <1>1, <2>5, GotoMoves DEF Here, ResetSent, Pcs, IoPcs
<1>3. TypeOK'
  BY <1>1, <1>2 DEF Here, TypeOK, ResetSent, UnlockCard, history
<1>4. Apart(s) /\ Kept
  BY <1>1, <1>2 DEF Apart, Kept, ResetSent, history
<1>5. LocalOK(s)'
  BY <1>1, <1>2, IdsAssumption DEF Here, LocalOK, Known, ResetSent
<1>6. PhaseOK(s)'
  BY <1>1, <1>2 DEF Here, PhaseOK, Selecting, ResetSent, At
<1>7. WorkOK(s)'
  BY <1>1, <1>2
     DEF Here, WorkOK, Asks, Selecting, Ending, Told, ResetSent, At, history
<1>8. LockerLives'
  BY <1>1, <1>2, <1>4 DEF Inv, LockerLives, ResetSent
<1>9. Cards' /\ RefsExact' /\ ContextListed'
  BY <1>1, <1>2, <1>4, Quiet DEF Holds, ResetSent, At, history
<1> QED
  BY <1>3, <1>4, <1>5, <1>6, <1>7, <1>8, <1>9, Framed DEF Inv

\* card_ref: the session becomes a holder when the count goes up.
LEMMA RefInv ==
  ASSUME Inv, NEW s \in Sessions, Ref(s)
  PROVE  Inv'
<1>1. Here(s)
  BY HereNow
<1>2. /\ th' \in [Threads -> Thread]
      /\ th'[s].pc = "use" /\ th'[s].card = th[s].card
      /\ th'[s].todo = th[s].todo /\ th'[s].next = th[s].next
      /\ th[s].card \in listed /\ card' \in [Ids -> Card]
      /\ card'[th[s].card].refs = card[th[s].card].refs + 1
      /\ \A c \in Ids : card'[c].token = card[c].token
      /\ \A c \in Ids \ {th[s].card} : card'[c] = card[c]
      /\ UNCHANGED <<listed, freed, leaked, working, lockedSession>>
      /\ th[s].pc = "ref" /\ sess' = sess
      /\ \A q \in Threads \ {s} : th'[q] = th[q]
  <2>1. th[s].card \in listed /\ th[s].card \in Ids
    BY <1>1 DEF Here, LocalOK, Known, AtCard, CardPcs, Ref, GetsCard, At
  <2>2. card \in [Ids -> Card]
    BY <1>1 DEF Here, TypeOK
  <2>3. Goto(s, "use") /\ card' = Referenced(th[s].card)
    BY DEF Ref
  <2>4. /\ card' \in [Ids -> Card]
        /\ card'[th[s].card].refs = card[th[s].card].refs + 1
        /\ card'[th[s].card].token = card[th[s].card].token
        /\ \A c \in Ids \ {th[s].card} : card'[c] = card[c]
    BY <2>1, <2>2, <2>3, ReferencedCounts
  <2>5. /\ th' \in [Threads -> Thread]
        /\ th'[s].pc = "use" /\ th'[s].card = th[s].card
        /\ th'[s].todo = th[s].todo /\ th'[s].next = th[s].next
        /\ \A q \in Threads \ {s} : th'[q] = th[q]
    BY <1>1, <2>3, GotoMoves DEF Here, Pcs, CardPcs
  <2>6. UNCHANGED <<listed, freed, leaked, working, lockedSession, sess>>
        /\ th[s].pc = "ref"
    BY DEF Ref, GetsCard, At, history
  <2> QED
    BY <2>1, <2>4, <2>5, <2>6
<1>3. TypeOK'
  BY <1>1, <1>2 DEF Here, TypeOK, Ref, locks
<1>4. Apart(s) /\ Kept
  BY <1>1, <1>2 DEF Apart, Kept
<1>5. LocalOK(s)'
  BY <1>1, <1>2, IdsAssumption DEF Here, LocalOK, Known
<1>6. PhaseOK(s)'
  BY <1>1, <1>2 DEF Here, PhaseOK, Selecting
<1>7. WorkOK(s)'
  BY <1>1, <1>2 DEF Here, WorkOK, PhaseOK, Asks, Selecting, Ending, Told
<1>8. LockerLives'
  BY <1>1, <1>2, <1>4 DEF Inv, LockerLives
<1>9. Cards' /\ RefsExact' /\ ContextListed'
  <2>1. ~Holds(s) /\ Holds(s)' /\ th'[s].card = th[s].card
    BY <1>1, <1>2 DEF Here, Holds, PhaseOK
  <2>2. ASSUME NEW c \in listed
        PROVE  card'[c].refs + Uses(s, c) + Keeps(s, c) + leaked[c]
                 = card[c].refs + Uses(s, c)' + Keeps(s, c)' + leaked'[c]
    <3>1. /\ c \in Ids /\ c # 0 /\ card[c].refs \in Nat
          /\ leaked[c] \in Nat
      BY <1>1, IdsAssumption DEF Here, TypeOK, Card
    <3> QED
      BY <1>1, <1>2, <2>1, <3>1 DEF Uses, Keeps
  <2>3. /\ sess'[s].ctx \in listed \cup {0}
        /\ \A c \in Ids : card'[c].token = card[c].token
        /\ \A c \in Ids \ listed : /\ card'[c].refs = card[c].refs
                                    /\ leaked'[c] = leaked[c]
        /\ UNCHANGED <<listed, freed>>
    BY <1>1, <1>2 DEF Inv, ContextListed
  <2> QED
    BY <1>3, <1>4, <2>2, <2>3, Balanced
<1> QED
  BY <1>3, <1>4, <1>5, <1>6, <1>7, <1>8, <1>9, Framed DEF Inv

\* The card of a DEVINFO: its reference is counted, and forgotten.
LEMMA PickForgottenInv ==
  ASSUME Inv, NEW s \in Sessions, PickForgotten(s)
  PROVE  Inv'
<1>1. Here(s)
  BY HereNow
<1>2. /\ th' \in [Threads -> Thread]
      /\ th'[s].pc = "wait" /\ th'[s].card = 0
      /\ th'[s].todo = {}
      /\ th[s].card \in listed /\ card' \in [Ids -> Card]
      /\ card'[th[s].card].refs = card[th[s].card].refs + 1
      /\ \A c \in Ids : card'[c].token = card[c].token
      /\ \A c \in Ids \ {th[s].card} : card'[c] = card[c]
      /\ leaked' \in [Ids -> Nat]
      /\ leaked'[th[s].card] = leaked[th[s].card] + 1
      /\ \A c \in Ids \ {th[s].card} : leaked'[c] = leaked[c]
      /\ UNCHANGED <<listed, freed, working, lockedSession, sess>>
      /\ th[s].pc = "pick"
      /\ \A q \in Threads \ {s} : th'[q] = th[q]
  <2>1. th[s].card \in listed /\ th[s].card \in Ids
    BY <1>1
       DEF Here, LocalOK, Known, AtCard, CardPcs, PickForgotten, Wanted,
           GetsCard, At
  <2>2. card \in [Ids -> Card]
    BY <1>1 DEF Here, TypeOK
  <2>3. Watch(s, "first") /\ card' = Referenced(th[s].card)
    BY DEF PickForgotten
  <2>4. /\ card' \in [Ids -> Card]
        /\ card'[th[s].card].refs = card[th[s].card].refs + 1
        /\ card'[th[s].card].token = card[th[s].card].token
        /\ \A c \in Ids \ {th[s].card} : card'[c] = card[c]
    BY <2>1, <2>2, <2>3, ReferencedCounts
  <2>5. /\ th' \in [Threads -> Thread]
        /\ th'[s].pc = "wait" /\ th'[s].card = 0 /\ th'[s].todo = {}
        /\ \A q \in Threads \ {s} : th'[q] = th[q]
    BY <1>1, <2>3, WatchMoves DEF Here
  <2>6. /\ leaked' = [leaked EXCEPT ![th[s].card] = @ + 1]
        /\ UNCHANGED <<listed, freed, working, lockedSession, sess>>
        /\ th[s].pc = "pick"
    BY DEF PickForgotten, Wanted, GetsCard, At
  <2>7. /\ leaked' \in [Ids -> Nat]
        /\ leaked'[th[s].card] = leaked[th[s].card] + 1
        /\ \A c \in Ids \ {th[s].card} : leaked'[c] = leaked[c]
    BY <1>1, <2>1, <2>6 DEF Here, TypeOK
  <2> QED
    BY <2>1, <2>4, <2>5, <2>6, <2>7
<1>3. TypeOK'
  BY <1>1, <1>2 DEF Here, TypeOK, PickForgotten
<1>4. Apart(s) /\ Kept
  BY <1>1, <1>2 DEF Apart, Kept
<1>5. LocalOK(s)'
  BY <1>1, <1>2, IdsAssumption DEF LocalOK, AtCard, CardPcs
<1>6. PhaseOK(s)'
  BY <1>1, <1>2 DEF Here, PhaseOK, Selecting
<1>7. WorkOK(s)'
  BY <1>1, <1>2 DEF Here, WorkOK, Asks, Selecting
<1>8. LockerLives'
  BY <1>1, <1>2, <1>4 DEF Inv, LockerLives
<1>9. Cards' /\ RefsExact' /\ ContextListed'
  <2>1. ~Holds(s) /\ ~Holds(s)' /\ sess[s].ctx = 0
    BY <1>1, <1>2 DEF Here, Holds, PhaseOK, Selecting
  <2>2. ASSUME NEW c \in listed
        PROVE  card'[c].refs + Uses(s, c) + Keeps(s, c) + leaked[c]
                 = card[c].refs + Uses(s, c)' + Keeps(s, c)' + leaked'[c]
    <3>1. /\ c \in Ids /\ c # 0 /\ card[c].refs \in Nat
          /\ leaked[c] \in Nat
      BY <1>1, IdsAssumption DEF Here, TypeOK, Card
    <3>2. /\ Uses(s, c) = Uses(s, c)' /\ Keeps(s, c) = Keeps(s, c)'
          /\ Uses(s, c) \in 0..1 /\ Keeps(s, c) \in 0..1
      BY <1>2, <2>1, <3>1 DEF Uses, Keeps
    <3>3. CASE c = th[s].card
      BY <1>2, <3>1, <3>2, <3>3
    <3>4. CASE c # th[s].card
      BY <1>2, <3>1, <3>2, <3>4
    <3> QED
      BY <3>3, <3>4
  <2>3. /\ sess'[s].ctx \in listed \cup {0}
        /\ \A c \in Ids : card'[c].token = card[c].token
        /\ \A c \in Ids \ listed : /\ card'[c].refs = card[c].refs
                                    /\ leaked'[c] = leaked[c]
        /\ UNCHANGED <<listed, freed>>
    BY <1>1, <1>2 DEF Inv, ContextListed
  <2> QED
    BY <1>3, <1>4, <2>2, <2>3, Balanced
<1> QED
  BY <1>3, <1>4, <1>5, <1>6, <1>7, <1>8, <1>9, Framed DEF Inv

\* The card becomes the current one when its count goes up.
LEMMA PickInv ==
  ASSUME Inv, NEW s \in Sessions, Pick(s)
  PROVE  Inv'
<1>1. Here(s)
  BY HereNow
<1>2. /\ th' \in [Threads -> Thread]
      /\ \/ th'[s] = At0("idle")
         \/ /\ th'[s].pc \in {"use", "find", "switch"}
            /\ th'[s].card = th[s].card /\ th'[s].todo = {}
            /\ th'[s].next = th[s].next
            /\ th'[s].pc = th[s].next \/ th[s].next = "serialno"
      /\ th[s].card \in listed /\ card' \in [Ids -> Card]
      /\ card'[th[s].card].refs = card[th[s].card].refs + 1
      /\ \A c \in Ids : card'[c].token = card[c].token
      /\ \A c \in Ids \ {th[s].card} : card'[c] = card[c]
      /\ sess' \in [Sessions -> Session]
      /\ sess'[s].ctx = th[s].card /\ sess'[s].live = sess[s].live
      /\ \A q \in Sessions \ {s} :
           /\ sess'[q].ctx = sess[q].ctx /\ sess'[q].live = sess[q].live
           /\ sess[q].ctx = 0 => sess'[q].removed = sess[q].removed
      /\ UNCHANGED <<listed, freed, leaked, working, lockedSession>>
      /\ th[s].pc = "pick"
      /\ \A q \in Threads \ {s} : th'[q] = th[q]
  <2>1. th[s].card \in listed /\ th[s].card \in Ids
    BY <1>1
       DEF Here, LocalOK, Known, AtCard, CardPcs, Pick, Wanted, GetsCard, At
  <2>2. card \in [Ids -> Card]
    BY <1>1 DEF Here, TypeOK
  <2> DEFINE ss == Current(s, th[s].card)
  <2>3. /\ ss \in [Sessions -> Session]
        /\ ss[s].ctx = th[s].card /\ ss[s].live = sess[s].live
        /\ \A q \in Sessions \ {s} : ss[q] = sess[q]
    <3> DEFINE r == [sess[s] EXCEPT !.ctx = th[s].card]
    <3>1. r \in Session /\ r.ctx = th[s].card /\ r.live = sess[s].live
      BY <1>1, <2>1 DEF Here, Session, Ctx
    <3>2. ss = [sess EXCEPT ![s] = r]
      BY <1>1 DEF Current
    <3> QED
      BY <1>1, <3>1, <3>2 DEF Here
  <2>4. /\ card' \in [Ids -> Card]
        /\ card'[th[s].card].refs = card[th[s].card].refs + 1
        /\ card'[th[s].card].token = card[th[s].card].token
        /\ \A c \in Ids \ {th[s].card} : card'[c] = card[c]
    BY <2>1, <2>2, ReferencedCounts DEF Pick
  <2> HIDE DEF ss
  <2> DEFINE Moved ==
        /\ th' \in [Threads -> Thread]
        /\ \/ th'[s] = At0("idle")
           \/ /\ th'[s].pc \in {"use", "find", "switch"}
              /\ th'[s].card = th[s].card /\ th'[s].todo = {}
              /\ th'[s].next = th[s].next
              /\ th'[s].pc = th[s].next \/ th[s].next = "serialno"
        /\ \A q \in Threads \ {s} : th'[q] = th[q]
        /\ sess' \in [Sessions -> Session]
        /\ sess'[s].ctx = ss[s].ctx /\ sess'[s].live = ss[s].live
        /\ \A q \in Sessions \ {s} :
             /\ sess'[q].ctx = ss[q].ctx /\ sess'[q].live = ss[q].live
             /\ ss[q].ctx = 0 => sess'[q].removed = ss[q].removed
  <2>5. Moved
    <3>1. CASE SerialnoEnds(s, ss, TRUE)
      BY <1>1, <2>3, <3>1, SerialnoMoves DEF Here
    <3>2. ASSUME NEW pc \in {"use", "find", "switch"}, Leave(s, pc),
                 sess' = ss, pc = th[s].next \/ th[s].next = "serialno"
          PROVE  Moved
      BY <1>1, <2>3, <3>2, LeaveMoves DEF Here, Pcs, CardPcs, ListPcs
    <3>3. th[s].next \in {"use", "find", "switch", "serialno", "watch"}
      BY <1>1 DEF Here, PhaseOK, Selecting, Pick, Wanted, GetsCard, At
    <3> QED
      BY <3>1, <3>2, <3>3 DEF Pick, ss
  <2>6. UNCHANGED <<listed, freed, leaked, working, lockedSession>>
        /\ th[s].pc = "pick"
    BY DEF Pick, Wanted, GetsCard, At, history
  <2> QED
    BY <2>1, <2>3, <2>4, <2>5, <2>6
<1>3. TypeOK'
  BY <1>1, <1>2 DEF Here, TypeOK, Pick
<1>4. Apart(s) /\ Kept
  BY <1>1, <1>2 DEF Apart, Kept
<1>5. LocalOK(s)'
  BY <1>1, <1>2, IdsAssumption DEF Here, LocalOK, Known, AtCard, CardPcs, At0
<1>6. PhaseOK(s)'
  BY <1>1, <1>2 DEF Here, PhaseOK, Selecting, At0
<1>7. WorkOK(s)'
  BY <1>1, <1>2 DEF Here, WorkOK, Asks, Selecting, At0
<1>8. LockerLives'
  BY <1>1, <1>2, <1>4 DEF Inv, TypeOK, LockerLives
<1>9. Cards' /\ RefsExact' /\ ContextListed'
  <2>1. ~Holds(s) /\ ~Holds(s)' /\ sess[s].ctx = 0
    BY <1>1, <1>2 DEF Here, Holds, At0, PhaseOK, Selecting
  <2>2. ASSUME NEW c \in listed
        PROVE  card'[c].refs + Uses(s, c) + Keeps(s, c) + leaked[c]
                 = card[c].refs + Uses(s, c)' + Keeps(s, c)' + leaked'[c]
    <3>1. /\ c \in Ids /\ c # 0 /\ card[c].refs \in Nat
          /\ leaked[c] \in Nat
      BY <1>1, IdsAssumption DEF Here, TypeOK, Card
    <3> QED
      BY <1>1, <1>2, <2>1, <3>1 DEF Uses, Keeps
  <2>3. /\ sess'[s].ctx \in listed \cup {0}
        /\ \A c \in Ids : card'[c].token = card[c].token
        /\ \A c \in Ids \ listed : /\ card'[c].refs = card[c].refs
                                    /\ leaked'[c] = leaked[c]
        /\ UNCHANGED <<listed, freed>>
    BY <1>1, <1>2
  <2> QED
    BY <1>3, <1>4, <2>2, <2>3, Balanced
<1> QED
  BY <1>3, <1>4, <1>5, <1>6, <1>7, <1>8, <1>9, Framed DEF Inv

\* card_unref: the count goes down for a session that held one.
LEMMA UnrefInv ==
  ASSUME Inv, NEW s \in Sessions, Unref(s)
  PROVE  Inv'
<1>1. Here(s)
  BY HereNow
<1>2. /\ th' \in [Threads -> Thread]
      /\ \/ th'[s] = At0("idle") /\ th[s].next \in {"direct", "drop"}
         \/ /\ th'[s].pc = "select" /\ th'[s].card = th[s].card
            /\ th'[s].todo = th[s].todo /\ th'[s].next = "serialno"
            /\ th[s].next = "serialno"
         \/ th'[s] = At0("ended") /\ th[s].next = "end"
      /\ th[s].card \in listed /\ card' \in [Ids -> Card]
      /\ card'[th[s].card].refs = card[th[s].card].refs - 1
      /\ \A c \in Ids : card'[c].token = card[c].token
      /\ \A c \in Ids \ {th[s].card} : card'[c] = card[c]
      /\ card[th[s].card].refs \in Nat
      /\ sess' \in [Sessions -> Session]
      /\ sess'[s].ctx = sess[s].ctx /\ sess'[s].removed = sess[s].removed
      /\ sess'[s].live = sess[s].live \/ th'[s].pc = "ended"
      /\ \A q \in Sessions \ {s} : sess'[q] = sess[q]
      /\ lockedSession' \in {lockedSession, None}
      /\ sess'[s].live = sess[s].live \/ lockedSession' # s
      /\ UNCHANGED <<listed, freed, leaked, working>>
      /\ th[s].pc = "unref"
      /\ \A q \in Threads \ {s} : th'[q] = th[q]
  <2>1. th[s].card \in listed /\ th[s].card \in Ids
    BY <1>1 DEF Here, LocalOK, Known, AtCard, CardPcs, Unref, GetsCard, At
  <2>2. card \in [Ids -> Card]
    BY <1>1 DEF Here, TypeOK
  <2> DEFINE d == th[s].card
             r == [card[d] EXCEPT !.refs = card[d].refs - 1]
  <2>3. card[d] \in Card /\ card[d].refs \in Nat
    BY <2>1, <2>2 DEF Card
  <2>4. card[d].refs >= 1
    <3>1. s \in Holders(d)
      BY DEF Holders, Unref, GetsCard, At
    <3>2. Holders(d) \in SUBSET Sessions /\ Users(d) \in SUBSET Sessions
      BY DEF Holders, Users
    <3>3. Cardinality(Holders(d)) >= 1 /\ Cardinality(Holders(d)) \in Nat
      BY <3>1, <3>2, OneLess, Counted
    <3>4. Cardinality(Users(d)) \in Nat
      BY <3>2, Counted
    <3>5. leaked[d] \in Nat
      BY <1>1, <2>1 DEF Here, TypeOK
    <3> QED
      BY <2>1, <2>3, <3>3, <3>4, <3>5 DEF Inv, RefsExact
  <2>5. r \in Card /\ r.refs = card[d].refs - 1 /\ r.token = card[d].token
    BY <2>3, <2>4 DEF Card
  <2>6. card' = [card EXCEPT ![d] = r]
    BY <2>1, <2>2 DEF Unref
  <2>7. /\ card' \in [Ids -> Card] /\ card'[d].refs = card[d].refs - 1
        /\ \A c \in Ids : card'[c].token = card[c].token
        /\ \A c \in Ids \ {d} : card'[c] = card[c]
    BY <2>1, <2>2, <2>5, <2>6
  <2>8. UNCHANGED <<listed, freed, leaked, working>> /\ th[s].pc = "unref"
    BY DEF Unref, GetsCard, At, history
  <2> HIDE DEF r
  <2>9. CASE th[s].next = "serialno"
    BY <1>1, <2>1, <2>3, <2>7, <2>8, <2>9, GotoMoves
       DEF Here, Unref, Pcs, ListPcs
  <2>10. CASE th[s].next = "direct"
    BY <1>1, <2>1, <2>3, <2>7, <2>8, <2>10, ReturnMoves DEF Here, Unref
  <2>11. CASE th[s].next = "drop"
    BY <1>1, <2>1, <2>3, <2>7, <2>8, <2>11, ReturnMoves
       DEF Here, Unref, Unlocked
  <2>12. CASE th[s].next = "end"
    <3> DEFINE q == [sess[s] EXCEPT !.live = FALSE]
    <3>1. /\ q \in Session /\ q.ctx = sess[s].ctx
          /\ q.removed = sess[s].removed
      BY <1>1 DEF Here, Session
    <3>2. /\ sess' = [sess EXCEPT ![s] = q]
          /\ th' = [th EXCEPT ![s] = At0("ended")]
          /\ lockedSession' = Unlocked(s)
      BY <1>1, <2>12 DEF Unref
    <3>3. At0("ended") \in Thread /\ At0("ended").pc = "ended"
      BY AtZero DEF Pcs, RestPcs, At0
    <3>4. lockedSession' \in {lockedSession, None} /\ lockedSession' # s
      BY <3>2, NoneAssumption DEF Unlocked
    <3> HIDE DEF q
    <3> QED
      BY <1>1, <2>1, <2>3, <2>7, <2>8, <2>12, <3>1, <3>2, <3>3, <3>4 DEF Here
  <2> QED
    BY <2>9, <2>10, <2>11, <2>12 DEF Unref
<1>3. TypeOK'
  BY <1>1, <1>2 DEF Here, TypeOK, Unref, locks
<1>4. Apart(s) /\ Kept
  BY <1>1, <1>2 DEF Apart, Kept
<1>5. LocalOK(s)'
  BY <1>1, <1>2, IdsAssumption DEF Here, LocalOK, Known, AtCard, CardPcs, At0
<1>6. PhaseOK(s)'
  BY <1>1, <1>2 DEF Here, PhaseOK, Selecting, At0
<1>7. WorkOK(s)'
  BY <1>1, <1>2 DEF Here, WorkOK, Asks, Selecting, Ending, Told, At0
<1>8. LockerLives'
  BY <1>1, <1>2, <1>4 DEF Inv, TypeOK, LockerLives
<1>9. Cards' /\ RefsExact' /\ ContextListed'
  <2>1. Holds(s) /\ ~Holds(s)'
    BY <1>1, <1>2 DEF Holds, At0
  <2>2. ASSUME NEW c \in listed
        PROVE  card'[c].refs + Uses(s, c) + Keeps(s, c) + leaked[c]
                 = card[c].refs + Uses(s, c)' + Keeps(s, c)' + leaked'[c]
    <3>1. /\ c \in Ids /\ c # 0 /\ card[c].refs \in Nat
          /\ leaked[c] \in Nat
      BY <1>1, IdsAssumption DEF Here, TypeOK, Card
    <3>2. /\ Uses(s, c) = Uses(s, c)'
          /\ Keeps(s, c)' = 0 /\ Keeps(s, c) = IF c = th[s].card THEN 1 ELSE 0
          /\ Uses(s, c) \in 0..1
      BY <1>2, <2>1, <3>1 DEF Uses, Keeps
    <3>3. CASE c = th[s].card
      BY <1>2, <3>1, <3>2, <3>3
    <3>4. CASE c # th[s].card
      BY <1>2, <3>1, <3>2, <3>4
    <3> QED
      BY <3>3, <3>4
  <2>3. /\ sess'[s].ctx \in listed \cup {0}
        /\ \A c \in Ids : card'[c].token = card[c].token
        /\ \A c \in Ids \ listed : /\ card'[c].refs = card[c].refs
                                    /\ leaked'[c] = leaked[c]
        /\ UNCHANGED <<listed, freed>>
    BY <1>1, <1>2 DEF Inv, ContextListed
  <2> QED
    BY <1>3, <1>4, <2>2, <2>3, Balanced
<1> QED
  BY <1>3, <1>4, <1>5, <1>6, <1>7, <1>8, <1>9, Framed DEF Inv

\* SERIALNO gives the current card up.
LEMMA SerialnoInv ==
  ASSUME Inv, NEW s \in Sessions, NEW want \in Serials \cup {None},
         Serialno(s, want)
  PROVE  Inv'
<1>1. Here(s)
  BY HereNow
<1>2. /\ th' \in [Threads -> Thread]
      /\ th'[s].pc = IF sess[s].ctx # 0 THEN "unref" ELSE "select"
      /\ th'[s].card = sess[s].ctx /\ th'[s].todo = {}
      /\ th'[s].next = "serialno"
      /\ sess' \in [Sessions -> Session]
      /\ sess'[s].ctx = 0 /\ sess'[s].live = sess[s].live
      /\ \A q \in Sessions \ {s} : sess'[q] = sess[q]
      /\ working' = [working EXCEPT ![s] = 0]
      /\ UNCHANGED <<card, listed, freed, leaked>>
      /\ UNCHANGED lockedSession
      /\ th[s].pc = "idle" /\ sess[s].live
      /\ \A q \in Threads \ {s} : th'[q] = th[q]
  <2> DEFINE r == [pc |-> IF sess[s].ctx # 0 THEN "unref" ELSE "select",
                   card |-> sess[s].ctx, todo |-> {}, want |-> want,
                   next |-> "serialno"]
             q == [sess[s] EXCEPT !.ctx = 0, !.removed = FALSE]
  <2>1. r \in Thread
    BY <1>1 DEF Here, Thread, ListPcs, CardPcs, Session
  <2>2. q \in Session /\ q.ctx = 0 /\ q.live = sess[s].live
    BY <1>1 DEF Here, Session, Ctx
  <2>3. th' = [th EXCEPT ![s] = r] /\ sess' = [sess EXCEPT ![s] = q]
    BY <1>1 DEF Serialno
  <2>4. /\ th' \in [Threads -> Thread] /\ th'[s] = r
        /\ \A t \in Threads \ {s} : th'[t] = th[t]
        /\ sess' \in [Sessions -> Session] /\ sess'[s] = q
        /\ \A t \in Sessions \ {s} : sess'[t] = sess[t]
    BY <1>1, <2>1, <2>2, <2>3 DEF Here
  <2>5. /\ working' = [working EXCEPT ![s] = 0]
        /\ UNCHANGED <<card, listed, freed, leaked, lockedSession>>
        /\ th[s].pc = "idle" /\ sess[s].live
    BY DEF Serialno, Command, At
  <2>6. /\ r.pc = IF sess[s].ctx # 0 THEN "unref" ELSE "select"
        /\ r.card = sess[s].ctx /\ r.todo = {} /\ r.next = "serialno"
    OBVIOUS
  <2> HIDE DEF r, q
  <2> QED
    BY <2>2, <2>4, <2>5, <2>6
<1>3. TypeOK'
  BY <1>1, <1>2 DEF Here, TypeOK, Ctx, Serialno, locks
<1>4. Apart(s) /\ Kept
  BY <1>1, <1>2 DEF Apart, Kept
<1>5. LocalOK(s)'
  BY <1>1, <1>2, IdsAssumption
     DEF Inv, ContextListed, LocalOK, Known, AtCard, CardPcs
<1>6. PhaseOK(s)'
  BY <1>1, <1>2 DEF PhaseOK
<1>7. WorkOK(s)'
  BY <1>1, <1>2 DEF Here, TypeOK, WorkOK
<1>8. LockerLives'
  BY <1>1, <1>2, <1>4 DEF Inv, TypeOK, LockerLives
<1>9. Cards' /\ RefsExact' /\ ContextListed'
  <2>1. ~Holds(s) /\ (Holds(s)' <=> (sess[s].ctx # 0 /\ th'[s].pc = "unref"))
    BY <1>1, <1>2 DEF Holds
  <2>2. ASSUME NEW c \in listed
        PROVE  card'[c].refs + Uses(s, c) + Keeps(s, c) + leaked[c]
                 = card[c].refs + Uses(s, c)' + Keeps(s, c)' + leaked'[c]
    <3>1. /\ c \in Ids /\ c # 0 /\ card[c].refs \in Nat
          /\ leaked[c] \in Nat
      BY <1>1, IdsAssumption DEF Here, TypeOK, Card
    <3> QED
      BY <1>1, <1>2, <2>1, <3>1 DEF Uses, Keeps
  <2>3. /\ sess'[s].ctx \in listed \cup {0}
        /\ \A c \in Ids : card'[c].token = card[c].token
        /\ \A c \in Ids \ listed : /\ card'[c].refs = card[c].refs
                                    /\ leaked'[c] = leaked[c]
        /\ UNCHANGED <<listed, freed>>
    BY <1>1, <1>2
  <2> QED
    BY <1>3, <1>4, <2>2, <2>3, Balanced
<1> QED
  BY <1>3, <1>4, <1>5, <1>6, <1>7, <1>8, <1>9, Framed DEF Inv

\* RESTART gives the current card and LOCK up.
LEMMA RestartInv ==
  ASSUME Inv, NEW s \in Sessions, Restart(s)
  PROVE  Inv'
<1>1. Here(s)
  BY HereNow
<1>2. /\ th' \in [Threads -> Thread]
      /\ \/ th' = th /\ sess' = sess
         \/ /\ sess[s].ctx # 0 /\ sess'[s].ctx = 0
            /\ th'[s].pc = "unref" /\ th'[s].card = sess[s].ctx
            /\ th'[s].todo = th[s].todo /\ th'[s].next = "drop"
      /\ sess' \in [Sessions -> Session]
      /\ sess'[s].removed = sess[s].removed
      /\ sess'[s].live = sess[s].live
      /\ \A q \in Sessions \ {s} : sess'[q] = sess[q]
      /\ working' = [working EXCEPT ![s] = 0]
      /\ UNCHANGED <<card, listed, freed, leaked>>
      /\ lockedSession' \in {lockedSession, None}
      /\ th[s].pc = "idle" /\ sess[s].live
      /\ \A q \in Threads \ {s} : th'[q] = th[q]
  <2>1. /\ working' = [working EXCEPT ![s] = 0]
        /\ UNCHANGED <<card, listed, freed, leaked>>
        /\ lockedSession' \in {lockedSession, None}
        /\ th[s].pc = "idle" /\ sess[s].live
    BY DEF Restart, Command, At, Unlocked
  <2>2. CASE sess[s].ctx = 0
    BY <1>1, <2>1, <2>2 DEF Here, Restart
  <2>3. CASE sess[s].ctx # 0
    BY <1>1, <2>1, <2>3, DropMoves DEF Here, Restart, Nexts
  <2> QED
    BY <2>2, <2>3
<1>3. TypeOK'
  BY <1>1, <1>2 DEF Here, TypeOK, Ctx, Restart, locks
<1>4. Apart(s) /\ Kept
  BY <1>1, <1>2 DEF Apart, Kept
<1>5. LocalOK(s)'
  BY <1>1, <1>2, IdsAssumption DEF Here, Inv, ContextListed, LocalOK, Known
<1>6. PhaseOK(s)'
  BY <1>1, <1>2 DEF PhaseOK, Selecting
<1>7. WorkOK(s)'
  BY <1>1, <1>2 DEF Here, TypeOK, WorkOK
<1>8. LockerLives'
  BY <1>1, <1>2, <1>4 DEF Inv, TypeOK, LockerLives
<1>9. Cards' /\ RefsExact' /\ ContextListed'
  <2>1. ~Holds(s) /\ (Holds(s)' <=> th'[s].pc = "unref")
    BY <1>1, <1>2 DEF Holds
  <2>2. ASSUME NEW c \in listed
        PROVE  card'[c].refs + Uses(s, c) + Keeps(s, c) + leaked[c]
                 = card[c].refs + Uses(s, c)' + Keeps(s, c)' + leaked'[c]
    <3>1. /\ c \in Ids /\ c # 0 /\ card[c].refs \in Nat
          /\ leaked[c] \in Nat
      BY <1>1, IdsAssumption DEF Here, TypeOK, Card
    <3> QED
      BY <1>1, <1>2, <2>1, <3>1 DEF Uses, Keeps
  <2>3. /\ sess'[s].ctx \in listed \cup {0}
        /\ \A c \in Ids : card'[c].token = card[c].token
        /\ \A c \in Ids \ listed : /\ card'[c].refs = card[c].refs
                                    /\ leaked'[c] = leaked[c]
        /\ UNCHANGED <<listed, freed>>
    BY <1>1, <1>2 DEF Inv, ContextListed
  <2> QED
    BY <1>3, <1>4, <2>2, <2>3, Balanced
<1> QED
  BY <1>3, <1>4, <1>5, <1>6, <1>7, <1>8, <1>9, Framed DEF Inv

\* RESET with LOCK taken by another: only the context goes.
LEMMA ResetInv ==
  ASSUME Inv, NEW s \in Sessions, Reset(s)
  PROVE  Inv'
<1>1. Here(s)
  BY HereNow
<1>2. /\ th' \in [Threads -> Thread]
      /\ \/ th' = th /\ sess' = sess
         \/ /\ sess[s].ctx # 0 /\ sess'[s].ctx = 0
            /\ th'[s].pc = "unref" /\ th'[s].card = sess[s].ctx
            /\ th'[s].todo = th[s].todo /\ th'[s].next = "drop"
         \/ /\ sess[s].ctx # 0 /\ sess' = sess /\ th'[s].pc = "reset"
            /\ th'[s].card = sess[s].ctx /\ th'[s].todo = th[s].todo
      /\ sess' \in [Sessions -> Session]
      /\ sess'[s].removed = sess[s].removed
      /\ sess'[s].live = sess[s].live
      /\ \A q \in Sessions \ {s} : sess'[q] = sess[q]
      /\ working' = [working EXCEPT ![s] = 0]
      /\ UNCHANGED <<card, listed, freed, leaked>>
      /\ lockedSession' \in {lockedSession, None}
      /\ th[s].pc = "idle" /\ sess[s].live
      /\ \A q \in Threads \ {s} : th'[q] = th[q]
  <2>1. /\ working' = [working EXCEPT ![s] = 0]
        /\ UNCHANGED <<card, listed, freed, leaked>>
        /\ lockedSession' \in {lockedSession, None}
        /\ th[s].pc = "idle" /\ sess[s].live
    BY DEF Reset, Command, At, Unlocked
  <2>2. CASE sess[s].ctx = 0
    BY <1>1, <2>1, <2>2 DEF Here, Reset
  <2>3. CASE sess[s].ctx # 0 /\ IsLocked(s)
    BY <1>1, <2>1, <2>3, DropMoves DEF Here, Reset, Nexts
  <2>4. CASE sess[s].ctx # 0 /\ ~IsLocked(s)
    <3>1. sess[s].ctx \in Ctx /\ GotoCard(s, "reset", sess[s].ctx)
          /\ sess' = sess
      BY <1>1, <2>4 DEF Here, Session, Reset
    <3> QED
      BY <1>1, <2>1, <2>4, <3>1, GotoCardMoves DEF Here, Pcs, CardPcs
  <2> QED
    BY <2>2, <2>3, <2>4
<1>3. TypeOK'
  BY <1>1, <1>2 DEF Here, TypeOK, Ctx, Reset, locks
<1>4. Apart(s) /\ Kept
  BY <1>1, <1>2 DEF Apart, Kept
<1>5. LocalOK(s)'
  BY <1>1, <1>2, IdsAssumption DEF Here, Inv, ContextListed, LocalOK, Known
<1>6. PhaseOK(s)'
  BY <1>1, <1>2 DEF PhaseOK, Selecting
<1>7. WorkOK(s)'
  BY <1>1, <1>2 DEF Here, TypeOK, WorkOK
<1>8. LockerLives'
  BY <1>1, <1>2, <1>4 DEF Inv, TypeOK, LockerLives
<1>9. Cards' /\ RefsExact' /\ ContextListed'
  <2>1. ~Holds(s) /\ (Holds(s)' <=> th'[s].pc = "unref")
    BY <1>1, <1>2 DEF Holds
  <2>2. ASSUME NEW c \in listed
        PROVE  card'[c].refs + Uses(s, c) + Keeps(s, c) + leaked[c]
                 = card[c].refs + Uses(s, c)' + Keeps(s, c)' + leaked'[c]
    <3>1. /\ c \in Ids /\ c # 0 /\ card[c].refs \in Nat
          /\ leaked[c] \in Nat
      BY <1>1, IdsAssumption DEF Here, TypeOK, Card
    <3> QED
      BY <1>1, <1>2, <2>1, <3>1 DEF Uses, Keeps
  <2>3. /\ sess'[s].ctx \in listed \cup {0}
        /\ \A c \in Ids : card'[c].token = card[c].token
        /\ \A c \in Ids \ listed : /\ card'[c].refs = card[c].refs
                                    /\ leaked'[c] = leaked[c]
        /\ UNCHANGED <<listed, freed>>
    BY <1>1, <1>2 DEF Inv, ContextListed
  <2> QED
    BY <1>3, <1>4, <2>2, <2>3, Balanced
<1> QED
  BY <1>3, <1>4, <1>5, <1>6, <1>7, <1>8, <1>9, Framed DEF Inv

\* The end of a session gives the current card and LOCK up.
LEMMA ByeInv ==
  ASSUME Inv, NEW s \in Sessions, Bye(s)
  PROVE  Inv'
<1>1. Here(s)
  BY HereNow
<1>2. /\ th' \in [Threads -> Thread]
      /\ \/ /\ sess[s].ctx # 0 /\ sess'[s].ctx = 0
            /\ th'[s].pc = "unref" /\ th'[s].card = sess[s].ctx
            /\ th'[s].todo = th[s].todo /\ th'[s].next = "end"
         \/ /\ sess[s].ctx = 0 /\ sess'[s].ctx = 0
            /\ th'[s].pc = "ended" /\ th'[s].card = th[s].card
            /\ th'[s].todo = th[s].todo
      /\ sess' \in [Sessions -> Session]
      /\ sess'[s].removed = sess[s].removed
      /\ sess'[s].live = sess[s].live \/ th'[s].pc = "ended"
      /\ \A q \in Sessions \ {s} : sess'[q] = sess[q]
      /\ UNCHANGED working
      /\ UNCHANGED <<card, listed, freed, leaked>>
      /\ lockedSession' \in {lockedSession, None}
      /\ sess'[s].live = sess[s].live \/ lockedSession' # s
      /\ th[s].pc = "idle" /\ sess[s].live
      /\ \A q \in Threads \ {s} : th'[q] = th[q]
  <2>1. /\ UNCHANGED <<working, card, listed, freed, leaked>>
        /\ th[s].pc = "idle" /\ sess[s].live
    BY DEF Bye, At, history
  <2>2. CASE sess[s].ctx = 0
    <3> DEFINE q == [sess[s] EXCEPT !.live = FALSE]
    <3>1. /\ q \in Session /\ q.ctx = sess[s].ctx
          /\ q.removed = sess[s].removed
      BY <1>1 DEF Here, Session
    <3>2. /\ sess' = [sess EXCEPT ![s] = q] /\ Goto(s, "ended")
          /\ lockedSession' = Unlocked(s)
      BY <1>1, <2>2 DEF Bye
    <3>3. lockedSession' \in {lockedSession, None} /\ lockedSession' # s
      BY <3>2, NoneAssumption DEF Unlocked
    <3> HIDE DEF q
    <3> QED
      BY <1>1, <2>1, <2>2, <3>1, <3>2, <3>3, GotoMoves DEF Here, Pcs, RestPcs
  <2>3. CASE sess[s].ctx # 0
    BY <1>1, <2>1, <2>3, DropMoves DEF Here, Bye, Nexts
  <2> QED
    BY <2>2, <2>3
<1>3. TypeOK'
  BY <1>1, <1>2 DEF Here, TypeOK, Bye, locks
<1>4. Apart(s) /\ Kept
  BY <1>1, <1>2 DEF Apart, Kept
<1>5. LocalOK(s)'
  BY <1>1, <1>2, IdsAssumption
     DEF Here, Inv, ContextListed, LocalOK, Known, AtCard, CardPcs
<1>6. PhaseOK(s)'
  BY <1>1, <1>2 DEF PhaseOK, Selecting
<1>7. WorkOK(s)'
  BY <1>1, <1>2 DEF WorkOK, Asks, Selecting, Ending
<1>8. LockerLives'
  BY <1>1, <1>2, <1>4 DEF Inv, TypeOK, LockerLives
<1>9. Cards' /\ RefsExact' /\ ContextListed'
  <2>1. ~Holds(s) /\ (Holds(s)' <=> th'[s].pc = "unref")
    BY <1>1, <1>2 DEF Holds
  <2>2. ASSUME NEW c \in listed
        PROVE  card'[c].refs + Uses(s, c) + Keeps(s, c) + leaked[c]
                 = card[c].refs + Uses(s, c)' + Keeps(s, c)' + leaked'[c]
    <3>1. /\ c \in Ids /\ c # 0 /\ card[c].refs \in Nat
          /\ leaked[c] \in Nat
      BY <1>1, IdsAssumption DEF Here, TypeOK, Card
    <3> QED
      BY <1>1, <1>2, <2>1, <3>1 DEF Uses, Keeps
  <2>3. /\ sess'[s].ctx \in listed \cup {0}
        /\ \A c \in Ids : card'[c].token = card[c].token
        /\ \A c \in Ids \ listed : /\ card'[c].refs = card[c].refs
                                    /\ leaked'[c] = leaked[c]
        /\ UNCHANGED <<listed, freed>>
    BY <1>1, <1>2
  <2> QED
    BY <1>3, <1>4, <2>2, <2>3, Balanced
<1> QED
  BY <1>3, <1>4, <1>5, <1>6, <1>7, <1>8, <1>9, Framed DEF Inv

\* app_switch_current_card: one count goes up, another one down.
LEMMA SwitchInv ==
  ASSUME Inv, NEW s \in Sessions, Switch(s)
  PROVE  Inv'
<1>1. Here(s)
  BY HereNow
<1>2. /\ th' \in [Threads -> Thread]
      /\ th'[s] = At0("idle")
      /\ card' \in [Ids -> Card]
      /\ \A c \in Ids : card'[c].token = card[c].token
      /\ sess' \in [Sessions -> Session]
      /\ sess'[s].removed = sess[s].removed
      /\ sess'[s].live = sess[s].live
      /\ \A q \in Sessions \ {s} : sess'[q] = sess[q]
      /\ \/ card' = card /\ sess' = sess
         \/ /\ sess[s].ctx # 0 /\ sess'[s].ctx \in listed
            /\ \A c \in Ids : card'[c].refs = card[c].refs
                                 + Uses(s, c)' - Uses(s, c)
      /\ UNCHANGED <<listed, freed, leaked, working, lockedSession>>
      /\ th[s].pc = "switch"
      /\ \A q \in Threads \ {s} : th'[q] = th[q]
  <2>1. /\ UNCHANGED <<listed, freed, leaked, working, lockedSession>>
        /\ th[s].pc = "switch"
    BY DEF Switch, GetsList, At, history
  <2>2. /\ th' \in [Threads -> Thread] /\ th'[s] = At0("idle")
        /\ \A q \in Threads \ {s} : th'[q] = th[q]
    BY <1>1, ReturnMoves DEF Here, Switch
  <2>3. card \in [Ids -> Card] /\ \A c \in Ids : card[c].refs \in Nat
    BY <1>1 DEF Here, TypeOK, Card
  <2>4. CASE UNCHANGED <<card, sess>>
    BY <1>1, <2>1, <2>2, <2>3, <2>4 DEF Here
  <2>5. ASSUME NEW d \in listed, sess[s].ctx # 0,
               sess' = Current(s, d), card' = Switched(s, d)
        PROVE  /\ card' \in [Ids -> Card]
               /\ \A c \in Ids : card'[c].token = card[c].token
               /\ sess' \in [Sessions -> Session]
               /\ sess'[s].removed = sess[s].removed
               /\ sess'[s].live = sess[s].live
               /\ \A q \in Sessions \ {s} : sess'[q] = sess[q]
               /\ sess'[s].ctx \in listed
               /\ \A c \in Ids : card'[c].refs = card[c].refs
                                   + Uses(s, c)' - Uses(s, c)
    <3>1. d \in Ctx /\ sess' = [sess EXCEPT ![s].ctx = d]
      BY <1>1, <2>5 DEF Here, Ctx, Current
    <3>2. /\ sess' \in [Sessions -> Session] /\ sess'[s].ctx = d
          /\ sess'[s].removed = sess[s].removed
          /\ sess'[s].live = sess[s].live
          /\ \A q \in Sessions \ {s} : sess'[q] = sess[q]
      BY <1>1, <3>1, ContextSet DEF Here
    <3>3. ASSUME NEW c \in Ids
          PROVE  /\ card'[c] \in Card
                 /\ card'[c].token = card[c].token
                 /\ card'[c].refs = card[c].refs
                                     + Uses(s, c)' - Uses(s, c)
      <4> DEFINE n == card[c].refs + Uses(s, c)' - Uses(s, c)
                 r == [card[c] EXCEPT !.refs = n]
      <4>1. card[c] \in Card /\ card[c].refs \in Nat
        BY <2>3
      <4>2. card'[c] = r
        BY <2>5, <3>2, <4>1 DEF Switched, Uses
      <4>3. sess[s].ctx = c => card[c].refs >= 1
        <5> SUFFICES ASSUME sess[s].ctx = c
                     PROVE  card[c].refs >= 1
          OBVIOUS
        <5>1. c \in listed
          BY <2>5 DEF Inv, ContextListed
        <5>2. /\ s \in Users(c) /\ Users(c) \in SUBSET Sessions
              /\ Holders(c) \in SUBSET Sessions
          BY DEF Users, Holders
        <5>3. Cardinality(Users(c)) >= 1 /\ Cardinality(Users(c)) \in Nat
              /\ Cardinality(Holders(c)) \in Nat
          BY <5>2, OneLess, Counted
        <5>4. leaked[c] \in Nat
          BY <1>1 DEF Here, TypeOK
        <5> QED
          BY <5>1, <5>3, <5>4 DEF Inv, RefsExact
      <4>4. n \in Nat
        BY <4>1, <4>3 DEF Uses
      <4> HIDE DEF n
      <4> QED
        <5>1. r \in Card /\ r.token = card[c].token /\ r.refs = n
          BY <4>1, <4>4 DEF Card
        <5> HIDE DEF r
        <5> QED
          BY <4>2, <5>1 DEF n
    <3>4. card' \in [Ids -> Card]
      BY <2>5, <3>3 DEF Switched
    <3> QED
      BY <3>2, <3>3, <3>4
  <2> QED
    BY <2>1, <2>2, <2>4, <2>5 DEF Switch
<1>3. TypeOK'
  BY <1>1, <1>2 DEF Here, TypeOK, Switch, locks
<1>4. Apart(s) /\ Kept
  BY <1>1, <1>2 DEF Apart, Kept
<1>5. LocalOK(s)'
  BY <1>1, <1>2, IdsAssumption DEF LocalOK, AtCard, CardPcs, At0
<1>6. PhaseOK(s)'
  BY <1>1, <1>2 DEF Here, PhaseOK, Selecting, At0
<1>7. WorkOK(s)'
  BY <1>1, <1>2 DEF Here, WorkOK, Asks, At0
<1>8. LockerLives'
  BY <1>1, <1>2, <1>4 DEF Inv, TypeOK, LockerLives
<1>9. Cards' /\ RefsExact' /\ ContextListed'
  <2>1. ~Holds(s) /\ ~Holds(s)'
    BY <1>1, <1>2 DEF Holds, At0
  <2>2. ASSUME NEW c \in listed
        PROVE  card'[c].refs + Uses(s, c) + Keeps(s, c) + leaked[c]
                 = card[c].refs + Uses(s, c)' + Keeps(s, c)' + leaked'[c]
    <3>1. /\ c \in Ids /\ c # 0 /\ card[c].refs \in Nat
          /\ leaked[c] \in Nat
      BY <1>1, IdsAssumption DEF Here, TypeOK, Card
    <3>2. /\ Keeps(s, c) = 0 /\ Keeps(s, c)' = 0
          /\ Uses(s, c) \in 0..1 /\ Uses(s, c)' \in 0..1
      BY <2>1 DEF Uses, Keeps
    <3>3. CASE card' = card /\ sess' = sess
      BY <1>2, <3>1, <3>2, <3>3 DEF Uses
    <3>4. CASE card'[c].refs = card[c].refs + Uses(s, c)' - Uses(s, c)
      BY <1>2, <3>1, <3>2, <3>4
    <3> QED
      BY <1>2, <3>1, <3>3, <3>4
  <2>3. /\ sess'[s].ctx \in listed \cup {0}
        /\ \A c \in Ids : card'[c].token = card[c].token
        /\ \A c \in Ids \ listed : /\ card'[c].refs = card[c].refs
                                    /\ leaked'[c] = leaked[c]
        /\ UNCHANGED <<listed, freed>>
    <3>1. sess[s].ctx \in listed \cup {0} /\ sess'[s].ctx \in listed \cup {0}
      BY <1>1, <1>2 DEF Inv, ContextListed
    <3>2. ASSUME NEW c \in Ids \ listed
          PROVE  /\ Uses(s, c) = 0 /\ Uses(s, c)' = 0
                 /\ card[c].refs \in Nat /\ leaked[c] \in Nat
      BY <1>1, <3>1, IdsAssumption DEF Here, TypeOK, Card, Uses
    <3> QED
      BY <1>1, <1>2, <3>1, <3>2
  <2> QED
    BY <1>3, <1>4, <2>2, <2>3, Balanced
<1> QED
  BY <1>3, <1>4, <1>5, <1>6, <1>7, <1>8, <1>9, Framed DEF Inv

\* DEVINFO has written the list: open_card, or the wait.
LEMMA SentFirstInv ==
  ASSUME Inv, NEW s \in Sessions, SentFirst(s)
  PROVE  Inv'
<1>1. Here(s)
  BY HereNow
<1>2. /\ th' \in [Threads -> Thread]
      /\ \/ /\ th'[s] = At0("idle") /\ sess'[s].ctx = sess[s].ctx
            /\ leaked' = leaked
         \/ /\ th'[s].pc = "wait" /\ th'[s].card = 0 /\ th'[s].todo = {}
            /\ sess[s].ctx # 0 /\ sess'[s].ctx = 0
            /\ \A c \in Ids : leaked'[c] = leaked[c] + Uses(s, c)
         \/ /\ th'[s].pc = "select" /\ th'[s].card = th[s].card
            /\ th'[s].todo = th[s].todo /\ th'[s].next = "watch"
            /\ sess[s].ctx = 0 /\ sess'[s].ctx = 0 /\ leaked' = leaked
      /\ sess' \in [Sessions -> Session] /\ leaked' \in [Ids -> Nat]
      /\ sess'[s].live = sess[s].live
      /\ \A q \in Sessions \ {s} : sess'[q] = sess[q]
      /\ UNCHANGED <<card, listed, freed, working, lockedSession>>
      /\ th[s].pc = "sending"
      /\ \A q \in Threads \ {s} : th'[q] = th[q]
  <2> DEFINE e == sess[s].ctx
             q == [sess[s] EXCEPT !.removed = FALSE]
             f == [q EXCEPT !.ctx = 0]
             r == [th[s] EXCEPT !.pc = "select", !.next = "watch"]
  <2>1. /\ UNCHANGED <<card, listed, freed, working, lockedSession>>
        /\ th[s].pc = "sending"
    BY DEF SentFirst, At
  <2>2. leaked \in [Ids -> Nat] /\ \A c \in Ids : Uses(s, c) \in 0..1
    BY <1>1 DEF Here, TypeOK, Uses
  <2>3. /\ q \in Session /\ q.ctx = e /\ q.live = sess[s].live
        /\ f \in Session /\ f.ctx = 0 /\ f.live = sess[s].live
    BY <1>1 DEF Here, Session, Ctx
  <2>4. /\ r \in Thread /\ r.pc = "select" /\ r.next = "watch"
        /\ r.card = th[s].card /\ r.todo = th[s].todo
    BY <1>1 DEF Here, Thread, ListPcs
  <2>5. CASE IsLocked(s)
    <3>1. sess' = [sess EXCEPT ![s] = q] /\ Return(s) /\ leaked' = leaked
      BY <1>1, <2>5 DEF SentFirst
    <3> HIDE DEF q
    <3> QED
      BY <1>1, <2>1, <2>2, <2>3, <3>1, ReturnMoves DEF Here
  <2>6. CASE ~IsLocked(s) /\ e # 0
    <3>1. /\ sess' = [sess EXCEPT ![s] = f] /\ Watch(s, "first")
          /\ leaked' = [leaked EXCEPT ![e] = @ + 1]
      BY <1>1, <2>6 DEF SentFirst
    <3>2. e \in Ids
      BY <1>1, <2>6 DEF Here, Session, Ctx
    <3>3. /\ leaked' \in [Ids -> Nat]
          /\ \A c \in Ids : leaked'[c] = leaked[c] + Uses(s, c)
      BY <2>2, <3>1, <3>2 DEF Uses
    <3> HIDE DEF f, q
    <3> QED
      BY <1>1, <2>1, <2>3, <2>6, <3>1, <3>3, WatchMoves DEF Here
  <2>7. CASE ~IsLocked(s) /\ e = 0
    <3>1. /\ sess' = [sess EXCEPT ![s] = q] /\ th' = [th EXCEPT ![s] = r]
          /\ leaked' = leaked
      BY <1>1, <2>7 DEF SentFirst
    <3> HIDE DEF q, r
    <3> QED
      BY <1>1, <2>1, <2>2, <2>3, <2>4, <2>7, <3>1 DEF Here
  <2> QED
    BY <2>5, <2>6, <2>7
<1>3. TypeOK'
  BY <1>1, <1>2 DEF Here, TypeOK, SentFirst
<1>4. Apart(s) /\ Kept
  BY <1>1, <1>2 DEF Apart, Kept
<1>5. LocalOK(s)'
  BY <1>1, <1>2, IdsAssumption DEF Here, LocalOK, Known, AtCard, CardPcs, At0
<1>6. PhaseOK(s)'
  BY <1>1, <1>2 DEF Here, PhaseOK, Selecting, At0
<1>7. WorkOK(s)'
  BY <1>1, <1>2 DEF Here, WorkOK, Asks, At0
<1>8. LockerLives'
  BY <1>1, <1>2, <1>4 DEF Inv, TypeOK, LockerLives
<1>9. Cards' /\ RefsExact' /\ ContextListed'
  <2>1. ~Holds(s) /\ ~Holds(s)'
    BY <1>1, <1>2 DEF Holds, At0
  <2>2. ASSUME NEW c \in listed
        PROVE  card'[c].refs + Uses(s, c) + Keeps(s, c) + leaked[c]
                 = card[c].refs + Uses(s, c)' + Keeps(s, c)' + leaked'[c]
    <3>1. /\ c \in Ids /\ c # 0 /\ card[c].refs \in Nat
          /\ leaked[c] \in Nat
      BY <1>1, IdsAssumption DEF Here, TypeOK, Card
    <3>2. /\ Keeps(s, c) = 0 /\ Keeps(s, c)' = 0
          /\ Uses(s, c) \in 0..1
      BY <2>1 DEF Uses, Keeps
    <3>3. CASE sess'[s].ctx = sess[s].ctx /\ leaked' = leaked
      BY <1>2, <3>1, <3>2, <3>3 DEF Uses
    <3>4. CASE sess'[s].ctx = 0 /\ leaked'[c] = leaked[c] + Uses(s, c)
      <4>1. Uses(s, c)' = 0
        BY <3>1, <3>4 DEF Uses
      <4> QED
        BY <1>2, <3>1, <3>2, <3>4, <4>1
    <3> QED
      BY <1>2, <3>1, <3>3, <3>4
  <2>3. /\ sess'[s].ctx \in listed \cup {0}
        /\ \A c \in Ids : card'[c].token = card[c].token
        /\ \A c \in Ids \ listed : /\ card'[c].refs = card[c].refs
                                    /\ leaked'[c] = leaked[c]
        /\ UNCHANGED <<listed, freed>>
    <3>1. sess[s].ctx \in listed \cup {0} /\ sess'[s].ctx \in listed \cup {0}
      BY <1>1, <1>2 DEF Inv, ContextListed
    <3>2. ASSUME NEW c \in Ids \ listed
          PROVE  /\ Uses(s, c) = 0 /\ Uses(s, c)' = 0
                 /\ card[c].refs \in Nat /\ leaked[c] \in Nat
      BY <1>1, <3>1, IdsAssumption DEF Here, TypeOK, Card, Uses
    <3> QED
      BY <1>1, <1>2, <3>1, <3>2
  <2> QED
    BY <1>3, <1>4, <2>2, <2>3, Balanced
<1> QED
  BY <1>3, <1>4, <1>5, <1>6, <1>7, <1>8, <1>9, Framed DEF Inv

\* app_new_register: nobody has a reference to a context that was not yet
\* allocated.
LEMMA RegisterInv ==
  ASSUME Inv, NEW s \in Sessions, Register(s)
  PROVE  Inv'
<1>1. Here(s)
  BY HereNow
<1>2. PICK k \in plugged, c \in Ids :
        /\ card[c].token = None
        /\ card' = [card EXCEPT ![c].token = k]
        /\ listed' = listed \cup {c}
        /\ th' = [th EXCEPT ![s].todo = @ \cup {c}]
  BY DEF Register
<1>3. /\ th[s].pc = "scan"
      /\ UNCHANGED <<plugged, freed, locks, sess, lockedSession, touched,
                     leaked, working>>
  BY DEF Register, At, history
<1>4. c \notin listed /\ c \notin freed /\ c # 0
  BY <1>2, IdsAssumption DEF Inv, Cards, Known
<1>5. k \in Tokens /\ k # None
  BY <1>1, SerialsAssumption, NoneAssumption DEF Here, TypeOK
<1>6. /\ card' \in [Ids -> Card] /\ card'[c].token # None
      /\ card'[c].refs = card[c].refs
      /\ \A d \in Ids \ {c} : card'[d] = card[d]
  <2> DEFINE r == [card[c] EXCEPT !.token = k]
  <2>1. r \in Card /\ r.refs = card[c].refs /\ r.token = k
    BY <1>1, <1>5 DEF Here, TypeOK, Card
  <2>2. card' = [card EXCEPT ![c] = r] /\ card \in [Ids -> Card]
    BY <1>1, <1>2 DEF Here, TypeOK
  <2> HIDE DEF r
  <2> QED
    BY <1>5, <2>1, <2>2
<1>7. /\ th' \in [Threads -> Thread]
      /\ th'[s].pc = "scan" /\ th'[s].card = th[s].card
      /\ th'[s].todo = th[s].todo \cup {c} /\ th'[s].next = th[s].next
      /\ \A q \in Threads \ {s} : th'[q] = th[q]
  <2> DEFINE r == [th[s] EXCEPT !.todo = th[s].todo \cup {c}]
  <2>1. r \in Thread
    BY <1>1 DEF Here, Thread
  <2>2. th' = [th EXCEPT ![s] = r]
    BY <1>1, <1>2
  <2> QED
    BY <1>1, <1>3, <2>1, <2>2 DEF Here
<1>8. TypeOK'
  BY <1>1, <1>2, <1>3, <1>6, <1>7 DEF Here, TypeOK, locks
<1>9. Apart(s) /\ Kept
  BY <1>2, <1>3, <1>7 DEF Apart, Kept
<1>10. LocalOK(s)' /\ PhaseOK(s)' /\ WorkOK(s)'
  <2>1. LocalOK(s)'
    BY <1>1, <1>2, <1>3, <1>7 DEF Here, LocalOK, Known
  <2>2. PhaseOK(s)'
    BY <1>1, <1>3, <1>7 DEF Here, PhaseOK, Selecting
  <2>3. WorkOK(s)'
    BY <1>1, <1>3, <1>7 DEF Here, WorkOK, Asks, Selecting
  <2> QED
    BY <2>1, <2>2, <2>3
<1>11. LockerLives'
  BY <1>3 DEF Inv, LockerLives
<1>12. Cards'
  BY <1>2, <1>3, <1>6 DEF Inv, Cards, Known
<1>13. ContextListed'
  BY <1>2, <1>3 DEF Inv, ContextListed
<1>14. ASSUME NEW d \in Ids
       PROVE  Users(d)' = Users(d) /\ Holders(d)' = Holders(d)
  <2>1. Users(d)' = Users(d)
    BY <1>3 DEF Users
  <2>2. Holders(d)' = Holders(d)
    BY <1>3, <1>7 DEF Holders, Threads
  <2> QED
    BY <2>1, <2>2
<1>15. Users(c) = {} /\ Holders(c) = {}
  <2>1. Users(c) = {}
    BY <1>4 DEF Inv, ContextListed, Users
  <2>2. Holders(c) = {}
    BY <1>4 DEF Inv, LocalOK, Known, Holders, Threads
  <2> QED
    BY <2>1, <2>2
<1>16. card[c].refs = 0 /\ leaked[c] = 0
  BY <1>2 DEF Inv, Cards
<1>17. RefsExact'
  <2>1. c \in Ids /\ listed \subseteq Ids
    BY <1>1 DEF Here
  <2>2. card'[c].refs = Cardinality(Users(c)') + Cardinality(Holders(c)')
                          + leaked'[c]
    BY <1>3, <1>6, <1>14, <1>15, <1>16, FS_EmptySet
  <2>3. ASSUME NEW d \in listed
        PROVE  card'[d].refs = Cardinality(Users(d)')
                                 + Cardinality(Holders(d)') + leaked'[d]
    BY <1>3, <1>4, <1>6, <1>14, <2>1 DEF Inv, RefsExact
  <2> QED
    BY <1>2, <2>2, <2>3 DEF RefsExact
<1> QED
  BY <1>8, <1>9, <1>10, <1>11, <1>12, <1>13, <1>17, Framed DEF Inv

-----------------------------------------------------------------------------
(***************************************************************************)
(* Steps of the main loop, and of the user                                 *)
(***************************************************************************)
\* What a turn of the main loop may do to the sessions: wake one that
\* watches, take the current card away and say so.
LeavesSessions ==
  \A q \in Sessions :
    /\ \/ th'[q] = th[q]
       \/ th[q].pc = "watch" /\ th'[q] = [th[q] EXCEPT !.pc = "woken"]
    /\ \/ sess'[q] = sess[q]
       \/ /\ sess'[q].ctx = 0 /\ sess'[q].removed
          /\ sess'[q].live = sess[q].live

\* The main loop disturbs a session only by clearing its context.
LEMMA MainFramed ==
  ASSUME Inv, LeavesSessions, UNCHANGED <<working, lockedSession>>,
         Known \subseteq Known'
  PROVE  /\ \A q \in Sessions : LocalOK(q)' /\ PhaseOK(q)' /\ WorkOK(q)'
         /\ LockerLives'
         /\ \A c : Holders(c)' = Holders(c)
<1>1. ASSUME NEW q \in Sessions
      PROVE  /\ th'[q].card = th[q].card /\ th'[q].todo = th[q].todo
             /\ th'[q].next = th[q].next
             /\ \/ th'[q].pc = th[q].pc
                \/ th[q].pc = "watch" /\ th'[q].pc = "woken"
             /\ sess'[q].live = sess[q].live
             /\ \/ sess'[q] = sess[q]
                \/ sess'[q].ctx = 0 /\ sess'[q].removed
  <2>1. th[q] \in Thread
    BY DEF Inv, TypeOK, Threads
  <2> QED
    BY <2>1 DEF LeavesSessions, Thread
<1>2. ASSUME NEW q \in Sessions
      PROVE  LocalOK(q)' /\ PhaseOK(q)' /\ WorkOK(q)'
  <2>1. LocalOK(q) /\ PhaseOK(q) /\ WorkOK(q)
    BY DEF Inv, Threads
  <2>2. LocalOK(q)'
    BY <1>1, <2>1 DEF LocalOK, AtCard, CardPcs
  <2>3. PhaseOK(q)'
    BY <1>1, <2>1 DEF PhaseOK, Selecting
  <2>4. WorkOK(q)'
    BY <1>1, <2>1 DEF WorkOK, Asks, Selecting, Ending, Told
  <2> QED
    BY <2>2, <2>3, <2>4
<1>3. LockerLives'
  BY <1>1 DEF Inv, TypeOK, LockerLives
<1>4. \A c : Holders(c)' = Holders(c)
  BY <1>1 DEF Holders
<1> QED
  BY <1>2, <1>3, <1>4

\* The next card of the loop, or the end of it.
LEMMA CheckNextMoves ==
  ASSUME TypeOK, NEW reported \in BOOLEAN, CheckNext(reported)
  PROVE  /\ th' \in [Threads -> Thread]
         /\ \A q \in Sessions :
              \/ th'[q] = th[q]
              \/ th[q].pc = "watch" /\ th'[q] = [th[q] EXCEPT !.pc = "woken"]
         /\ \/ /\ th'[Main].pc = "check" /\ th'[Main].card \in th[Main].todo
               /\ th'[Main].todo = th[Main].todo \ {th'[Main].card}
            \/ th'[Main] = Turn
         /\ listLock' \in {listLock, None}
<1>1. Main \in Threads /\ th[Main] \in Thread
      /\ \A q \in Sessions : q \in Threads /\ q # Main
  BY MainAssumption DEF TypeOK, Threads
<1>2. ASSUME NEW c \in th[Main].todo,
             th' = [th EXCEPT ![Main] =
                      [pc |-> "check", card |-> c,
                       todo |-> th[Main].todo \ {c}, want |-> None,
                       next |-> IF reported THEN "reported"
                                ELSE th[Main].next]],
             UNCHANGED listLock
      PROVE  /\ th' \in [Threads -> Thread]
             /\ \A q \in Sessions : th'[q] = th[q]
             /\ th'[Main].pc = "check" /\ th'[Main].card \in th[Main].todo
             /\ th'[Main].todo = th[Main].todo \ {th'[Main].card}
  <2> DEFINE r == [pc |-> "check", card |-> c, todo |-> th[Main].todo \ {c},
                   want |-> None,
                   next |-> IF reported THEN "reported" ELSE th[Main].next]
  <2>1. r \in Thread
    BY <1>1 DEF Thread, CardPcs, Ctx
  <2>2. r.pc = "check" /\ r.card = c /\ r.todo = th[Main].todo \ {c}
    OBVIOUS
  <2>3. th' = [th EXCEPT ![Main] = r]
    BY <1>2
  <2> HIDE DEF r
  <2> QED
    BY <1>1, <2>1, <2>2, <2>3 DEF TypeOK
<1>3. ASSUME listLock' = None,
             th' = [t \in Threads |->
                      IF t = Main THEN Turn
                      ELSE IF th[t].pc = "watch"
                              /\ (reported \/ th[Main].next = "reported")
                           THEN [th[t] EXCEPT !.pc = "woken"]
                           ELSE th[t]]
      PROVE  /\ th' \in [Threads -> Thread]
             /\ \A q \in Sessions :
                  \/ th'[q] = th[q]
                  \/ /\ th[q].pc = "watch"
                     /\ th'[q] = [th[q] EXCEPT !.pc = "woken"]
             /\ th'[Main] = Turn
  <2>1. Turn \in Thread
    BY AtZero DEF Turn, Pcs, ListPcs
  <2>2. \A t \in Threads : [th[t] EXCEPT !.pc = "woken"] \in Thread
    BY DEF TypeOK, Thread, ListPcs
  <2> QED
    BY <1>1, <1>3, <2>1, <2>2 DEF TypeOK
<1> QED
  BY <1>2, <1>3 DEF CheckNext

\* The status check begins.
LEMMA PollInv ==
  ASSUME Inv, Poll
  PROVE  Inv'
<1>1. /\ Main \in Threads /\ th \in [Threads -> Thread]
      /\ listed \subseteq Ids /\ \A q \in Sessions : q \in Threads \ {Main}
  BY MainAssumption DEF Inv, TypeOK, Threads
<1>2. Loop(Main, "check") /\ listLock' = Main
      /\ UNCHANGED <<plugged, card, listed, freed, cardLock, sess,
                     lockedSession, touched, leaked, working>>
  BY DEF Poll, history
<1>3. /\ th' \in [Threads -> Thread]
      /\ th'[Main].pc = "check" /\ th'[Main].card \in listed
      /\ th'[Main].todo = listed \ {th'[Main].card}
      /\ \A q \in Threads \ {Main} : th'[q] = th[q]
  BY <1>1, <1>2, LoopMoves DEF Pcs, CardPcs
<1>4. TypeOK'
  BY <1>1, <1>2, <1>3 DEF Inv, TypeOK
<1>5. MainOK' /\ LocalOK(Main)'
  BY <1>1, <1>2, <1>3, IdsAssumption DEF MainOK, LocalOK, Known
<1>6. LeavesSessions /\ Known \subseteq Known'
  BY <1>1, <1>2, <1>3 DEF LeavesSessions, Known
<1>7. /\ \A q \in Sessions : LocalOK(q)' /\ PhaseOK(q)' /\ WorkOK(q)'
      /\ LockerLives' /\ \A c : Holders(c)' = Holders(c)
  BY <1>2, <1>6, MainFramed
<1>8. Cards' /\ ContextListed' /\ RefsExact'
  BY <1>2, <1>7 DEF Inv, Cards, Known, ContextListed, RefsExact, Users
<1> QED
  BY <1>4, <1>5, <1>7, <1>8 DEF Inv, Threads

\* It locks the next card.
LEMMA CheckInv ==
  ASSUME Inv, Check
  PROVE  Inv'
<1>1. /\ Main \in Threads /\ th \in [Threads -> Thread]
      /\ LocalOK(Main) /\ \A q \in Sessions : q \in Threads \ {Main}
  BY MainAssumption DEF Inv, TypeOK, Threads
<1>2. /\ Goto(Main, "status") /\ th[Main].pc = "check" /\ LockCard(Main)
      /\ UNCHANGED <<plugged, card, listed, freed, listLock, sess,
                     lockedSession, touched, leaked, working>>
  BY DEF Check, GetsCard, At, history
<1>3. /\ th' \in [Threads -> Thread]
      /\ th'[Main].pc = "status" /\ th'[Main].card = th[Main].card
      /\ th'[Main].todo = th[Main].todo
      /\ \A q \in Threads \ {Main} : th'[q] = th[q]
  BY <1>1, <1>2, GotoMoves DEF Pcs, IoPcs
<1>4. TypeOK'
  BY <1>1, <1>2, <1>3 DEF Inv, TypeOK, LockCard
<1>5. MainOK' /\ LocalOK(Main)'
  BY <1>1, <1>2, <1>3, IdsAssumption
     DEF Inv, MainOK, LocalOK, Known, AtCard, CardPcs
<1>6. LeavesSessions /\ Known \subseteq Known'
  BY <1>1, <1>2, <1>3 DEF LeavesSessions, Known
<1>7. /\ \A q \in Sessions : LocalOK(q)' /\ PhaseOK(q)' /\ WorkOK(q)'
      /\ LockerLives' /\ \A c : Holders(c)' = Holders(c)
  BY <1>2, <1>6, MainFramed
<1>8. Cards' /\ ContextListed' /\ RefsExact'
  BY <1>2, <1>7 DEF Inv, Cards, Known, ContextListed, RefsExact, Users
<1> QED
  BY <1>4, <1>5, <1>7, <1>8 DEF Inv, Threads

\* The loop goes on: its card leaves its local variable.
LEMMA LoopGoesOn ==
  ASSUME Inv, NEW reported \in BOOLEAN, CheckNext(reported),
         listed \ {th[Main].card} \subseteq listed', Known \subseteq Known'
  PROVE  MainOK' /\ LocalOK(Main)'
<1>1. /\ \/ /\ th'[Main].pc = "check" /\ th'[Main].card \in th[Main].todo
            /\ th'[Main].todo = th[Main].todo \ {th'[Main].card}
         \/ th'[Main] = Turn
  BY CheckNextMoves DEF Inv
<1>2. th[Main].todo \subseteq listed \ {th[Main].card}
  BY DEF Inv, MainOK
<1>3. CASE /\ th'[Main].pc = "check" /\ th'[Main].card \in th[Main].todo
           /\ th'[Main].todo = th[Main].todo \ {th'[Main].card}
  BY <1>2, <1>3, IdsAssumption DEF Inv, TypeOK, MainOK, LocalOK, Known
<1>4. CASE th'[Main] = Turn
  BY <1>4 DEF Turn, At0, MainOK, LocalOK, AtCard, CardPcs
<1> QED
  BY <1>1, <1>3, <1>4

\* It finds the card as it was.
LEMMA StillThereInv ==
  ASSUME Inv, StillThere
  PROVE  Inv'
<1> DEFINE d == th[Main].card
           r == [card[d] EXCEPT !.known = TRUE]
<1>1. /\ th[Main].pc = "status" /\ UnlockCard(Main)
      /\ UNCHANGED <<plugged, listed, freed, sess, lockedSession, touched,
                     leaked, working>>
  BY DEF StillThere, At, history
<1>2. d \in listed /\ d \in Ids /\ card \in [Ids -> Card]
  BY <1>1 DEF Inv, MainOK, TypeOK
<1>3. PICK reported \in BOOLEAN : CheckNext(reported)
  BY <1>2 DEF StillThere
<1>4. /\ card' \in [Ids -> Card]
      /\ \A c \in Ids : /\ card'[c].refs = card[c].refs
                        /\ card'[c].token = card[c].token
  <2>1. r \in Card /\ r.refs = card[d].refs /\ r.token = card[d].token
    BY <1>2 DEF Card
  <2>2. card' = card \/ card' = [card EXCEPT ![d] = r]
    BY <1>2 DEF StillThere
  <2> HIDE DEF r
  <2> QED
    BY <1>2, <2>1, <2>2
<1>5. /\ th' \in [Threads -> Thread]
      /\ \A q \in Sessions :
           \/ th'[q] = th[q]
           \/ th[q].pc = "watch" /\ th'[q] = [th[q] EXCEPT !.pc = "woken"]
      /\ listLock' \in {listLock, None}
  BY <1>3, CheckNextMoves DEF Inv
<1>6. TypeOK'
  BY <1>1, <1>4, <1>5 DEF Inv, TypeOK, UnlockCard
<1>7. MainOK' /\ LocalOK(Main)'
  <2>1. listed \ {th[Main].card} \subseteq listed' /\ Known \subseteq Known'
    BY <1>1 DEF Known
  <2> QED
    BY <1>3, <2>1, LoopGoesOn
<1>8. LeavesSessions /\ Known \subseteq Known'
  BY <1>1, <1>5 DEF LeavesSessions, Known
<1>9. /\ \A q \in Sessions : LocalOK(q)' /\ PhaseOK(q)' /\ WorkOK(q)'
      /\ LockerLives' /\ \A c : Holders(c)' = Holders(c)
  BY <1>1, <1>8, MainFramed
<1>10. Cards' /\ ContextListed'
  BY <1>1, <1>4 DEF Inv, Cards, Known, ContextListed
<1>11. \A c \in listed : Users(c)' = Users(c) /\ c \in Ids
  BY <1>1 DEF Inv, TypeOK, Users
<1>12. RefsExact'
  BY <1>1, <1>4, <1>9, <1>11 DEF Inv, RefsExact
<1> QED
  BY <1>6, <1>7, <1>9, <1>10, <1>12 DEF Inv, Threads

\* send_client_notifications and deallocate_card: the references of the
\* sessions go with the context, which is not less than there are.
LEMMA RemovalInv ==
  ASSUME Inv, Removal
  PROVE  Inv'
<1> DEFINE d == th[Main].card
           u == Cardinality(Users(d))
           r == [card[d] EXCEPT !.refs = card[d].refs - u]
<1>1. /\ th[Main].pc = "status" /\ UnlockCard(Main) /\ CheckNext(TRUE)
      /\ sess' = Notified(d)
      /\ listed' = listed \ {d} /\ freed' = freed \cup {d}
      /\ UNCHANGED <<plugged, lockedSession, touched, leaked, working>>
  BY DEF Removal, At, history
<1>2. d \in listed /\ d \in Ids /\ d # 0 /\ card \in [Ids -> Card]
  BY <1>1, IdsAssumption DEF Inv, MainOK, TypeOK
<1>3. card[d] \in Card /\ card[d].refs \in Nat /\ u \in Nat
      /\ card[d].refs - u \in Nat
  <2>1. card[d] \in Card /\ card[d].refs \in Nat /\ leaked[d] \in Nat
    BY <1>2 DEF Card, Inv, TypeOK
  <2>2. Users(d) \in SUBSET Sessions /\ Holders(d) \in SUBSET Sessions
    BY DEF Users, Holders
  <2>3. u \in Nat /\ Cardinality(Holders(d)) \in Nat
    BY <2>2, Counted
  <2>4. card[d].refs = u + Cardinality(Holders(d)) + leaked[d]
    BY <1>2 DEF Inv, RefsExact
  <2> QED
    BY <2>1, <2>3, <2>4
<1>4. /\ card' \in [Ids -> Card] /\ card'[d].token = card[d].token
      /\ \A c \in Ids \ {d} : card'[c] = card[c]
  <2>1. r \in Card /\ r.token = card[d].token
    BY <1>3 DEF Card
  <2>2. card' = [card EXCEPT ![d] = r]
    BY <1>2 DEF Removal
  <2> HIDE DEF r
  <2> QED
    BY <1>2, <2>1, <2>2
<1>5. /\ th' \in [Threads -> Thread]
      /\ \A q \in Sessions :
           \/ th'[q] = th[q]
           \/ th[q].pc = "watch" /\ th'[q] = [th[q] EXCEPT !.pc = "woken"]
      /\ listLock' \in {listLock, None}
  BY <1>1, CheckNextMoves DEF Inv
<1>6. /\ sess' \in [Sessions -> Session]
      /\ \A q \in Sessions :
           \/ sess'[q] = sess[q] /\ sess[q].ctx # d
           \/ /\ sess[q].ctx = d /\ sess'[q].ctx = 0 /\ sess'[q].removed
              /\ sess'[q].live = sess[q].live
  <2>1. ASSUME NEW q \in Sessions
        PROVE  /\ [sess[q] EXCEPT !.ctx = 0, !.removed = TRUE] \in Session
               /\ [sess[q] EXCEPT !.ctx = 0, !.removed = TRUE].ctx = 0
               /\ [sess[q] EXCEPT !.ctx = 0, !.removed = TRUE].removed
               /\ [sess[q] EXCEPT !.ctx = 0, !.removed = TRUE].live
                    = sess[q].live
    BY DEF Inv, TypeOK, Session, Ctx
  <2>2. ASSUME NEW q \in Sessions
        PROVE  \/ sess'[q] = sess[q] /\ sess[q].ctx # d
               \/ /\ sess[q].ctx = d
                  /\ sess'[q] = [sess[q] EXCEPT !.ctx = 0, !.removed = TRUE]
    BY <1>1 DEF Notified, Users
  <2>3. sess' \in [Sessions -> Session]
    BY <1>1, <2>1 DEF Notified, Inv, TypeOK
  <2> QED
    BY <2>1, <2>2, <2>3
<1>7. TypeOK'
  BY <1>1, <1>2, <1>4, <1>5, <1>6 DEF Inv, TypeOK, UnlockCard
<1>8. MainOK' /\ LocalOK(Main)'
  <2>1. listed \ {th[Main].card} \subseteq listed' /\ Known \subseteq Known'
    BY <1>1 DEF Known
  <2> QED
    BY <1>1, <2>1, LoopGoesOn
<1>9. LeavesSessions /\ Known \subseteq Known'
  BY <1>1, <1>5, <1>6 DEF LeavesSessions, Known
<1>10. /\ \A q \in Sessions : LocalOK(q)' /\ PhaseOK(q)' /\ WorkOK(q)'
       /\ LockerLives' /\ \A c : Holders(c)' = Holders(c)
  BY <1>1, <1>9, MainFramed
<1>11. Cards'
  BY <1>1, <1>2, <1>4 DEF Inv, Cards, Known
<1>12. ContextListed'
  BY <1>1, <1>6 DEF Inv, ContextListed
<1>13. ASSUME NEW c \in listed'
       PROVE  /\ c \in Ids /\ c # d /\ c \in listed
              /\ Users(c)' = Users(c)
  <2>1. c \in Ids /\ c # d /\ c \in listed /\ c # 0
    BY <1>1, IdsAssumption DEF Inv, TypeOK
  <2> QED
    BY <1>6, <2>1 DEF Users
<1>14. RefsExact'
  BY <1>1, <1>4, <1>10, <1>13 DEF Inv, RefsExact
<1> QED
  BY <1>7, <1>8, <1>10, <1>11, <1>12, <1>14 DEF Inv, Threads

\* The user, and a thread that touches a released context.
LEMMA PullInv ==
  ASSUME Inv, NEW k \in Tokens, Pull(k)
  PROVE  Inv'
<1>1. /\ card' = [c \in Ids |-> [card[c] EXCEPT
                     !.dead = @ \/ card[c].token = k]]
      /\ plugged' \subseteq Tokens
      /\ UNCHANGED <<listed, freed, locks, sess, lockedSession, th, touched,
                     leaked, working>>
  BY DEF Pull, Inv, TypeOK, history
<1>2. ASSUME NEW c \in Ids
      PROVE  /\ card'[c] \in Card /\ card'[c].refs = card[c].refs
             /\ card'[c].token = card[c].token
  <2>1. card[c] \in Card /\ card[c].dead \in BOOLEAN
    BY DEF Inv, TypeOK, Card
  <2> QED
    BY <1>1, <2>1 DEF Card
<1>3. card' \in [Ids -> Card]
  BY <1>1, <1>2
<1>4. TypeOK'
  BY <1>1, <1>3 DEF Inv, TypeOK, locks
<1>5. Cards'
  BY <1>1, <1>2 DEF Inv, Cards, Known
<1>6. RefsExact'
  BY <1>1, <1>2, ZenonT(40) DEF Inv, TypeOK, RefsExact, Users, Holders
<1>7. ContextListed' /\ MainOK' /\ LockerLives'
  BY <1>1 DEF Inv, ContextListed, MainOK, LockerLives
<1>8. \A t \in Threads : LocalOK(t)'
  BY <1>1 DEF Inv, LocalOK, Known
<1>9. \A q \in Sessions : PhaseOK(q)' /\ WorkOK(q)'
  BY <1>1 DEF Inv, PhaseOK, WorkOK, Selecting, Asks, Ending, Told
<1> QED
  BY <1>4, <1>5, <1>6, <1>7, <1>8, <1>9 DEF Inv

\* The invariant is about these variables only.
LEMMA Untouched ==
  ASSUME Inv, UNCHANGED <<card, listed, freed, locks, sess, lockedSession,
                          th, history>>,
         plugged' \subseteq Tokens, touched' \in BOOLEAN
  PROVE  Inv'
<1>1. TypeOK'
  BY DEF Inv, TypeOK, locks, history
<1>2. Cards' /\ RefsExact'
  BY DEF Inv, Cards, RefsExact, Known, Users, Holders, history
<1>3. ContextListed' /\ MainOK' /\ LockerLives'
  BY DEF Inv, ContextListed, MainOK, LockerLives
<1>4. \A t \in Threads : LocalOK(t)'
  BY DEF Inv, LocalOK, Known
<1>5. \A q \in Sessions : PhaseOK(q)' /\ WorkOK(q)'
  BY DEF Inv, PhaseOK, WorkOK, Selecting, Asks, Ending, Told, history
<1> QED
  BY <1>1, <1>2, <1>3, <1>4, <1>5 DEF Inv

\* Removals, insertions and stutters.
LEMMA UntouchedSteps ==
  ASSUME Inv,
         \/ \E t \in Threads : Touch(t)
         \/ \E k \in Tokens : Plug(k)
         \/ UNCHANGED vars
  PROVE  Inv'
<1>1. CASE \E t \in Threads : Touch(t)
  BY <1>1, Untouched DEF Touch, Inv, TypeOK
<1>2. CASE \E k \in Tokens : Plug(k)
  BY <1>2, Untouched DEF Plug, Inv, TypeOK
<1>3. CASE UNCHANGED vars
  BY <1>3, Untouched DEF vars, Inv, TypeOK
<1> QED
  BY <1>1, <1>2, <1>3

-----------------------------------------------------------------------------
(***************************************************************************)
(* The invariant holds                                                     *)
(***************************************************************************)
\* There are no cards and no sessions at the beginning.
LEMMA InitInv == Init => Inv
<1> SUFFICES ASSUME Init
             PROVE  Inv
  OBVIOUS
<1>1. TypeOK
  <2>1. Turn \in Thread /\ Rest \in Thread
    BY AtZero DEF Turn, Rest, Pcs, ListPcs, RestPcs
  <2>2. th \in [Threads -> Thread]
    BY <2>1 DEF Init
  <2>3. card \in [Ids -> Card] /\ sess \in [Sessions -> Session]
    BY DEF Init, Card, Session, Ctx
  <2> QED
    BY <2>2, <2>3 DEF Init, TypeOK, Ctx
<1>2. Cards /\ RefsExact /\ ContextListed /\ LockerLives
  BY DEF Init, Cards, RefsExact, ContextListed, LockerLives, Known
<1>3. MainOK
  BY DEF Init, MainOK, Threads, Turn, At0
<1>4. \A t \in Threads : LocalOK(t)
  BY DEF Init, LocalOK, Turn, Rest, At0, AtCard, CardPcs
<1>5. \A s \in Sessions : PhaseOK(s) /\ WorkOK(s)
  BY MainAssumption DEF Init, PhaseOK, WorkOK, Selecting, Threads, Rest, At0
<1> QED
  BY <1>1, <1>2, <1>3, <1>4, <1>5 DEF Inv

\* Every step keeps the invariant: one lemma per action.
LEMMA NextInv == Inv /\ [Next]_vars => Inv'
<1> SUFFICES ASSUME Inv, [Next]_vars
             PROVE  Inv'
  OBVIOUS
<1>1. ASSUME NEW s \in Sessions, Starts(s)
      PROVE  Inv'
  BY <1>1, UseInv, DirectInv, SerialnoAppInv, SwitchcardInv, SerialnoInv,
     ResetInv, RestartInv, ByeInv, LockInv, UnlockInv, DevinfoInv DEF Starts
<1>2. ASSUME NEW s \in Sessions, Goes(s)
      PROVE  Inv'
  <2>1. s \in Threads
    BY DEF Threads
  <2> QED
    BY <1>2, <2>1, SelectInv, RegisterInv, ScanEndInv, ScanFailsInv,
       PickOtherInv, PickFailsInv, PickInv, PickForgottenInv, OpStartInv,
       OpEndInv, FindInv, LookInv, LookedNextInv, FoundInv, RefInv, UnrefInv,
       SwitchInv, ResetStartInv, ResetSentInv, SleptInv, LockRetryInv,
       SendDevinfoInv, SentFirstInv, SentAgainInv, WaitInv, WokenInv,
       UntouchedSteps DEF Goes
<1>3. ASSUME MainLoop
      PROVE  Inv'
  <2>1. Main \in Threads
    BY DEF Threads
  <2> QED
    BY <1>3, <2>1, PollInv, CheckInv, StillThereInv, RemovalInv, UntouchedSteps
       DEF MainLoop
<1>4. ASSUME NEW k \in Tokens, Plug(k) \/ Pull(k)
      PROVE  Inv'
  BY <1>4, PullInv, UntouchedSteps
<1>5. CASE UNCHANGED vars
  BY <1>5, UntouchedSteps
<1> QED
  BY <1>1, <1>2, <1>3, <1>4, <1>5 DEF Next

\* The inductive invariant holds in every reachable state of scd/app.c and
\* scd/command.c as modelled.
THEOREM InvHolds == Spec => []Inv
<1>1. Init => Inv
  BY InitInv
<1>2. Inv /\ [Next]_vars => Inv'
  BY NextInv
<1> QED
  BY <1>1, <1>2, PTL DEF Spec

\* The variables have their types: a reference count is never negative,
\* which is where card_unref calls log_bug.
THEOREM TypeCorrect == Spec => []TypeOK
<1>1. Inv => TypeOK
  BY DEF Inv
<1> QED
  BY <1>1, InvHolds, PTL

\* ref_count of a card on the list is the number of sessions that have it as
\* their current card or hold it otherwise, and of what DEVINFO forgot:
\* select_application, card_ref, card_unref, app_switch_current_card and
\* deallocate_card agree, whatever the order of their steps.
THEOREM CountsExact == Spec => []RefsExact
<1>1. Inv => RefsExact
  BY DEF Inv
<1> QED
  BY <1>1, InvHolds, PTL

\* The current card of a session is on the list at card_top.
THEOREM ContextOnList == Spec => []ContextListed
<1>1. Inv => ContextListed
  BY DEF Inv
<1> QED
  BY <1>1, InvHolds, PTL

\* An operation uses the context of the one before it, unless the client
\* asked for another card.
THEOREM CardNotReplaced == Spec => []SameCard
<1>1. Inv => SameCard
  BY DEF Inv, WorkOK, SameCard
<1> QED
  BY <1>1, InvHolds, PTL

\* The session that holds LOCK is alive.
THEOREM LockNotOrphaned == Spec => []LockerLives
<1>1. Inv => LockerLives
  BY DEF Inv
<1> QED
  BY <1>1, InvHolds, PTL
=============================================================================
