----------------------------- MODULE AgentCache -----------------------------
(***************************************************************************)
(* The passphrase cache of gpg-agent: agent/cache.c.                       *)
(*                                                                         *)
(* The cache is a list, newest slot first, whose slots are looked up by    *)
(* key, restriction of the connection and, for some modes only, by mode.   *)
(* A slot outlives its data: data expires, is deleted or flushed, and the  *)
(* empty slot is removed after half an hour.  cache_lock serialises every  *)
(* operation, so an operation is one step, with one exception: a lookup of *)
(* "the last stored key" uses last_stored_cache_key, which is written      *)
(* without the lock, and housekeeping gives way to other threads when it   *)
(* frees data.  Time is counted in units of the instance's choice.         *)
(***************************************************************************)
EXTENDS Integers

CONSTANTS
  Puts,          \* the [key, restricted, mode] combinations callers store with,
  Gets,          \* look up with
  Clears,        \* and delete with
  Values,        \* what callers store
  TTLs,          \* what callers ask for; 0: the default, -1: for ever
  DefTTL,        \* opt.def_cache_ttl
  DefTTLSsh,     \* opt.def_cache_ttl_ssh
  DefTTLData,    \* DEF_CACHE_TTL_DATA
  MaxTTL,        \* opt.max_cache_ttl
  MaxTTLSsh,     \* opt.max_cache_ttl_ssh
  SlotTTL,       \* the 30 minutes of housekeeping
  StartClock,    \* the time at which the agent starts
  MaxClock,      \* bound: the time at which the model stops
  MaxSeq,        \* bound: the largest sequence number of a slot
  Failures,      \* whether allocation and encryption may fail
  NoData, None

Modes == {"IGNORE", "ANY", "NORMAL", "USER", "SSH", "NONCE", "PIN", "DATA"}
Calls == Puts \cup Gets \cup Clears
Keys == {c.key : c \in Calls}
Restrictions == {c.restricted : c \in Calls}

\* unprotect (findkey.c) stores hits for key grips only.
HitKeys == {c.key : c \in {d \in Gets : d.mode \in {"NORMAL", "SSH"}}}

ASSUME CacheAssumption ==
  /\ \A c \in Calls : c = [key |-> c.key, restricted |-> c.restricted,
                           mode |-> c.mode] /\ c.mode \in Modes
  /\ TTLs \subseteq Nat \cup {-1}
  /\ {DefTTL, DefTTLSsh, DefTTLData, MaxTTL, MaxTTLSsh, SlotTTL} \subseteq Nat
  /\ {StartClock, MaxClock, MaxSeq} \subseteq Nat
  /\ Failures \in BOOLEAN
  /\ NoData \notin Values /\ None \notin Keys

VARIABLES
  clock,     \* gnupg_get_time
  thecache,  \* the slots; seq grows with each insertion, so the newest slot,
             \* the head of the list, has the largest seq
  last,      \* last_stored_cache_key or None
  lookup,    \* an agent_get_cache (NULL) that gave way, or None
  served,    \* what agent_get_cache returned in the last step, or None
  latest     \* history: what callers last did for a key and restriction

vars == <<clock, thecache, last, lookup, served, latest>>

Slot == [key : Keys, restricted : Restrictions, mode : Modes, seq : 0..MaxSeq,
         created : Nat, accessed : Nat, ttl : Nat \cup {-1},
         pw : Values \cup {NoData}]

\* since: when the lookup did its housekeeping; live: its key string has not
\* been freed meanwhile.
Lookup == [key : Keys, restricted : Restrictions, mode : Modes, since : Nat,
           live : BOOLEAN]

\* slot: the slot of the hit as it was before the hit refreshed it; at: the
\* time of the housekeeping that preceded the search.
Answer == [call : [key : Keys, restricted : Restrictions, mode : Modes],
           slot : Slot, at : Nat]

\* What the last put stored, in which mode and when, unless it failed or a
\* delete has reached it since.
Change == [pw : Values \cup {NoData}, mode : Modes, at : Nat]

Nothing == [pw |-> NoData, mode |-> "ANY", at |-> 0]

TypeOK ==
  /\ clock \in Nat
  /\ thecache \subseteq Slot
  /\ last \in Keys \cup {None}
  /\ lookup \in Lookup \cup {None}
  /\ served \in Answer \cup {None}
  /\ latest \in [Keys \X Restrictions -> Change]

Init ==
  /\ clock = StartClock
  /\ thecache = {}
  /\ last = None
  /\ lookup = None
  /\ served = None
  /\ latest = [x \in Keys \X Restrictions |-> Nothing]

-----------------------------------------------------------------------------
(* housekeeping *)

Idle(r) == r.mode # "PIN" /\ r.ttl >= 0 /\ r.accessed + r.ttl < clock

MaxAge(mode) == IF mode = "SSH" THEN MaxTTLSsh ELSE MaxTTL

Aged(r) == r.mode \notin {"DATA", "PIN"} /\ r.created + MaxAge(r.mode) < clock

\* Data that was not used for its TTL, or is older than any use allows, goes.
Expire(r) ==
  IF r.pw # NoData /\ (Idle(r) \/ Aged(r))
    THEN [r EXCEPT !.pw = NoData, !.accessed = clock] ELSE r

\* An empty slot goes when it was not used for 30 minutes.
Unused(r) == r.pw = NoData /\ r.ttl >= 0 /\ r.accessed + SlotTTL < clock

Housekept == {r \in {Expire(s) : s \in thecache} : ~Unused(r)}

\* agent_cache_housekeeping, called by the agent's timer.
Housekeeping ==
  /\ lookup = None
  /\ thecache' = Housekept
  /\ served' = None
  /\ UNCHANGED <<clock, last, lookup, latest>>

-----------------------------------------------------------------------------
(* Lookup of slots *)

cache_mode_equal(a, b) ==
  \/ a = "ANY" /\ b \notin {"IGNORE", "DATA"}
  \/ b = "ANY" /\ a \notin {"IGNORE", "DATA"}
  \/ a = b

\* Bug: slots are told apart by their mode.
MatchesMode(r, c) ==
  r.key = c.key /\ r.restricted = c.restricted /\ r.mode = c.mode

\* The mode of a slot matters for USER and NONCE only, and a PIN is found by
\* its key alone.
Matches(r, c) ==
  /\ r.key = c.key
  /\ c.mode # "PIN" =>
       /\ r.restricted = c.restricted
       /\ c.mode \in {"USER", "NONCE"} => cache_mode_equal(r.mode, c.mode)

\* The first slot of the list that is in S.
First(S) == CHOOSE r \in S : \A s \in S : s.seq <= r.seq

\* A sequence number for a slot that becomes the head of the list.
NextSeq(S) == IF S = {} THEN 0 ELSE First(S).seq + 1

-----------------------------------------------------------------------------
(* agent_put_cache *)

EffectiveTTL(mode, ttl) ==
  IF ttl # 0 THEN ttl
  ELSE CASE mode = "SSH"  -> DefTTLSsh
         [] mode = "DATA" -> DefTTLData
         [] mode = "PIN"  -> -1
         [] OTHER         -> DefTTL

Outcomes == IF Failures THEN BOOLEAN ELSE {TRUE}

\* The caller's put in the history.
Record(c, v, ok) ==
  latest' = [latest EXCEPT ![<<c.key, c.restricted>>] =
               IF ok THEN [pw |-> v, mode |-> c.mode, at |-> clock]
                     ELSE Nothing]

\* A delete in USER or NONCE mode is for what was stored in that mode.
Reaches(c, l) ==
  c.mode \in {"USER", "NONCE"} => cache_mode_equal(l.mode, c.mode)

\* The caller's delete in the history.
RecordClear(c) ==
  latest' = [latest EXCEPT ![<<c.key, c.restricted>>] =
               IF Reaches(c, @) THEN Nothing ELSE @]

\* Bug: a failing new_data leaves the old data of the slot in place.
RefillKeepsOld(r, c, v, ttl, ok) ==
  IF ok THEN [r EXCEPT !.mode = c.mode, !.ttl = ttl, !.created = clock,
                       !.accessed = clock, !.pw = v]
        ELSE r

\* The slot r with new data v, or emptied if new_data failed.
Refill(r, c, v, ttl, ok) ==
  [r EXCEPT !.mode = c.mode, !.ttl = ttl, !.created = clock,
            !.accessed = clock, !.pw = IF ok THEN v ELSE NoData]

\* Housekeeping, then replace the first matching slot or insert a new head.
Put(c, v, ttl) ==
  /\ lookup = None
  /\ LET S == Housekept
         M == {r \in S : Matches(r, c)}
         t == EffectiveTTL(c.mode, ttl)
         new == [key |-> c.key, restricted |-> c.restricted, mode |-> c.mode,
                 seq |-> NextSeq(S), created |-> clock, accessed |-> clock,
                 ttl |-> t, pw |-> v]
     IN IF t = 0 \/ c.mode = "IGNORE"
          THEN thecache' = S /\ UNCHANGED latest
          ELSE \E ok \in Outcomes :
                 /\ M = {} => NextSeq(S) <= MaxSeq
                 /\ thecache' =
                      IF M # {}
                        THEN (S \ {First(M)}) \cup
                               {Refill(First(M), c, v, t, ok)}
                        ELSE S \cup (IF ok THEN {new} ELSE {})
                 /\ Record(c, v, ok)
  /\ served' = None
  /\ UNCHANGED <<clock, last, lookup>>

\* DATA is NULL: empty the first matching slot.
Clear(c) ==
  /\ lookup = None
  /\ LET S == Housekept
         M == {r \in S : Matches(r, c)}
     IN thecache' =
          IF M = {} \/ c.mode = "IGNORE" THEN S
          ELSE (S \ {First(M)}) \cup {[First(M) EXCEPT !.pw = NoData]}
  /\ IF c.mode = "IGNORE" THEN UNCHANGED latest ELSE RecordClear(c)
  /\ served' = None
  /\ UNCHANGED <<clock, last, lookup>>

-----------------------------------------------------------------------------
(* agent_get_cache *)

\* Bug: a hit prolongs the life of the value as well.
RefreshedAll(r) ==
  IF r.mode = "DATA" THEN r
                     ELSE [r EXCEPT !.accessed = clock, !.created = clock]

\* A hit on the slot r puts off its expiry, but for DATA items.
Refreshed(r) == IF r.mode = "DATA" THEN r ELSE [r EXCEPT !.accessed = clock]

\* Serve the first matching slot of S that has data.  A hit refreshes the
\* slot even if the decryption then fails.
SearchIn(S, c, since) ==
  LET M == {r \in S : r.pw # NoData /\ Matches(r, c)}
      r == First(M)
  IN IF M = {}
       THEN thecache' = S /\ served' = None
       ELSE /\ thecache' = (S \ {r}) \cup {Refreshed(r)}
            /\ \E ok \in Outcomes :
                 served' = IF ok THEN [call |-> c, slot |-> r, at |-> since]
                                 ELSE None

Get(c) ==
  /\ lookup = None /\ c.mode # "IGNORE"
  /\ SearchIn(Housekept, c, clock)
  /\ UNCHANGED <<clock, last, lookup, latest>>

\* KEY is NULL: take the pointer last_stored_cache_key and do the
\* housekeeping.  It gives way to other threads if it frees something.
\* unprotect does this in NORMAL mode only.
GetLast(c) ==
  /\ lookup = None /\ c.mode = "NORMAL" /\ last # None
  /\ LET k == [c EXCEPT !.key = last] IN
     IF Housekept = thecache
       THEN SearchIn(thecache, k, clock) /\ UNCHANGED lookup
       ELSE /\ lookup' = [key |-> last, restricted |-> c.restricted,
                          mode |-> c.mode, since |-> clock, live |-> TRUE]
            /\ thecache' = Housekept
            /\ served' = None
  /\ UNCHANGED <<clock, last, latest>>

\* The search compares the slots with the string the pointer refers to; if
\* it has been freed the comparison may come out either way.
GetLastSearch ==
  /\ lookup # None
  /\ \E k \in IF lookup.live THEN {lookup.key} ELSE Keys :
       LET c == [key |-> k, restricted |-> lookup.restricted,
                 mode |-> lookup.mode]
       IN SearchIn(thecache, c, lookup.since)
  /\ lookup' = None
  /\ UNCHANGED <<clock, last, latest>>

\* agent_store_cache_hit does not take cache_lock; it frees the old string.
StoreHit(k) ==
  /\ last' = k
  /\ lookup' = IF lookup = None THEN None ELSE [lookup EXCEPT !.live = FALSE]
  /\ served' = None
  /\ UNCHANGED <<clock, thecache, latest>>

-----------------------------------------------------------------------------
(* agent_flush_cache; accessed = 0 lets the empty slots go soon. *)

FlushSlot(r, pincache_only) ==
  IF r.pw # NoData /\ (pincache_only => r.mode = "PIN")
    THEN [r EXCEPT !.pw = NoData, !.accessed = 0] ELSE r

Flush(pincache_only) ==
  /\ lookup = None
  /\ thecache' = {FlushSlot(r, pincache_only) : r \in thecache}
  /\ served' = None
  /\ UNCHANGED <<clock, last, lookup, latest>>

Tick ==
  /\ clock < MaxClock
  /\ clock' = clock + 1
  /\ served' = None
  /\ UNCHANGED <<thecache, last, lookup, latest>>

Next ==
  \/ Housekeeping \/ GetLastSearch \/ Tick
  \/ \E b \in BOOLEAN : Flush(b)
  \/ \E k \in HitKeys : StoreHit(k)
  \/ \E c \in Gets : Get(c) \/ GetLast(c)
  \/ \E c \in Puts, v \in Values, ttl \in TTLs : Put(c, v, ttl)
  \/ \E c \in Clears : Clear(c)

Spec == Init /\ [][Next]_vars

-----------------------------------------------------------------------------
(* Properties *)

\* At time t the slot r is within its TTL and within the configured maximum.
Fresh(r, t) ==
  /\ r.mode # "PIN" /\ r.ttl >= 0 => t <= r.accessed + r.ttl
  /\ r.mode \notin {"PIN", "DATA"} => t <= r.created + MaxAge(r.mode)

\* What callers did last for the key and restriction of the slot r.
LatestFor(r) == latest[<<r.key, r.restricted>>]

\* agent_get_cache never returns data that was idle for longer than its TTL
\* or that, but for PINs and DATA items, was stored longer ago than the
\* configured maximum: neither hits nor a missed timer prolong that life.
ServedIsFresh ==
  served # None =>
    /\ Fresh(served.slot, served.at)
    /\ /\ served.slot.mode \notin {"PIN", "DATA"}
       /\ LatestFor(served.slot).pw # NoData
       => served.at <= LatestFor(served.slot).at + MaxAge(served.slot.mode)

\* agent_get_cache returns what was stored last for the key by a connection
\* with the same restriction, or nothing: a value that was replaced, that
\* failed to be stored, or that a delete reached, does not come back.  (A
\* delete in USER mode reaches what was stored in USER or ANY mode.)
ServedIsLatest ==
  [][\A c \in Gets :
       Get(c) /\ served' # None =>
         served'.slot.pw = latest[<<c.key, c.restricted>>].pw]_vars

\* How the agent's commands store and look up: what is a cache id of USER
\* mode or a nonce is no key grip and no name of data, and PINs are handled
\* without a connection, so without a restriction, under keys of their own.
\* Deletes may be in any mode: gpg-preset-passphrase --forget deletes a key
\* grip in USER mode.
KeysApart ==
  /\ \A c \in Puts \cup Gets, d \in Puts :
       /\ c.key = d.key /\ d.mode # "IGNORE"
       /\ c.mode \in {"USER", "NONCE"}
       => cache_mode_equal(d.mode, c.mode)
  /\ \A c, d \in Calls :
       c.key = d.key /\ c.mode = "PIN" => d.restricted = c.restricted

\* At most one slot can answer for a key and a restriction, although slots
\* are found without regard to their mode: a put replaces what another mode
\* has stored.
OneSlotPerKey ==
  \A r, s \in thecache : r.key = s.key /\ r.restricted = s.restricted => r = s

=============================================================================
