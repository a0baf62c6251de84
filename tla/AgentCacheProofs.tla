-------------------------- MODULE AgentCacheProofs --------------------------
(***************************************************************************)
(* The passphrase cache never serves data past its life time: for all      *)
(* configured TTLs, keys and callers.  If no string is stored and looked   *)
(* up for two kinds of secrets, it serves what was stored last and has not *)
(* been deleted in its mode.                                               *)
(***************************************************************************)
EXTENDS AgentCache, WellFoundedInduction, TLAPS

\* A lookup that gave way to other threads finds nothing that its own
\* housekeeping would have expired: cache_lock keeps all other users out.
LookupSeesFresh ==
  lookup # None =>
    \A r \in thecache : r.pw # NoData => Fresh(r, lookup.since)

\* A slot is no newer than the put, with the entry l of the history, that
\* filled it: a hit does not make it younger.
DatedBy(r, l, t) ==
  /\ r.created <= t
  /\ (r.mode # "PIN" /\ l.pw # NoData) => r.created <= l.at

Entry(l, r) == l[<<r.key, r.restricted>>]

DatedIn(S, l, t) == \A r \in S : DatedBy(r, Entry(l, r), t)

Dated == DatedIn(thecache, latest, clock)

IndInv == TypeOK /\ LookupSeesFresh /\ ServedIsFresh /\ Dated

-----------------------------------------------------------------------------

\* Every nonempty set of natural numbers has a least element.
LEMMA LeastNatural ==
  ASSUME NEW T, T \subseteq Nat, T # {}
  PROVE  \E x \in T : \A y \in T : x <= y
<1>1. PICK x \in T : \A y \in T : ~(<<y, x>> \in OpToRel(<, Nat))
  BY NatLessThanWellFounded, WFMin, Zenon
<1>2. \A y \in T : ~(y < x)
  BY <1>1 DEF OpToRel
<1> QED
  BY <1>2

\* The search loops of agent_put_cache and agent_get_cache find a slot of
\* the list whenever one matches.
LEMMA FirstIsMember ==
  ASSUME NEW S, S \subseteq Slot, S # {}
  PROVE  First(S) \in S
<1> DEFINE T == {MaxSeq - r.seq : r \in S}
<1>1. MaxSeq \in Nat /\ \A r \in S : r.seq \in 0..MaxSeq
  BY CacheAssumption DEF Slot
<1>2. T \subseteq Nat /\ T # {}
  BY <1>1
<1>3. PICK x \in T : \A y \in T : x <= y
  BY <1>2, LeastNatural, Zenon
<1>4. PICK r \in S : x = MaxSeq - r.seq
  BY <1>3
<1>5. \A s \in S : s.seq <= r.seq
  BY <1>1, <1>3, <1>4
<1> QED
  BY <1>4, <1>5 DEF First

\* What housekeeping leaves are slots, and none holds data past its time.
LEMMA HousekeptIsFresh ==
  ASSUME TypeOK
  PROVE  /\ Housekept \subseteq Slot
         /\ \A r \in Housekept : r.pw # NoData => Fresh(r, clock)
<1> SUFFICES ASSUME NEW s \in thecache
             PROVE  /\ Expire(s) \in Slot
                    /\ Expire(s).pw # NoData => Fresh(Expire(s), clock)
  BY DEF Housekept
<1>1. s \in Slot /\ clock \in Nat
  BY DEF TypeOK
<1>2. Expire(s) \in Slot
  BY <1>1 DEF Expire, Slot
<1>3. ASSUME s.pw # NoData, ~Idle(s), ~Aged(s) PROVE Fresh(s, clock)
  BY <1>1, <1>3, CacheAssumption DEF Idle, Aged, MaxAge, Fresh, Slot
<1>4. Expire(s).pw # NoData =>
        Expire(s) = s /\ s.pw # NoData /\ ~Idle(s) /\ ~Aged(s)
  BY <1>1 DEF Expire, Slot
<1> QED
  BY <1>2, <1>3, <1>4

\* Slots that housekeeping leaves are as old as they were.
LEMMA HousekeptDated ==
  ASSUME TypeOK, Dated
  PROVE  DatedIn(Housekept, latest, clock)
<1> SUFFICES ASSUME NEW s \in thecache
             PROVE  DatedBy(Expire(s), Entry(latest, Expire(s)), clock)
  BY DEF Housekept, DatedIn
<1>1. /\ Expire(s).created = s.created /\ Expire(s).mode = s.mode
      /\ Expire(s).key = s.key /\ Expire(s).restricted = s.restricted
  BY DEF TypeOK, Expire, Slot
<1>2. DatedBy(s, Entry(latest, s), clock)
  BY DEF Dated, DatedIn
<1> QED
  BY <1>1, <1>2 DEF DatedBy, Entry

\* A slot is replaced by one that is as old.
LEMMA ReplaceDated ==
  ASSUME NEW S, NEW l, NEW t, DatedIn(S, l, t), NEW f \in S, NEW q,
         q.key = f.key, q.restricted = f.restricted, q.mode = f.mode,
         q.created = f.created
  PROVE  DatedIn((S \ {f}) \cup {q}, l, t)
<1>1. DatedBy(f, Entry(l, f), t)
  BY DEF DatedIn
<1>2. DatedBy(q, Entry(l, q), t)
  BY <1>1 DEF DatedBy, Entry
<1> QED
  BY <1>2 DEF DatedIn

\* A search among slots that are fresh at time t keeps the slots well formed
\* and their age, and serves only what is fresh.
LEMMA SearchServesFresh ==
  ASSUME TypeOK, NEW S, S \subseteq Slot, NEW t \in Nat,
         NEW c \in [key : Keys, restricted : Restrictions, mode : Modes],
         \A r \in S : r.pw # NoData => Fresh(r, t),
         DatedIn(S, latest, clock), SearchIn(S, c, t),
         UNCHANGED <<clock, latest>>
  PROVE  /\ thecache' \subseteq Slot
         /\ served' \in Answer \cup {None}
         /\ ServedIsFresh'
         /\ Dated'
<1> DEFINE M == {r \in S : r.pw # NoData /\ Matches(r, c)}
           f == First(M)
           l == latest[<<f.key, f.restricted>>]
<1>1. CASE M = {}
  BY <1>1 DEF SearchIn, ServedIsFresh, Dated
<1>2. CASE M # {}
  <2>1. f \in M
    BY <1>2, FirstIsMember
  <2>2. f \in S /\ f \in Slot /\ Fresh(f, t) /\ f.pw # NoData
    BY <2>1
  <2>3. thecache' = (S \ {f}) \cup {Refreshed(f)}
    BY <1>2 DEF SearchIn
  <2>4. served' = None \/ served' = [call |-> c, slot |-> f, at |-> t]
    BY <1>2 DEF SearchIn
  <2>5. /\ Refreshed(f) \in Slot
        /\ Refreshed(f).key = f.key /\ Refreshed(f).mode = f.mode
        /\ Refreshed(f).restricted = f.restricted
        /\ Refreshed(f).created = f.created
    BY <2>2 DEF TypeOK, Slot, Refreshed
  <2>6. thecache' \subseteq Slot
    BY <2>2, <2>3, <2>5
  <2>7. [call |-> c, slot |-> f, at |-> t] \in Answer
    BY <2>2 DEF Answer
  <2>8. ServedIsFresh'
    <3>1. CASE served' = None
      BY <3>1 DEF ServedIsFresh
    <3>2. CASE served' = [call |-> c, slot |-> f, at |-> t]
      <4>1. served'.slot = f /\ served'.at = t /\ served' # None =>
              (ServedIsFresh' <=>
                 /\ Fresh(f, t)
                 /\ f.mode \notin {"PIN", "DATA"} /\ l.pw # NoData =>
                      t <= l.at + MaxAge(f.mode))
        BY DEF ServedIsFresh, LatestFor, Fresh
      <4>2. ASSUME f.mode \notin {"PIN", "DATA"}, l.pw # NoData
            PROVE  t <= l.at + MaxAge(f.mode)
        <5>1. f.created <= l.at
          <6>1. DatedBy(f, Entry(latest, f), clock)
            BY <2>2 DEF DatedIn
          <6> QED
            BY <4>2, <6>1 DEF DatedBy, Entry
        <5>2. t <= f.created + MaxAge(f.mode)
          BY <2>2, <4>2 DEF Fresh
        <5>3. l.at \in Nat /\ f.created \in Nat
          <6>1. <<f.key, f.restricted>> \in Keys \X Restrictions
            BY <2>2 DEF Slot
          <6>2. l \in Change
            BY <6>1 DEF TypeOK
          <6> QED
            BY <2>2, <6>2 DEF Slot, Change
        <5>4. MaxAge(f.mode) \in Nat
          BY CacheAssumption DEF MaxAge
        <5> HIDE DEF f, l
        <5> QED
          BY <5>1, <5>2, <5>3, <5>4
      <4>3. served'.slot = f /\ served'.at = t
        BY <3>2
      <4>4. CASE served' = None
        BY <4>4 DEF ServedIsFresh
      <4>5. CASE served' # None
        BY <2>2, <4>1, <4>2, <4>3, <4>5
      <4> QED
        BY <4>4, <4>5
    <3> QED
      BY <2>4, <3>1, <3>2
  <2>9. Dated'
    <3>1. DatedIn((S \ {f}) \cup {Refreshed(f)}, latest, clock)
      <4> HIDE DEF f
      <4> QED
        BY <2>2, <2>5, ReplaceDated
    <3> QED
      BY <2>3, <3>1 DEF Dated
  <2> QED
    BY <2>4, <2>6, <2>7, <2>8, <2>9
<1> QED
  BY <1>1, <1>2

\* A step that serves nothing and leaves no lookup under way keeps what is
\* said of answers and lookups.
LEMMA QuietStep ==
  ASSUME served' = None, lookup' = None
  PROVE  LookupSeesFresh' /\ ServedIsFresh'
  BY DEF LookupSeesFresh, ServedIsFresh

\* The history variable keeps its type when a call is recorded.
LEMMA RecordType ==
  ASSUME TypeOK, NEW c \in Puts, NEW v \in Values, NEW ok \in BOOLEAN,
         Record(c, v, ok)
  PROVE  latest' \in [Keys \X Restrictions -> Change]
<1>1. [pw |-> v, mode |-> c.mode, at |-> clock] \in Change
  BY CacheAssumption DEF Change, TypeOK, Calls
<1>2. Nothing \in Change
  BY DEF Nothing, Change, Modes
<1> QED
  BY <1>1, <1>2 DEF TypeOK, Record

\* What the delete of a call makes of the history.
Cleared(c) ==
  LET l == latest[<<c.key, c.restricted>>] IN
  IF Reaches(c, l) THEN Nothing ELSE l

\* A recorded delete removes the value or leaves it, and keeps the rest.
LEMMA ClearedIs ==
  ASSUME TypeOK, NEW c \in Clears, RecordClear(c)
  PROVE  /\ latest' = [latest EXCEPT ![<<c.key, c.restricted>>] = Cleared(c)]
         /\ Cleared(c) \in Change
         /\ latest' \in [Keys \X Restrictions -> Change]
         /\ Reaches(c, latest[<<c.key, c.restricted>>]) =>
              Cleared(c).pw = NoData
         /\ ~Reaches(c, latest[<<c.key, c.restricted>>]) =>
              LET l == latest[<<c.key, c.restricted>>] IN
              /\ Cleared(c).pw = l.pw /\ Cleared(c).mode = l.mode
              /\ Cleared(c).at = l.at
<1> DEFINE l == latest[<<c.key, c.restricted>>]
<1>1. <<c.key, c.restricted>> \in Keys \X Restrictions
  BY DEF Keys, Restrictions, Calls
<1>2. l \in Change
  BY <1>1 DEF TypeOK
<1>3. Nothing \in Change /\ Nothing.pw = NoData
  BY DEF Nothing, Change, Modes
<1>4. latest' = [latest EXCEPT ![<<c.key, c.restricted>>] = Cleared(c)]
  BY DEF RecordClear, Cleared
<1>5. CASE Reaches(c, l)
  <2>1. Cleared(c) = Nothing
    BY <1>5 DEF Cleared
  <2>2. Cleared(c) \in Change /\ Cleared(c).pw = NoData
    BY <1>3, <2>1 DEF Change
  <2> QED
    BY <1>4, <1>5, <2>2 DEF TypeOK
<1>6. CASE ~Reaches(c, l)
  <2>1. Cleared(c) = l
    BY <1>6 DEF Cleared
  <2>2. /\ Cleared(c) \in Change /\ Cleared(c).pw = l.pw
        /\ Cleared(c).mode = l.mode /\ Cleared(c).at = l.at
    <3> HIDE DEF l
    <3> QED
      BY <1>2, <2>1 DEF Change
  <2> QED
    BY <1>4, <1>6, <2>2 DEF TypeOK
<1> QED
  BY <1>5, <1>6

\* r is a slot for the key and the restriction of the call c.
SlotFor(r, c) == r.key = c.key /\ r.restricted = c.restricted

\* A put makes no slot older than the history says, nor the one it fills now.
LEMMA RecordDated ==
  ASSUME TypeOK, NEW c \in Puts, NEW v \in Values, NEW ok \in BOOLEAN,
         Record(c, v, ok), NEW S, S \subseteq Slot, DatedIn(S, latest, clock)
  PROVE  /\ DatedIn(S, latest', clock)
         /\ \A q : q.created = clock /\ (q.mode # "PIN" => SlotFor(q, c)) =>
                    DatedIn(S \cup {q}, latest', clock)
<1> DEFINE k == <<c.key, c.restricted>>
<1>1. k \in Keys \X Restrictions /\ clock \in Nat
  BY DEF Keys, Restrictions, Calls, TypeOK
<1>2. latest'[k].pw # NoData => latest'[k].at = clock
  <2>1. latest'[k] = IF ok THEN [pw |-> v, mode |-> c.mode, at |-> clock]
                           ELSE Nothing
    BY <1>1 DEF TypeOK, Record
  <2> QED
    BY <2>1 DEF Nothing
<1>3. \A x \in Keys \X Restrictions : x # k => latest'[x] = latest[x]
  BY <1>1 DEF TypeOK, Record
<1> HIDE DEF k
<1>4. DatedIn(S, latest', clock)
  <2> SUFFICES ASSUME NEW r \in S
               PROVE  DatedBy(r, Entry(latest', r), clock)
    BY DEF DatedIn
  <2>1. <<r.key, r.restricted>> \in Keys \X Restrictions
    BY DEF Slot
  <2>2. CASE <<r.key, r.restricted>> = k
    <3>1. r.created <= clock
      BY DEF DatedIn, DatedBy
    <3> QED
      BY <1>2, <2>2, <3>1 DEF DatedBy, Entry
  <2>3. CASE <<r.key, r.restricted>> # k
    BY <1>3, <2>1, <2>3 DEF DatedIn, Entry
  <2> QED
    BY <2>2, <2>3
<1>5. ASSUME NEW q, q.created = clock, q.mode # "PIN" => SlotFor(q, c)
      PROVE  DatedIn(S \cup {q}, latest', clock)
  <2>1. q.mode # "PIN" => <<q.key, q.restricted>> = k
    BY <1>5 DEF SlotFor, k
  <2>2. DatedBy(q, Entry(latest', q), clock)
    BY <1>1, <1>2, <1>5, <2>1 DEF DatedBy, Entry
  <2> QED
    BY <1>1, <1>4, <1>5, <2>2 DEF DatedIn
<1> QED
  BY <1>4, <1>5

\* agent_put_cache with data leaves a well-formed list of dated slots.
LEMMA PutType ==
  ASSUME TypeOK, Dated, NEW c \in Puts, NEW v \in Values, NEW ttl \in TTLs,
         Put(c, v, ttl)
  PROVE  /\ thecache' \subseteq Slot
         /\ latest' \in [Keys \X Restrictions -> Change]
         /\ Dated'
<1> DEFINE S == Housekept
           M == {r \in S : Matches(r, c)}
           t == EffectiveTTL(c.mode, ttl)
           new == [key |-> c.key, restricted |-> c.restricted, mode |-> c.mode,
                   seq |-> NextSeq(S), created |-> clock, accessed |-> clock,
                   ttl |-> t, pw |-> v]
<1>1. /\ S \subseteq Slot /\ clock \in Nat /\ clock' = clock
      /\ DatedIn(S, latest, clock)
  BY HousekeptIsFresh, HousekeptDated DEF TypeOK, Put
<1>2. t \in Nat \cup {-1}
  BY CacheAssumption DEF EffectiveTTL
<1>3. c.key \in Keys /\ c.restricted \in Restrictions /\ c.mode \in Modes
  BY CacheAssumption DEF Keys, Restrictions, Calls
<1>4. CASE t = 0 \/ c.mode = "IGNORE"
  BY <1>1, <1>4 DEF Put, TypeOK, Dated
<1>5. CASE ~(t = 0 \/ c.mode = "IGNORE")
  <2>1. PICK ok \in Outcomes :
          /\ M = {} => NextSeq(S) <= MaxSeq
          /\ thecache' =
               IF M # {}
                 THEN (S \ {First(M)}) \cup {Refill(First(M), c, v, t, ok)}
                 ELSE S \cup (IF ok THEN {new} ELSE {})
          /\ Record(c, v, ok)
    BY <1>5 DEF Put
  <2>4. ok \in BOOLEAN
    BY DEF Outcomes
  <2>2. CASE M # {}
    <3> DEFINE f == First(M)
               q == Refill(f, c, v, t, ok)
    <3>1. f \in S /\ f \in Slot /\ Matches(f, c)
      BY <1>1, <2>2, FirstIsMember
    <3>2. /\ q \in Slot /\ q.created = clock /\ q.mode = c.mode
          /\ q.key = f.key /\ q.restricted = f.restricted
      BY <1>1, <1>2, <1>3, <3>1 DEF Refill, Slot
    <3>3. q.mode # "PIN" => SlotFor(q, c)
      BY <3>1, <3>2 DEF Matches, SlotFor
    <3>4. S \ {f} \subseteq Slot /\ DatedIn(S \ {f}, latest, clock)
      BY <1>1 DEF DatedIn
    <3>5. DatedIn((S \ {f}) \cup {q}, latest', clock)
      <4> HIDE DEF S, f, q
      <4> QED
        BY <2>1, <2>4, <3>2, <3>3, <3>4, RecordDated
    <3>6. thecache' = (S \ {f}) \cup {q}
      BY <2>1, <2>2
    <3>7. Dated'
      BY <1>1, <3>5, <3>6 DEF Dated
    <3>8. thecache' \subseteq Slot
      BY <1>1, <3>2, <3>6
    <3> QED
      BY <2>1, <2>4, <3>7, <3>8, RecordType
  <2>3. CASE M = {}
    <3>1. NextSeq(S) \in 0..MaxSeq
      <4>1. CASE S = {}
        BY <4>1, CacheAssumption DEF NextSeq
      <4>2. CASE S # {}
        <5>1. First(S) \in Slot
          BY <1>1, <4>2, FirstIsMember
        <5> QED
          BY <2>1, <2>3, <4>2, <5>1, CacheAssumption DEF NextSeq, Slot
      <4> QED
        BY <4>1, <4>2
    <3>2. new \in Slot /\ new.created = clock /\ SlotFor(new, c)
      BY <1>1, <1>2, <1>3, <3>1 DEF Slot, SlotFor
    <3>3. thecache' = S \cup (IF ok THEN {new} ELSE {})
      BY <2>1, <2>3
    <3>4. DatedIn(S, latest', clock) /\ DatedIn(S \cup {new}, latest', clock)
      <4> HIDE DEF S, new
      <4> QED
        BY <1>1, <2>1, <2>4, <3>2, RecordDated
    <3>5. Dated'
      BY <1>1, <3>3, <3>4 DEF Dated
    <3>6. thecache' \subseteq Slot
      BY <1>1, <3>2, <3>3
    <3> QED
      BY <2>1, <2>4, <3>5, <3>6, RecordType
  <2> QED
    BY <2>2, <2>3
<1> QED
  BY <1>4, <1>5

-----------------------------------------------------------------------------

\* The invariant holds of the empty cache.
LEMMA IndInvInit == Init => IndInv
  BY CacheAssumption DEF Init, IndInv, TypeOK, LookupSeesFresh, ServedIsFresh,
     Dated, DatedIn, Nothing, Change, Modes

\* Every operation of the cache keeps the invariant.
LEMMA IndInvStep == IndInv /\ [Next]_vars => IndInv'
<1> SUFFICES ASSUME IndInv, [Next]_vars PROVE IndInv'
  OBVIOUS
<1> USE DEF IndInv
<1>1. CASE Housekeeping
  <2>1. TypeOK'
    BY <1>1, HousekeptIsFresh DEF Housekeeping, TypeOK
  <2>2. Dated'
    BY <1>1, HousekeptDated DEF Housekeeping, Dated
  <2> QED
    BY <1>1, <2>1, <2>2, QuietStep DEF Housekeeping
<1>2. ASSUME NEW b \in BOOLEAN, Flush(b) PROVE IndInv'
  <2>1. \A r \in Slot : LET q == FlushSlot(r, b) IN
          /\ q \in Slot /\ q.key = r.key /\ q.restricted = r.restricted
          /\ q.mode = r.mode /\ q.created = r.created
    BY DEF FlushSlot, Slot
  <2>2. TypeOK'
    BY <1>2, <2>1 DEF Flush, TypeOK
  <2>3. Dated'
    <3>1. /\ \A r \in thecache' : \E s \in thecache : r = FlushSlot(s, b)
          /\ thecache \subseteq Slot /\ latest' = latest /\ clock' = clock
      BY <1>2 DEF Flush, TypeOK
    <3>2. ASSUME NEW s \in thecache
          PROVE  DatedBy(FlushSlot(s, b), Entry(latest, FlushSlot(s, b)), clock)
      <4>1. DatedBy(s, Entry(latest, s), clock) /\ s \in Slot
        BY <3>1 DEF Dated, DatedIn
      <4> QED
        BY <2>1, <4>1 DEF DatedBy, Entry
    <3>3. DatedIn(thecache', latest, clock)
      BY <3>1, <3>2 DEF DatedIn
    <3> QED
      BY <3>1, <3>3 DEF Dated
  <2> QED
    BY <1>2, <2>2, <2>3, QuietStep DEF Flush
<1>3. ASSUME NEW c \in Puts, NEW v \in Values, NEW ttl \in TTLs,
             Put(c, v, ttl)
      PROVE  IndInv'
  <2>1. TypeOK'
    BY <1>3, PutType DEF Put, TypeOK
  <2> QED
    BY <1>3, <2>1, PutType, QuietStep DEF Put
<1>4. ASSUME NEW c \in Clears, Clear(c) PROVE IndInv'
  <2> DEFINE M == {r \in Housekept : Matches(r, c)}
             f == First(M)
             q == [f EXCEPT !.pw = NoData]
  <2>1. /\ Housekept \subseteq Slot /\ DatedIn(Housekept, latest, clock)
        /\ clock' = clock
    BY <1>4, HousekeptIsFresh, HousekeptDated DEF Clear
  <2>2. thecache' \subseteq Slot /\ DatedIn(thecache', latest, clock)
    <3>1. CASE M = {} \/ c.mode = "IGNORE"
      BY <1>4, <2>1, <3>1 DEF Clear
    <3>2. CASE ~(M = {} \/ c.mode = "IGNORE")
      <4>1. f \in Housekept /\ f \in Slot
        BY <2>1, <3>2, FirstIsMember
      <4>2. /\ q \in Slot /\ q.key = f.key /\ q.restricted = f.restricted
            /\ q.mode = f.mode /\ q.created = f.created
        <5> HIDE DEF f
        <5> QED
          BY <4>1 DEF Slot
      <4>3. thecache' = (Housekept \ {f}) \cup {q}
        BY <1>4, <3>2 DEF Clear
      <4> HIDE DEF f, q
      <4>4. DatedIn((Housekept \ {f}) \cup {q}, latest, clock)
        BY <2>1, <4>1, <4>2, ReplaceDated
      <4> QED
        BY <2>1, <4>2, <4>3, <4>4
    <3> QED
      BY <3>1, <3>2
  <2>3. latest' \in [Keys \X Restrictions -> Change] /\ Dated'
    <3>1. CASE c.mode = "IGNORE"
      BY <1>4, <2>1, <2>2, <3>1 DEF Clear, TypeOK, Dated
    <3>2. CASE c.mode # "IGNORE"
      <4> DEFINE k == <<c.key, c.restricted>>
      <4>1. RecordClear(c)
        BY <1>4, <3>2 DEF Clear
      <4>2. k \in Keys \X Restrictions
        BY DEF Keys, Restrictions, Calls
      <4>3. latest'[k] = Cleared(c)
        BY <4>1, <4>2, ClearedIs DEF TypeOK
      <4>4. latest'[k].pw # NoData =>
              latest'[k].pw = latest[k].pw /\ latest'[k].at = latest[k].at
        BY <4>1, <4>3, ClearedIs, Zenon
      <4>5. \A x \in Keys \X Restrictions : x # k => latest'[x] = latest[x]
        BY <4>1, <4>2, ClearedIs DEF TypeOK
      <4> HIDE DEF k
      <4>6. ASSUME NEW x \in Keys \X Restrictions, latest'[x].pw # NoData
            PROVE  latest[x].pw # NoData /\ latest'[x].at = latest[x].at
        BY <4>4, <4>5, <4>6
      <4>7. \A r \in thecache' :
              <<r.key, r.restricted>> \in Keys \X Restrictions
        BY <2>2 DEF Slot
      <4>8. Dated'
        <5>1. ASSUME NEW r \in thecache'
              PROVE  DatedBy(r, Entry(latest', r), clock)
          <6>1. DatedBy(r, Entry(latest, r), clock)
            BY <2>2 DEF DatedIn
          <6> QED
            BY <4>6, <4>7, <6>1 DEF DatedBy, Entry
        <5> QED
          BY <2>1, <5>1 DEF Dated, DatedIn
      <4> QED
        BY <4>1, <4>8, ClearedIs
    <3> QED
      BY <3>1, <3>2
  <2>4. TypeOK'
    BY <1>4, <2>2, <2>3 DEF Clear, TypeOK
  <2> QED
    BY <1>4, <2>3, <2>4, QuietStep DEF Clear
<1>5. ASSUME NEW c \in Gets, Get(c) PROVE IndInv'
  <2>1. c \in [key : Keys, restricted : Restrictions, mode : Modes]
    BY CacheAssumption DEF Keys, Restrictions, Calls
  <2>2. /\ thecache' \subseteq Slot /\ served' \in Answer \cup {None}
        /\ ServedIsFresh' /\ Dated'
    BY <1>5, <2>1, HousekeptIsFresh, HousekeptDated, SearchServesFresh
       DEF Get, TypeOK
  <2> QED
    BY <1>5, <2>2 DEF Get, TypeOK, LookupSeesFresh
<1>6. ASSUME NEW c \in Gets, GetLast(c) PROVE IndInv'
  <2> DEFINE k == [c EXCEPT !.key = last]
             l == [key |-> last, restricted |-> c.restricted,
                   mode |-> c.mode, since |-> clock, live |-> TRUE]
  <2>1. last \in Keys /\ c.restricted \in Restrictions /\ c.mode \in Modes
    BY <1>6, CacheAssumption DEF GetLast, TypeOK, Restrictions, Calls
  <2>2. CASE Housekept = thecache
    <3>1. k \in [key : Keys, restricted : Restrictions, mode : Modes]
      BY <2>1, CacheAssumption DEF Calls
    <3>2. SearchIn(Housekept, k, clock) /\ UNCHANGED lookup
      BY <1>6, <2>2 DEF GetLast
    <3>3. /\ thecache' \subseteq Slot /\ served' \in Answer \cup {None}
          /\ ServedIsFresh' /\ Dated'
      BY <1>6, <3>1, <3>2, HousekeptIsFresh, HousekeptDated,
         SearchServesFresh DEF TypeOK, GetLast
    <3> QED
      BY <1>6, <3>2, <3>3 DEF GetLast, TypeOK, LookupSeesFresh
  <2>3. CASE Housekept # thecache
    <3>1. lookup' = l /\ thecache' = Housekept /\ served' = None
      BY <1>6, <2>3 DEF GetLast
    <3>2. l \in Lookup
      BY <2>1 DEF Lookup, TypeOK
    <3>3. TypeOK'
      BY <1>6, <3>1, <3>2, HousekeptIsFresh DEF GetLast, TypeOK
    <3>4. LookupSeesFresh'
      BY <3>1, HousekeptIsFresh DEF LookupSeesFresh, Fresh
    <3>5. Dated'
      BY <1>6, <3>1, HousekeptDated DEF GetLast, Dated
    <3> QED
      BY <3>1, <3>3, <3>4, <3>5 DEF ServedIsFresh
  <2> QED
    BY <2>2, <2>3
<1>7. CASE GetLastSearch
  <2>1. lookup \in Lookup
    BY <1>7 DEF GetLastSearch, TypeOK
  <2>2. PICK k \in IF lookup.live THEN {lookup.key} ELSE Keys :
          SearchIn(thecache, [key |-> k, restricted |-> lookup.restricted,
                              mode |-> lookup.mode], lookup.since)
    BY <1>7 DEF GetLastSearch
  <2> DEFINE c == [key |-> k, restricted |-> lookup.restricted,
                   mode |-> lookup.mode]
  <2>3. c \in [key : Keys, restricted : Restrictions, mode : Modes]
    BY <2>1 DEF Lookup
  <2>4. lookup.since \in Nat /\ thecache \subseteq Slot
    BY <2>1 DEF Lookup, TypeOK
  <2>5. \A r \in thecache : r.pw # NoData => Fresh(r, lookup.since)
    BY <1>7 DEF GetLastSearch, LookupSeesFresh
  <2>6. /\ thecache' \subseteq Slot /\ served' \in Answer \cup {None}
        /\ ServedIsFresh' /\ Dated'
    BY <1>7, <2>2, <2>3, <2>4, <2>5, SearchServesFresh
       DEF GetLastSearch, Dated
  <2> QED
    BY <1>7, <2>6 DEF GetLastSearch, TypeOK, LookupSeesFresh
<1>8. ASSUME NEW k \in HitKeys, StoreHit(k) PROVE IndInv'
  <2>1. k \in Keys
    BY DEF HitKeys, Keys, Calls
  <2>2. lookup' \in Lookup \cup {None}
    BY <1>8 DEF StoreHit, TypeOK, Lookup
  <2>3. TypeOK'
    BY <1>8, <2>1, <2>2 DEF StoreHit, TypeOK
  <2>4. LookupSeesFresh'
    <3>1. CASE lookup = None
      BY <1>8, <3>1 DEF StoreHit, LookupSeesFresh
    <3>2. CASE lookup # None
      <4>1. lookup' = [lookup EXCEPT !.live = FALSE] /\ lookup \in Lookup
        BY <1>8, <3>2 DEF StoreHit, TypeOK
      <4>2. lookup'.since = lookup.since
        BY <4>1 DEF Lookup
      <4> QED
        BY <1>8, <3>2, <4>2 DEF StoreHit, LookupSeesFresh, Fresh
    <3> QED
      BY <3>1, <3>2
  <2> QED
    BY <1>8, <2>3, <2>4 DEF StoreHit, ServedIsFresh, Dated
<1>9. CASE Tick
  <2>1. TypeOK'
    BY <1>9 DEF Tick, TypeOK
  <2>2. Dated'
    <3>1. ASSUME NEW r \in thecache
          PROVE  DatedBy(r, Entry(latest, r), clock + 1)
      <4>1. DatedBy(r, Entry(latest, r), clock) /\ r.created \in Nat
        BY DEF Dated, DatedIn, TypeOK, Slot
      <4>2. clock \in Nat
        BY DEF TypeOK
      <4> QED
        BY <4>1, <4>2 DEF DatedBy
    <3>2. /\ thecache' = thecache /\ latest' = latest /\ clock' = clock + 1
      BY <1>9 DEF Tick
    <3> QED
      BY <3>1, <3>2 DEF Dated, DatedIn
  <2> QED
    BY <1>9, <2>1, <2>2 DEF Tick, LookupSeesFresh, Fresh, ServedIsFresh
<1>10. CASE UNCHANGED vars
  BY <1>10 DEF vars, TypeOK, LookupSeesFresh, ServedIsFresh, LatestFor, Fresh,
     Dated
<1> QED
  BY <1>1, <1>2, <1>3, <1>4, <1>5, <1>6, <1>7, <1>8, <1>9, <1>10 DEF Next

\* The inductive invariant holds in every reachable state of the cache.
LEMMA IndInvHolds == Spec => []IndInv
  BY IndInvInit, IndInvStep, PTL DEF Spec

-----------------------------------------------------------------------------

\* The slots, the pending lookup and the answers of the cache keep their
\* types, for all callers and configurations.
THEOREM CacheTypes == Spec => []TypeOK
  BY IndInvHolds, PTL DEF IndInv

\* agent_get_cache serves no data past its TTL or past the configured
\* maximum, whatever TTLs are configured and whenever the timer ran, also
\* when the lookup gave way to other threads after its housekeeping.
THEOREM CacheServesFresh == Spec => []ServedIsFresh
  BY IndInvHolds, PTL DEF IndInv

-----------------------------------------------------------------------------
(* One slot for a key and a restriction, and what it serves *)

\* The slot r was filled by a call of the agent's commands.
Stored(r) ==
  \E c \in Puts : /\ c.mode # "IGNORE" /\ r.mode = c.mode
                  /\ r.key = c.key /\ r.restricted = c.restricted

\* The slots S hold at most what callers, by the history l, stored last.
Faithful(S, l) ==
  /\ \A r, s \in S : r.key = s.key /\ r.restricted = s.restricted => r = s
  /\ \A r \in S : /\ Stored(r)
                  /\ r.pw # NoData =>
                       /\ r.pw = l[<<r.key, r.restricted>>].pw
                       /\ r.mode = l[<<r.key, r.restricted>>].mode

SlotInv == Faithful(thecache, latest)

\* A put or a lookup finds the slots of its key and restriction and no others,
\* whatever mode they were filled with.
LEMMA MatchesOwn ==
  ASSUME KeysApart, NEW r, Stored(r), NEW c \in Puts \cup Gets
  PROVE  Matches(r, c) <=> SlotFor(r, c)
<1>1. PICK d \in Puts : /\ d.mode # "IGNORE" /\ r.mode = d.mode
                        /\ r.key = d.key /\ r.restricted = d.restricted
  BY DEF Stored
<1>2. c.key = d.key /\ c.mode \in {"USER", "NONCE"} =>
        cache_mode_equal(d.mode, c.mode)
  BY <1>1 DEF KeysApart
<1>3. c.key = d.key /\ c.mode = "PIN" => d.restricted = c.restricted
  BY DEF KeysApart, Calls
<1> QED
  BY <1>1, <1>2, <1>3 DEF Matches, SlotFor

\* A delete finds the slots of its key and restriction, but in USER or NONCE
\* mode only those that were filled in an equal mode.
LEMMA ClearMatches ==
  ASSUME KeysApart, NEW r, Stored(r), NEW c \in Clears
  PROVE  Matches(r, c) <=> SlotFor(r, c) /\ Reaches(c, r)
<1>1. PICK d \in Puts : /\ d.mode # "IGNORE" /\ r.mode = d.mode
                        /\ r.key = d.key /\ r.restricted = d.restricted
  BY DEF Stored
<1>2. c.key = d.key /\ c.mode = "PIN" => d.restricted = c.restricted
  BY DEF KeysApart, Calls
<1> QED
  BY <1>1, <1>2 DEF Matches, SlotFor, Reaches

\* What housekeeping leaves is a part of what was there.
LEMMA HousekeptFaithful ==
  ASSUME IndInv, SlotInv
  PROVE  Faithful(Housekept, latest) /\ Housekept \subseteq Slot
<1>1. Housekept \subseteq Slot
  BY HousekeptIsFresh DEF IndInv
<1>2. \A s \in thecache :
        LET r == Expire(s) IN
        /\ r.key = s.key /\ r.restricted = s.restricted /\ r.mode = s.mode
        /\ r.pw # NoData => r.pw = s.pw /\ s.pw # NoData
  BY DEF IndInv, TypeOK, Expire, Slot
<1>3. \A r \in Housekept : \E s \in thecache : r = Expire(s)
  BY DEF Housekept
<1>4. ASSUME NEW r \in Housekept, NEW s \in Housekept,
             r.key = s.key, r.restricted = s.restricted
      PROVE  r = s
  BY <1>2, <1>3, <1>4 DEF SlotInv, Faithful
<1>5. ASSUME NEW r \in Housekept
      PROVE  /\ Stored(r)
             /\ r.pw # NoData =>
                  /\ r.pw = latest[<<r.key, r.restricted>>].pw
                  /\ r.mode = latest[<<r.key, r.restricted>>].mode
  BY <1>2, <1>3 DEF SlotInv, Faithful, Stored
<1> QED
  BY <1>1, <1>4, <1>5 DEF Faithful

\* A slot keeps its data or loses it.
LEMMA ReplaceFaithful ==
  ASSUME NEW S, NEW l, Faithful(S, l), NEW f \in S, NEW q, q.key = f.key,
         q.restricted = f.restricted, q.mode = f.mode, q.pw \in {f.pw, NoData}
  PROVE  Faithful((S \ {f}) \cup {q}, l)
  BY DEF Faithful, Stored

\* A call that stores the value v, or fails to, leaves the slots for other
\* keys alone.
LEMMA RecordFaithful ==
  ASSUME TypeOK, NEW c \in Puts, NEW v \in Values, NEW ok \in BOOLEAN,
         Record(c, v, ok), NEW S, S \subseteq Slot, Faithful(S, latest),
         \A r \in S : ~SlotFor(r, c)
  PROVE  /\ Faithful(S, latest')
         /\ \A q : /\ SlotFor(q, c) /\ Stored(q) /\ q.mode = c.mode
                   /\ q.pw = IF ok THEN v ELSE NoData
                   => Faithful(S \cup {q}, latest')
<1>1. <<c.key, c.restricted>> \in Keys \X Restrictions
  BY DEF Keys, Restrictions, Calls
<1>2. ok => /\ latest'[<<c.key, c.restricted>>].pw = v
            /\ latest'[<<c.key, c.restricted>>].mode = c.mode
  BY <1>1 DEF TypeOK, Record
<1>3. ASSUME NEW r \in S
      PROVE  latest'[<<r.key, r.restricted>>] = latest[<<r.key, r.restricted>>]
  <2>1. <<r.key, r.restricted>> # <<c.key, c.restricted>>
    BY DEF SlotFor
  <2>2. <<r.key, r.restricted>> \in Keys \X Restrictions
    BY DEF Slot
  <2> QED
    BY <1>1, <2>1, <2>2 DEF TypeOK, Record
<1>4. Faithful(S, latest')
  BY <1>3 DEF Faithful
<1>5. ASSUME NEW q, SlotFor(q, c), Stored(q), q.mode = c.mode,
             q.pw = IF ok THEN v ELSE NoData
      PROVE  Faithful(S \cup {q}, latest')
  <2>1. q.pw # NoData => /\ q.pw = latest'[<<q.key, q.restricted>>].pw
                         /\ q.mode = latest'[<<q.key, q.restricted>>].mode
    BY <1>2, <1>5 DEF SlotFor
  <2> QED
    BY <1>4, <1>5, <2>1 DEF Faithful, SlotFor
<1> QED
  BY <1>4, <1>5

\* The slots that match a call, if any, are one.
LEMMA TheSlot ==
  ASSUME KeysApart, NEW c \in Puts,
         NEW S, S \subseteq Slot, NEW l, Faithful(S, l)
  PROVE  LET M == {r \in S : Matches(r, c)} IN
         /\ M = {} => \A r \in S : ~SlotFor(r, c)
         /\ M # {} => /\ First(M) \in S /\ SlotFor(First(M), c)
                      /\ \A r \in S \ {First(M)} : ~SlotFor(r, c)
<1> DEFINE M == {r \in S : Matches(r, c)}
<1>1. \A r \in S : Matches(r, c) <=> SlotFor(r, c)
  BY MatchesOwn DEF Faithful
<1>2. M # {} => First(M) \in M
  BY FirstIsMember
<1> QED
  BY <1>1, <1>2 DEF Faithful, SlotFor

\* A part of the slots is as good.
LEMMA SubsetFaithful ==
  ASSUME NEW S, NEW T, T \subseteq S, NEW l, Faithful(S, l)
  PROVE  Faithful(T, l)
  BY DEF Faithful

\* A search refreshes a slot at most.
LEMMA SearchFaithful ==
  ASSUME TypeOK, NEW S, S \subseteq Slot, Faithful(S, latest), NEW c, NEW t,
         SearchIn(S, c, t), UNCHANGED latest
  PROVE  SlotInv'
<1> DEFINE M == {r \in S : r.pw # NoData /\ Matches(r, c)}
           f == First(M)
           q == Refreshed(f)
<1>1. CASE M = {}
  BY <1>1 DEF SearchIn, SlotInv
<1>2. CASE M # {}
  <2>1. f \in S /\ f \in Slot
    BY <1>2, FirstIsMember
  <2>2. /\ q.key = f.key /\ q.restricted = f.restricted /\ q.mode = f.mode
        /\ q.pw = f.pw
    BY <2>1 DEF Slot, Refreshed
  <2>3. Faithful((S \ {f}) \cup {q}, latest)
    <3> HIDE DEF f, q
    <3> QED
      BY <2>1, <2>2, ReplaceFaithful
  <2>4. thecache' = (S \ {f}) \cup {q}
    BY <1>2 DEF SearchIn
  <2> QED
    BY <2>3, <2>4 DEF SlotInv
<1> QED
  BY <1>1, <1>2

\* agent_put_cache replaces the slot of its key, or inserts one if there is
\* none.
LEMMA PutFaithful ==
  ASSUME KeysApart, IndInv, SlotInv, NEW c \in Puts, NEW v \in Values,
         NEW ttl \in TTLs, Put(c, v, ttl)
  PROVE  SlotInv'
<1> DEFINE S == Housekept
           M == {r \in S : Matches(r, c)}
           t == EffectiveTTL(c.mode, ttl)
           new == [key |-> c.key, restricted |-> c.restricted, mode |-> c.mode,
                   seq |-> NextSeq(S), created |-> clock, accessed |-> clock,
                   ttl |-> t, pw |-> v]
<1>1. Faithful(S, latest) /\ S \subseteq Slot /\ TypeOK
  BY HousekeptFaithful DEF IndInv
<1>2. CASE t = 0 \/ c.mode = "IGNORE"
  BY <1>1, <1>2 DEF Put, SlotInv
<1>3. CASE ~(t = 0 \/ c.mode = "IGNORE")
  <2>1. PICK ok \in Outcomes :
          /\ thecache' =
               IF M # {}
                 THEN (S \ {First(M)}) \cup {Refill(First(M), c, v, t, ok)}
                 ELSE S \cup (IF ok THEN {new} ELSE {})
          /\ Record(c, v, ok)
    BY <1>3 DEF Put
  <2> DEFINE x == IF ok THEN v ELSE NoData
  <2>2. ok \in BOOLEAN /\ Record(c, v, ok)
    BY <2>1 DEF Outcomes
  <2>3. CASE M # {}
    <3> DEFINE f == First(M)
               q == Refill(f, c, v, t, ok)
    <3>1. f \in S /\ SlotFor(f, c) /\ \A r \in S \ {f} : ~SlotFor(r, c)
      BY <1>1, <1>3, <2>3, TheSlot
    <3>2. q.key = f.key /\ q.restricted = f.restricted /\ q.mode = c.mode
          /\ q.pw = x
      BY <1>1, <3>1 DEF Refill, Slot
    <3>3. SlotFor(q, c) /\ Stored(q)
      BY <1>3, <3>1, <3>2 DEF SlotFor, Stored
    <3>4. Faithful(S \ {f}, latest)
      BY <1>1, SubsetFaithful
    <3>5. Faithful((S \ {f}) \cup {q}, latest')
      <4> HIDE DEF S, f, q
      <4> QED
        BY <1>1, <1>3, <2>2, <3>1, <3>2, <3>3, <3>4, RecordFaithful
    <3> QED
      BY <2>1, <2>3, <3>5 DEF SlotInv
  <2>4. CASE M = {}
    <3>1. \A r \in S : ~SlotFor(r, c)
      BY <1>1, <1>3, <2>4, TheSlot
    <3>2. /\ SlotFor(new, c) /\ Stored(new) /\ new.pw = v
          /\ new.mode = c.mode
      BY <1>3 DEF SlotFor, Stored
    <3>3. Faithful(S, latest') /\ (ok => Faithful(S \cup {new}, latest'))
      <4> HIDE DEF S, new
      <4> QED
        BY <1>1, <1>3, <2>2, <3>1, <3>2, RecordFaithful
    <3> QED
      BY <2>1, <2>4, <3>3 DEF SlotInv
  <2> QED
    BY <2>3, <2>4
<1> QED
  BY <1>2, <1>3

\* agent_put_cache without data empties the slot of its key that it reaches.
LEMMA ClearFaithful ==
  ASSUME KeysApart, IndInv, SlotInv, NEW c \in Clears, Clear(c)
  PROVE  SlotInv'
<1> DEFINE S == Housekept
           M == {r \in S : Matches(r, c)}
           f == First(M)
           q == [f EXCEPT !.pw = NoData]
           k == <<c.key, c.restricted>>
<1>1. Faithful(S, latest) /\ S \subseteq Slot /\ TypeOK
  BY HousekeptFaithful DEF IndInv
<1>2. CASE c.mode = "IGNORE"
  BY <1>1, <1>2 DEF Clear, SlotInv
<1>3. CASE c.mode # "IGNORE"
  <2>1. RecordClear(c)
    BY <1>3 DEF Clear
  <2>2. \A r \in S : Matches(r, c) <=> SlotFor(r, c) /\ Reaches(c, r)
    BY <1>1, ClearMatches DEF Faithful
  <2>3. M # {} => f \in M
    BY <1>1, FirstIsMember
  <2>4. /\ Faithful(thecache', latest) /\ thecache' \subseteq Slot
        /\ \A r \in thecache' : r.pw # NoData =>
                                  r \in S /\ (M # {} => r # f)
    <3>1. CASE M = {}
      <4>1. thecache' = S
        BY <3>1 DEF Clear
      <4> QED
        BY <1>1, <3>1, <4>1
    <3>2. CASE M # {}
      <4>1. thecache' = (S \ {f}) \cup {q} /\ f \in S /\ f \in Slot
        BY <1>1, <1>3, <2>3, <3>2 DEF Clear
      <4>2. /\ q.key = f.key /\ q.restricted = f.restricted
            /\ q.mode = f.mode /\ q.pw = NoData /\ q \in Slot
        BY <4>1 DEF Slot
      <4> HIDE DEF S, M, f, q
      <4>3. Faithful((S \ {f}) \cup {q}, latest)
        BY <1>1, <4>1, <4>2, ReplaceFaithful
      <4> QED
        BY <1>1, <4>1, <4>2, <4>3
    <3> QED
      BY <3>1, <3>2
  <2>5. k \in Keys \X Restrictions
    BY DEF Keys, Restrictions, Calls
  <2>6. \A x \in Keys \X Restrictions : x # k => latest'[x] = latest[x]
    BY <1>1, <2>1, <2>5, ClearedIs DEF TypeOK
  <2>7. ~Reaches(c, latest[k]) => /\ latest'[k].pw = latest[k].pw
                                  /\ latest'[k].mode = latest[k].mode
    <3>1. latest'[k] = Cleared(c)
      BY <1>1, <2>1, <2>5, ClearedIs DEF TypeOK
    <3> QED
      BY <1>1, <2>1, <3>1, ClearedIs, Zenon
  <2>8. ASSUME NEW r \in thecache', r.pw # NoData, SlotFor(r, c)
        PROVE  ~Reaches(c, latest[k])
    <3>1. r \in S /\ (M # {} => r # f)
      BY <2>4, <2>8
    <3>2. r.mode = latest[k].mode
      BY <1>1, <2>8, <3>1 DEF Faithful, SlotFor
    <3>3. SUFFICES ASSUME Reaches(c, latest[k]) PROVE FALSE
      OBVIOUS
    <3>4. Reaches(c, r)
      BY <3>2, <3>3 DEF Reaches
    <3>5. r \in M
      BY <2>2, <2>8, <3>1, <3>4
    <3>6. f \in S /\ SlotFor(f, c)
      BY <2>2, <2>3, <3>5
    <3>7. r = f
      <4> HIDE DEF S, f
      <4> QED
        BY <1>1, <2>8, <3>1, <3>6 DEF Faithful, SlotFor
    <3> QED
      BY <3>1, <3>5, <3>7
  <2>9. ASSUME NEW r \in thecache', r.pw # NoData
        PROVE  /\ r.pw = latest'[<<r.key, r.restricted>>].pw
               /\ r.mode = latest'[<<r.key, r.restricted>>].mode
    <3> HIDE DEF S, M, f, q
    <3>1. /\ r.pw = latest[<<r.key, r.restricted>>].pw
          /\ r.mode = latest[<<r.key, r.restricted>>].mode
      BY <2>4, <2>9 DEF Faithful
    <3>2. CASE SlotFor(r, c)
      <4>1. <<r.key, r.restricted>> = k
        BY <3>2 DEF SlotFor
      <4> QED
        BY <2>7, <2>8, <2>9, <3>1, <3>2, <4>1
    <3>3. CASE ~SlotFor(r, c)
      <4>1. <<r.key, r.restricted>> # k
        BY <3>3 DEF SlotFor
      <4>2. <<r.key, r.restricted>> \in Keys \X Restrictions
        BY <2>4 DEF Slot
      <4> QED
        BY <2>6, <3>1, <4>1, <4>2
    <3> QED
      BY <3>2, <3>3
  <2> QED
    BY <2>4, <2>9 DEF SlotInv, Faithful
<1> QED
  BY <1>2, <1>3

\* agent_flush_cache empties slots.
LEMMA FlushFaithful ==
  ASSUME IndInv, SlotInv, NEW b \in BOOLEAN, Flush(b)
  PROVE  SlotInv'
<1>1. \A s \in thecache :
        LET r == FlushSlot(s, b) IN
        /\ r.key = s.key /\ r.restricted = s.restricted /\ r.mode = s.mode
        /\ r.pw # NoData => r.pw = s.pw /\ s.pw # NoData
  BY DEF IndInv, TypeOK, FlushSlot, Slot
<1>2. /\ \A r \in thecache' : \E s \in thecache : r = FlushSlot(s, b)
      /\ latest' = latest
  BY DEF Flush
<1>3. ASSUME NEW r \in thecache', NEW s \in thecache',
             r.key = s.key, r.restricted = s.restricted
      PROVE  r = s
  BY <1>1, <1>2, <1>3 DEF SlotInv, Faithful
<1>4. ASSUME NEW r \in thecache'
      PROVE  /\ Stored(r)
             /\ r.pw # NoData =>
                  /\ r.pw = latest[<<r.key, r.restricted>>].pw
                  /\ r.mode = latest[<<r.key, r.restricted>>].mode
  BY <1>1, <1>2 DEF SlotInv, Faithful, Stored
<1> QED
  BY <1>2, <1>3, <1>4 DEF SlotInv, Faithful

\* Every operation of the cache keeps one slot for a key and a restriction.
LEMMA SlotInvStep ==
  ASSUME KeysApart
  PROVE  IndInv /\ SlotInv /\ [Next]_vars => SlotInv'
<1> SUFFICES ASSUME IndInv, SlotInv, [Next]_vars PROVE SlotInv'
  OBVIOUS
<1>1. Faithful(Housekept, latest) /\ Housekept \subseteq Slot
  BY HousekeptFaithful
<1>2. TypeOK /\ thecache \subseteq Slot /\ Faithful(thecache, latest)
  BY DEF IndInv, TypeOK, SlotInv
<1>3. CASE Housekeeping
  BY <1>1, <1>3 DEF Housekeeping, SlotInv
<1>4. ASSUME NEW b \in BOOLEAN, Flush(b) PROVE SlotInv'
  BY <1>4, FlushFaithful
<1>5. ASSUME NEW c \in Puts, NEW v \in Values, NEW ttl \in TTLs,
             Put(c, v, ttl)
      PROVE  SlotInv'
  BY <1>5, PutFaithful
<1>6. ASSUME NEW c \in Clears, Clear(c) PROVE SlotInv'
  BY <1>6, ClearFaithful
<1>7. ASSUME NEW c \in Gets, Get(c) PROVE SlotInv'
  BY <1>1, <1>2, <1>7, SearchFaithful DEF Get
<1>8. ASSUME NEW c \in Gets, GetLast(c) PROVE SlotInv'
  <2>1. CASE Housekept = thecache
    BY <1>2, <1>8, <2>1, SearchFaithful DEF GetLast
  <2>2. CASE Housekept # thecache
    BY <1>1, <1>8, <2>2 DEF GetLast, SlotInv
  <2> QED
    BY <2>1, <2>2
<1>9. CASE GetLastSearch
  BY <1>2, <1>9, SearchFaithful DEF GetLastSearch
<1>10. ASSUME NEW k \in HitKeys, StoreHit(k) PROVE SlotInv'
  BY <1>10 DEF StoreHit, SlotInv
<1>11. CASE Tick \/ UNCHANGED vars
  BY <1>11 DEF Tick, vars, SlotInv
<1> QED
  BY <1>3, <1>4, <1>5, <1>6, <1>7, <1>8, <1>9, <1>10, <1>11 DEF Next

\* It is an invariant of the cache.
LEMMA SlotInvHolds ==
  ASSUME KeysApart
  PROVE  Spec => []SlotInv
<1>1. Init => SlotInv
  BY DEF Init, SlotInv, Faithful
<1>2. IndInv /\ SlotInv /\ [Next]_vars => SlotInv'
  BY SlotInvStep
<1> QED
  BY <1>1, <1>2, IndInvHolds, PTL DEF Spec

\* If no string is stored and looked up for two kinds of secrets, the cache
\* has one slot for a key and a restriction, although agent_put_cache finds
\* slots without regard to their mode: what is replaced has no second copy.
THEOREM CacheOneSlot ==
  ASSUME KeysApart
  PROVE  Spec => []OneSlotPerKey
<1>1. SlotInv => OneSlotPerKey
  BY DEF SlotInv, Faithful, OneSlotPerKey
<1> QED
  BY <1>1, SlotInvHolds, PTL

\* Then agent_get_cache returns what was stored last for the key and the
\* restriction of the connection and not deleted in a mode that reaches it,
\* or nothing: for all TTLs and failures, and deletes in any mode.
THEOREM CacheServesLatest ==
  ASSUME KeysApart
  PROVE  Spec => ServedIsLatest
<1>1. ASSUME IndInv, SlotInv, NEW c \in Gets, Get(c), served' # None
      PROVE  served'.slot.pw = latest[<<c.key, c.restricted>>].pw
  <2> DEFINE M == {r \in Housekept : r.pw # NoData /\ Matches(r, c)}
  <2>1. Faithful(Housekept, latest) /\ Housekept \subseteq Slot
    BY <1>1, HousekeptFaithful
  <2>2. M # {} /\ served'.slot = First(M)
    BY <1>1 DEF Get, SearchIn
  <2>3. First(M) \in M
    BY <2>1, <2>2, FirstIsMember
  <2>4. SlotFor(First(M), c)
    BY <1>1, <2>1, <2>3, MatchesOwn DEF Faithful, Get
  <2> QED
    BY <2>1, <2>2, <2>3, <2>4 DEF Faithful, SlotFor
<1>2. IndInv /\ SlotInv /\ [Next]_vars =>
        [\A c \in Gets :
           Get(c) /\ served' # None =>
             served'.slot.pw = latest[<<c.key, c.restricted>>].pw]_vars
  BY <1>1
<1> QED
  BY <1>2, IndInvHolds, SlotInvHolds, PTL DEF Spec, ServedIsLatest

=============================================================================
