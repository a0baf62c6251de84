---------------------------- MODULE TrustDbProofs ----------------------------
(***************************************************************************)
(* Proofs about TrustDb, for any number of records, keys, user ids and     *)
(* entries of the cache, and any length of the lists: the updates use the  *)
(* cache as TdbCache describes; no record on disk refers to one beyond the *)
(* end of the file (the invariant PInv); every process that is not cut off *)
(* between two write(2) leaves a database that works, with the ownertrusts *)
(* that the updates returned for, and an update changes the ownertrust of  *)
(* its key only (the invariant SInv).                                      *)
(***************************************************************************)
EXTENDS TrustDb, TdbCacheProofs, WellFoundedInduction

\* The pointers of the record d are to records before n.
Below(d, n) == \A q \in RecsOf(d) : q = 0 \/ q < n

\* All records of v are such.
Within(v, n) == \A r \in Recs : Below(v[r], n)

\* What an update may write.
Writable(d, n) == d \in Record /\ d # Garbled /\ Below(d, n)

Steps == [step : {"put"}, recno : Recs, data : Record]
         \cup [step : {"append", "sync", "unlock", "exit"}]

\* The steps w can be taken on a file of e records; if it has no more than
\* that, and all is appended, it has m then.  Whatever is written refers to
\* records that were appended before.
Takes(w, e, m) ==
  /\ w \in Seq(Steps)
  /\ \E n \in [1..Len(w) + 1 -> Nat] :
       /\ n[1] <= e /\ n[Len(w) + 1] = m
       /\ \A i \in 1..Len(w) :
            /\ n[i + 1] = IF w[i].step = "append" THEN n[i] + 1 ELSE n[i]
            /\ w[i].step = "put" => Writable(w[i].data, n[i])

\* What each process keeps up: all pointers, on disk, in the cache, in the
\* record that waits for room and in the writes to come, are to records that
\* exist when they are written.
PInv ==
  /\ Inv /\ eof \in Nat
  /\ Within(file, eof) /\ Within(written, eof)
  /\ call.op = "flush" => Below(call.data, eof)
  /\ call.op = "sync" => todo # <<>> /\ Head(todo).step = "sync"
  /\ \E m \in Nat : Takes(todo, eof, m)

-----------------------------------------------------------------------------
\* The kinds of records, and what they refer to.
LEMMA Kinds ==
  /\ \A f \in Recs, t \in Recs, c \in {0, 1} :
       Ver(f, t, c) \in Record /\ RecsOf(Ver(f, t, c)) = {f}
  /\ \A x \in [Buckets -> Recs] :
       Htbl(x) \in Record /\ RecsOf(Htbl(x)) = Range(x)
  /\ \A n \in Recs, x \in [1..HlstItems -> Recs] :
       Hlst(n, x) \in Record /\ RecsOf(Hlst(n, x)) = {n} \cup Range(x)
  /\ \A k \in Keys, o \in Values, l \in Recs :
       Trust(k, o, l) \in Record /\ RecsOf(Trust(k, o, l)) = {l}
  /\ \A u \in Names, x \in Values, n \in Recs :
       Valid(u, x, n) \in Record /\ RecsOf(Valid(u, x, n)) = {n}
  /\ \A n \in Recs : Free(n) \in Record /\ RecsOf(Free(n)) = {n}
  /\ Unused \in Record /\ RecsOf(Unused) = {}
  /\ Garbled \in Record /\ RecsOf(Garbled) = {}
  BY DEF Record, RecsOf, Ver, Htbl, Hlst, Trust, Valid, Free, Unused, Garbled

\* What a record is, by its type.
LEMMA ByType ==
  ASSUME NEW d \in Record
  PROVE  /\ d.type = "ver" =>
              /\ d = Ver(d.firstfree, d.trusthashtbl, d.nextcheck)
              /\ d.firstfree \in Recs /\ d.trusthashtbl \in Recs
              /\ d.nextcheck \in {0, 1}
         /\ d.type = "htbl" => d = Htbl(d.item) /\ d.item \in [Buckets -> Recs]
         /\ d.type = "hlst" => /\ d = Hlst(d.next, d.rnum) /\ d.next \in Recs
                               /\ d.rnum \in [1..HlstItems -> Recs]
         /\ d.type = "trust" => /\ d = Trust(d.fpr, d.ownertrust, d.validlist)
                                /\ d.fpr \in Keys /\ d.ownertrust \in Values
                                /\ d.validlist \in Recs
         /\ d.type = "valid" => /\ d = Valid(d.name, d.validity, d.next)
                                /\ d.name \in Names /\ d.validity \in Values
                                /\ d.next \in Recs
         /\ d.type = "free" => d = Free(d.next) /\ d.next \in Recs
         /\ d.type \in {"unused", "garbled", "ver", "htbl", "hlst", "trust",
                        "valid", "free"}
         /\ d.type = "unused" => d = Unused
         /\ d.type = "garbled" <=> d = Garbled
  BY DEF Record, Ver, Htbl, Hlst, Trust, Valid, Free, Unused, Garbled

\* Records refer to record numbers.
LEMMA RefsAreRecs ==
  ASSUME NEW d \in Record
  PROVE  RecsOf(d) \subseteq Recs /\ RecsOf(d) \subseteq Nat
<1>1. CASE d.type = "htbl"
  <2>1. RecsOf(d) = Range(d.item) /\ d.item \in [Buckets -> Recs]
    BY <1>1, ByType DEF RecsOf
  <2> QED
    BY <2>1, RecsAssumption DEF Range
<1>2. CASE d.type = "hlst"
  <2>1. RecsOf(d) = {d.next} \cup Range(d.rnum) /\ d.next \in Recs
        /\ d.rnum \in [1..HlstItems -> Recs]
    BY <1>2, ByType DEF RecsOf
  <2> QED
    BY <2>1, RecsAssumption DEF Range
<1>3. CASE d.type \in {"ver", "trust", "valid", "free"}
  <2>1. \E q \in Recs : RecsOf(d) = {q}
    BY <1>3, ByType DEF RecsOf
  <2> QED
    BY <2>1, RecsAssumption
<1>4. CASE d.type \in {"unused", "garbled"}
  <2>1. RecsOf(d) = {}
    BY <1>4 DEF RecsOf
  <2> QED
    BY <2>1
<1> QED
  BY <1>1, <1>2, <1>3, <1>4, ByType

\* A longer file serves as well.
LEMMA TakesMore ==
  ASSUME NEW w, NEW e \in Nat, NEW f \in Nat, e <= f, NEW m \in Nat,
         Takes(w, e, m)
  PROVE  Takes(w, f, m)
<1>1. w \in Seq(Steps)
  BY DEF Takes
<1>2. PICK n \in [1..Len(w) + 1 -> Nat] :
        /\ n[1] <= e /\ n[Len(w) + 1] = m
        /\ \A i \in 1..Len(w) :
             /\ n[i + 1] = IF w[i].step = "append" THEN n[i] + 1 ELSE n[i]
             /\ w[i].step = "put" => Writable(w[i].data, n[i])
  BY DEF Takes
<1>3. Len(w) \in Nat
  BY <1>1, LenProperties
<1>4. n[1] <= f
  BY <1>2, <1>3
<1> QED
  BY <1>1, <1>2, <1>4 DEF Takes

\* The first step is taken.
LEMMA TakesTail ==
  ASSUME NEW w, w # <<>>, NEW e \in Nat, NEW m \in Nat, Takes(w, e, m)
  PROVE  /\ Head(w) \in Steps
         /\ Head(w).step = "put" => Writable(Head(w).data, e)
         /\ Head(w).step # "append" => Takes(Tail(w), e, m)
         /\ Head(w).step = "append" => Takes(Tail(w), e + 1, m)
<1>1. w \in Seq(Steps)
  BY DEF Takes
<1>2. PICK n \in [1..Len(w) + 1 -> Nat] :
        /\ n[1] <= e /\ n[Len(w) + 1] = m
        /\ \A i \in 1..Len(w) :
             /\ n[i + 1] = IF w[i].step = "append" THEN n[i] + 1 ELSE n[i]
             /\ w[i].step = "put" => Writable(w[i].data, n[i])
  BY DEF Takes
<1>3. /\ Len(w) \in Nat /\ Len(w) # 0
      /\ Head(w) \in Steps /\ Tail(w) \in Seq(Steps)
      /\ Len(Tail(w)) = Len(w) - 1
      /\ \A i \in 1..Len(Tail(w)) : Tail(w)[i] = w[i + 1]
      /\ Head(w) = w[1]
  BY <1>1, LenProperties, EmptySeq, HeadTailProperties
<1> DEFINE k == [i \in 1..Len(Tail(w)) + 1 |-> n[i + 1]]
<1>4. k \in [1..Len(Tail(w)) + 1 -> Nat]
  BY <1>3
<1>5. k[1] = n[2] /\ k[Len(Tail(w)) + 1] = m
  BY <1>2, <1>3
<1>6. ASSUME NEW i \in 1..Len(Tail(w))
      PROVE  /\ k[i + 1] = IF Tail(w)[i].step = "append" THEN k[i] + 1
                                                         ELSE k[i]
             /\ Tail(w)[i].step = "put" => Writable(Tail(w)[i].data, k[i])
  <2>1. i + 1 \in 1..Len(w) /\ i + 1 \in 1..Len(Tail(w)) + 1
        /\ i \in 1..Len(Tail(w)) + 1
    BY <1>3
  <2>2. k[i] = n[i + 1] /\ k[i + 1] = n[(i + 1) + 1] /\ Tail(w)[i] = w[i + 1]
    BY <1>3, <2>1
  <2> QED
    BY <1>2, <2>1, <2>2
<1>7. \A f \in Nat : n[2] <= f => Takes(Tail(w), f, m)
  <2> HIDE DEF k
  <2> QED
    BY <1>3, <1>4, <1>5, <1>6 DEF Takes
<1>8. /\ n[2] = IF Head(w).step = "append" THEN n[1] + 1 ELSE n[1]
      /\ Head(w).step = "put" => Writable(Head(w).data, n[1])
  <2>1. 1 \in 1..Len(w)
    BY <1>3
  <2> QED
    BY <1>2, <1>3, <2>1
<1>9. n[1] \in Nat /\ n[1] <= e
  BY <1>2, <1>3
<1>10. Writable(Head(w).data, n[1]) => Writable(Head(w).data, e)
  <2> SUFFICES ASSUME Writable(Head(w).data, n[1]),
                      NEW q \in RecsOf(Head(w).data)
               PROVE  q = 0 \/ q < e
    BY DEF Writable, Below
  <2>1. q = 0 \/ q < n[1]
    BY DEF Writable, Below
  <2>2. q \in Nat
    BY RefsAreRecs DEF Writable
  <2> QED
    BY <1>9, <2>1, <2>2
<1> QED
  BY <1>3, <1>7, <1>8, <1>9, <1>10

\* A step is added.
LEMMA TakesAppend ==
  ASSUME NEW w, NEW e \in Nat, NEW m \in Nat, Takes(w, e, m), NEW x \in Steps,
         x.step = "put" => Writable(x.data, m)
  PROVE  Takes(Append(w, x), e, IF x.step = "append" THEN m + 1 ELSE m)
<1>1. w \in Seq(Steps)
  BY DEF Takes
<1>2. PICK n \in [1..Len(w) + 1 -> Nat] :
        /\ n[1] <= e /\ n[Len(w) + 1] = m
        /\ \A i \in 1..Len(w) :
             /\ n[i + 1] = IF w[i].step = "append" THEN n[i] + 1 ELSE n[i]
             /\ w[i].step = "put" => Writable(w[i].data, n[i])
  BY DEF Takes
<1> DEFINE y == Append(w, x)
           z == IF x.step = "append" THEN m + 1 ELSE m
           k == [i \in 1..Len(y) + 1 |-> IF i = Len(w) + 2 THEN z ELSE n[i]]
<1>3. /\ Len(w) \in Nat /\ y \in Seq(Steps) /\ Len(y) = Len(w) + 1
      /\ \A i \in 1..Len(w) : y[i] = w[i]
      /\ y[Len(w) + 1] = x
  BY <1>1, LenProperties, AppendProperties
<1>4. z \in Nat
  OBVIOUS
<1> HIDE DEF y, z
<1>5. k \in [1..Len(y) + 1 -> Nat] /\ k[Len(y) + 1] = z
  BY <1>3, <1>4
<1>6. k[1] <= e
  BY <1>2, <1>3
<1>7. ASSUME NEW i \in 1..Len(y)
      PROVE  /\ k[i + 1] = IF y[i].step = "append" THEN k[i] + 1 ELSE k[i]
             /\ y[i].step = "put" => Writable(y[i].data, k[i])
  <2>1. i \in 1..Len(y) + 1 /\ i + 1 \in 1..Len(y) + 1 /\ k[i] = n[i]
    BY <1>3
  <2>2. CASE i = Len(w) + 1
    <3>1. y[i] = x /\ k[i] = m /\ k[i + 1] = z
      BY <1>2, <1>3, <2>1, <2>2
    <3> QED
      BY <3>1 DEF z
  <2>3. CASE i # Len(w) + 1
    <3>1. i \in 1..Len(w) /\ k[i + 1] = n[i + 1] /\ y[i] = w[i]
      BY <1>3, <2>1, <2>3
    <3> QED
      BY <1>2, <2>1, <3>1
  <2> QED
    BY <2>2, <2>3
<1>8. Takes(y, e, z)
  <2> HIDE DEF k
  <2> QED
    BY <1>3, <1>5, <1>6, <1>7 DEF Takes
<1> QED
  BY <1>8 DEF y, z

\* An update starts with nothing to do.
LEMMA TakesNothing ==
  ASSUME NEW e \in Nat
  PROVE  Takes(<<>>, e, e)
<1> DEFINE n == [i \in 1..1 |-> e]
<1>1. <<>> \in Seq(Steps) /\ Len(<<>>) = 0
  BY EmptySeq
<1>2. n \in [1..Len(<<>>) + 1 -> Nat] /\ n[1] <= e /\ n[Len(<<>>) + 1] = e
  BY <1>1
<1>3. 1..Len(<<>>) = {}
  BY <1>1
<1> HIDE DEF n
<1> QED
  BY <1>1, <1>2, <1>3 DEF Takes

\* A longer file serves as well for pointers.
LEMMA BelowMore ==
  ASSUME NEW d \in Record, NEW e \in Nat, NEW f \in Nat, e <= f, Below(d, e)
  PROVE  Below(d, f)
  BY RefsAreRecs DEF Below

\* So it does for all records.
LEMMA WithinMore ==
  ASSUME NEW v \in [Recs -> Record], NEW e \in Nat, NEW f \in Nat, e <= f,
         Within(v, e)
  PROVE  Within(v, f)
  BY BelowMore DEF Within

\* Sets of naturals have a least member.
LEMMA LeastNatural ==
  ASSUME NEW T, T \subseteq Nat, T # {}
  PROVE  \E x \in T : \A y \in T : x <= y
<1>1. PICK x \in T : \A y \in T : ~(<<y, x>> \in OpToRel(<, Nat))
  BY NatLessThanWellFounded, WFMin, Zenon
<1>2. \A y \in T : ~(y < x)
  BY <1>1 DEF OpToRel
<1> QED
  BY <1>2

\* Min is one of them.
LEMMA MinIsMember ==
  ASSUME NEW T, T \subseteq Nat, T # {}
  PROVE  Min(T) \in T
<1>1. \E x \in T : \A y \in T : x =< y
  BY LeastNatural
<1> QED
  BY <1>1 DEF Min

\* There is a number of records.
LEMMA RecsCount == Cardinality(Recs) \in Nat \ {0}
<1>1. IsFiniteSet(Recs) /\ 0 \in Recs
  BY RecsInterval, RecsAssumption
<1> QED
  BY <1>1, FS_CardinalityType, FS_EmptySet

\* The records of a list are of its type.
LEMMA ChainType ==
  ASSUME NEW v \in [Recs -> Record], NEW h \in Recs,
         NEW type \in {"hlst", "valid", "free"}
  PROVE  LET S == {r \in Recs : r # 0 /\ v[r].type = type} IN
         /\ Chain(v, h, type) \in Seq(S)
         /\ h \in S => Chain(v, h, type) # <<>>
<1> DEFINE S == {r \in Recs : r # 0 /\ v[r].type = type}
           C == Cardinality(Recs)
           follow == [p \in Seq(S) |->
             LET r == IF p = <<>> THEN h ELSE v[p[Len(p)]].next
             IN  IF r # 0 /\ v[r].type = type THEN Append(p, r) ELSE p]
           walk[i \in 0..Cardinality(Recs)] ==
             IF i = 0 THEN <<>>
             ELSE LET p == walk[i - 1]
                      r == IF p = <<>> THEN h ELSE v[p[Len(p)]].next
                  IN  IF r # 0 /\ v[r].type = type THEN Append(p, r) ELSE p
<1>1. Chain(v, h, type) = walk[C]
  BY DEF Chain
<1>2. ASSUME NEW p \in Seq(S)
      PROVE  /\ follow[p] \in Seq(S)
             /\ (p # <<>> \/ h \in S) => follow[p] # <<>>
  <2> DEFINE r == IF p = <<>> THEN h ELSE v[p[Len(p)]].next
  <2>1. r \in Recs
    <3>1. CASE p = <<>>
      BY <3>1
    <3>2. CASE p # <<>>
      <4>1. p[Len(p)] \in S
        BY <3>2, EmptySeq, ElementOfSeq, LenProperties
      <4>2. v[p[Len(p)]].next \in Recs
        BY <4>1, ByType
      <4> QED
        BY <3>2, <4>2
    <3> QED
      BY <3>1, <3>2
  <2>2. follow[p] = IF r # 0 /\ v[r].type = type THEN Append(p, r) ELSE p
    OBVIOUS
  <2>3. r \in S => Append(p, r) \in Seq(S) /\ Append(p, r) # <<>>
    <3>1. Len(p) \in Nat /\ Len(<<>>) = 0
      BY LenProperties, EmptySeq
    <3> HIDE DEF r, S
    <3>2. r \in S => /\ Append(p, r) \in Seq(S)
                     /\ Len(Append(p, r)) = Len(p) + 1
      BY AppendProperties
    <3> QED
      BY <3>1, <3>2
  <2>4. r # 0 /\ v[r].type = type <=> r \in S
    BY <2>1
  <2> HIDE DEF follow, S
  <2> QED
    BY <2>2, <2>3, <2>4
<1> DEFINE P(n) == \E g \in [0..n -> Seq(S)] :
                     /\ g[0] = <<>>
                     /\ \A i \in 1..n : g[i] = follow[g[i - 1]]
<1>3. ASSUME NEW n \in Nat, P(n) PROVE P(n + 1)
  <2>1. PICK g \in [0..n -> Seq(S)] : /\ g[0] = <<>>
                                      /\ \A i \in 1..n : g[i] = follow[g[i - 1]]
    BY <1>3
  <2> DEFINE k == [i \in 0..n + 1 |-> IF i = n + 1 THEN follow[g[n]] ELSE g[i]]
  <2> HIDE DEF follow, S
  <2>2. k \in [0..n + 1 -> Seq(S)]
    BY <1>2
  <2>3. k[0] = <<>>
    BY <2>1
  <2>4. ASSUME NEW i \in 1..n + 1 PROVE k[i] = follow[k[i - 1]]
    <3>1. CASE i = n + 1
      BY <3>1
    <3>2. CASE i # n + 1
      <4>1. i \in 1..n /\ i - 1 \in 0..n + 1 /\ i - 1 # n + 1 /\ i \in 0..n + 1
        BY <3>2
      <4> QED
        BY <2>1, <3>2, <4>1
    <3> QED
      BY <3>1, <3>2
  <2> HIDE DEF k
  <2> QED
    BY <2>2, <2>3, <2>4
<1>4. P(0)
  <2> DEFINE g == [i \in 0..0 |-> <<>>]
  <2>1. <<>> \in Seq(S)
    BY EmptySeq
  <2>2. g \in [0..0 -> Seq(S)] /\ g[0] = <<>> /\ 1..0 = {}
    BY <2>1
  <2> HIDE DEF g
  <2> QED
    BY <2>2
<1>5. \A n \in Nat : P(n)
  <2> DEFINE T == {n \in Nat : ~P(n)}
  <2> HIDE DEF P
  <2>1. SUFFICES ASSUME T # {} PROVE FALSE
    OBVIOUS
  <2>2. PICK x \in T : \A y \in T : x <= y
    BY <2>1, LeastNatural
  <2>3. x # 0 /\ x \in Nat
    BY <1>4, <2>2
  <2>4. x - 1 \in Nat /\ x - 1 \notin T
    BY <2>2, <2>3
  <2>5. P((x - 1) + 1)
    BY <1>3, <2>4
  <2> QED
    BY <2>2, <2>3, <2>5
<1>6. C \in Nat \ {0}
  BY RecsCount
<1>7. PICK g \in [0..C -> Seq(S)] : /\ g[0] = <<>>
                                    /\ \A i \in 1..C : g[i] = follow[g[i - 1]]
  BY <1>5, <1>6
<1> DEFINE body(f, i) ==
             IF i = 0 THEN <<>>
             ELSE LET p == f[i - 1]
                      r == IF p = <<>> THEN h ELSE v[p[Len(p)]].next
                  IN  IF r # 0 /\ v[r].type = type THEN Append(p, r) ELSE p
<1>8. g = [i \in 0..Cardinality(Recs) |-> body(g, i)]
  <2>1. ASSUME NEW i \in 0..C PROVE g[i] = body(g, i)
    <3>1. CASE i = 0
      BY <1>7, <3>1
    <3>2. CASE i # 0
      <4>1. i \in 1..C /\ i - 1 \in 0..C
        BY <1>6, <3>2
      <4>2. g[i - 1] \in Seq(S) /\ g[i] = follow[g[i - 1]]
        BY <1>7, <4>1
      <4> QED
        BY <3>2, <4>2
    <3> QED
      BY <3>1, <3>2
  <2> HIDE DEF body
  <2> QED
    BY <1>7, <2>1
<1>9. walk = [i \in 0..Cardinality(Recs) |-> body(walk, i)]
  BY <1>8
<1>10. \A i \in 0..C : walk[i] = g[i]
  <2> HIDE DEF walk, follow, S, body
  <2>1. /\ \A i \in 0..C : walk[i] = body(walk, i)
        /\ \A i \in 0..C : g[i] = body(g, i)
    <3>1. walk = [i \in 0..C |-> body(walk, i)]
      BY <1>9
    <3>2. g = [i \in 0..C |-> body(g, i)]
      BY <1>8
    <3> HIDE DEF C
    <3>3. \A i \in 0..C : walk[i] = body(walk, i)
      BY <3>1, Zenon
    <3>4. \A i \in 0..C : g[i] = body(g, i)
      BY <3>2, Zenon
    <3> QED
      BY <3>3, <3>4, Zenon
  <2> DEFINE T == {i \in 0..C : walk[i] # g[i]}
  <2>2. SUFFICES ASSUME T # {} PROVE FALSE
    OBVIOUS
  <2>3. PICK x \in T : \A y \in T : x <= y
    <3>1. T \subseteq Nat
      BY <1>6
    <3> HIDE DEF T
    <3> QED
      BY <2>2, <3>1, LeastNatural
  <2>4. x \in 0..C /\ walk[x] # g[x] /\ \A y \in 0..C : y < x => y \notin T
    <3>1. x \in 0..C /\ walk[x] # g[x]
      BY <2>3
    <3> HIDE DEF T, C
    <3>2. ASSUME NEW y \in 0..C, y < x PROVE y \notin T
      BY <2>3, <3>1, <3>2
    <3> QED
      BY <3>1, <3>2
  <2>5. \A f : body(f, 0) = <<>>
    BY DEF body
  <2>6. x # 0
    BY <2>1, <2>4, <2>5
  <2>7. x \in 1..C /\ x - 1 \in 0..C /\ x - 1 < x
    <3> HIDE DEF C
    <3> QED
      BY <1>6, <2>4, <2>6
  <2>8. walk[x - 1] = g[x - 1]
    BY <2>4, <2>7
  <2>9. body(walk, x) = body(g, x)
    BY <2>6, <2>8, Zenon DEF body
  <2> HIDE DEF C, T
  <2> QED
    BY <2>1, <2>4, <2>9
<1>11. walk[C] \in Seq(S)
  <2> HIDE DEF walk, follow, S
  <2>1. C \in 0..C
    BY <1>6
  <2> QED
    BY <1>7, <1>10, <2>1
<1>12. h \in S => walk[C] # <<>>
  <2> HIDE DEF walk, follow, S
  <2>1. C - 1 \in 0..C /\ C \in 1..C /\ C \in 0..C
    BY <1>6
  <2>2. g[C] = follow[g[C - 1]] /\ g[C - 1] \in Seq(S)
    BY <1>7, <2>1
  <2> QED
    BY <1>2, <1>10, <2>1, <2>2
<1> HIDE DEF walk, S, C
<1> QED
  BY <1>1, <1>11, <1>12 DEF S

\* lookup_hashtable returns a trust record of the key.
LEMMA LookupFound ==
  ASSUME NEW v \in [Recs -> Record], NEW n \in Nat, Within(v, n),
         v[0].type = "ver", NEW k \in Keys, Lookup(v, k) > 0
  PROVE  LET r == Lookup(v, k) IN
         /\ r \in Recs /\ r # 0 /\ r < n
         /\ v[r].type = "trust" /\ v[r].fpr = k
<1> DEFINE t == v[0].trusthashtbl
           item == v[t].item[Bucket[k]]
           list == HashList(v, item)
           hits(j) == {i \in 1..HlstItems : IsOf(v, v[list[j]].rnum[i], k)}
           with == {j \in DOMAIN list : hits(j) # {}}
<1>1. 0 \in Recs /\ v[0] \in Record
  BY RecsAssumption
<1>2. t \in Recs /\ v[t] \in Record
  BY <1>1, ByType
<1>3. t # 0 /\ v[t].type = "htbl"
  <2> SUFFICES ASSUME t = 0 \/ v[t].type # "htbl" PROVE FALSE
    OBVIOUS
  <2>1. Lookup(v, k) = -1
    BY DEF Lookup
  <2> QED
    BY <2>1
<1>4. item \in Recs /\ item \in RecsOf(v[t])
  <2>1. v[t].item \in [Buckets -> Recs] /\ RecsOf(v[t]) = Range(v[t].item)
    BY <1>2, <1>3, ByType DEF RecsOf
  <2>2. Bucket[k] \in Buckets
    BY DEF Buckets
  <2> QED
    BY <2>1, <2>2 DEF Range
<1>5. Lookup(v, k) = IF item = 0 THEN 0
                    ELSE IF v[item].type # "hlst"
                    THEN IF IsOf(v, item, k) THEN item ELSE 0
                    ELSE IF with # {}
                    THEN v[list[Min(with)]].rnum[Min(hits(Min(with)))]
                    ELSE IF Complete(v, list) THEN 0 ELSE -1
  BY <1>3 DEF Lookup
<1> HIDE DEF t, item, with, list
<1>6. CASE v[item].type # "hlst"
  <2>1. Lookup(v, k) = item /\ item # 0 /\ IsOf(v, item, k)
    BY <1>5, <1>6
  <2>2. item < n
    BY <1>2, <1>4, <2>1 DEF Within, Below
  <2> QED
    BY <1>4, <2>1, <2>2 DEF IsOf
<1>7. CASE item # 0 /\ v[item].type = "hlst"
  <2>1. list \in Seq({r \in Recs : r # 0 /\ v[r].type = "hlst"})
    BY <1>4, ChainType DEF list, HashList
  <2>2. /\ with # {}
        /\ Lookup(v, k) = v[list[Min(with)]].rnum[Min(hits(Min(with)))]
    BY <1>5, <1>7
  <2> DEFINE j == Min(with)
             i == Min(hits(j))
  <2>3. j \in DOMAIN list /\ hits(j) # {}
    <3>1. with \subseteq Nat
      BY <2>1, LenProperties DEF with
    <3>2. Min(with) \in with
      BY <2>2, <3>1, MinIsMember
    <3> QED
      BY <3>2 DEF with
  <2> HIDE DEF j
  <2>4. i \in 1..HlstItems /\ IsOf(v, v[list[j]].rnum[i], k)
    <3>1. hits(j) \subseteq Nat
      BY HlstAssumption
    <3>2. Min(hits(j)) \in hits(j)
      <4> HIDE DEF hits
      <4> QED
        BY <2>3, <3>1, MinIsMember
    <3> QED
      BY <3>2
  <2> HIDE DEF i
  <2>5. list[j] \in Recs /\ v[list[j]].type = "hlst"
    BY <2>1, <2>3, LenProperties
  <2>6. /\ v[list[j]].rnum[i] \in Recs
        /\ v[list[j]].rnum[i] \in RecsOf(v[list[j]])
    <3>1. /\ v[list[j]].rnum \in [1..HlstItems -> Recs]
          /\ Range(v[list[j]].rnum) \subseteq RecsOf(v[list[j]])
      BY <2>5, ByType DEF RecsOf
    <3> QED
      BY <2>4, <3>1 DEF Range
  <2>7. Lookup(v, k) = v[list[j]].rnum[i]
    BY <2>2 DEF i, j
  <2>8. Lookup(v, k) # 0 /\ IsOf(v, Lookup(v, k), k)
    BY <2>4, <2>7 DEF IsOf
  <2>9. Lookup(v, k) < n
    BY <2>5, <2>6, <2>7, <2>8 DEF Within, Below
  <2> QED
    BY <2>6, <2>7, <2>8, <2>9 DEF IsOf
<1>8. item # 0
  BY <1>5
<1> QED
  BY <1>6, <1>7, <1>8

-----------------------------------------------------------------------------
\* The state of a computation; its n only grows.
Shape(s) == s \in [v : {s.v}, n : Nat, w : {s.w}, ok : BOOLEAN]

\* If the records fit: they are of their types, the first is the version
\* record, all refer to records that exist, and the writes can be done.
Fit(s) ==
  /\ s.v \in [Recs -> Record] /\ s.v[0].type = "ver" /\ Within(s.v, s.n)
  /\ Takes(s.w, eof, s.n)

Sane(s) == Shape(s) /\ (s.n \in Recs => Fit(s))

\* The steps of updates.
LEMMA StepTypes ==
  /\ \A r \in Recs, d \in Record : /\ PutStep(r, d) \in Steps
                                   /\ PutStep(r, d).step = "put"
                                   /\ PutStep(r, d).data = d
  /\ \A x \in {"append", "sync", "unlock", "exit"} :
       [step |-> x] \in Steps /\ [step |-> x].step = x
  BY DEF PutStep, Steps

\* The record d may be written as r in s, and x is the state after that.
CanWrite(s, r, d) ==
  s.n \in Recs /\ s.ok => /\ r \in Recs /\ Writable(d, s.n)
                          /\ r = 0 => d.type = "ver"

Wrote(x, s, r, d) ==
  /\ Sane(x) /\ x.n = s.n
  /\ s.ok => x.ok
  /\ ~s.ok => x = s
  /\ s.n \in Recs /\ s.ok => x.v = [s.v EXCEPT ![r] = d]

\* tdbio_write_record of a record that fits.
LEMMA WriteRecSane ==
  ASSUME eof \in Nat, NEW s, Sane(s), NEW r, NEW d, CanWrite(s, r, d)
  PROVE  Wrote(WriteRec(s, r, d), s, r, d)
<1> DEFINE x == WriteRec(s, r, d)
<1>1. CASE ~s.ok
  BY <1>1 DEF WriteRec, Wrote
<1>2. CASE s.ok
  <2>1. x = [s EXCEPT !.v = [s.v EXCEPT ![r] = d],
                      !.w = Append(s.w, PutStep(r, d))]
    BY <1>2 DEF WriteRec, Sane, Shape
  <2>2. Shape(x) /\ x.n = s.n /\ x.ok = s.ok /\ x.v = [s.v EXCEPT ![r] = d]
        /\ x.w = Append(s.w, PutStep(r, d))
    BY <2>1 DEF Sane, Shape
  <2>3. ASSUME s.n \in Recs PROVE Fit(x)
    <3>1. /\ r \in Recs /\ d \in Record /\ Below(d, s.n) /\ Writable(d, s.n)
          /\ r = 0 => d.type = "ver"
      BY <1>2, <2>3 DEF Writable, CanWrite
    <3>2. Fit(s)
      BY <2>3 DEF Sane
    <3>3. /\ x.v \in [Recs -> Record] /\ x.v[0].type = "ver"
          /\ Within(x.v, x.n)
      BY <2>2, <3>1, <3>2, RecsAssumption DEF Fit, Within
    <3>4. Takes(x.w, eof, x.n)
      <4>1. s.n \in Nat /\ Takes(s.w, eof, s.n)
        BY <3>2 DEF Fit, Sane, Shape
      <4>2. /\ PutStep(r, d) \in Steps /\ PutStep(r, d).step = "put"
            /\ PutStep(r, d).data = d
        BY <3>1, StepTypes
      <4> QED
        BY <2>2, <3>1, <4>1, <4>2, TakesAppend
    <3> QED
      BY <3>3, <3>4 DEF Fit
  <2>4. Sane(x)
    BY <2>2, <2>3 DEF Sane
  <2> HIDE DEF x
  <2>5. Wrote(x, s, r, d)
    BY <1>2, <2>2, <2>4 DEF Wrote
  <2> QED
    BY <2>5 DEF x
<1> QED
  BY <1>1, <1>2

\* The sync at the end, and an error.
LEMMA SyncSane ==
  ASSUME eof \in Nat, NEW s, Sane(s)
  PROVE  /\ Sane(Sync(s)) /\ Sync(s).n = s.n
         /\ Sane(Die(s)) /\ Die(s).n = s.n /\ Die(s).ok = FALSE
         /\ Die(s).v = s.v
<1>1. Shape(s) /\ s.n \in Nat
  BY DEF Sane, Shape
<1>2. /\ Shape(Die(s)) /\ Die(s).n = s.n /\ Die(s).ok = FALSE
      /\ Die(s).v = s.v /\ Die(s).w = s.w
  BY <1>1 DEF Die, Shape
<1>3. Sane(Die(s))
  BY <1>2 DEF Sane, Fit
<1>4. CASE s.ok
  <2> DEFINE x == Sync(s)
  <2>1. /\ Shape(x) /\ x.n = s.n /\ x.v = s.v /\ x.ok = s.ok
        /\ x.w = Append(s.w, SyncStep)
    BY <1>1, <1>4 DEF Sync, Shape
  <2>2. Takes(s.w, eof, s.n) => Takes(Append(s.w, SyncStep), eof, s.n)
    <3>1. SyncStep \in Steps /\ SyncStep.step = "sync"
      BY StepTypes DEF SyncStep
    <3> QED
      BY <1>1, <3>1, TakesAppend
  <2>3. Sane(x)
    BY <2>1, <2>2 DEF Sane, Fit
  <2> QED
    BY <1>2, <1>3, <2>1, <2>3
<1>5. CASE ~s.ok
  BY <1>2, <1>3, <1>5 DEF Sync
<1> QED
  BY <1>4, <1>5

\* Changes to a field keep a record writable: the version record.
LEMMA EditedVer ==
  ASSUME NEW d \in Record, NEW n \in Nat, Below(d, n), d.type = "ver",
         NEW z \in Recs, z = 0 \/ z < n, NEW c \in {0, 1}
  PROVE  /\ Writable([d EXCEPT !.firstfree = z], n)
         /\ Writable([d EXCEPT !.nextcheck = c], n)
         /\ [d EXCEPT !.firstfree = z].type = "ver"
         /\ [d EXCEPT !.nextcheck = c].type = "ver"
         /\ \A t \in Recs : /\ Writable([d EXCEPT !.trusthashtbl = t], n)
                            /\ [d EXCEPT !.trusthashtbl = t].type = "ver"
<1>1. /\ d = Ver(d.firstfree, d.trusthashtbl, d.nextcheck)
      /\ d.firstfree \in Recs /\ d.trusthashtbl \in Recs
      /\ d.nextcheck \in {0, 1}
  BY ByType
<1>2. /\ [d EXCEPT !.firstfree = z] = Ver(z, d.trusthashtbl, d.nextcheck)
      /\ [d EXCEPT !.nextcheck = c] = Ver(d.firstfree, d.trusthashtbl, c)
      /\ \A t : [d EXCEPT !.trusthashtbl = t]
                = Ver(d.firstfree, t, d.nextcheck)
  BY <1>1 DEF Ver
<1>3. RecsOf(d) = {d.firstfree}
  BY DEF RecsOf
<1>4. \A f \in Recs, t \in Recs, e \in {0, 1} :
        /\ Ver(f, t, e) # Garbled /\ Ver(f, t, e).type = "ver"
        /\ f = 0 \/ f < n => Writable(Ver(f, t, e), n)
  <2>1. \A f, t, e : Ver(f, t, e) # Garbled /\ Ver(f, t, e).type = "ver"
    BY DEF Ver, Garbled
  <2> QED
    BY <2>1, Kinds DEF Writable, Below
<1> QED
  BY <1>1, <1>2, <1>3, <1>4 DEF Below

\* An item of the hash table.
LEMMA EditedHtbl ==
  ASSUME NEW d \in Record, NEW n \in Nat, Below(d, n), d.type = "htbl",
         NEW z \in Recs, z = 0 \/ z < n, NEW b \in Buckets
  PROVE  Writable([d EXCEPT !.item[b] = z], n)
<1>1. d = Htbl(d.item) /\ d.item \in [Buckets -> Recs]
  BY ByType
<1> DEFINE x == [d.item EXCEPT ![b] = z]
<1>2. [d EXCEPT !.item[b] = z] = Htbl(x)
  BY <1>1 DEF Htbl
<1>3. x \in [Buckets -> Recs] /\ \A c \in Buckets : x[c] \in {z, d.item[c]}
  BY <1>1
<1>4. RecsOf(d) = Range(d.item)
  BY DEF RecsOf
<1>5. \A c \in Buckets : d.item[c] = 0 \/ d.item[c] < n
  BY <1>1, <1>4 DEF Below, Range
<1> HIDE DEF x
<1>6. Htbl(x) \in Record /\ RecsOf(Htbl(x)) = Range(x) /\ Htbl(x) # Garbled
  <2>1. Htbl(x) # Garbled
    BY DEF Htbl, Garbled
  <2> QED
    BY <1>3, <2>1, Kinds
<1>7. \A q \in Range(x) : q = 0 \/ q < n
  BY <1>3, <1>5 DEF Range
<1> QED
  BY <1>2, <1>6, <1>7 DEF Writable, Below

\* A record of a hash list.
LEMMA NewHlst ==
  ASSUME NEW n \in Nat, NEW z \in Recs, z = 0 \/ z < n,
         NEW x \in [1..HlstItems -> Recs],
         \A i \in 1..HlstItems : x[i] = 0 \/ x[i] < n
  PROVE  Writable(Hlst(z, x), n) /\ Hlst(z, x).type = "hlst"
<1>1. Hlst(z, x) # Garbled /\ Hlst(z, x).type = "hlst"
  BY DEF Hlst, Garbled
<1>2. Hlst(z, x) \in Record /\ RecsOf(Hlst(z, x)) = {z} \cup Range(x)
  BY Kinds
<1>3. \A q \in {z} \cup Range(x) : q = 0 \/ q < n
  BY DEF Range
<1> QED
  BY <1>1, <1>2, <1>3 DEF Writable, Below

\* A place in a hash list, or what follows it.
LEMMA EditedHlst ==
  ASSUME NEW d \in Record, NEW n \in Nat, Below(d, n), d.type = "hlst",
         NEW z \in Recs, z = 0 \/ z < n, NEW i \in 1..HlstItems
  PROVE  /\ Writable([d EXCEPT !.rnum[i] = z], n)
         /\ Writable([d EXCEPT !.next = z], n)
<1>1. /\ d = Hlst(d.next, d.rnum) /\ d.next \in Recs
      /\ d.rnum \in [1..HlstItems -> Recs]
  BY ByType
<1> DEFINE x == [d.rnum EXCEPT ![i] = z]
<1>2. /\ [d EXCEPT !.rnum[i] = z] = Hlst(d.next, x)
      /\ [d EXCEPT !.next = z] = Hlst(z, d.rnum)
  BY <1>1 DEF Hlst
<1>3. /\ x \in [1..HlstItems -> Recs]
      /\ \A c \in 1..HlstItems : x[c] \in {z, d.rnum[c]}
  BY <1>1
<1>4. RecsOf(d) = {d.next} \cup Range(d.rnum)
  BY DEF RecsOf
<1>5. /\ d.next = 0 \/ d.next < n
      /\ \A c \in 1..HlstItems : d.rnum[c] = 0 \/ d.rnum[c] < n
  BY <1>1, <1>4 DEF Below, Range
<1>6. \A c \in 1..HlstItems : x[c] = 0 \/ x[c] < n
  <2> HIDE DEF x
  <2> QED
    BY <1>3, <1>5
<1> HIDE DEF x
<1>7. Writable(Hlst(d.next, x), n)
  BY <1>1, <1>3, <1>5, <1>6, NewHlst
<1>8. Writable(Hlst(z, d.rnum), n)
  BY <1>1, <1>5, NewHlst
<1> QED
  BY <1>2, <1>7, <1>8

\* The ownertrust or the validities of a key.
LEMMA EditedTrust ==
  ASSUME NEW d \in Record, NEW n \in Nat, Below(d, n), d.type = "trust",
         NEW z \in Recs, z = 0 \/ z < n, NEW x \in Values
  PROVE  /\ Writable(d, n)
         /\ Writable([d EXCEPT !.ownertrust = x], n)
         /\ Writable([d EXCEPT !.validlist = z], n)
         /\ [d EXCEPT !.ownertrust = x].type = "trust"
         /\ [d EXCEPT !.validlist = z].type = "trust"
         /\ [d EXCEPT !.ownertrust = x].fpr = d.fpr
         /\ [d EXCEPT !.validlist = z].fpr = d.fpr
<1>1. /\ d = Trust(d.fpr, d.ownertrust, d.validlist)
      /\ d.fpr \in Keys /\ d.ownertrust \in Values /\ d.validlist \in Recs
  BY ByType
<1>2. /\ [d EXCEPT !.ownertrust = x] = Trust(d.fpr, x, d.validlist)
      /\ [d EXCEPT !.validlist = z] = Trust(d.fpr, d.ownertrust, z)
  BY <1>1 DEF Trust
<1>3. RecsOf(d) = {d.validlist}
  BY DEF RecsOf
<1>4. \A k \in Keys, o \in Values, l \in Recs :
        /\ Trust(k, o, l).type = "trust" /\ Trust(k, o, l).fpr = k
        /\ l = 0 \/ l < n => Writable(Trust(k, o, l), n)
  <2>1. \A k, o, l : /\ Trust(k, o, l) # Garbled
                     /\ Trust(k, o, l).type = "trust"
                     /\ Trust(k, o, l).fpr = k
    BY DEF Trust, Garbled
  <2> QED
    BY <2>1, Kinds DEF Writable, Below
<1> QED
  BY <1>1, <1>2, <1>3, <1>4 DEF Below

\* The validity of a user id.
LEMMA EditedValid ==
  ASSUME NEW d \in Record, NEW n \in Nat, Below(d, n), d.type = "valid",
         NEW x \in Values
  PROVE  Writable([d EXCEPT !.validity = x], n)
<1>1. /\ d = Valid(d.name, d.validity, d.next)
      /\ d.name \in Names /\ d.next \in Recs
  BY ByType
<1>2. [d EXCEPT !.validity = x] = Valid(d.name, x, d.next)
  BY <1>1 DEF Valid
<1>3. RecsOf(d) = {d.next}
  BY DEF RecsOf
<1>4. Valid(d.name, x, d.next) # Garbled
  BY DEF Valid, Garbled
<1> QED
  BY <1>1, <1>2, <1>3, <1>4, Kinds DEF Below, Writable

\* What tdbio_new_recnum does: the number is that of a record that exists
\* then, and only the version record and the free list are changed for it.
Allocated(a, s) ==
  /\ Sane(a) /\ s.n <= a.n
  /\ a.n \in Recs => s.n \in Recs
  /\ a.ok => s.ok
  /\ a.n \in Recs /\ a.ok =>
       LET h == NewRecnum(s)
       IN  /\ h \in Recs /\ h # 0 /\ h < a.n
           /\ \A r \in Recs : s.v[r].type \notin {"ver", "free"} =>
                              a.v[r] = s.v[r]

\* A new record number fits.
LEMMA AllocSane ==
  ASSUME eof \in Nat, NEW s, Sane(s)
  PROVE  Allocated(Alloc(s), s)
<1> DEFINE a == Alloc(s)
           f == s.v[0].firstfree
<1>1. Shape(s) /\ s.n \in Nat
  BY DEF Sane, Shape
<1>2. 0 \in Recs /\ Recs \subseteq Nat /\ \A r \in Recs : 0..r \subseteq Recs
  BY RecsAssumption, RecsInterval
<1>3. CASE f = 0 /\ s.n = 0
  <2>1. a = Die(s)
    BY <1>3 DEF Alloc
  <2>2. Sane(a) /\ a.n = s.n /\ a.ok = FALSE
    BY <2>1, SyncSane
  <2> HIDE DEF a
  <2>3. /\ Sane(a) /\ s.n <= a.n
        /\ a.n \in Recs => s.n \in Recs
        /\ ~a.ok
    BY <1>1, <2>2
  <2> QED
    BY <2>3 DEF a, Allocated
<1>4. CASE f = 0 /\ s.n # 0
  <2>1. a = [s EXCEPT !.n = s.n + 1, !.w = Append(s.w, AppendStep)]
    BY <1>1, <1>4 DEF Alloc, Shape
  <2>2. /\ a.n = s.n + 1 /\ a.v = s.v /\ a.w = Append(s.w, AppendStep)
        /\ a.ok = s.ok /\ Shape(a)
    <3> DEFINE n == s.n + 1
               w == Append(s.w, AppendStep)
    <3>1. n \in Nat
      BY <1>1
    <3> HIDE DEF a, n, w
    <3>2. a = [s EXCEPT !.n = n, !.w = w]
      BY <2>1 DEF n, w
    <3>3. a.n = n /\ a.v = s.v /\ a.w = w /\ a.ok = s.ok /\ Shape(a)
      BY <1>1, <3>1, <3>2 DEF Shape
    <3> QED
      BY <3>3 DEF n, w
  <2>3. NewRecnum(s) = s.n
    BY <1>4 DEF NewRecnum
  <2>4. ASSUME a.n \in Recs
        PROVE  s.n \in Recs /\ Fit(a)
    <3>1. s.n \in Recs
      BY <1>1, <1>2, <2>2, <2>4
    <3>2. Fit(s)
      BY <3>1 DEF Sane
    <3>3. Within(a.v, a.n)
      BY <1>1, <2>2, <3>2, WithinMore DEF Fit
    <3>4. Takes(a.w, eof, a.n)
      <4>1. AppendStep \in Steps /\ AppendStep.step = "append"
        BY StepTypes DEF AppendStep
      <4> QED
        BY <1>1, <2>2, <3>2, <4>1, TakesAppend DEF Fit
    <3> QED
      BY <2>2, <3>1, <3>2, <3>3, <3>4 DEF Fit
  <2> QED
    BY <1>1, <1>4, <2>2, <2>3, <2>4 DEF Sane, Allocated
<1>5. CASE f # 0 /\ s.v[f].type # "free"
  <2>1. a = Die(s)
    BY <1>5 DEF Alloc
  <2>2. Sane(a) /\ a.n = s.n /\ a.ok = FALSE
    BY <2>1, SyncSane
  <2> HIDE DEF a
  <2>3. /\ Sane(a) /\ s.n <= a.n
        /\ a.n \in Recs => s.n \in Recs
        /\ ~a.ok
    BY <1>1, <2>2
  <2> QED
    BY <2>3 DEF a, Allocated
<1>6. CASE f # 0 /\ s.v[f].type = "free" /\ s.ok
  <2> DEFINE d == [s.v[0] EXCEPT !.firstfree = s.v[f].next]
             b == WriteRec(s, 0, d)
  <2>1. a = WriteRec(b, f, Unused) /\ NewRecnum(s) = f
    BY <1>6 DEF Alloc, NewRecnum
  <2>2. ASSUME s.n \in Recs
        PROVE  /\ Writable(d, s.n) /\ d.type = "ver"
               /\ f \in Recs /\ f < s.n /\ s.v[0].type = "ver"
    <3>1. Fit(s)
      BY <2>2 DEF Sane
    <3>2. /\ s.v[0] \in Record /\ Below(s.v[0], s.n)
          /\ s.v[0].type = "ver"
      BY <1>2, <3>1 DEF Fit, Within
    <3>3. f \in Recs /\ RecsOf(s.v[0]) = {f}
      BY <3>2, ByType DEF RecsOf
    <3>4. f < s.n
      BY <1>6, <3>2, <3>3 DEF Below
    <3>5. /\ s.v[f] \in Record /\ s.v[f].next \in Recs
          /\ RecsOf(s.v[f]) = {s.v[f].next} /\ Below(s.v[f], s.n)
      BY <1>6, <3>1, <3>3, ByType DEF Fit, Within, RecsOf
    <3>6. s.v[f].next = 0 \/ s.v[f].next < s.n
      BY <3>5 DEF Below
    <3> QED
      BY <1>1, <3>2, <3>3, <3>4, <3>5, <3>6, EditedVer
  <2> HIDE DEF d, f
  <2>3. Wrote(b, s, 0, d)
    <3>1. CanWrite(s, 0, d)
      BY <1>2, <2>2 DEF CanWrite
    <3> QED
      BY <3>1, WriteRecSane, Zenon
  <2>4. /\ Unused \in Record /\ Unused # Garbled /\ RecsOf(Unused) = {}
    BY Kinds DEF Unused, Garbled
  <2>5. Writable(Unused, b.n)
    BY <2>4 DEF Writable, Below
  <2> HIDE DEF b
  <2>6. Wrote(a, b, f, Unused)
    <3>1. CanWrite(b, f, Unused) /\ Sane(b)
      BY <1>6, <2>2, <2>3, <2>5 DEF CanWrite, Wrote
    <3> QED
      BY <2>1, <3>1, WriteRecSane, Zenon
  <2>7. ASSUME s.n \in Recs, NEW r \in Recs,
               s.v[r].type \notin {"ver", "free"}
        PROVE  a.v[r] = s.v[r]
    <3>1. r # 0 /\ r # f
      BY <1>6, <2>2, <2>7
    <3>2. a.v = [[s.v EXCEPT ![0] = d] EXCEPT ![f] = Unused]
      BY <1>6, <2>3, <2>6, <2>7 DEF Wrote
    <3>3. s.v \in [Recs -> Record]
      BY <2>7 DEF Sane, Fit
    <3> QED
      BY <3>1, <3>2, <3>3
  <2>8. /\ Sane(a) /\ s.n <= a.n
        /\ a.n \in Recs => s.n \in Recs
        /\ a.n \in Recs /\ a.ok =>
                  /\ NewRecnum(s) \in Recs /\ NewRecnum(s) # 0
                  /\ NewRecnum(s) < a.n
                  /\ \A r \in Recs : s.v[r].type \notin {"ver", "free"} =>
                       a.v[r] = s.v[r]
    BY <1>1, <1>6, <2>1, <2>2, <2>3, <2>6, <2>7 DEF Wrote
  <2> QED
    BY <1>6, <2>8 DEF a, Allocated
<1>7. CASE f # 0 /\ s.v[f].type = "free" /\ ~s.ok
  <2>1. a = s
    BY <1>7 DEF Alloc, WriteRec
  <2> HIDE DEF a
  <2>2. /\ Sane(a) /\ s.n <= a.n
        /\ a.n \in Recs => s.n \in Recs
        /\ ~a.ok
    BY <1>1, <1>7, <2>1
  <2> QED
    BY <2>2 DEF a, Allocated
<1> QED
  BY <1>3, <1>4, <1>5, <1>6, <1>7

-----------------------------------------------------------------------------
\* The computation went on from s to x.
Follows(x, s) == Sane(x) /\ s.n <= x.n

\* There are all records below one that there is.
LEMMA Earlier ==
  ASSUME NEW x, NEW s, Follows(x, s), Sane(s)
  PROVE  /\ x.n \in Recs => s.n \in Recs
         /\ s.n \in Nat /\ x.n \in Nat
<1>1. s.n \in Nat /\ x.n \in Nat /\ s.n <= x.n
  BY DEF Follows, Sane, Shape
<1>2. \A r \in Recs : 0..r \subseteq Recs
  BY RecsInterval
<1> QED
  BY <1>1, <1>2

\* One after the other.
LEMMA FollowsOn ==
  ASSUME NEW x, NEW y, NEW s, Sane(s), Follows(x, s), Follows(y, x)
  PROVE  Follows(y, s)
<1>1. s.n \in Nat /\ x.n \in Nat /\ y.n \in Nat
  BY DEF Follows, Sane, Shape
<1> QED
  BY <1>1 DEF Follows

\* Writes and errors do.
LEMMA WroteFollows ==
  ASSUME NEW s, Sane(s), eof \in Nat
  PROVE  /\ Follows(s, s) /\ Follows(Die(s), s) /\ Follows(Sync(s), s)
         /\ \A x, r, d : Wrote(x, s, r, d) => Follows(x, s)
<1>1. s.n \in Nat
  BY DEF Sane, Shape
<1>2. Sane(Die(s)) /\ Die(s).n = s.n /\ Sane(Sync(s)) /\ Sync(s).n = s.n
  BY SyncSane
<1> QED
  BY <1>1, <1>2 DEF Follows, Wrote

\* The hash table, if there is one.
LEMMA TableHeld ==
  ASSUME NEW s, Sane(s), s.n \in Recs, NEW k \in Keys,
         s.v[s.v[0].trusthashtbl].type = "htbl"
  PROVE  LET t == s.v[0].trusthashtbl
             item == s.v[t].item[Bucket[k]]
         IN  /\ t \in Recs /\ t # 0
             /\ s.v[t] \in Record /\ Below(s.v[t], s.n)
             /\ Bucket[k] \in Buckets
             /\ item \in Recs /\ (item = 0 \/ item < s.n)
<1> DEFINE t == s.v[0].trusthashtbl
<1>1. /\ s.v \in [Recs -> Record] /\ s.v[0].type = "ver"
      /\ Within(s.v, s.n)
  BY DEF Sane, Fit
<1>2. 0 \in Recs
  BY RecsAssumption
<1>3. t \in Recs /\ t # 0
  BY <1>1, <1>2, ByType
<1>4. s.v[t] \in Record /\ Below(s.v[t], s.n)
  BY <1>1, <1>3 DEF Within
<1>5. Bucket[k] \in Buckets
  BY DEF Buckets
<1>6. /\ s.v[t].item \in [Buckets -> Recs]
      /\ RecsOf(s.v[t]) = Range(s.v[t].item)
  BY <1>4, ByType DEF RecsOf
<1>7. s.v[t].item[Bucket[k]] \in RecsOf(s.v[t])
  BY <1>5, <1>6 DEF Range
<1> QED
  BY <1>3, <1>4, <1>5, <1>6, <1>7 DEF Below

\* upd_hashtable finds an empty place in the table.
LEMMA AddFirstSane ==
  ASSUME eof \in Nat, NEW s, Sane(s), NEW k \in Keys, NEW r,
         s.n \in Recs => r \in Recs /\ r < s.n,
         s.v[s.v[0].trusthashtbl].type = "htbl"
  PROVE  Follows(AddFirst(s, k, r), s)
<1> DEFINE t == s.v[0].trusthashtbl
           d == [s.v[t] EXCEPT !.item[Bucket[k]] = r]
<1>1. CanWrite(s, t, d)
  <2> SUFFICES ASSUME s.n \in Recs
               PROVE  t \in Recs /\ Writable(d, s.n) /\ t # 0
    BY DEF CanWrite
  <2>1. s.n \in Nat
    BY DEF Sane, Shape
  <2>2. /\ t \in Recs /\ t # 0 /\ s.v[t] \in Record /\ Below(s.v[t], s.n)
        /\ Bucket[k] \in Buckets
    BY TableHeld
  <2> QED
    BY <2>1, <2>2, EditedHtbl
<1>2. Wrote(WriteRec(s, t, d), s, t, d)
  BY <1>1, WriteRecSane, Zenon
<1>3. AddFirst(s, k, r) = WriteRec(s, t, d)
  BY DEF AddFirst
<1> QED
  BY <1>2, <1>3, WroteFollows, Zenon

\* upd_hashtable finds another trust record there.
LEMMA AddListSane ==
  ASSUME eof \in Nat, NEW s, Sane(s), s.ok, NEW k \in Keys, NEW r,
         s.n \in Recs => r \in Recs /\ r < s.n,
         s.v[s.v[0].trusthashtbl].type = "htbl"
  PROVE  Follows(AddList(s, k, r), s)
<1> DEFINE t == s.v[0].trusthashtbl
           old == s.v[t].item[Bucket[k]]
           h == NewRecnum(s)
           rnums == [i \in 1..HlstItems |->
                       IF i = 1 THEN old ELSE IF i = 2 THEN r ELSE 0]
           a == Alloc(s)
           b == WriteRec(a, h, Hlst(0, rnums))
           d == [s.v[t] EXCEPT !.item[Bucket[k]] = h]
           c == WriteRec(b, t, d)
<1>1. AddList(s, k, r) = c
  BY DEF AddList
<1>2. Allocated(a, s)
  BY AllocSane, Zenon
<1> HIDE DEF a
<1>3. Sane(a) /\ s.n \in Nat /\ a.n \in Nat /\ s.n <= a.n /\ Follows(a, s)
  BY <1>2 DEF Allocated, Sane, Shape, Follows
<1>4. ASSUME a.n \in Recs, a.ok
      PROVE  /\ h \in Recs /\ h # 0 /\ h < a.n
             /\ r \in Recs /\ r < a.n /\ s.n \in Recs
             /\ t \in Recs /\ t # 0 /\ s.v[t] \in Record /\ Below(s.v[t], a.n)
             /\ Bucket[k] \in Buckets
             /\ old \in Recs /\ (old = 0 \/ old < a.n)
  <2>1. h \in Recs /\ h # 0 /\ h < a.n /\ s.n \in Recs
    BY <1>2, <1>4 DEF Allocated
  <2>2. r \in Recs /\ r < a.n
    <3>1. r \in Recs /\ r \in Nat /\ r < s.n
      BY <2>1, RecsAssumption
    <3> QED
      BY <1>3, <3>1
  <2>3. /\ t \in Recs /\ t # 0 /\ s.v[t] \in Record /\ Below(s.v[t], s.n)
        /\ Bucket[k] \in Buckets
        /\ old \in Recs /\ (old = 0 \/ old < s.n)
    BY <2>1, TableHeld
  <2>4. Below(s.v[t], a.n)
    BY <1>3, <2>3, BelowMore
  <2>5. old = 0 \/ old < a.n
    <3>1. old \in Nat /\ (old = 0 \/ old < s.n)
      BY <2>3, RecsAssumption
    <3> HIDE DEF old
    <3> QED
      BY <1>3, <3>1
  <2> QED
    BY <2>1, <2>2, <2>3, <2>4, <2>5
<1> HIDE DEF t, old, h
<1>5. CanWrite(a, h, Hlst(0, rnums))
  <2> SUFFICES ASSUME a.n \in Recs, a.ok
               PROVE  /\ h \in Recs /\ Writable(Hlst(0, rnums), a.n)
                      /\ h # 0
    BY DEF CanWrite
  <2>1. /\ rnums \in [1..HlstItems -> Recs]
        /\ \A i \in 1..HlstItems : rnums[i] = 0 \/ rnums[i] < a.n
    BY <1>4, RecsAssumption
  <2> HIDE DEF rnums
  <2> QED
    BY <1>3, <1>4, <2>1, NewHlst, RecsAssumption
<1> HIDE DEF rnums
<1>6. Wrote(b, a, h, Hlst(0, rnums))
  BY <1>3, <1>5, WriteRecSane, Zenon
<1> HIDE DEF b
<1>7. Sane(b) /\ Follows(b, a)
  <2>1. Follows(b, a)
    BY <1>3, <1>6, WroteFollows, Zenon
  <2> QED
    BY <2>1 DEF Follows
<1>8. CanWrite(b, t, d)
  <2> SUFFICES ASSUME b.n \in Recs, b.ok
               PROVE  t \in Recs /\ Writable(d, b.n) /\ t # 0
    BY DEF CanWrite
  <2>1. a.n = b.n /\ a.ok
    BY <1>6 DEF Wrote
  <2>2. Writable(d, a.n)
    <3>1. /\ a.n \in Nat /\ s.v[t] \in Record /\ Below(s.v[t], a.n)
          /\ h \in Recs /\ (h = 0 \/ h < a.n) /\ Bucket[k] \in Buckets
          /\ s.v[t].type = "htbl"
      BY <1>3, <1>4, <2>1 DEF t
    <3> QED
      BY <3>1, EditedHtbl, Zenon
  <2> QED
    BY <1>4, <2>1, <2>2
<1> HIDE DEF d
<1>9. Wrote(c, b, t, d)
  BY <1>7, <1>8, WriteRecSane, Zenon
<1>10. Follows(c, b)
  BY <1>7, <1>9, WroteFollows, Zenon
<1> HIDE DEF c
<1> QED
  BY <1>1, <1>3, <1>7, <1>10, FollowsOn, Zenon

\* upd_hashtable extends a list.
LEMMA AddToListSane ==
  ASSUME eof \in Nat, NEW s, Sane(s), s.ok, NEW k \in Keys, NEW r,
         s.n \in Recs => r \in Recs /\ r < s.n, NEW list,
         s.n \in Recs => /\ list # <<>>
                         /\ list \in Seq({q \in Recs :
                                            q # 0 /\ s.v[q].type = "hlst"})
  PROVE  Follows(AddToList(s, k, r, list), s)
<1> DEFINE q == list[Len(list)]
           free == {i \in 1..HlstItems : s.v[q].rnum[i] = 0}
           h == NewRecnum(s)
           rnums == [i \in 1..HlstItems |-> IF i = 1 THEN r ELSE 0]
           e == [s.v[q] EXCEPT !.rnum[Min(free)] = r]
           a == Alloc(s)
           d == [a.v[q] EXCEPT !.next = h]
           b == WriteRec(a, q, d)
           c == WriteRec(b, h, Hlst(0, rnums))
<1>1. \/ AddToList(s, k, r, list) = s
      \/ free # {} /\ AddToList(s, k, r, list) = WriteRec(s, q, e)
      \/ AddToList(s, k, r, list) = c
  BY DEF AddToList
<1>2. s.n \in Nat
  BY DEF Sane, Shape
<1>3. ASSUME s.n \in Recs
      PROVE  /\ q \in Recs /\ q # 0 /\ s.v[q].type = "hlst"
             /\ s.v[q] \in Record /\ Below(s.v[q], s.n)
             /\ r \in Recs /\ r \in Nat /\ r < s.n
  <2>1. q \in {x \in Recs : x # 0 /\ s.v[x].type = "hlst"}
    BY <1>3, EmptySeq, ElementOfSeq, LenProperties
  <2>2. s.v \in [Recs -> Record] /\ Within(s.v, s.n)
    BY <1>3 DEF Sane, Fit
  <2> HIDE DEF q
  <2> QED
    BY <1>3, <2>1, <2>2, RecsAssumption DEF Within
<1> HIDE DEF q, h
<1>4. ASSUME free # {} PROVE Follows(WriteRec(s, q, e), s)
  <2>1. Min(free) \in 1..HlstItems
    <3>1. free \subseteq Nat
      BY HlstAssumption
    <3>2. Min(free) \in free
      BY <1>4, <3>1, MinIsMember, Zenon
    <3> QED
      BY <3>2
  <2> HIDE DEF free
  <2>2. CanWrite(s, q, e)
    <3> SUFFICES ASSUME s.n \in Recs
                 PROVE  q \in Recs /\ Writable(e, s.n) /\ q # 0
      BY DEF CanWrite
    <3>1. Writable(e, s.n)
      BY <1>2, <1>3, <2>1, EditedHlst, Zenon
    <3> QED
      BY <1>3, <3>1
  <2>3. Wrote(WriteRec(s, q, e), s, q, e)
    BY <2>2, WriteRecSane, Zenon
  <2> QED
    BY <2>3, WroteFollows, Zenon
<1>5. Follows(c, s)
  <2>1. Allocated(a, s)
    BY AllocSane, Zenon
  <2> HIDE DEF a
  <2>2. Sane(a) /\ a.n \in Nat /\ s.n <= a.n /\ Follows(a, s)
    BY <2>1 DEF Allocated, Sane, Shape, Follows
  <2>3. ASSUME a.n \in Recs, a.ok
        PROVE  /\ h \in Recs /\ h # 0 /\ h < a.n
               /\ r \in Recs /\ r < a.n /\ q \in Recs /\ q # 0
               /\ a.v[q] \in Record /\ Below(a.v[q], a.n)
               /\ a.v[q].type = "hlst"
    <3>1. h \in Recs /\ h # 0 /\ h < a.n /\ s.n \in Recs
      BY <2>1, <2>3 DEF Allocated, h
    <3>2. r < a.n
      BY <1>2, <1>3, <2>2, <3>1
    <3>3. a.v[q] = s.v[q]
      BY <1>3, <2>1, <2>3, <3>1 DEF Allocated
    <3>4. Below(a.v[q], a.n)
      BY <1>2, <1>3, <2>2, <3>1, <3>3, BelowMore
    <3> QED
      BY <1>3, <3>1, <3>2, <3>3, <3>4
  <2>4. CanWrite(a, q, d)
    <3> SUFFICES ASSUME a.n \in Recs, a.ok
                 PROVE  q \in Recs /\ Writable(d, a.n) /\ q # 0
      BY DEF CanWrite
    <3>1. 1 \in 1..HlstItems
      BY HlstAssumption
    <3>2. h = 0 \/ h < a.n
      BY <2>3
    <3>3. Writable(d, a.n)
      BY <2>2, <2>3, <3>1, <3>2, EditedHlst, Zenon
    <3> QED
      BY <2>3, <3>3
  <2> HIDE DEF d
  <2>5. Wrote(b, a, q, d)
    BY <2>2, <2>4, WriteRecSane, Zenon
  <2>6. Follows(b, a)
    BY <2>2, <2>5, WroteFollows, Zenon
  <2> HIDE DEF b
  <2>7. CanWrite(b, h, Hlst(0, rnums))
    <3> SUFFICES ASSUME b.n \in Recs, b.ok
                 PROVE  h \in Recs /\ Writable(Hlst(0, rnums), b.n) /\ h # 0
      BY DEF CanWrite
    <3>1. a.n = b.n /\ a.ok
      BY <2>5 DEF Wrote
    <3>2. /\ rnums \in [1..HlstItems -> Recs]
          /\ \A i \in 1..HlstItems : rnums[i] = 0 \/ rnums[i] < a.n
      BY <2>3, <3>1, RecsAssumption
    <3> HIDE DEF rnums
    <3>3. Writable(Hlst(0, rnums), a.n)
      BY <2>2, <3>2, NewHlst, RecsAssumption
    <3> QED
      BY <2>3, <3>1, <3>3
  <2> HIDE DEF rnums
  <2>8. Wrote(c, b, h, Hlst(0, rnums))
    BY <2>6, <2>7, WriteRecSane, Zenon DEF Follows
  <2>9. Follows(c, b)
    BY <2>6, <2>8, WroteFollows, Zenon DEF Follows
  <2> HIDE DEF c
  <2> QED
    BY <2>2, <2>6, <2>9, FollowsOn, Zenon
<1> HIDE DEF free, e, c
<1> QED
  BY <1>1, <1>4, <1>5, WroteFollows, Zenon

\* upd_hashtable.
LEMMA UpdHashtableSane ==
  ASSUME eof \in Nat, NEW s, Sane(s), s.ok, NEW k \in Keys, NEW r,
         s.n \in Recs => r \in Recs /\ r < s.n
  PROVE  Follows(UpdHashtable(s, k, r), s)
<1> DEFINE t == s.v[0].trusthashtbl
           item == s.v[t].item[Bucket[k]]
           list == HashList(s.v, item)
           x == UpdHashtable(s, k, r)
<1>1. \/ x = Die(s) \/ x = s
      \/ s.v[t].type = "htbl" /\ x = AddFirst(s, k, r)
      \/ s.v[t].type = "htbl" /\ x = AddList(s, k, r)
      \/ /\ s.v[t].type = "htbl" /\ item # 0 /\ s.v[item].type = "hlst"
         /\ x = AddToList(s, k, r, list)
  BY DEF UpdHashtable
<1>2. ASSUME s.v[t].type = "htbl", item # 0, s.v[item].type = "hlst"
      PROVE  Follows(AddToList(s, k, r, list), s)
  <2>1. ASSUME s.n \in Recs
        PROVE  /\ list # <<>>
               /\ list \in Seq({q \in Recs : q # 0 /\ s.v[q].type = "hlst"})
    <3>1. item \in Recs
      BY <1>2, <2>1, TableHeld
    <3>2. s.v \in [Recs -> Record]
      BY <2>1 DEF Sane, Fit
    <3> HIDE DEF item
    <3> QED
      BY <1>2, <3>1, <3>2, ChainType DEF HashList
  <2> HIDE DEF list
  <2> QED
    BY <2>1, AddToListSane, Zenon
<1>3. s.v[t].type = "htbl" => /\ Follows(AddFirst(s, k, r), s)
                              /\ Follows(AddList(s, k, r), s)
  BY AddFirstSane, AddListSane, Zenon
<1>4. Follows(s, s) /\ Follows(Die(s), s)
  BY WroteFollows
<1> HIDE DEF x, item, t, list
<1>5. Follows(x, s)
  BY <1>1, <1>2, <1>3, <1>4
<1> QED
  BY <1>5 DEF x

\* tdbio_write_record for a trust record.
LEMMA WriteTrustSane ==
  ASSUME eof \in Nat, NEW s, Sane(s), NEW r, NEW d, d.fpr \in Keys,
         s.n \in Recs /\ s.ok =>
           r \in Recs /\ r # 0 /\ r < s.n /\ Writable(d, s.n)
  PROVE  Follows(WriteTrust(s, r, d), s)
<1>1. CASE ~s.ok
  <2>1. WriteTrust(s, r, d) = s
    BY <1>1 DEF WriteTrust
  <2> QED
    BY <2>1, WroteFollows, Zenon
<1>2. CASE s.ok
  <2> DEFINE x == WriteRec(s, r, d)
  <2>1. WriteTrust(s, r, d) = UpdHashtable(x, d.fpr, r)
    BY <1>2 DEF WriteTrust
  <2>2. CanWrite(s, r, d)
    BY DEF CanWrite
  <2>3. Wrote(x, s, r, d)
    BY <2>2, WriteRecSane, Zenon
  <2> HIDE DEF x
  <2>4. /\ Sane(x) /\ x.ok /\ Follows(x, s)
        /\ x.n \in Recs => r \in Recs /\ r < x.n
    BY <1>2, <2>3, WroteFollows DEF Wrote
  <2>5. Follows(UpdHashtable(x, d.fpr, r), x)
    BY <2>4, UpdHashtableSane, Zenon
  <2> QED
    BY <2>1, <2>4, <2>5, FollowsOn, Zenon
<1> QED
  BY <1>1, <1>2

\* tdb_revalidation_mark.
LEMMA MarkSane ==
  ASSUME eof \in Nat, NEW s, Sane(s)
  PROVE  Follows(Mark(s), s)
<1> DEFINE d == [s.v[0] EXCEPT !.nextcheck = 1]
<1>1. Mark(s) = s \/ Mark(s) = WriteRec(s, 0, d)
  BY DEF Mark
<1>2. CanWrite(s, 0, d)
  <2> SUFFICES ASSUME s.n \in Recs
               PROVE  0 \in Recs /\ Writable(d, s.n) /\ d.type = "ver"
    BY DEF CanWrite
  <2>1. /\ s.n \in Nat /\ 0 \in Recs /\ s.v[0] \in Record
        /\ s.v[0].type = "ver" /\ Below(s.v[0], s.n) /\ 1 \in {0, 1}
    BY RecsAssumption DEF Sane, Shape, Fit, Within
  <2>2. Writable(d, s.n) /\ d.type = "ver"
    BY <2>1, EditedVer, Zenon
  <2> QED
    BY <2>1, <2>2
<1>3. Wrote(WriteRec(s, 0, d), s, 0, d)
  BY <1>2, WriteRecSane, Zenon
<1>4. Follows(WriteRec(s, 0, d), s) /\ Follows(s, s)
  BY <1>3, WroteFollows, Zenon
<1> HIDE DEF d
<1> QED
  BY <1>1, <1>4, Zenon

\* A trust record with another list of validities.
LEMMA NewList ==
  ASSUME NEW d \in Record, d.type = "trust", NEW z
  PROVE  [d EXCEPT !.validlist = z].fpr = d.fpr /\ d.fpr \in Keys
<1>1. /\ d = Trust(d.fpr, d.ownertrust, d.validlist) /\ d.fpr \in Keys
  BY ByType
<1>2. [d EXCEPT !.validlist = z] = Trust(d.fpr, d.ownertrust, z)
  BY <1>1 DEF Trust
<1> QED
  BY <1>1, <1>2 DEF Trust

\* update_validity.
LEMMA SetValiditySane ==
  ASSUME eof \in Nat, NEW s, Sane(s), NEW r, NEW d \in Record,
         d.type = "trust", NEW u \in Names, NEW x \in Values,
         s.n \in Recs /\ s.ok =>
           r \in Recs /\ r # 0 /\ r < s.n /\ Below(d, s.n)
  PROVE  Follows(SetValidity(s, r, d, u, x), s)
<1> DEFINE list == ValidList(s.v, d.validlist)
           old == {j \in DOMAIN list : s.v[list[j]].name = u}
           n == NewRecnum(s)
           q == list[Min(old)]
           e == [s.v[q] EXCEPT !.validity = x]
           b == WriteRec(s, q, e)
           a == Alloc(s)
           f == Valid(u, x, d.validlist)
           c == WriteRec(a, n, f)
           g == [d EXCEPT !.validlist = n]
           y == SetValidity(s, r, d, u, x)
<1>1. \/ old # {} /\ y = WriteTrust(b, r, d)
      \/ y = Die(s)
      \/ y = WriteTrust(c, r, g)
  BY DEF SetValidity
<1>2. s.n \in Nat /\ d.fpr \in Keys /\ d.validlist \in Recs
      /\ RecsOf(d) = {d.validlist}
  BY ByType DEF Sane, Shape, RecsOf
<1>3. ASSUME old # {} PROVE Follows(WriteTrust(b, r, d), s)
  <2>1. ASSUME s.n \in Recs
        PROVE  /\ q \in Recs /\ q # 0 /\ s.v[q] \in Record
               /\ s.v[q].type = "valid" /\ Below(s.v[q], s.n)
    <3>1. s.v \in [Recs -> Record] /\ Within(s.v, s.n)
      BY <2>1 DEF Sane, Fit
    <3>2. list \in Seq({p \in Recs : p # 0 /\ s.v[p].type = "valid"})
      BY <1>2, <3>1, ChainType DEF ValidList
    <3> HIDE DEF list
    <3>3. DOMAIN list \subseteq Nat
      BY <3>2, LenProperties
    <3>4. old \subseteq Nat
      BY <3>3
    <3>5. Min(old) \in old
      <4> HIDE DEF old
      <4> QED
        BY <1>3, <3>4, MinIsMember, Zenon
    <3>6. Min(old) \in DOMAIN list
      BY <3>5
    <3>7. q \in {p \in Recs : p # 0 /\ s.v[p].type = "valid"}
      BY <3>2, <3>6, LenProperties, ElementOfSeq
    <3> HIDE DEF q
    <3> QED
      BY <3>1, <3>7 DEF Within
  <2> HIDE DEF q
  <2>2. CanWrite(s, q, e)
    <3> SUFFICES ASSUME s.n \in Recs
                 PROVE  q \in Recs /\ Writable(e, s.n) /\ q # 0
      BY DEF CanWrite
    <3>1. Writable(e, s.n)
      BY <1>2, <2>1, EditedValid, Zenon
    <3> QED
      BY <2>1, <3>1
  <2>3. Wrote(b, s, q, e)
    BY <2>2, WriteRecSane, Zenon
  <2> HIDE DEF b
  <2>4. /\ Sane(b) /\ Follows(b, s)
        /\ b.n \in Recs /\ b.ok =>
             r \in Recs /\ r # 0 /\ r < b.n /\ Writable(d, b.n)
    <3>1. Sane(b) /\ b.n = s.n /\ (b.ok => s.ok)
      BY <2>3 DEF Wrote
    <3>2. Follows(b, s)
      BY <2>3, WroteFollows, Zenon
    <3>3. d # Garbled
      BY DEF Garbled
    <3> QED
      BY <3>1, <3>2, <3>3 DEF Writable
  <2>5. Follows(WriteTrust(b, r, d), b)
    BY <1>2, <2>4, WriteTrustSane, Zenon
  <2> QED
    BY <2>4, <2>5, FollowsOn, Zenon
<1> HIDE DEF list, old, q, b, e
<1>4. Follows(WriteTrust(c, r, g), s)
  <2>1. Allocated(a, s)
    BY AllocSane, Zenon
  <2> HIDE DEF a
  <2>2. Sane(a) /\ a.n \in Nat /\ s.n <= a.n /\ Follows(a, s)
    BY <2>1 DEF Allocated, Sane, Shape, Follows
  <2>3. a.ok => s.ok
    BY <2>1 DEF Allocated
  <2>4. ASSUME a.n \in Recs, a.ok
        PROVE  /\ n \in Recs /\ n # 0 /\ n < a.n
               /\ r \in Recs /\ r # 0 /\ r < a.n /\ Below(d, a.n)
    <3>1. n \in Recs /\ n # 0 /\ n < a.n /\ s.n \in Recs
      BY <2>1, <2>4 DEF Allocated
    <3>2. r \in Recs /\ r \in Nat /\ r # 0 /\ r < s.n /\ Below(d, s.n)
      BY <2>3, <2>4, <3>1, RecsAssumption
    <3>3. r < a.n
      BY <1>2, <2>2, <3>2
    <3>4. Below(d, a.n)
      BY <1>2, <2>2, <3>2, BelowMore
    <3> QED
      BY <3>1, <3>2, <3>3, <3>4
  <2> HIDE DEF n
  <2>5. CanWrite(a, n, f)
    <3> SUFFICES ASSUME a.n \in Recs, a.ok
                 PROVE  n \in Recs /\ Writable(f, a.n) /\ n # 0
      BY DEF CanWrite
    <3>1. f \in Record /\ RecsOf(f) = {d.validlist} /\ f # Garbled
      <4>1. f # Garbled
        BY DEF Valid, Garbled
      <4> QED
        BY <1>2, <4>1, Kinds
    <3> HIDE DEF f
    <3>2. Writable(f, a.n)
      BY <1>2, <2>4, <3>1 DEF Writable, Below
    <3> QED
      BY <2>4, <3>2
  <2> HIDE DEF f
  <2>6. Wrote(c, a, n, f)
    BY <2>2, <2>5, WriteRecSane, Zenon
  <2>7. Follows(c, a)
    BY <2>2, <2>6, WroteFollows, Zenon
  <2> HIDE DEF c
  <2>8. /\ Sane(c) /\ g.fpr \in Keys
        /\ c.n \in Recs /\ c.ok =>
             r \in Recs /\ r # 0 /\ r < c.n /\ Writable(g, c.n)
    <3>1. Sane(c) /\ c.n = a.n /\ (c.ok => a.ok)
      BY <2>6 DEF Wrote
    <3>2. g.fpr \in Keys
      BY NewList
    <3>3. a.n \in Recs /\ a.ok => Writable(g, a.n)
      BY <1>2, <2>2, <2>4, EditedTrust, ValuesAssumption, Zenon
    <3> QED
      BY <2>4, <3>1, <3>2, <3>3
  <2> HIDE DEF g
  <2>9. Follows(WriteTrust(c, r, g), c)
    BY <2>8, WriteTrustSane, Zenon
  <2> QED
    BY <2>2, <2>7, <2>9, FollowsOn, Zenon
<1>5. Follows(Die(s), s)
  BY WroteFollows, Zenon
<1> HIDE DEF y, c, g
<1>6. Follows(y, s)
  BY <1>1, <1>3, <1>4, <1>5
<1> QED
  BY <1>6 DEF y

-----------------------------------------------------------------------------
\* What an update starts from.
LEMMA BeginSane ==
  ASSUME PInv
  PROVE  /\ eof \in Nat
         /\ View \in [Recs -> Record] /\ Within(View, eof)
         /\ Begin.v = View /\ Begin.n = eof /\ Begin.ok /\ Begin.w = <<>>
         /\ View[0].type = "ver" => Sane(Begin)
<1>1. /\ eof \in Nat /\ View = written /\ written \in [Recs -> Record]
      /\ Within(written, eof)
  BY ViewCurrent, RecordAssumption DEF PInv, Inv, CacheTypeOK
<1>2. View \in [Recs -> Record] /\ Within(View, eof)
  BY <1>1
<1> HIDE DEF View
<1> DEFINE s == Begin
<1>3. s.v = View /\ s.n = eof /\ s.ok = TRUE /\ s.w = <<>> /\ Shape(s)
  BY <1>1 DEF Begin, Shape
<1> HIDE DEF s
<1>4. ASSUME View[0].type = "ver" PROVE Sane(s)
  <2>1. Takes(<<>>, eof, eof)
    BY <1>1, TakesNothing
  <2>2. Fit(s)
    BY <1>2, <1>3, <1>4, <2>1 DEF Fit
  <2> QED
    BY <1>3, <2>2 DEF Sane
<1> QED
  BY <1>1, <1>2, <1>3, <1>4 DEF s

\* Nothing but what is to be done changes.
LEMMA Started ==
  ASSUME PInv, Inv', UNCHANGED <<file, written, eof, call>>,
         call.op = "idle", \E m \in Nat : Takes(todo', eof, m)
  PROVE  PInv'
<1>1. /\ Within(file, eof)' /\ Within(written, eof)' /\ (eof \in Nat)'
  BY DEF PInv, Within, Below
<1>2. call'.op = "idle"
  OBVIOUS
<1>3. (\E m \in Nat : Takes(todo, eof, m))'
  BY DEF Takes, Writable, Below
<1> QED
  BY <1>1, <1>2, <1>3 DEF PInv

\* The process starts an update.
LEMMA Runs ==
  ASSUME PInv, Inv', NEW s, Sane(s), Run(s), call.op = "idle"
  PROVE  PInv'
<1>1. /\ s.n \in Recs /\ UNCHANGED <<cvars, eof>>
      /\ todo' = IF s.ok THEN s.w ELSE s.w \o <<[step |-> "exit"]>>
  BY DEF Run
<1>2. Takes(s.w, eof, s.n) /\ s.n \in Nat /\ s.w \in Seq(Steps)
  BY <1>1 DEF Sane, Fit, Shape, Takes
<1>3. eof \in Nat
  BY DEF PInv
<1> DEFINE x == [step |-> "exit"]
<1>4. x \in Steps /\ x.step = "exit"
  BY StepTypes
<1> HIDE DEF x
<1>5. Takes(Append(s.w, x), eof, s.n)
  BY <1>2, <1>3, <1>4, TakesAppend
<1>6. Append(s.w, x) = s.w \o <<x>>
  BY <1>2, <1>4, AppendIsConcat
<1>7. todo' = s.w \/ todo' = Append(s.w, x)
  BY <1>1, <1>6 DEF x
<1>8. \E m \in Nat : Takes(todo', eof, m)
  BY <1>2, <1>5, <1>7, Zenon
<1>9. UNCHANGED <<file, written, eof, call>>
  BY <1>1 DEF cvars
<1> QED
  BY <1>8, <1>9, Started

\* Updates that end with a mark and a sync.
LEMMA MarkedRuns ==
  ASSUME PInv, Inv', NEW s, Sane(s), Run(Sync(Mark(s))), call.op = "idle"
  PROVE  PInv'
<1>1. eof \in Nat
  BY DEF PInv
<1>2. Sane(Mark(s))
  BY <1>1, MarkSane DEF Follows
<1>3. Sane(Sync(Mark(s)))
  BY <1>1, <1>2, SyncSane, Zenon
<1> QED
  BY <1>3, Runs, Zenon

\* tdb_update_ownertrust of a key that has a trust record, and
\* tdb_clear_ownertrusts.
LEMMA ChangeSane ==
  ASSUME PInv, Inv', HasTable, call.op = "idle", NEW k \in Keys,
         NEW x \in Values, Lookup(View, k) > 0,
         Run(Sync(Mark(WriteTrust(Begin, Lookup(View, k),
                        [View[Lookup(View, k)] EXCEPT !.ownertrust = x]))))
  PROVE  PInv'
<1> DEFINE r == Lookup(View, k)
           d == [View[r] EXCEPT !.ownertrust = x]
<1>1. /\ eof \in Nat /\ View \in [Recs -> Record] /\ Within(View, eof)
      /\ Begin.n = eof /\ View[0].type = "ver" /\ Sane(Begin)
  BY BeginSane DEF HasTable
<1>2. /\ r \in Recs /\ r # 0 /\ r < eof
      /\ View[r].type = "trust" /\ View[r].fpr = k
  BY <1>1, LookupFound
<1>3. View[r] \in Record /\ Below(View[r], eof)
  BY <1>1, <1>2 DEF Within
<1> HIDE DEF r
<1>4. 0 \in Recs /\ 0 = 0
  BY RecsAssumption
<1>5. Writable(d, eof) /\ d.fpr = View[r].fpr
  BY <1>1, <1>2, <1>3, <1>4, EditedTrust, Zenon
<1> HIDE DEF d
<1>6. d.fpr \in Keys /\ (Begin.n \in Recs /\ Begin.ok =>
          r \in Recs /\ r # 0 /\ r < Begin.n /\ Writable(d, Begin.n))
  BY <1>1, <1>2, <1>5
<1>7. Follows(WriteTrust(Begin, r, d), Begin)
  BY <1>1, <1>6, WriteTrustSane, Zenon
<1>8. Sane(WriteTrust(Begin, r, d))
  BY <1>7 DEF Follows
<1>9. Run(Sync(Mark(WriteTrust(Begin, r, d))))
  BY DEF r, d
<1> QED
  BY <1>8, <1>9, MarkedRuns, Zenon

\* A trust record without validities.
LEMMA NewTrust ==
  ASSUME NEW n \in Nat, NEW k \in Keys, NEW x \in Values
  PROVE  /\ Writable(Trust(k, x, 0), n) /\ Trust(k, x, 0).fpr = k
         /\ Trust(k, x, 0).type = "trust"
<1>1. /\ Trust(k, x, 0) # Garbled /\ Trust(k, x, 0).fpr = k
      /\ Trust(k, x, 0).type = "trust"
  BY DEF Trust, Garbled
<1>2. Trust(k, x, 0) \in Record /\ RecsOf(Trust(k, x, 0)) = {0}
  BY Kinds, RecsAssumption
<1> QED
  BY <1>1, <1>2 DEF Writable, Below

\* tdb_update_ownertrust.
LEMMA UpdateOwnertrustStep ==
  ASSUME PInv, Inv', NEW k \in Keys, NEW x \in Values,
         UpdateOwnertrust(k, x)
  PROVE  PInv'
<1> DEFINE r == Lookup(View, k)
           n == NewRecnum(Begin)
           a == Alloc(Begin)
           d == Trust(k, x, 0)
<1>1. HasTable /\ call.op = "idle"
  BY DEF UpdateOwnertrust, Ready
<1>2. CASE r > 0 /\ Run(Sync(Mark(WriteTrust(Begin, r,
                                      [View[r] EXCEPT !.ownertrust = x]))))
  BY <1>1, <1>2, ChangeSane
<1>3. CASE r = 0 /\ Run(Sync(Mark(WriteTrust(a, n, d))))
  <2>1. eof \in Nat /\ Sane(Begin)
    BY <1>1, BeginSane DEF HasTable
  <2>2. Allocated(a, Begin)
    BY <2>1, AllocSane, Zenon
  <2> HIDE DEF a
  <2>3. Sane(a) /\ a.n \in Nat
    BY <2>2 DEF Allocated, Sane, Shape
  <2>4. Writable(d, a.n) /\ d.fpr \in Keys
    BY <2>3, NewTrust
  <2> HIDE DEF d
  <2>5. a.n \in Recs /\ a.ok =>
          n \in Recs /\ n # 0 /\ n < a.n /\ Writable(d, a.n)
    BY <2>2, <2>4 DEF Allocated
  <2> HIDE DEF n
  <2>6. Follows(WriteTrust(a, n, d), a)
    BY <2>1, <2>3, <2>4, <2>5, WriteTrustSane, Zenon
  <2>7. Sane(WriteTrust(a, n, d))
    BY <2>6 DEF Follows
  <2> QED
    BY <1>1, <1>3, <2>7, MarkedRuns, Zenon
<1> QED
  BY <1>2, <1>3 DEF UpdateOwnertrust

\* tdb_clear_ownertrusts.
LEMMA ClearOwnertrustStep ==
  ASSUME PInv, Inv', NEW k \in Keys, ClearOwnertrust(k)
  PROVE  PInv'
<1>1. /\ HasTable /\ call.op = "idle" /\ Lookup(View, k) > 0
      /\ Run(Sync(Mark(WriteTrust(Begin, Lookup(View, k),
                        [View[Lookup(View, k)] EXCEPT !.ownertrust = 0]))))
  BY DEF ClearOwnertrust, Ready
<1> QED
  BY <1>1, ChangeSane, ValuesAssumption, Zenon

\* update_validity.
LEMMA UpdateValidityStep ==
  ASSUME PInv, Inv', NEW k \in Keys, NEW u \in Names, NEW x \in Values,
         UpdateValidity(k, u, x)
  PROVE  PInv'
<1> DEFINE r == Lookup(View, k)
           n == NewRecnum(Begin)
           a == Alloc(Begin)
           d == Trust(k, 0, 0)
<1>1. HasTable /\ call.op = "idle"
  BY DEF UpdateValidity, Ready
<1>2. /\ eof \in Nat /\ View \in [Recs -> Record] /\ Within(View, eof)
      /\ Begin.n = eof /\ View[0].type = "ver" /\ Sane(Begin)
  BY <1>1, BeginSane DEF HasTable
<1>3. CASE r > 0 /\ Run(SetValidity(Begin, r, View[r], u, x))
  <2>1. r \in Recs /\ r # 0 /\ r < eof /\ View[r].type = "trust"
    BY <1>2, <1>3, LookupFound
  <2>2. View[r] \in Record /\ Below(View[r], eof)
    BY <1>2, <2>1 DEF Within
  <2> HIDE DEF r
  <2>3. Begin.n \in Recs /\ Begin.ok =>
          r \in Recs /\ r # 0 /\ r < Begin.n /\ Below(View[r], Begin.n)
    BY <1>2, <2>1, <2>2
  <2>4. Follows(SetValidity(Begin, r, View[r], u, x), Begin)
    BY <1>2, <2>1, <2>2, <2>3, SetValiditySane, Zenon
  <2>5. Sane(SetValidity(Begin, r, View[r], u, x))
    BY <2>4 DEF Follows
  <2> QED
    BY <1>1, <1>3, <2>5, Runs, Zenon
<1>4. CASE r = 0 /\ Run(SetValidity(a, n, d, u, x))
  <2>1. Allocated(a, Begin)
    BY <1>2, AllocSane, Zenon
  <2> HIDE DEF a
  <2>2. Sane(a) /\ a.n \in Nat
    BY <2>1 DEF Allocated, Sane, Shape
  <2>3. d \in Record /\ Below(d, a.n) /\ d.type = "trust"
    BY <2>2, NewTrust, ValuesAssumption DEF Writable
  <2> HIDE DEF d
  <2>4. a.n \in Recs /\ a.ok =>
          n \in Recs /\ n # 0 /\ n < a.n /\ Below(d, a.n)
    BY <2>1, <2>3 DEF Allocated
  <2> HIDE DEF n
  <2>5. Follows(SetValidity(a, n, d, u, x), a)
    BY <1>2, <2>2, <2>3, <2>4, SetValiditySane, Zenon
  <2>6. Sane(SetValidity(a, n, d, u, x))
    BY <2>5 DEF Follows
  <2> QED
    BY <1>1, <1>4, <2>6, Runs, Zenon
<1> QED
  BY <1>3, <1>4 DEF UpdateValidity

\* reset_trust_records.
LEMMA ResetStep ==
  ASSUME PInv, Inv', ResetTrustRecords
  PROVE  PInv'
<1>1. /\ HasTable /\ call.op = "idle"
  BY DEF ResetTrustRecords, Ready
<1>2. /\ eof \in Nat /\ View \in [Recs -> Record] /\ Within(View, eof)
      /\ Begin.n = eof /\ View[0].type = "ver" /\ Sane(Begin)
      /\ Begin.v = View
  BY <1>1, BeginSane DEF HasTable
<1> DEFINE C == Cardinality(ToReset)
           W(p) == [i \in DOMAIN p |->
                      PutStep(p[i], [View[p[i]] EXCEPT !.validity = 0])]
<1>3. PICK p \in [1..C -> ToReset] : Run([Begin EXCEPT !.w = W(p)])
  BY DEF ResetTrustRecords
<1>4. C \in Nat
  <2>1. IsFiniteSet(Recs) /\ ToReset \subseteq Recs
    BY RecsInterval DEF ToReset
  <2> QED
    BY <2>1, FS_Subset, FS_CardinalityType
<1> DEFINE w == W(p)
           s == [Begin EXCEPT !.w = w]
<1> HIDE DEF C
<1>5. ASSUME NEW i \in 1..C
      PROVE  /\ w[i] \in Steps /\ w[i].step = "put"
             /\ Writable(w[i].data, eof)
  <2>1. /\ p[i] \in Recs /\ View[p[i]] \in Record
        /\ View[p[i]].type = "valid" /\ Below(View[p[i]], eof)
    BY <1>2, <1>3 DEF ToReset, Within
  <2> DEFINE d == [View[p[i]] EXCEPT !.validity = 0]
  <2>2. Writable(d, eof)
    BY <1>2, <2>1, EditedValid, ValuesAssumption, Zenon
  <2>3. w[i] = PutStep(p[i], d)
    BY <1>3
  <2> HIDE DEF d, w
  <2> QED
    BY <2>1, <2>2, <2>3, StepTypes DEF Writable
<1>6. w \in Seq(Steps) /\ Len(w) = C
  <2>1. DOMAIN w = 1..C /\ w = [i \in 1..C |-> w[i]]
    BY <1>3
  <2> HIDE DEF w
  <2>2. w \in [1..C -> Steps]
    BY <1>5, <2>1
  <2> QED
    BY <1>4, <2>2, SeqDef, LenProperties
<1> HIDE DEF w
<1>7. Takes(w, eof, eof)
  <2> DEFINE n == [i \in 1..Len(w) + 1 |-> eof]
  <2>1. n \in [1..Len(w) + 1 -> Nat] /\ n[1] <= eof /\ n[Len(w) + 1] = eof
    BY <1>2, <1>4, <1>6
  <2>2. \A i \in 1..Len(w) :
            /\ n[i + 1] = IF w[i].step = "append" THEN n[i] + 1 ELSE n[i]
            /\ w[i].step = "put" => Writable(w[i].data, n[i])
    BY <1>4, <1>5, <1>6
  <2> HIDE DEF n
  <2> QED
    BY <1>6, <2>1, <2>2 DEF Takes
<1>8. Sane(s)
  <2>1. s.v = View /\ s.n = eof /\ s.w = w /\ Shape(s)
    BY <1>2 DEF Begin, Shape
  <2> HIDE DEF s
  <2>2. Fit(s)
    BY <1>2, <1>7, <2>1 DEF Fit
  <2> QED
    BY <2>1, <2>2 DEF Sane
<1>9. Run(s)
  BY <1>3 DEF w
<1> HIDE DEF s
<1> QED
  BY <1>1, <1>8, <1>9, Runs, Zenon

\* The end of validate_keys.
LEMMA FinishStep ==
  ASSUME PInv, Inv', FinishValidation
  PROVE  PInv'
<1> DEFINE d == [View[0] EXCEPT !.nextcheck = 0]
           s == WriteRec(Begin, 0, d)
<1>1. HasTable /\ call.op = "idle" /\ Run(Sync(s))
  BY DEF FinishValidation, Ready
<1>2. /\ eof \in Nat /\ View \in [Recs -> Record] /\ Within(View, eof)
      /\ Begin.n = eof /\ View[0].type = "ver" /\ Sane(Begin)
  BY <1>1, BeginSane DEF HasTable
<1>3. 0 \in Recs /\ View[0] \in Record /\ Below(View[0], eof) /\ 0 \in {0, 1}
  BY <1>2, RecsAssumption DEF Within
<1>4. Writable(d, eof) /\ d.type = "ver"
  BY <1>2, <1>3, EditedVer, Zenon
<1> HIDE DEF d
<1>5. CanWrite(Begin, 0, d)
  BY <1>2, <1>3, <1>4 DEF CanWrite
<1>6. Wrote(s, Begin, 0, d)
  BY <1>2, <1>5, WriteRecSane, Zenon
<1> HIDE DEF s
<1>7. Sane(s)
  BY <1>6 DEF Wrote
<1>8. Sane(Sync(s))
  BY <1>2, <1>7, SyncSane, Zenon
<1> QED
  BY <1>1, <1>8, Runs, Zenon

\* create_hashtable.
LEMMA CreateHashtableSane ==
  ASSUME eof \in Nat, NEW s, Sane(s), s.n \in Recs
  PROVE  Sane(CreateHashtable(s)) /\ CreateHashtable(s).n = s.n
<1> DEFINE x == [b \in Buckets |-> 0]
           d == [s.v[0] EXCEPT !.trusthashtbl = 1]
           a == WriteRec(s, 1, Htbl(x))
           c == WriteRec(a, 0, d)
<1>1. 0 \in Recs /\ 1 \in Recs
  BY RecsAssumption, RecsInterval
<1>2. /\ s.n \in Nat /\ s.v[0] \in Record /\ s.v[0].type = "ver"
      /\ Below(s.v[0], s.n)
  BY <1>1 DEF Sane, Shape, Fit, Within
<1>3. Writable(Htbl(x), s.n)
  <2>1. x \in [Buckets -> Recs] /\ \A q \in Range(x) : q = 0
    BY <1>1 DEF Range
  <2>2. Htbl(x) # Garbled
    BY DEF Htbl, Garbled
  <2> HIDE DEF x
  <2>3. Htbl(x) \in Record /\ RecsOf(Htbl(x)) = Range(x)
    BY <2>1, Kinds
  <2> QED
    BY <2>1, <2>2, <2>3 DEF Writable, Below
<1> HIDE DEF x
<1>4. CanWrite(s, 1, Htbl(x))
  BY <1>1, <1>3 DEF CanWrite
<1>5. Wrote(a, s, 1, Htbl(x))
  BY <1>4, WriteRecSane, Zenon
<1> HIDE DEF a
<1>6. Sane(a) /\ a.n = s.n
  BY <1>5 DEF Wrote
<1>7. Writable(d, a.n) /\ d.type = "ver"
  <2>1. (0 = 0 \/ 0 < s.n) /\ 0 \in {0, 1}
    OBVIOUS
  <2>2. Writable(d, s.n) /\ d.type = "ver"
    BY <1>1, <1>2, <2>1, EditedVer, Zenon
  <2> QED
    BY <1>6, <2>2
<1> HIDE DEF d
<1>8. CanWrite(a, 0, d)
  BY <1>1, <1>7 DEF CanWrite
<1>9. Wrote(c, a, 0, d)
  BY <1>6, <1>8, WriteRecSane, Zenon
<1>10. CreateHashtable(s) = Sync(c)
  BY DEF CreateHashtable, c, a, d, x
<1> HIDE DEF c
<1>11. Sane(c) /\ c.n = s.n
  BY <1>6, <1>9 DEF Wrote
<1> QED
  BY <1>10, <1>11, SyncSane

\* create_version_record and create_hashtable.
LEMMA CreateStep ==
  ASSUME PInv, Inv', CreateDb
  PROVE  PInv'
<1> DEFINE b == Sync(WriteRec(Begin, 0, Ver(0, 0, 0)))
           c == IF eof = 0 THEN CreateHashtable(b) ELSE CreateHashtable(Begin)
           x == [step |-> "unlock"]
<1>1. /\ call.op = "idle" /\ UNCHANGED <<file, written, eof, call>>
      /\ eof = 0 \/ (eof = 1 /\ View[0].type = "ver")
      /\ todo' = c.w \o <<x>>
  <2>1. todo' = c.w \o <<x>>
    BY DEF CreateDb
  <2>2. /\ call.op = "idle" /\ UNCHANGED <<file, written, eof, call>>
        /\ eof = 0 \/ (eof = 1 /\ View[0].type = "ver")
    BY DEF CreateDb, SectionBegin
  <2> QED
    BY <2>1, <2>2
<1>2. /\ eof \in Nat /\ View \in [Recs -> Record] /\ Within(View, eof)
      /\ Begin.v = View /\ Begin.n = eof /\ Begin.ok /\ Begin.w = <<>>
      /\ View[0].type = "ver" => Sane(Begin)
  BY BeginSane
<1>3. eof \in Recs /\ 0 \in Recs
  BY <1>1, RecsAssumption, RecsInterval
<1>4. ASSUME eof = 0 PROVE Sane(b) /\ b.n = eof
  <2> DEFINE d == Ver(0, 0, 0)
             p == PutStep(0, d)
             v == [View EXCEPT ![0] = d]
             a == WriteRec(Begin, 0, d)
  <2>1. Writable(d, eof) /\ d.type = "ver" /\ d \in Record
    <3>1. d # Garbled /\ d.type = "ver"
      BY DEF Ver, Garbled
    <3>2. d \in Record /\ RecsOf(d) = {0}
      BY <1>3, Kinds
    <3> QED
      BY <3>1, <3>2 DEF Writable, Below
  <2> HIDE DEF d
  <2>2. p \in Steps /\ p.step = "put" /\ p.data = d
    BY <1>3, <2>1, StepTypes
  <2> HIDE DEF p
  <2>3. Takes(Append(<<>>, p), eof, eof)
    BY <1>2, <2>1, <2>2, TakesNothing, TakesAppend
  <2>4. /\ a = [Begin EXCEPT !.v = v, !.w = Append(<<>>, p)]
    BY <1>2 DEF WriteRec, Begin, p
  <2> HIDE DEF a, View
  <2>5. v \in [Recs -> Record] /\ v[0].type = "ver" /\ Within(v, eof)
    BY <1>2, <1>3, <2>1 DEF Within, Writable
  <2> HIDE DEF v
  <2>6. a.v = v /\ a.n = eof /\ a.w = Append(<<>>, p) /\ Shape(a)
    BY <1>2, <2>4 DEF Begin, Shape
  <2>7. Fit(a)
    BY <2>3, <2>5, <2>6 DEF Fit
  <2>8. Sane(a) /\ a.n = eof
    BY <2>6, <2>7 DEF Sane
  <2>9. b = Sync(a)
    BY DEF a, d
  <2> QED
    BY <1>2, <2>8, <2>9, SyncSane
<1>5. /\ eof = 0 => Sane(b) /\ b.n \in Recs
      /\ eof # 0 => Sane(Begin) /\ Begin.n \in Recs
  BY <1>1, <1>2, <1>3, <1>4
<1> HIDE DEF b
<1>6. Sane(c) /\ c.n \in Recs
  BY <1>2, <1>5, CreateHashtableSane
<1> HIDE DEF c
<1>7. c.n \in Nat /\ Takes(c.w, eof, c.n) /\ c.w \in Seq(Steps)
  BY <1>6 DEF Sane, Shape, Fit, Takes
<1>8. x \in Steps /\ x.step = "unlock"
  BY StepTypes
<1> HIDE DEF x
<1>9. Takes(Append(c.w, x), eof, c.n) /\ Append(c.w, x) = c.w \o <<x>>
  BY <1>2, <1>7, <1>8, TakesAppend, AppendIsConcat
<1>10. \E m \in Nat : Takes(todo', eof, m)
  BY <1>1, <1>7, <1>9
<1> QED
  BY <1>1, <1>10, Started

-----------------------------------------------------------------------------
\* The next step of an update.
LEMMA NextTodo ==
  ASSUME PInv, todo # <<>>
  PROVE  /\ Head(todo) \in Steps
         /\ Head(todo).step = "put" =>
              /\ Head(todo).recno \in Recs
              /\ Writable(Head(todo).data, eof)
         /\ Head(todo).step # "append" =>
              \E m \in Nat : Takes(Tail(todo), eof, m)
         /\ Head(todo).step = "append" =>
              \E m \in Nat : Takes(Tail(todo), eof + 1, m)
<1>1. PICK m \in Nat : Takes(todo, eof, m)
  BY DEF PInv
<1>2. eof \in Nat
  BY DEF PInv
<1>3. /\ Head(todo) \in Steps
      /\ Head(todo).step = "put" => Writable(Head(todo).data, eof)
      /\ Head(todo).step # "append" => Takes(Tail(todo), eof, m)
      /\ Head(todo).step = "append" => Takes(Tail(todo), eof + 1, m)
  BY <1>1, <1>2, TakesTail
<1>4. Head(todo).step = "put" => Head(todo).recno \in Recs
  BY <1>3 DEF Steps
<1> QED
  BY <1>3, <1>4

\* Each step of an update is one of the cache.
LEMMA CacheStep == PInv /\ [Next]_vars => [CacheNext]_cvars
<1> SUFFICES ASSUME PInv, [Next]_vars PROVE [CacheNext]_cvars
  OBVIOUS
<1>1. CASE UNCHANGED vars
  BY <1>1 DEF vars
<1>2. CASE CreateDb
  BY <1>2 DEF CreateDb, CacheNext
<1>3. CASE \E k \in Keys, x \in Values : UpdateOwnertrust(k, x)
  BY <1>3 DEF UpdateOwnertrust, Run
<1>4. CASE \E k \in Keys : ClearOwnertrust(k)
  BY <1>4 DEF ClearOwnertrust, Run
<1>5. CASE \E k \in Keys, u \in Names, x \in Values : UpdateValidity(k, u, x)
  BY <1>5 DEF UpdateValidity, Run
<1>6. CASE ResetTrustRecords
  BY <1>6 DEF ResetTrustRecords, Run
<1>7. CASE FinishValidation
  BY <1>7 DEF FinishValidation, Run
<1>8. CASE DoPut
  <2> DEFINE r == Head(todo).recno
             d == Head(todo).data
  <2>1. Put(r, d) /\ todo # <<>> /\ Head(todo).step = "put"
    BY <1>8 DEF DoPut, At
  <2>2. r \in Recs /\ Writable(d, eof)
    BY <2>1, NextTodo
  <2>3. d \in Data \ {Torn}
    BY <2>2, RecordAssumption DEF Writable
  <2> HIDE DEF r, d
  <2> QED
    BY <2>1, <2>2, <2>3 DEF CacheNext
<1>9. CASE DoAppend
  BY <1>9 DEF DoAppend
<1>10. CASE DoSync
  BY <1>10 DEF DoSync, CacheNext
<1>11. CASE DoSyncClean
  BY <1>11 DEF DoSyncClean
<1>12. CASE DoUnlock
  BY <1>12 DEF DoUnlock, CacheNext
<1>13. CASE WriteItem
  BY <1>13 DEF WriteItem, CacheNext
<1>14. CASE DoFlushDone
  BY <1>14 DEF DoFlushDone, CacheNext
<1>15. CASE DoSyncDone
  BY <1>15 DEF DoSyncDone, CacheNext
<1>16. CASE DoWriteFails
  BY <1>16 DEF DoWriteFails, CacheNext
<1>17. CASE NextProcess
  BY <1>17 DEF NextProcess, CacheNext
<1> QED
  BY <1>1, <1>2, <1>3, <1>4, <1>5, <1>6, <1>7, <1>8, <1>9, <1>10, <1>11,
     <1>12, <1>13, <1>14, <1>15, <1>16, <1>17 DEF Next

\* What a step has to show.
LEMMA Kept ==
  ASSUME PInv, Inv', eof' \in Nat,
         Within(file', eof'), Within(written', eof'),
         call'.op = "flush" => Below(call'.data, eof'),
         call'.op = "sync" => todo' # <<>> /\ Head(todo').step = "sync",
         \E m \in Nat : Takes(todo', eof', m)
  PROVE  PInv'
  BY DEF PInv, Within, Below, Takes, Writable

\* put_record_into_cache.
LEMMA DoPutStep ==
  ASSUME PInv, Inv', DoPut
  PROVE  PInv'
<1> DEFINE r == Head(todo).recno
           d == Head(todo).data
<1>1. /\ Put(r, d) /\ todo # <<>> /\ Head(todo).step = "put"
      /\ todo' = Tail(todo) /\ eof' = eof
  BY DEF DoPut, At
<1>2. /\ r \in Recs /\ Writable(d, eof)
      /\ \E m \in Nat : Takes(Tail(todo), eof, m)
  BY <1>1, NextTodo
<1> HIDE DEF r, d
<1>3. /\ file' = file
      /\ \/ call' = call /\ call.op = "idle"
         \/ call'.op = "flush" /\ call'.data = d
      /\ written' = written \/ written' = [written EXCEPT ![r] = d]
  <2>1. CASE PutFlush(r, d)
    BY <2>1 DEF PutFlush
  <2>2. CASE PutSame(r, d) \/ PutHit(r, d) \/ PutReuse(r, d)
    BY <2>2 DEF PutSame, PutHit, PutReuse
  <2>3. CASE PutNew(r, d) \/ PutDiscard(r, d)
    BY <2>3 DEF PutNew, PutDiscard
  <2> QED
    BY <1>1, <2>1, <2>2, <2>3 DEF Put
<1>4. /\ eof \in Nat /\ Within(file, eof) /\ Within(written, eof)
      /\ written \in [Recs -> Data]
  BY DEF PInv, Inv, CacheTypeOK
<1>5. Within(written', eof)
  BY <1>2, <1>3, <1>4 DEF Within, Writable
<1>6. call'.op = "flush" => Below(call'.data, eof)
  BY <1>2, <1>3 DEF Writable
<1>7. call'.op # "sync"
  BY <1>3
<1>8. \E m \in Nat : Takes(todo', eof', m)
  BY <1>1, <1>2
<1> QED
  BY <1>1, <1>3, <1>4, <1>5, <1>6, <1>7, <1>8, Kept

\* tdbio_new_recnum appends a record.
LEMMA DoAppendStep ==
  ASSUME PInv, Inv', DoAppend
  PROVE  PInv'
<1>1. /\ todo # <<>> /\ Head(todo).step = "append" /\ call.op = "idle"
      /\ todo' = Tail(todo) /\ eof' = eof + 1
      /\ UNCHANGED <<file, written, call>>
  BY DEF DoAppend, At, cvars
<1>2. /\ eof \in Nat /\ Within(file, eof) /\ Within(written, eof)
      /\ written \in [Recs -> Record] /\ file \in [Recs -> Record]
  BY RecordAssumption DEF PInv, Inv, CacheTypeOK
<1>3. eof' \in Nat /\ eof <= eof'
  BY <1>1, <1>2
<1>4. Within(file', eof') /\ Within(written', eof')
  BY <1>1, <1>2, <1>3, WithinMore
<1>5. \E m \in Nat : Takes(todo', eof', m)
  BY <1>1, NextTodo
<1> QED
  BY <1>1, <1>3, <1>4, <1>5, Kept

\* The steps that leave the records alone.
LEMMA QuietStep ==
  ASSUME PInv, Inv', DoSync \/ DoSyncClean \/ DoUnlock \/ DoSyncDone
  PROVE  PInv'
<1>1. /\ todo # <<>> /\ Head(todo).step # "append"
      /\ UNCHANGED <<file, written, eof>>
      /\ \/ todo' = Tail(todo) /\ call'.op = "idle"
         \/ /\ todo' = todo /\ call'.op = "sync"
            /\ Head(todo).step = "sync"
  <2>1. CASE DoSync
    BY <2>1 DEF DoSync, SyncStart, At, Idle
  <2>2. CASE DoSyncClean
    BY <2>2 DEF DoSyncClean, At, cvars
  <2>3. CASE DoUnlock
    BY <2>3 DEF DoUnlock, SectionEnd, At
  <2>4. CASE DoSyncDone
    BY <2>4 DEF DoSyncDone, SyncDone, Idle, PInv
  <2> QED
    BY <2>1, <2>2, <2>3, <2>4
<1>2. /\ eof \in Nat /\ Within(file, eof) /\ Within(written, eof)
      /\ \E m \in Nat : Takes(todo, eof, m)
  BY DEF PInv
<1>3. \E m \in Nat : Takes(Tail(todo), eof, m)
  BY <1>1, NextTodo
<1>4. \E m \in Nat : Takes(todo', eof', m)
  BY <1>1, <1>2, <1>3
<1>5. /\ call'.op = "flush" => Below(call'.data, eof')
      /\ call'.op = "sync" => todo' # <<>> /\ Head(todo').step = "sync"
  BY <1>1
<1> QED
  BY <1>1, <1>2, <1>4, <1>5, Kept

\* The file gets longer at most.
LEMMA ExtendedMore ==
  ASSUME eof \in Nat, NEW p \in Recs, file \in [Recs -> Record], NEW d,
         file' = [file EXCEPT ![p] = d]
  PROVE  Extended \in Nat /\ eof <= Extended
<1> DEFINE A == {q \in Recs : file'[q] # file[q]}
           S == {eof} \cup {r + 1 : r \in A}
<1>1. A \subseteq {p}
  OBVIOUS
<1>2. p \in Nat
  BY RecsAssumption
<1>3. S = {eof} \/ S = {eof, p + 1}
  <2> HIDE DEF A
  <2>1. A = {} \/ A = {p}
    BY <1>1
  <2> QED
    BY <2>1
<1>4. Extended = Max(S)
  BY DEF Extended
<1> HIDE DEF S
<1>5. S \subseteq Nat /\ \E x \in S : \A y \in S : x >= y
  BY <1>2, <1>3
<1>6. Max(S) \in S /\ \A y \in S : Max(S) >= y
  BY <1>5 DEF Max
<1>7. Max(S) \in Nat /\ eof \in S
  BY <1>3, <1>5, <1>6
<1> QED
  BY <1>4, <1>6, <1>7

\* write_cache_item.
LEMMA WriteItemStep ==
  ASSUME PInv, Inv', WriteItem
  PROVE  PInv'
<1>1. PICK i \in Slots :
        /\ i \in Dirty
        /\ file' = [file EXCEPT ![cacheList[i].recno] = cacheList[i].data]
        /\ call'.op = call.op /\ call'.data = call.data
        /\ UNCHANGED written
  <2>1. CASE FlushWrite
    <3>1. call \in Call
      BY DEF PInv, Inv, CacheTypeOK
    <3> QED
      BY <2>1, <3>1 DEF FlushWrite, IsFirst, GivenUp, Call
  <2>2. CASE SyncWrite
    BY <2>2 DEF SyncWrite, IsFirst
  <2> QED
    BY <2>1, <2>2 DEF WriteItem
<1> DEFINE p == cacheList[i].recno
           d == cacheList[i].data
<1>2. /\ eof \in Nat /\ Within(file, eof) /\ Within(written, eof)
      /\ written \in [Recs -> Record] /\ file \in [Recs -> Record]
  BY RecordAssumption DEF PInv, Inv, CacheTypeOK
<1>3. p \in Recs /\ d = written[p]
  <2>1. i \in DOMAIN cacheList /\ In(i)
    BY <1>1 DEF Dirty, Used, Slots, In
  <2>2. CacheTypeOK /\ Current
    BY DEF PInv, Inv
  <2>3. p \in Recs
    BY <2>1, <2>2, ListType
  <2> QED
    BY <2>1, <2>2, <2>3 DEF Current
<1> HIDE DEF p, d
<1>4. file' = [file EXCEPT ![p] = d]
  BY <1>1 DEF p, d
<1>5. Extended \in Nat /\ eof <= Extended
  BY <1>2, <1>3, <1>4, ExtendedMore
<1>6. eof' = Extended /\ UNCHANGED todo
  BY DEF WriteItem
<1> HIDE DEF Extended
<1>7. /\ eof' \in Nat /\ eof <= eof'
  BY <1>5, <1>6
<1>8. Within(file', eof) /\ file' \in [Recs -> Record]
  BY <1>2, <1>3, <1>4 DEF Within
<1>9. Within(file', eof') /\ Within(written', eof')
  BY <1>1, <1>2, <1>7, <1>8, WithinMore
<1>10. call'.op = "flush" => Below(call'.data, eof')
  <2>1. call.data \in Record
    BY RecordAssumption DEF PInv, Inv, CacheTypeOK, Call
  <2>2. call.op = "flush" => Below(call.data, eof)
    BY DEF PInv
  <2> QED
    BY <1>1, <1>2, <1>7, <2>1, <2>2, BelowMore
<1>11. call'.op = "sync" => todo' # <<>> /\ Head(todo').step = "sync"
  BY <1>1, <1>6 DEF PInv
<1>12. \E m \in Nat : Takes(todo', eof', m)
  BY <1>2, <1>6, <1>7, TakesMore DEF PInv
<1> QED
  BY <1>7, <1>9, <1>10, <1>11, <1>12, Kept

\* put_record_into_cache goes on after the flush.
LEMMA FlushedStep ==
  ASSUME PInv, Inv', DoFlushDone
  PROVE  PInv'
<1>1. /\ call.op = "flush" /\ call'.op = "idle"
      /\ written' = [written EXCEPT ![call.recno] = call.data]
      /\ UNCHANGED <<file, eof, todo>>
  BY DEF DoFlushDone, FlushDone, Idle
<1>2. /\ eof \in Nat /\ Within(file, eof) /\ Within(written, eof)
      /\ written \in [Recs -> Data] /\ Below(call.data, eof)
      /\ \E m \in Nat : Takes(todo, eof, m)
  BY <1>1 DEF PInv, Inv, CacheTypeOK
<1>3. Within(written', eof)
  BY <1>1, <1>2 DEF Within
<1> QED
  BY <1>1, <1>2, <1>3, Kept

\* write_cache_item fails.
LEMMA FailsStep ==
  ASSUME PInv, Inv', DoWriteFails
  PROVE  PInv'
<1>1. PICK i \in Slots :
        /\ i \in Dirty
        /\ \E d \in {file[cacheList[i].recno], Torn} :
             file' = [file EXCEPT ![cacheList[i].recno] = d]
        /\ call'.op = "idle" /\ UNCHANGED written
  <2>1. WriteFails
    BY DEF DoWriteFails
  <2>2. Idle.op = "idle"
    BY DEF Idle
  <2> QED
    BY <2>1, <2>2, Zenon DEF WriteFails, IsFirst
<1> DEFINE p == cacheList[i].recno
<1>2. PICK d \in {file[p], Torn} : file' = [file EXCEPT ![p] = d]
  BY <1>1
<1>3. /\ eof \in Nat /\ Within(file, eof) /\ Within(written, eof)
      /\ written \in [Recs -> Record] /\ file \in [Recs -> Record]
  BY RecordAssumption DEF PInv, Inv, CacheTypeOK
<1>4. p \in Recs
  <2>1. i \in DOMAIN cacheList /\ CacheTypeOK
    BY <1>1 DEF Dirty, Used, Slots, PInv, Inv
  <2> QED
    BY <2>1, ListType
<1> HIDE DEF p
<1>5. Extended \in Nat /\ eof <= Extended
  BY <1>2, <1>3, <1>4, ExtendedMore
<1> DEFINE x == [step |-> "exit"]
<1>6. eof' = Extended /\ todo' = <<x>>
  BY DEF DoWriteFails
<1> HIDE DEF Extended
<1>7. eof' \in Nat /\ eof <= eof'
  BY <1>5, <1>6
<1>8. Garbled \in Record /\ RecsOf(Garbled) = {} /\ Torn = Garbled
  BY Kinds, RecordAssumption
<1>9. d \in Record /\ Below(d, eof)
  BY <1>2, <1>3, <1>4, <1>8 DEF Below, Within
<1>10. Within(file', eof) /\ file' \in [Recs -> Record]
  BY <1>2, <1>3, <1>4, <1>9 DEF Within
<1>11. Within(file', eof') /\ Within(written', eof')
  BY <1>1, <1>3, <1>7, <1>10, WithinMore
<1>12. Takes(todo', eof', eof')
  <2>1. x \in Steps /\ x.step = "exit"
    BY StepTypes
  <2> HIDE DEF x
  <2>2. Append(<<>>, x) = <<x>>
    OBVIOUS
  <2>3. Takes(Append(<<>>, x), eof', eof')
    BY <1>7, <2>1, TakesNothing, TakesAppend
  <2> QED
    BY <1>6, <2>2, <2>3
<1> QED
  BY <1>1, <1>7, <1>11, <1>12, Kept

\* The next process.
LEMMA NextProcessStep ==
  ASSUME PInv, Inv', NextProcess
  PROVE  PInv'
<1>1. /\ call'.op = "idle" /\ written' = file /\ UNCHANGED <<file, eof>>
      /\ todo' = <<>>
  BY DEF NextProcess, Restart, Idle
<1>2. eof \in Nat /\ Within(file, eof)
  BY DEF PInv
<1>3. Takes(todo', eof', eof')
  BY <1>1, <1>2, TakesNothing
<1> QED
  BY <1>1, <1>2, <1>3, Kept

\* The database as it is found.
LEMMA FirstPointers == Init => PInv
<1> SUFFICES ASSUME Init PROVE PInv
  OBVIOUS
<1>1. /\ call.op = "idle" /\ written = file /\ todo = <<>> /\ Inv
      /\ file \in [Recs -> Record]
  <2>1. CacheInit /\ todo = <<>>
    BY DEF Init
  <2> QED
    BY <2>1, InvInit, RecordAssumption DEF CacheInit, Idle
<1>2. eof \in Nat /\ Within(file, eof)
  <2>1. CASE file = [r \in Recs |-> Unused] /\ eof = 0
    BY <2>1, Kinds DEF Within, Below
  <2>2. CASE /\ file = [r \in Recs |->
                          CASE r = 0 -> Ver(2, 1, 0)
                            [] r = 1 -> Htbl([b \in Buckets |-> 0])
                            [] r = 2 -> Free(0)
                            [] OTHER -> Unused]
             /\ eof = 3
    <3>1. 0 \in Recs /\ 1 \in Recs /\ 2 \in Recs
      BY RecsAssumption, RecsInterval
    <3> DEFINE x == [b \in Buckets |-> 0]
    <3>2. x \in [Buckets -> Recs] /\ \A q \in Range(x) : q = 0
      BY <3>1 DEF Range
    <3> HIDE DEF x
    <3>3. /\ RecsOf(Ver(2, 1, 0)) = {2} /\ RecsOf(Htbl(x)) = Range(x)
          /\ RecsOf(Free(0)) = {0} /\ RecsOf(Unused) = {}
      BY <3>1, <3>2, Kinds
    <3>4. ASSUME NEW r \in Recs PROVE Below(file[r], 3)
      <4>1. file[r] \in {Ver(2, 1, 0), Htbl(x), Free(0), Unused}
        BY <2>2 DEF x
      <4> QED
        BY <3>2, <3>3, <4>1 DEF Below
    <3> QED
      BY <2>2, <3>4 DEF Within
  <2> QED
    BY <2>1, <2>2 DEF Init
<1>3. Takes(todo, eof, eof)
  BY <1>1, <1>2, TakesNothing
<1> QED
  BY <1>1, <1>2, <1>3 DEF PInv

\* Every step keeps the pointers.
LEMMA PointersStep == PInv /\ [Next]_vars => PInv'
<1> SUFFICES ASSUME PInv, [Next]_vars PROVE PInv'
  OBVIOUS
<1>1. Inv'
  BY CacheStep, InvStep DEF PInv
<1>2. CASE UNCHANGED vars
  <2>1. UNCHANGED <<file, written, eof, call, todo>>
    BY <1>2 DEF vars, cvars
  <2> QED
    BY <1>1, <2>1, Kept DEF PInv
<1>3. CASE CreateDb
  BY <1>1, <1>3, CreateStep
<1>4. CASE \E k \in Keys, x \in Values : UpdateOwnertrust(k, x)
  BY <1>1, <1>4, UpdateOwnertrustStep
<1>5. CASE \E k \in Keys : ClearOwnertrust(k)
  BY <1>1, <1>5, ClearOwnertrustStep
<1>6. CASE \E k \in Keys, u \in Names, x \in Values : UpdateValidity(k, u, x)
  BY <1>1, <1>6, UpdateValidityStep
<1>7. CASE ResetTrustRecords
  BY <1>1, <1>7, ResetStep
<1>8. CASE FinishValidation
  BY <1>1, <1>8, FinishStep
<1>9. CASE DoPut
  BY <1>1, <1>9, DoPutStep
<1>10. CASE DoAppend
  BY <1>1, <1>10, DoAppendStep
<1>11. CASE DoSync \/ DoSyncClean \/ DoUnlock \/ DoSyncDone
  BY <1>1, <1>11, QuietStep
<1>12. CASE WriteItem
  BY <1>1, <1>12, WriteItemStep
<1>13. CASE DoFlushDone
  BY <1>1, <1>13, FlushedStep
<1>14. CASE DoWriteFails
  BY <1>1, <1>14, FailsStep
<1>15. CASE NextProcess
  BY <1>1, <1>15, NextProcessStep
<1> QED
  BY <1>2, <1>3, <1>4, <1>5, <1>6, <1>7, <1>8, <1>9, <1>10, <1>11, <1>12,
     <1>13, <1>14, <1>15 DEF Next

\* PInv holds throughout.
LEMMA PointersHold == Spec => []PInv
  BY FirstPointers, PointersStep, PTL DEF Spec

-----------------------------------------------------------------------------
\* The updates use the cache as TdbCache describes, with no record that is
\* garbled or out of range; so all that is proved of CacheSpec holds here.
THEOREM UsesCache == Spec => CacheSpec
<1>1. Init => CacheInit
  BY DEF Init
<1> QED
  BY <1>1, CacheStep, PointersHold, PTL DEF Spec, CacheSpec

\* In particular, a process reads what it has written last, and the next one
\* finds on disk what was synced.
THEOREM UpdatesReadLast == Spec => []ReadsLastWritten
  BY UsesCache, ReadsLast, PTL

\* No record on disk refers to one beyond the end of the file, whatever
\* updates ran, flushed early, failed or were cut off.
THEOREM PointersExist == Spec => []DiskPointersExist
<1>1. PInv => DiskPointersExist
  BY DEF PInv, Within, Below, DiskPointersExist
<1> QED
  BY <1>1, PointersHold, PTL

-----------------------------------------------------------------------------
(***************************************************************************)
(* Lists of records: what Chain returns, and which lists of a database are *)
(* made of what.                                                           *)
(***************************************************************************)
\* One step along a list: the record after those of p, if it is of the type.
Follow(v, h, type, p) ==
  LET r == IF p = <<>> THEN h ELSE v[p[Len(p)]].next
  IN  IF r # 0 /\ v[r].type = type THEN Append(p, r) ELSE p

Walks(g, v, h, type) ==
  /\ g = [i \in 0..Cardinality(Recs) |-> g[i]]
  /\ g[0] = <<>>
  /\ \A i \in 1..Cardinality(Recs) : g[i] = Follow(v, h, type, g[i - 1])

\* A walk along a list is the only one.
LEMMA ChainWalk ==
  ASSUME NEW v, NEW h, NEW type, NEW g, Walks(g, v, h, type)
  PROVE  Chain(v, h, type) = g[Cardinality(Recs)]
<1> DEFINE C == Cardinality(Recs)
           body(f, i) ==
             IF i = 0 THEN <<>>
             ELSE LET p == f[i - 1]
                      r == IF p = <<>> THEN h ELSE v[p[Len(p)]].next
                  IN  IF r # 0 /\ v[r].type = type THEN Append(p, r) ELSE p
           walk == CHOOSE f : f = [i \in 0..Cardinality(Recs) |-> body(f, i)]
<1>1. Chain(v, h, type) = walk[C]
  BY DEF Chain
<1>2. C \in Nat \ {0}
  BY RecsCount
<1>3. ASSUME NEW i \in 0..C PROVE g[i] = body(g, i)
  <2>1. CASE i = 0
    BY <2>1 DEF Walks
  <2>2. CASE i # 0
    <3>1. i \in 1..C
      <4> HIDE DEF C
      <4> QED
        BY <1>2, <2>2
    <3>2. g[i] = Follow(v, h, type, g[i - 1])
      BY <3>1 DEF Walks
    <3> QED
      BY <2>2, <3>2, Zenon DEF Follow
  <2> QED
    BY <2>1, <2>2
<1> HIDE DEF body
<1>4. g = [i \in 0..Cardinality(Recs) |-> body(g, i)]
  BY <1>3 DEF Walks
<1>5. walk = [i \in 0..Cardinality(Recs) |-> body(walk, i)]
  BY <1>4
<1> HIDE DEF walk
<1>6. \A i \in 0..C : walk[i] = body(walk, i)
  BY <1>5, Zenon
<1> HIDE DEF C
<1> DEFINE T == {i \in 0..C : walk[i] # g[i]}
<1>7. T = {}
  <2>1. SUFFICES ASSUME T # {} PROVE FALSE
    OBVIOUS
  <2>2. T \subseteq Nat
    BY <1>2
  <2>3. PICK x \in T : \A y \in T : x <= y
    BY <2>1, <2>2, LeastNatural, Zenon
  <2>4. x \in 0..C /\ walk[x] # g[x]
    BY <2>3
  <2>5. \A f : body(f, 0) = <<>>
    BY DEF body
  <2>6. x # 0
    BY <1>3, <1>6, <2>4, <2>5
  <2>7. x - 1 \in 0..C /\ ~(x <= x - 1)
    BY <1>2, <2>4, <2>6
  <2>8. walk[x - 1] = g[x - 1]
    <3>1. x - 1 \notin T
      BY <2>3, <2>7
    <3> QED
      BY <2>7, <3>1
  <2>9. body(walk, x) = body(g, x)
    BY <2>6, <2>8, Zenon DEF body
  <2> QED
    BY <1>3, <1>6, <2>4, <2>9
<1>8. C \in 0..C
  BY <1>2
<1> QED
  BY <1>1, <1>7, <1>8 DEF C

-----------------------------------------------------------------------------
\* What follows the records L, which are reached from h.
EndOf(v, h, L) == IF L = <<>> THEN h ELSE v[L[Len(L)]].next

\* L are the records of the type that are reached from h.
Linked(v, h, type, L) ==
  /\ L \in Seq(Recs)
  /\ \A i \in 1..Len(L) : L[i] # 0 /\ v[L[i]].type = type
  /\ \A i, j \in 1..Len(L) : i # j => L[i] # L[j]
  /\ \A i \in 1..Len(L) : i < Len(L) => v[L[i]].next = L[i + 1]
  /\ L # <<>> => L[1] = h
  /\ EndOf(v, h, L) = 0 \/ v[EndOf(v, h, L)].type # type

\* Sequences as functions.
LEMMA SeqFacts ==
  ASSUME NEW S, NEW L \in Seq(S)
  PROVE  /\ Len(L) \in Nat /\ DOMAIN L = 1..Len(L)
         /\ L \in [1..Len(L) -> S]
         /\ L = <<>> <=> Len(L) = 0
         /\ \A i \in 1..Len(L) : L[i] \in S
<1>1. Len(L) \in Nat /\ DOMAIN L = 1..Len(L) /\ L \in [1..Len(L) -> S]
  BY LenProperties
<1>2. L = <<>> <=> Len(L) = 0
  BY EmptySeq
<1> QED
  BY <1>1, <1>2

\* No record is met twice, so that a list has no more records than there are.
LEMMA NotLonger ==
  ASSUME NEW L \in Seq(Recs),
         \A i, j \in 1..Len(L) : i # j => L[i] # L[j]
  PROVE  Len(L) <= Cardinality(Recs)
<1>1. Len(L) \in Nat /\ L \in [1..Len(L) -> Recs]
  BY SeqFacts
<1>2. L \in Injection(1..Len(L), Recs)
  BY <1>1 DEF Injection, IsInjective
<1>3. Cardinality(1..Len(L)) = Len(L)
  BY <1>1, FS_Interval
<1>4. Cardinality(1..Len(L)) <= Cardinality(Recs)
  BY <1>2, RecsInterval, FS_Injection
<1> QED
  BY <1>3, <1>4

\* Chain finds these records.
LEMMA ChainIs ==
  ASSUME NEW v, NEW h, NEW type, NEW L, Linked(v, h, type, L)
  PROVE  Chain(v, h, type) = L
<1> DEFINE C == Cardinality(Recs)
           m == Len(L)
           pre(i) == [j \in 1..i |-> L[j]]
           g == [i \in 0..Cardinality(Recs) |-> IF i <= m THEN pre(i) ELSE L]
<1>1. L \in Seq(Recs) /\ m \in Nat /\ L \in [1..m -> Recs]
  BY SeqFacts DEF Linked
<1>2. m <= C /\ C \in Nat \ {0}
  BY <1>1, NotLonger, RecsCount DEF Linked
<1>3. pre(m) = L /\ pre(0) = <<>>
  <2>1. pre(m) = L
    BY <1>1
  <2>2. pre(0) = [j \in 1..0 |-> L[j]] /\ 1..0 = {}
    OBVIOUS
  <2>3. pre(0) \in Seq(Recs) /\ Len(pre(0)) = 0
    BY <2>2
  <2> QED
    BY <2>1, <2>3, EmptySeq
<1>4. \A i \in 1..m : /\ pre(i) = Append(pre(i - 1), L[i])
                      /\ i # 1 => /\ pre(i - 1) # <<>>
                                  /\ pre(i - 1)[Len(pre(i - 1))] = L[i - 1]
  <2> SUFFICES ASSUME NEW i \in 1..m
               PROVE  /\ pre(i) = Append(pre(i - 1), L[i])
                      /\ i # 1 => /\ pre(i - 1) # <<>>
                                  /\ pre(i - 1)[Len(pre(i - 1))] = L[i - 1]
    OBVIOUS
  <2>1. i \in Nat /\ i - 1 \in Nat /\ 1..i - 1 \subseteq 1..m
        /\ L[i] \in Recs
    BY <1>1
  <2>2. pre(i - 1) \in [1..i - 1 -> Recs]
    BY <1>1, <2>1
  <2>3. pre(i - 1) \in Seq(Recs) /\ Len(pre(i - 1)) = i - 1
    BY <2>1, <2>2
  <2>4. Append(pre(i - 1), L[i]) = [j \in 1..i |->
                            IF j = i THEN L[i] ELSE pre(i - 1)[j]]
    BY <2>1, <2>3
  <2>5. \A j \in 1..i : (IF j = i THEN L[i] ELSE pre(i - 1)[j]) = L[j]
    BY <2>1
  <2>6. pre(i) = Append(pre(i - 1), L[i])
    BY <2>4, <2>5
  <2>7. ASSUME i # 1 PROVE /\ pre(i - 1) # <<>>
                           /\ pre(i - 1)[Len(pre(i - 1))] = L[i - 1]
    <3>1. i - 1 \in 1..i - 1
      BY <2>1, <2>7
    <3>2. pre(i - 1) # <<>>
      BY <2>1, <2>3, <2>7
    <3> QED
      BY <2>3, <3>1, <3>2
  <2> QED
    BY <2>6, <2>7
<1> HIDE DEF pre, m, C
<1>5. g = [i \in 0..Cardinality(Recs) |-> g[i]]
  OBVIOUS
<1>6. g[0] = <<>>
  BY <1>1, <1>2, <1>3 DEF C
<1>7. ASSUME NEW i \in 1..C PROVE g[i] = Follow(v, h, type, g[i - 1])
  <2>1. i \in 0..C /\ i - 1 \in 0..C /\ i \in Nat /\ i - 1 \in Nat
    BY <1>2
  <2>2. /\ g[i] = IF i <= m THEN pre(i) ELSE L
        /\ g[i - 1] = IF i - 1 <= m THEN pre(i - 1) ELSE L
    BY <2>1 DEF C
  <2> HIDE DEF g
  <2>3. CASE i <= m
    <3>1. i \in 1..m /\ i - 1 <= m
      BY <1>1, <2>1, <2>3
    <3>2. g[i] = pre(i) /\ g[i - 1] = pre(i - 1)
      BY <2>2, <2>3, <3>1
    <3>3. L[i] # 0 /\ v[L[i]].type = type
      BY <3>1 DEF Linked, m
    <3>4. L[i] = IF pre(i - 1) = <<>> THEN h
                 ELSE v[pre(i - 1)[Len(pre(i - 1))]].next
      <4>1. CASE i = 1
        <5>1. L # <<>>
          BY <1>1, <3>1, SeqFacts DEF m
        <5>2. L[1] = h
          BY <5>1 DEF Linked
        <5> QED
          BY <1>3, <4>1, <5>2
      <4>2. CASE i # 1
        <5>1. i - 1 \in 1..m /\ i - 1 < m /\ (i - 1) + 1 = i
          BY <1>1, <3>1, <4>2
        <5>2. v[L[i - 1]].next = L[i]
          BY <5>1 DEF Linked, m
        <5> QED
          BY <1>4, <3>1, <4>2, <5>2
      <4> QED
        BY <4>1, <4>2
    <3>5. pre(i) = Append(pre(i - 1), L[i])
      BY <1>4, <3>1
    <3>6. Follow(v, h, type, pre(i - 1)) = Append(pre(i - 1), L[i])
      BY <3>3, <3>4 DEF Follow
    <3> QED
      BY <3>2, <3>5, <3>6
  <2>4. CASE ~(i <= m)
    <3>1. g[i] = L /\ g[i - 1] = L
      BY <1>1, <1>3, <2>1, <2>2, <2>4
    <3>2. EndOf(v, h, L) = 0 \/ v[EndOf(v, h, L)].type # type
      BY DEF Linked
    <3>3. Follow(v, h, type, L)
            = IF EndOf(v, h, L) # 0 /\ v[EndOf(v, h, L)].type = type
              THEN Append(L, EndOf(v, h, L)) ELSE L
      BY Zenon DEF Follow, EndOf
    <3> QED
      BY <3>1, <3>2, <3>3
  <2> QED
    BY <2>3, <2>4
<1>8. Chain(v, h, type) = g[C]
  <2> HIDE DEF g
  <2>1. Walks(g, v, h, type)
    BY <1>5, <1>6, <1>7 DEF C, Walks
  <2>2. Chain(v, h, type) = g[Cardinality(Recs)]
    BY <2>1, ChainWalk, Zenon
  <2> QED
    BY <2>2 DEF C
<1>9. g[C] = L
  <2>1. C \in 0..Cardinality(Recs)
    BY <1>2 DEF C
  <2>2. CASE C <= m
    BY <1>1, <1>2, <1>3, <2>1, <2>2
  <2>3. CASE ~(C <= m)
    BY <2>1, <2>3
  <2> QED
    BY <2>2, <2>3
<1> QED
  BY <1>8, <1>9

\* The version record and the hash table are in place.
Top(v) == /\ v \in [Recs -> Record]
          /\ v[0].type = "ver" /\ v[0].trusthashtbl = 1
          /\ v[1].type = "htbl"

\* What the table has for keys that start with b.
Item(v, b) == v[1].item[b]

\* hl are the hash lists; they have no record in common.
Hung(v, hl) ==
  /\ hl \in [Buckets -> Seq(Recs)]
  /\ \A b \in Buckets : Linked(v, Item(v, b), "hlst", hl[b])
  /\ \A b, c \in Buckets : b # c =>
       \A i \in 1..Len(hl[b]), j \in 1..Len(hl[c]) : hl[b][i] # hl[c][j]

\* Nothing but a trust record is there in place of a list, and all lists end.
Shut(v, hl) ==
  \A b \in Buckets :
    /\ hl[b] = <<>> => Item(v, b) = 0 \/ v[Item(v, b)].type = "trust"
    /\ hl[b] # <<>> => EndOf(v, Item(v, b), hl[b]) = 0

\* The record r is where the key of a trust record is looked up.
Placed(v, hl, b, r) ==
  /\ hl[b] = <<>> => Item(v, b) = r
  /\ hl[b] # <<>> => \E j \in 1..Len(hl[b]), i \in 1..HlstItems :
                       v[hl[b][j]].rnum[i] = r

\* A trust record of the key k, and one that is found.
IsTrust(v, r, k) == r \in Recs /\ v[r].type = "trust" /\ v[r].fpr = k
Found(v, hl, k, r) == IsTrust(v, r, k) /\ Placed(v, hl, Bucket[k], r)

\* No key has two trust records.
Unique(v) == \A k \in Keys : \A r, q \in Recs :
               IsTrust(v, r, k) /\ IsTrust(v, q, k) => r = q

-----------------------------------------------------------------------------
\* The records on top.
LEMMA TopFacts ==
  ASSUME NEW v, Top(v)
  PROVE  /\ 0 \in Recs /\ 1 \in Recs /\ 2 \in Recs
         /\ \A r \in Recs : v[r] \in Record /\ r \in Nat
         /\ v[1].item \in [Buckets -> Recs]
         /\ \A b \in Buckets : Item(v, b) \in Recs
         /\ \A k \in Keys : Bucket[k] \in Buckets
<1>1. 0 \in Recs /\ 1 \in Recs /\ 2 \in Recs
  BY RecsInterval
<1>2. \A r \in Recs : v[r] \in Record /\ r \in Nat
  BY RecsAssumption DEF Top
<1>3. v[1].item \in [Buckets -> Recs]
  BY <1>1, <1>2, ByType DEF Top
<1>4. \A b \in Buckets : Item(v, b) \in Recs
  BY <1>3 DEF Item
<1> QED
  BY <1>1, <1>2, <1>3, <1>4 DEF Buckets

\* What is in a list.
LEMMA ListRec ==
  ASSUME NEW v, Top(v), NEW type \in {"hlst", "valid", "free"}, NEW h, NEW L,
         Linked(v, h, type, L)
  PROVE  /\ L \in Seq(Recs) /\ Len(L) \in Nat
         /\ L = <<>> <=> Len(L) = 0
         /\ \A i \in 1..Len(L) : /\ L[i] \in Recs /\ L[i] # 0
                                 /\ v[L[i]].type = type
                                 /\ v[L[i]].next \in Recs
         /\ type = "hlst" => \A i \in 1..Len(L) :
                               v[L[i]].rnum \in [1..HlstItems -> Recs]
<1>1. L \in Seq(Recs)
  BY DEF Linked
<1>2. /\ Len(L) \in Nat /\ \A i \in 1..Len(L) : L[i] \in Recs
      /\ L = <<>> <=> Len(L) = 0
  BY <1>1, SeqFacts
<1>3. ASSUME NEW i \in 1..Len(L)
      PROVE  /\ L[i] \in Recs /\ L[i] # 0 /\ v[L[i]].type = type
             /\ v[L[i]].next \in Recs
             /\ type = "hlst" => v[L[i]].rnum \in [1..HlstItems -> Recs]
  <2>1. L[i] \in Recs /\ L[i] # 0 /\ v[L[i]].type = type
    BY <1>2 DEF Linked
  <2>2. v[L[i]] \in Record
    BY <2>1, TopFacts
  <2> QED
    BY <2>1, <2>2, ByType
<1> QED
  BY <1>1, <1>2, <1>3

\* The places in a record of a hash list.
LEMMA ListPlaces ==
  ASSUME NEW v, Top(v), NEW h, NEW L, Linked(v, h, "hlst", L)
  PROVE  \A j \in 1..Len(L), i \in 1..HlstItems : v[L[j]].rnum[i] \in Recs
<1>1. \A j \in 1..Len(L) : v[L[j]].rnum \in [1..HlstItems -> Recs]
  BY ListRec, Zenon
<1> QED
  BY <1>1

\* The places of a record of the list L where a trust record of k is, and
\* the records that have one.
HitsAt(v, L, k, j) == {i \in 1..HlstItems : IsOf(v, v[L[j]].rnum[i], k)}
WithHits(v, L, k) == {j \in 1..Len(L) : HitsAt(v, L, k, j) # {}}
FirstHit(v, L, k) ==
  LET j == Min(WithHits(v, L, k))
  IN  v[L[j]].rnum[Min(HitsAt(v, L, k, j))]

\* lookup_hashtable, in terms of the lists.
LEMMA LookupIs ==
  ASSUME NEW v, Top(v), NEW hl, Hung(v, hl), NEW k \in Keys
  PROVE  /\ hl[Bucket[k]] = <<>> =>
              Lookup(v, k) = IF IsOf(v, Item(v, Bucket[k]), k)
                             THEN Item(v, Bucket[k]) ELSE 0
         /\ hl[Bucket[k]] # <<>> =>
              Lookup(v, k) = IF WithHits(v, hl[Bucket[k]], k) # {}
                             THEN FirstHit(v, hl[Bucket[k]], k)
                             ELSE IF EndOf(v, Item(v, Bucket[k]),
                                           hl[Bucket[k]]) = 0
                             THEN 0 ELSE -1
<1> DEFINE b == Bucket[k]
           item == Item(v, b)
           L == hl[b]
           with == WithHits(v, L, k)
<1>1. b \in Buckets /\ item \in Recs /\ 1 \in Recs /\ v[1] \in Record
  BY TopFacts
<1>2. Linked(v, item, "hlst", L)
  BY <1>1 DEF Hung
<1>3. HashList(v, item) = L
  BY <1>2, ChainIs DEF HashList
<1>4. DOMAIN L = 1..Len(L)
  BY <1>2, SeqFacts DEF Linked
<1> HIDE DEF item, L, b
<1>5. Lookup(v, k) = IF item = 0 THEN 0
                    ELSE IF v[item].type # "hlst"
                    THEN IF IsOf(v, item, k) THEN item ELSE 0
                    ELSE IF with # {}
                    THEN FirstHit(v, L, k)
                    ELSE IF Complete(v, L) THEN 0 ELSE -1
  <2>1. v[0].trusthashtbl = 1 /\ v[0].type = "ver" /\ v[1].type = "htbl"
    BY DEF Top
  <2>2. v[1].item[Bucket[k]] = item
    BY DEF item, Item, b
  <2> DEFINE t0 == v[0].trusthashtbl
             i0 == v[t0].item[Bucket[k]]
             l0 == HashList(v, i0)
             hits(j) == {i \in 1..HlstItems : IsOf(v, v[l0[j]].rnum[i], k)}
             those == {j \in DOMAIN l0 : hits(j) # {}}
  <2>3. Lookup(v, k) = IF i0 = 0 THEN 0
                    ELSE IF v[i0].type # "hlst"
                    THEN IF IsOf(v, i0, k) THEN i0 ELSE 0
                    ELSE IF those # {}
                    THEN v[l0[Min(those)]].rnum[Min(hits(Min(those)))]
                    ELSE IF Complete(v, l0) THEN 0 ELSE -1
    BY <2>1 DEF Lookup
  <2>4. i0 = item
    BY <2>1, <2>2
  <2>5. l0 = L
    BY <1>3, <2>4
  <2> HIDE DEF i0, l0
  <2>6. those = with /\ \A j : hits(j) = HitsAt(v, L, k, j)
    BY <1>4, <2>5 DEF WithHits, HitsAt
  <2> HIDE DEF hits, those, with
  <2>7. FirstHit(v, L, k)
          = v[L[Min(with)]].rnum[Min(HitsAt(v, L, k, Min(with)))]
    BY DEF FirstHit, with
  <2> QED
    BY <2>3, <2>4, <2>5, <2>6, <2>7
<1>6. CASE L = <<>>
  <2>1. item = 0 \/ v[item].type # "hlst"
    BY <1>2, <1>6 DEF Linked, EndOf
  <2>2. Lookup(v, k) = IF IsOf(v, item, k) THEN item ELSE 0
    BY <1>5, <2>1 DEF IsOf
  <2> QED
    BY <1>6, <2>2 DEF item, L, b
<1>7. CASE L # <<>>
  <2>0. 1 \in 1..Len(L)
    BY <1>2, <1>7, ListRec
  <2>1. L[1] = item
    BY <1>2, <1>7 DEF Linked
  <2>2. item # 0 /\ v[item].type = "hlst"
    BY <1>2, <2>0, <2>1 DEF Linked
  <2>3. Complete(v, L) <=> EndOf(v, item, L) = 0
    BY <1>7 DEF Complete, EndOf
  <2>4. Lookup(v, k) = IF with # {}
                    THEN FirstHit(v, L, k)
                    ELSE IF EndOf(v, item, L) = 0 THEN 0 ELSE -1
    BY <1>5, <2>2, <2>3
  <2> QED
    BY <1>7, <2>4 DEF item, L, b
<1> QED
  BY <1>6, <1>7

\* A trust record that is in its place is found, if it is the only one.
LEMMA LookupPlaced ==
  ASSUME NEW v, Top(v), NEW hl, Hung(v, hl), Unique(v), NEW k \in Keys,
         NEW r, Found(v, hl, k, r)
  PROVE  Lookup(v, k) = r /\ r > 0
<1> DEFINE item == Item(v, Bucket[k])
           L == hl[Bucket[k]]
           hits(j) == HitsAt(v, L, k, j)
           with == WithHits(v, L, k)
<1>1. r \in Recs /\ r # 0 /\ r \in Nat /\ IsOf(v, r, k)
  BY TopFacts DEF Found, IsTrust, Top, IsOf
<1>2. Bucket[k] \in Buckets /\ Linked(v, item, "hlst", L)
  BY TopFacts DEF Hung
<1>3. CASE L = <<>>
  <2>1. item = r
    BY <1>3 DEF Found, Placed
  <2>2. Lookup(v, k) = IF IsOf(v, item, k) THEN item ELSE 0
    BY <1>3, LookupIs
  <2> QED
    BY <1>1, <2>1, <2>2
<1>4. CASE L # <<>>
  <2>1. PICK j \in 1..Len(L), i \in 1..HlstItems : v[L[j]].rnum[i] = r
    BY <1>4 DEF Found, Placed
  <2>2. with # {}
    BY <1>1, <2>1 DEF WithHits, HitsAt
  <2>3. with \subseteq Nat
    BY DEF WithHits
  <2>4. Lookup(v, k) = FirstHit(v, L, k)
    BY <1>4, <2>2, LookupIs
  <2> DEFINE m == Min(with)
  <2>5. m \in with
    BY <2>2, <2>3, MinIsMember
  <2> HIDE DEF m
  <2>6. hits(m) # {} /\ hits(m) \subseteq Nat /\ m \in 1..Len(L)
    BY <2>5 DEF WithHits, HitsAt
  <2> DEFINE p == Min(hits(m))
  <2>7. p \in hits(m)
    BY <2>6, MinIsMember
  <2> HIDE DEF p
  <2> DEFINE q == v[L[m]].rnum[p]
  <2>8. IsOf(v, q, k) /\ p \in 1..HlstItems
    BY <2>7 DEF HitsAt
  <2>9. q \in Recs
    BY <1>2, <2>6, <2>8, ListPlaces
  <2>10. q = r
    <3> HIDE DEF q
    <3>1. IsTrust(v, q, k) /\ IsTrust(v, r, k)
      BY <1>1, <2>8, <2>9 DEF IsOf, IsTrust
    <3> QED
      BY <1>1, <2>9, <3>1 DEF Unique
  <2> QED
    BY <1>1, <2>4, <2>10 DEF p, m, FirstHit
<1> QED
  BY <1>3, <1>4

\* A key none of whose trust records is in its place is not found; if all
\* lists end, there is no error.
LEMMA LookupNone ==
  ASSUME NEW v, Top(v), NEW hl, Hung(v, hl), NEW k \in Keys,
         \A r \in Recs : ~Found(v, hl, k, r)
  PROVE  ~(Lookup(v, k) > 0) /\ (Shut(v, hl) => Lookup(v, k) = 0)
<1> DEFINE item == Item(v, Bucket[k])
           L == hl[Bucket[k]]
           hits(j) == HitsAt(v, L, k, j)
           with == WithHits(v, L, k)
<1>1. Bucket[k] \in Buckets /\ Linked(v, item, "hlst", L) /\ item \in Recs
  BY TopFacts DEF Hung
<1>2. CASE L = <<>>
  <2>1. ~IsOf(v, item, k)
    BY <1>1, <1>2 DEF Found, IsTrust, Placed, IsOf
  <2>2. Lookup(v, k) = 0
    BY <1>2, <2>1, LookupIs
  <2> QED
    BY <2>2
<1>3. CASE L # <<>>
  <2>1. with = {}
    <3> SUFFICES ASSUME NEW j \in 1..Len(L), NEW i \in 1..HlstItems,
                        IsOf(v, v[L[j]].rnum[i], k)
                 PROVE  FALSE
      BY DEF WithHits, HitsAt
    <3> DEFINE q == v[L[j]].rnum[i]
    <3>1. q \in Recs
      BY <1>1, ListPlaces
    <3>2. Placed(v, hl, Bucket[k], q)
      BY <1>3 DEF Placed
    <3> QED
      BY <3>1, <3>2 DEF Found, IsTrust, IsOf
  <2>2. Lookup(v, k) = IF EndOf(v, item, L) = 0 THEN 0 ELSE -1
    BY <1>3, <2>1, LookupIs
  <2>3. Shut(v, hl) => EndOf(v, item, L) = 0
    BY <1>1, <1>3 DEF Shut
  <2> QED
    BY <2>2, <2>3
<1> QED
  BY <1>2, <1>3

\* The ownertrust that is read.
LEMMA OwnIs ==
  ASSUME NEW v, Top(v), NEW hl, Hung(v, hl), Unique(v), NEW k \in Keys
  PROVE  /\ \A r \in Recs : Found(v, hl, k, r) => Own(v, k) = v[r].ownertrust
         /\ (\A r \in Recs : ~Found(v, hl, k, r)) => Own(v, k) = 0
<1>1. ASSUME NEW r \in Recs, Found(v, hl, k, r)
      PROVE  Own(v, k) = v[r].ownertrust
  BY <1>1, LookupPlaced DEF Own
<1>2. ASSUME \A r \in Recs : ~Found(v, hl, k, r) PROVE Own(v, k) = 0
  BY <1>2, LookupNone DEF Own
<1> QED
  BY <1>1, <1>2

-----------------------------------------------------------------------------
(***************************************************************************)
(* What remains of the lists, of the hash table and of the records of a    *)
(* key when one record is written.                                         *)
(***************************************************************************)
InList(q, L) == \E i \in 1..Len(L) : L[i] = q

\* The free list has all free records.
FreeIs(v, fl) ==
  /\ Linked(v, v[0].firstfree, "free", fl)
  /\ EndOf(v, v[0].firstfree, fl) = 0
  /\ \A r \in Recs : v[r].type = "free" => InList(r, fl)
FreeOK(v) == \E fl : FreeIs(v, fl)

\* hl are the hash lists, with all trust records but those of X.
HashIs(v, hl, X) ==
  /\ Hung(v, hl) /\ Shut(v, hl)
  /\ \A k \in Keys : \A r \in Recs \ X :
       IsTrust(v, r, k) => Placed(v, hl, Bucket[k], r)
HashOK(v, X) == \E hl : HashIs(v, hl, X)

\* vl are the lists of validity records; each of these is in one.
ValIs(v, vl) ==
  /\ vl \in [Recs -> Seq(Recs)]
  /\ \A r \in Recs : v[r].type = "trust" =>
       /\ Linked(v, v[r].validlist, "valid", vl[r])
       /\ EndOf(v, v[r].validlist, vl[r]) = 0
  /\ \A q \in Recs : v[q].type = "valid" =>
       \E r \in Recs : v[r].type = "trust" /\ InList(q, vl[r])
  /\ \A r, s \in Recs :
       v[r].type = "trust" /\ v[s].type = "trust" /\ r # s =>
         \A q \in Recs : ~(InList(q, vl[r]) /\ InList(q, vl[s]))
ValOK(v) == \E vl : ValIs(v, vl)

-----------------------------------------------------------------------------
\* A list stays as it is when a record is written that it does not have, or
\* one with the same successor.
LEMMA LinkedKept ==
  ASSUME NEW v, Top(v), NEW type \in {"hlst", "valid", "free"}, NEW h, NEW L,
         Linked(v, h, type, L), NEW p \in Recs, NEW d,
         v[p].type = type => d.type = type /\ d.next = v[p].next,
         v[p].type # type => d.type # type \/ EndOf(v, h, L) # p
  PROVE  /\ Linked([v EXCEPT ![p] = d], h, type, L)
         /\ EndOf([v EXCEPT ![p] = d], h, L) = EndOf(v, h, L)
<1> DEFINE w == [v EXCEPT ![p] = d]
<1>1. /\ L \in Seq(Recs) /\ Len(L) \in Nat /\ (L = <<>> <=> Len(L) = 0)
      /\ \A i \in 1..Len(L) : L[i] \in Recs /\ L[i] # 0 /\ v[L[i]].type = type
  BY ListRec
<1>2. \A r \in Recs : w[r] = IF r = p THEN d ELSE v[r]
  BY DEF Top
<1> HIDE DEF w
<1>3. \A i \in 1..Len(L) : w[L[i]].type = type /\ w[L[i]].next = v[L[i]].next
  BY <1>1, <1>2
<1>4. EndOf(w, h, L) = EndOf(v, h, L)
  BY <1>1, <1>3 DEF EndOf
<1>5. EndOf(v, h, L) = 0 \/ w[EndOf(v, h, L)].type # type
  <2> DEFINE e == EndOf(v, h, L)
  <2>1. e = 0 \/ v[e].type # type
    BY DEF Linked
  <2> HIDE DEF e
  <2>2. CASE e = p
    BY <1>2, <2>1, <2>2 DEF e
  <2>3. CASE e # p
    <3>1. w[e] = v[e]
      BY <2>3 DEF w, Top
    <3> QED
      BY <2>1, <3>1 DEF e
  <2> QED
    BY <2>2, <2>3
<1>6. Linked(w, h, type, L)
  BY <1>1, <1>3, <1>4, <1>5 DEF Linked
<1> QED
  BY <1>4, <1>6 DEF w

\* The records on top stay.
LEMMA TopKept ==
  ASSUME NEW v, Top(v), NEW p \in Recs, NEW d \in Record,
         p = 0 => d.type = "ver" /\ d.trusthashtbl = 1,
         p = 1 => d.type = "htbl"
  PROVE  Top([v EXCEPT ![p] = d])
<1> DEFINE w == [v EXCEPT ![p] = d]
<1>1. /\ w \in [Recs -> Record]
      /\ \A r \in Recs : w[r] = IF r = p THEN d ELSE v[r]
  BY DEF Top
<1>2. 0 \in Recs /\ 1 \in Recs
  BY TopFacts
<1> HIDE DEF w
<1>3. Top(w)
  BY <1>1, <1>2 DEF Top
<1> QED
  BY <1>3 DEF w

\* Writes elsewhere leave the free list.
LEMMA FreeKept ==
  ASSUME NEW v, Top(v), FreeOK(v), NEW p \in Recs, NEW d,
         v[p].type # "free", d.type # "free",
         p = 0 => d.firstfree = v[0].firstfree
  PROVE  FreeOK([v EXCEPT ![p] = d])
<1> DEFINE w == [v EXCEPT ![p] = d]
<1>1. PICK fl : FreeIs(v, fl)
  BY DEF FreeOK
<1>2. /\ \A r \in Recs : w[r] = IF r = p THEN d ELSE v[r]
      /\ w[0].firstfree = v[0].firstfree
  BY TopFacts DEF Top
<1>3. Linked(w, v[0].firstfree, "free", fl)
      /\ EndOf(w, v[0].firstfree, fl) = EndOf(v, v[0].firstfree, fl)
  BY <1>1, LinkedKept DEF FreeIs
<1> HIDE DEF w
<1>4. FreeIs(w, fl)
  BY <1>1, <1>2, <1>3 DEF FreeIs
<1> QED
  BY <1>4 DEF w, FreeOK

\* Writes elsewhere leave the hash lists and what is in them.
LEMMA HungKept ==
  ASSUME NEW v, Top(v), NEW hl, Hung(v, hl), NEW p \in Recs, NEW d,
         v[p].type # "hlst", p # 1,
         d.type # "hlst" \/ \A b \in Buckets : EndOf(v, Item(v, b), hl[b]) # p
  PROVE  LET w == [v EXCEPT ![p] = d] IN
         /\ Hung(w, hl)
         /\ \A b \in Buckets :
              /\ Item(w, b) = Item(v, b)
              /\ EndOf(w, Item(w, b), hl[b]) = EndOf(v, Item(v, b), hl[b])
              /\ \A r : Placed(w, hl, b, r) <=> Placed(v, hl, b, r)
<1> DEFINE w == [v EXCEPT ![p] = d]
<1>1. w[1] = v[1] /\ \A r \in Recs : w[r] = IF r = p THEN d ELSE v[r]
  BY TopFacts DEF Top
<1>2. ASSUME NEW b \in Buckets
      PROVE  /\ Item(w, b) = Item(v, b)
             /\ Linked(w, Item(w, b), "hlst", hl[b])
             /\ EndOf(w, Item(w, b), hl[b]) = EndOf(v, Item(v, b), hl[b])
  <2>1. Item(w, b) = Item(v, b)
    BY <1>1 DEF Item
  <2>2. Linked(v, Item(v, b), "hlst", hl[b])
    BY DEF Hung
  <2> QED
    BY <2>1, <2>2, LinkedKept
<1>3. ASSUME NEW b \in Buckets, NEW r
      PROVE  Placed(w, hl, b, r) <=> Placed(v, hl, b, r)
  <2>1. Linked(v, Item(v, b), "hlst", hl[b])
    BY DEF Hung
  <2>2. \A j \in 1..Len(hl[b]) : w[hl[b][j]] = v[hl[b][j]]
    <3>1. \A j \in 1..Len(hl[b]) :
            hl[b][j] \in Recs /\ v[hl[b][j]].type = "hlst"
      BY <2>1, ListRec
    <3> QED
      BY <1>1, <3>1
  <2> HIDE DEF w
  <2> QED
    BY <1>2, <2>2 DEF Placed
<1> HIDE DEF w
<1>4. Hung(w, hl)
  BY <1>2 DEF Hung
<1> QED
  BY <1>2, <1>3, <1>4 DEF w

\* So do writes that change no key of a trust record.
LEMMA HashKept ==
  ASSUME NEW v, Top(v), NEW hl, NEW X, HashIs(v, hl, X), NEW p \in Recs, NEW d,
         v[p].type # "hlst", d.type # "hlst", p # 1,
         v[p].type = "trust" <=> d.type = "trust",
         v[p].type = "trust" => d.fpr = v[p].fpr
  PROVE  HashIs([v EXCEPT ![p] = d], hl, X)
<1> DEFINE w == [v EXCEPT ![p] = d]
<1>1. \A r \in Recs : w[r] = IF r = p THEN d ELSE v[r]
  BY DEF Top
<1>2. /\ Hung(w, hl)
      /\ \A b \in Buckets :
           /\ Item(w, b) = Item(v, b)
           /\ EndOf(w, Item(w, b), hl[b]) = EndOf(v, Item(v, b), hl[b])
           /\ \A r : Placed(w, hl, b, r) <=> Placed(v, hl, b, r)
  BY HungKept DEF HashIs
<1> HIDE DEF w
<1>3. Shut(w, hl)
  BY <1>1, <1>2, TopFacts DEF HashIs, Shut
<1>4. \A k : \A r \in Recs : IsTrust(w, r, k) <=> IsTrust(v, r, k)
  BY <1>1 DEF IsTrust
<1>5. \A k \in Keys : Bucket[k] \in Buckets
  BY TopFacts
<1>6. HashIs(w, hl, X)
  BY <1>2, <1>3, <1>4, <1>5 DEF HashIs
<1> QED
  BY <1>6 DEF w

\* Writes that change no list of validity records.
LEMMA ValKept ==
  ASSUME NEW v, Top(v), ValOK(v), NEW p \in Recs, NEW d,
         v[p].type = "valid" <=> d.type = "valid",
         v[p].type = "valid" => d.next = v[p].next,
         v[p].type = "trust" <=> d.type = "trust",
         v[p].type = "trust" => d.validlist = v[p].validlist
  PROVE  ValOK([v EXCEPT ![p] = d])
<1> DEFINE w == [v EXCEPT ![p] = d]
<1>1. PICK vl : ValIs(v, vl)
  BY DEF ValOK
<1>2. \A r \in Recs : w[r] = IF r = p THEN d ELSE v[r]
  BY DEF Top
<1>3. \A r \in Recs : /\ w[r].type = "trust" <=> v[r].type = "trust"
                      /\ w[r].type = "valid" <=> v[r].type = "valid"
                      /\ w[r].type = "trust" => w[r].validlist = v[r].validlist
  BY <1>2
<1>4. ASSUME NEW r \in Recs, v[r].type = "trust"
      PROVE  /\ Linked(w, v[r].validlist, "valid", vl[r])
             /\ EndOf(w, v[r].validlist, vl[r]) = 0
  <2>1. /\ Linked(v, v[r].validlist, "valid", vl[r])
        /\ EndOf(v, v[r].validlist, vl[r]) = 0
    BY <1>1, <1>4 DEF ValIs
  <2> QED
    BY <2>1, LinkedKept
<1> HIDE DEF w
<1>5. ValIs(w, vl)
  BY <1>1, <1>3, <1>4 DEF ValIs
<1> QED
  BY <1>5 DEF w, ValOK

\* Writes that change no key.
LEMMA UniqueKept ==
  ASSUME NEW v, Top(v), Unique(v), NEW p \in Recs, NEW d,
         d.type = "trust" =>
           \A r \in Recs : IsTrust(v, r, d.fpr) => r = p
  PROVE  Unique([v EXCEPT ![p] = d])
<1> DEFINE w == [v EXCEPT ![p] = d]
<1>1. \A r \in Recs : w[r] = IF r = p THEN d ELSE v[r]
  BY DEF Top
<1> HIDE DEF w
<1>2. Unique(w)
  BY <1>1 DEF Unique, IsTrust
<1> QED
  BY <1>2 DEF w

\* A function on 1..m is a sequence of that length.
LEMMA MakeSeq ==
  ASSUME NEW m \in Nat, NEW S, NEW L \in [1..m -> S]
  PROVE  /\ L \in Seq(S) /\ Len(L) = m /\ DOMAIN L = 1..m
         /\ L = <<>> <=> m = 0
<1>1. L \in Seq(S) /\ Len(L) = m /\ DOMAIN L = 1..m
  OBVIOUS
<1> QED
  BY <1>1, SeqFacts

\* tdbio_new_recnum takes the first of the free records.
LEMMA FreePop ==
  ASSUME NEW v, Top(v), FreeOK(v), NEW f, f = v[0].firstfree, f # 0, NEW c,
         c.firstfree = v[f].next, c.type = "ver"
  PROVE  /\ f \in Recs /\ v[f].type = "free" /\ v[f].next \in Recs
         /\ FreeOK([[v EXCEPT ![0] = c] EXCEPT ![f] = Unused])
<1> DEFINE w == [[v EXCEPT ![0] = c] EXCEPT ![f] = Unused]
<1>1. PICK L : FreeIs(v, L)
  BY DEF FreeOK
<1> DEFINE m == Len(L)
<1>2. Linked(v, f, "free", L) /\ EndOf(v, f, L) = 0
  BY <1>1 DEF FreeIs
<1>3. /\ L \in Seq(Recs) /\ m \in Nat /\ (L = <<>> <=> m = 0)
      /\ \A i \in 1..m : /\ L[i] \in Recs /\ L[i] # 0
                         /\ v[L[i]].type = "free" /\ v[L[i]].next \in Recs
  BY <1>2, ListRec
<1>4. m # 0
  BY <1>2, <1>3 DEF EndOf
<1>5. 1 \in 1..m /\ L[1] = f
  BY <1>2, <1>3, <1>4 DEF Linked
<1>6. f \in Recs /\ v[f].type = "free" /\ v[f].next \in Recs
  BY <1>3, <1>5
<1>7. /\ \A r \in Recs : w[r] = IF r = f THEN Unused
                                ELSE IF r = 0 THEN c ELSE v[r]
      /\ 0 \in Recs
  <2>1. 0 \in Recs
    BY TopFacts
  <2> QED
    BY <1>6, <2>1 DEF Top
<1> DEFINE M == [i \in 1..m - 1 |-> L[i + 1]]
<1> HIDE DEF w, m
<1>8. M \in Seq(Recs) /\ Len(M) = m - 1 /\ (M = <<>> <=> m - 1 = 0)
  <2>1. m - 1 \in Nat /\ M \in [1..m - 1 -> Recs]
    BY <1>3, <1>4
  <2> HIDE DEF M
  <2> QED
    BY <2>1, MakeSeq
<1>9. \A i \in 1..m - 1 : /\ M[i] = L[i + 1] /\ i + 1 \in 1..m
                          /\ L[i + 1] # f /\ L[i + 1] # 0
                          /\ w[L[i + 1]] = v[L[i + 1]]
  <2> SUFFICES ASSUME NEW i \in 1..m - 1
               PROVE  /\ M[i] = L[i + 1] /\ i + 1 \in 1..m
                      /\ L[i + 1] # f /\ L[i + 1] # 0
                      /\ w[L[i + 1]] = v[L[i + 1]]
    OBVIOUS
  <2>1. M[i] = L[i + 1] /\ i + 1 \in 1..m /\ i + 1 # 1
    BY <1>3
  <2>2. L[i + 1] # f
    BY <1>2, <1>5, <2>1 DEF Linked, m
  <2> QED
    BY <1>3, <1>7, <2>1, <2>2
<1> HIDE DEF M
<1>10. EndOf(w, v[f].next, M) = 0
  <2>1. CASE m = 1
    BY <1>2, <1>3, <1>5, <1>8, <2>1 DEF EndOf, m
  <2>2. CASE m # 1
    <3>1. m - 1 \in 1..m - 1 /\ (m - 1) + 1 = m
      BY <1>3, <1>4, <2>2
    <3>2. M[m - 1] = L[m] /\ w[L[m]] = v[L[m]]
      BY <1>9, <3>1
    <3>3. M # <<>> /\ L # <<>>
      BY <1>3, <1>4, <1>8, <3>1
    <3> QED
      BY <1>2, <1>8, <3>2, <3>3 DEF EndOf, m
  <2> QED
    BY <2>1, <2>2
<1>11. Linked(w, v[f].next, "free", M)
  <2>1. \A i \in 1..Len(M) : M[i] # 0 /\ w[M[i]].type = "free"
    BY <1>3, <1>8, <1>9
  <2>2. \A i, j \in 1..Len(M) : i # j => M[i] # M[j]
    <3> SUFFICES ASSUME NEW i \in 1..m - 1, NEW j \in 1..m - 1, i # j
                 PROVE  M[i] # M[j]
      BY <1>8
    <3>1. i + 1 \in 1..m /\ j + 1 \in 1..m /\ i + 1 # j + 1
      BY <1>3
    <3> QED
      BY <1>2, <1>9, <3>1 DEF Linked, m
  <2>3. \A i \in 1..Len(M) : i < Len(M) => w[M[i]].next = M[i + 1]
    <3> SUFFICES ASSUME NEW i \in 1..m - 1, i < m - 1
                 PROVE  w[M[i]].next = M[i + 1]
      BY <1>8
    <3>1. i + 1 \in 1..m - 1 /\ i + 1 \in 1..m /\ i + 1 < m
      BY <1>3
    <3>2. v[L[i + 1]].next = L[(i + 1) + 1]
      BY <1>2, <3>1 DEF Linked, m
    <3> QED
      BY <1>9, <3>1, <3>2
  <2>4. M # <<>> => M[1] = v[f].next
    <3> SUFFICES ASSUME m - 1 # 0 PROVE M[1] = v[f].next
      BY <1>8
    <3>1. 1 \in 1..m - 1 /\ 1 < m
      BY <1>3, <1>4
    <3>2. v[L[1]].next = L[1 + 1]
      BY <1>2, <1>5, <3>1 DEF Linked, m
    <3> QED
      BY <1>5, <1>9, <3>1, <3>2
  <2> QED
    BY <1>8, <1>10, <2>1, <2>2, <2>3, <2>4 DEF Linked
<1>12. ASSUME NEW r \in Recs, w[r].type = "free" PROVE InList(r, M)
  <2>1. r # 0 /\ r # f /\ v[r].type = "free"
    <3>1. Unused.type # "free"
      BY DEF Unused
    <3>2. r # f
      BY <1>7, <1>12, <3>1
    <3> QED
      BY <1>7, <1>12, <3>2 
  <2>2. PICK i \in 1..m : L[i] = r
    BY <1>1, <2>1 DEF FreeIs, InList, m
  <2>3. i # 1 /\ i - 1 \in 1..m - 1 /\ (i - 1) + 1 = i
    BY <1>3, <1>5, <2>1, <2>2
  <2> QED
    BY <1>8, <1>9, <2>2, <2>3 DEF InList
<1>13. w[0].firstfree = v[f].next
  BY <1>7, <1>6 DEF Top
<1>14. FreeIs(w, M)
  BY <1>10, <1>11, <1>12, <1>13 DEF FreeIs
<1> QED
  BY <1>6, <1>14 DEF FreeOK, w

\* A trust record without validity records is new.
LEMMA ValNew ==
  ASSUME NEW v, Top(v), ValOK(v), NEW h \in Recs, v[h] = Unused, NEW d,
         d.type = "trust", d.validlist = 0
  PROVE  ValOK([v EXCEPT ![h] = d])
<1> DEFINE w == [v EXCEPT ![h] = d]
<1>1. PICK vl : ValIs(v, vl)
  BY DEF ValOK
<1> DEFINE nl == [vl EXCEPT ![h] = <<>>]
<1>2. /\ \A r \in Recs : w[r] = IF r = h THEN d ELSE v[r]
      /\ v[h].type = "unused"
  BY DEF Top, Unused
<1>3. /\ nl \in [Recs -> Seq(Recs)]
      /\ \A r \in Recs : nl[r] = IF r = h THEN <<>> ELSE vl[r]
  BY <1>1 DEF ValIs
<1>4. ASSUME NEW r \in Recs, v[r].type = "trust"
      PROVE  /\ Linked(w, v[r].validlist, "valid", vl[r])
             /\ EndOf(w, v[r].validlist, vl[r]) = 0
  <2>1. /\ Linked(v, v[r].validlist, "valid", vl[r])
        /\ EndOf(v, v[r].validlist, vl[r]) = 0
    BY <1>1, <1>4 DEF ValIs
  <2> QED
    BY <1>2, <2>1, LinkedKept
<1> HIDE DEF w, nl
<1>5. Len(<<>>) = 0 /\ <<>> \in Seq(Recs) /\ 1..0 = {}
  BY EmptySeq
<1>6. Linked(w, 0, "valid", <<>>) /\ EndOf(w, 0, <<>>) = 0
  BY <1>5 DEF Linked, EndOf
<1>7. ASSUME NEW r \in Recs, w[r].type = "trust"
      PROVE  /\ Linked(w, w[r].validlist, "valid", nl[r])
             /\ EndOf(w, w[r].validlist, nl[r]) = 0
  BY <1>2, <1>3, <1>4, <1>6, <1>7
<1>8. ASSUME NEW q \in Recs, w[q].type = "valid"
      PROVE  \E r \in Recs : w[r].type = "trust" /\ InList(q, nl[r])
  <2>1. v[q].type = "valid"
    BY <1>2, <1>8
  <2>2. PICK r \in Recs : v[r].type = "trust" /\ InList(q, vl[r])
    BY <1>1, <2>1 DEF ValIs
  <2>3. r # h
    BY <1>2, <2>2
  <2> QED
    BY <1>2, <1>3, <2>2, <2>3
<1>9. \A q : ~InList(q, <<>>)
  BY <1>5 DEF InList
<1>10. ASSUME NEW r \in Recs, NEW s \in Recs, w[r].type = "trust",
              w[s].type = "trust", r # s, NEW q \in Recs
       PROVE  ~(InList(q, nl[r]) /\ InList(q, nl[s]))
  <2>1. CASE r = h \/ s = h
    BY <1>3, <1>9, <2>1
  <2>2. CASE r # h /\ s # h
    BY <1>1, <1>2, <1>3, <1>10, <2>2 DEF ValIs
  <2> QED
    BY <2>1, <2>2
<1>11. ValIs(w, nl)
  BY <1>3, <1>7, <1>8, <1>10 DEF ValIs
<1> QED
  BY <1>11 DEF ValOK, w

\* A validity record is put in front of the list of a trust record.
LEMMA ValPrepend ==
  ASSUME NEW v, Top(v), ValOK(v), NEW r \in Recs, v[r].type = "trust",
         NEW q \in Recs, q # 0, v[q] = Unused,
         NEW d, d.type = "valid", d.next = v[r].validlist,
         NEW e, e.type = "trust", e.validlist = q
  PROVE  ValOK([[v EXCEPT ![q] = d] EXCEPT ![r] = e])
<1> DEFINE u == [v EXCEPT ![q] = d]
           w == [u EXCEPT ![r] = e]
<1>1. PICK vl : ValIs(v, vl)
  BY DEF ValOK
<1>2. v[q].type = "unused" /\ q # r
  BY DEF Unused
<1>3. /\ \A s \in Recs : w[s] = IF s = r THEN e ELSE IF s = q THEN d ELSE v[s]
      /\ \A s \in Recs : u[s] = IF s = q THEN d ELSE v[s]
      /\ u \in [Recs -> Record \cup {d}]
  BY DEF Top
<1>4. ASSUME NEW s \in Recs, v[s].type = "trust"
      PROVE  /\ Linked(w, v[s].validlist, "valid", vl[s])
             /\ EndOf(w, v[s].validlist, vl[s]) = 0
             /\ Linked(v, v[s].validlist, "valid", vl[s])
             /\ EndOf(v, v[s].validlist, vl[s]) = 0
  <2> DEFINE L == vl[s]
             h == v[s].validlist
  <2>1. Linked(v, h, "valid", L) /\ EndOf(v, h, L) = 0
    BY <1>1, <1>4 DEF ValIs
  <2> HIDE DEF h, L, w
  <2>2. /\ L \in Seq(Recs) /\ Len(L) \in Nat /\ (L = <<>> <=> Len(L) = 0)
        /\ \A i \in 1..Len(L) : L[i] \in Recs /\ L[i] # 0
                                /\ v[L[i]].type = "valid"
    BY <2>1, ListRec
  <2>3. \A i \in 1..Len(L) : w[L[i]] = v[L[i]]
    BY <1>2, <1>3, <2>2
  <2>4. EndOf(w, h, L) = 0
    BY <2>1, <2>2, <2>3 DEF EndOf
  <2>5. Linked(w, h, "valid", L)
    BY <2>1, <2>2, <2>3, <2>4 DEF Linked
  <2> QED
    BY <2>1, <2>4, <2>5 DEF h, L
<1> DEFINE L == vl[r]
           m == Len(L)
           M == [i \in 1..m + 1 |-> IF i = 1 THEN q ELSE L[i - 1]]
           nl == [vl EXCEPT ![r] = M]
           h == v[r].validlist
<1>5. /\ Linked(w, h, "valid", L) /\ EndOf(w, h, L) = 0
      /\ Linked(v, h, "valid", L)
  BY <1>4
<1> HIDE DEF w, u
<1>6. /\ L \in Seq(Recs) /\ m \in Nat /\ (L = <<>> <=> m = 0)
      /\ \A i \in 1..m : L[i] \in Recs /\ L[i] # 0 /\ v[L[i]].type = "valid"
  <2> HIDE DEF L, h
  <2> QED
    BY <1>5, ListRec
<1>7. \A i \in 1..m : L[i] # q /\ L[i] # r
  BY <1>2, <1>6
<1>8. nl \in [Recs -> Seq(Recs)] /\ \A s \in Recs :
        nl[s] = IF s = r THEN M ELSE vl[s]
  <2>1. M \in [1..m + 1 -> Recs]
    <3> HIDE DEF L, m
    <3> QED
      BY <1>6
  <2>2. M \in Seq(Recs)
    <3> HIDE DEF M, m
    <3> QED
      BY <1>6, <2>1, MakeSeq
  <2> HIDE DEF M
  <2> QED
    BY <1>1, <2>2 DEF ValIs
<1> HIDE DEF L, m, h
<1>9. M \in Seq(Recs) /\ Len(M) = m + 1 /\ M # <<>>
  <2>1. m + 1 \in Nat /\ m + 1 # 0 /\ M \in [1..m + 1 -> Recs]
    BY <1>6
  <2> HIDE DEF M
  <2> QED
    BY <2>1, MakeSeq
<1>10. /\ M[1] = q
       /\ \A i \in 2..m + 1 : i - 1 \in 1..m /\ M[i] = L[i - 1]
  BY <1>6
<1> HIDE DEF M, nl
<1>11. w[q] = d /\ w[r] = e
  BY <1>2, <1>3
<1>12. EndOf(w, q, M) = 0
  <2>1. EndOf(w, q, M) = w[M[m + 1]].next
    BY <1>9 DEF EndOf
  <2>2. CASE m = 0
    BY <1>5, <1>6, <1>10, <1>11, <2>1, <2>2 DEF EndOf, h
  <2>3. CASE m # 0
    <3>1. m + 1 \in 2..m + 1 /\ (m + 1) - 1 = m
      BY <1>6, <2>3
    <3>2. M[m + 1] = L[m]
      BY <1>10, <3>1
    <3> QED
      BY <1>5, <1>6, <2>1, <2>3, <3>2 DEF EndOf, m
  <2> QED
    BY <2>2, <2>3
<1>13. Linked(w, q, "valid", M)
  <2>0. \A i \in 1..m + 1 : i = 1 \/ i \in 2..m + 1
    BY <1>6
  <2>1. \A i \in 1..Len(M) : M[i] # 0 /\ w[M[i]].type = "valid"
    <3> SUFFICES ASSUME NEW i \in 1..m + 1
                 PROVE  M[i] # 0 /\ w[M[i]].type = "valid"
      BY <1>9
    <3>1. CASE i = 1
      BY <1>10, <1>11, <3>1
    <3>2. CASE i \in 2..m + 1
      BY <1>3, <1>6, <1>7, <1>10, <3>2
    <3> QED
      BY <2>0, <3>1, <3>2
  <2>2. \A i, j \in 1..Len(M) : i # j => M[i] # M[j]
    <3> SUFFICES ASSUME NEW i \in 1..m + 1, NEW j \in 1..m + 1, i # j
                 PROVE  M[i] # M[j]
      BY <1>9
    <3>1. CASE i = 1
      <4>1. j \in 2..m + 1
        BY <2>0, <3>1
      <4> QED
        BY <1>7, <1>10, <3>1, <4>1
    <3>2. CASE j = 1
      <4>1. i \in 2..m + 1
        BY <2>0, <3>2
      <4> QED
        BY <1>7, <1>10, <3>2, <4>1
    <3>3. CASE i # 1 /\ j # 1
      <4>1. /\ i - 1 \in 1..m /\ j - 1 \in 1..m /\ i - 1 # j - 1
            /\ M[i] = L[i - 1] /\ M[j] = L[j - 1]
        BY <1>6, <1>10, <2>0, <3>3
      <4> QED
        BY <1>5, <4>1 DEF Linked, m
    <3> QED
      BY <3>1, <3>2, <3>3
  <2>3. \A i \in 1..Len(M) : i < Len(M) => w[M[i]].next = M[i + 1]
    <3> SUFFICES ASSUME NEW i \in 1..m + 1, i < m + 1
                 PROVE  w[M[i]].next = M[i + 1]
      BY <1>9
    <3>1. i + 1 \in 2..m + 1 /\ (i + 1) - 1 = i /\ i \in 1..m
      BY <1>6
    <3>2. M[i + 1] = L[i]
      BY <1>10, <3>1
    <3>3. CASE i = 1
      <4>1. L # <<>>
        BY <1>6, <3>1
      <4>2. L[1] = h
        BY <1>5, <4>1 DEF Linked
      <4> QED
        BY <1>10, <1>11, <3>2, <3>3, <4>2 DEF h
    <3>4. CASE i # 1
      <4>1. M[i] = L[i - 1] /\ i - 1 \in 1..m /\ i - 1 < m /\ (i - 1) + 1 = i
        BY <1>6, <1>10, <2>0, <3>1, <3>4
      <4>2. w[L[i - 1]].next = L[i]
        BY <1>5, <4>1 DEF Linked, m
      <4> QED
        BY <3>2, <4>1, <4>2
    <3> QED
      BY <3>3, <3>4
  <2> QED
    BY <1>9, <1>10, <1>12, <2>1, <2>2, <2>3 DEF Linked
<1>14. \A s \in Recs : w[s].type = "trust" <=> v[s].type = "trust"
  BY <1>2, <1>3
<1>15. ASSUME NEW s \in Recs, w[s].type = "trust"
       PROVE  /\ Linked(w, w[s].validlist, "valid", nl[s])
              /\ EndOf(w, w[s].validlist, nl[s]) = 0
  <2>1. CASE s = r
    BY <1>8, <1>11, <1>12, <1>13, <2>1
  <2>2. CASE s # r
    <3>1. w[s] = v[s] /\ nl[s] = vl[s] /\ v[s].type = "trust"
      BY <1>2, <1>3, <1>8, <1>15, <2>2
    <3> QED
      BY <1>4, <3>1
  <2> QED
    BY <2>1, <2>2
<1>16. \A p : InList(p, M) <=> p = q \/ InList(p, L)
  <2>1. ASSUME NEW p, InList(p, M) PROVE p = q \/ InList(p, L)
    <3>1. PICK i \in 1..m + 1 : M[i] = p
      BY <1>9, <2>1 DEF InList
    <3>2. i = 1 \/ i \in 2..m + 1
      BY <1>6
    <3> QED
      BY <1>10, <3>1, <3>2 DEF InList, m
  <2>2. ASSUME NEW p, InList(p, L) PROVE InList(p, M)
    <3>1. PICK i \in 1..m : L[i] = p
      BY <2>2 DEF InList, m
    <3>2. i + 1 \in 2..m + 1 /\ i + 1 \in 1..m + 1 /\ (i + 1) - 1 = i
      BY <1>6
    <3> QED
      BY <1>9, <1>10, <3>1, <3>2 DEF InList
  <2>3. InList(q, M)
    <3>1. 1 \in 1..m + 1
      BY <1>6
    <3> QED
      BY <1>9, <1>10, <3>1 DEF InList
  <2> QED
    BY <2>1, <2>2, <2>3
<1>17. ASSUME NEW p \in Recs, w[p].type = "valid"
       PROVE  \E s \in Recs : w[s].type = "trust" /\ InList(p, nl[s])
  <2>1. CASE p = q
    BY <1>8, <1>11, <1>16, <2>1
  <2>2. CASE p # q
    <3>1. v[p].type = "valid"
      BY <1>3, <1>17, <2>2
    <3>2. PICK s \in Recs : v[s].type = "trust" /\ InList(p, vl[s])
      BY <1>1, <3>1 DEF ValIs
    <3>3. InList(p, nl[s])
      BY <1>8, <1>16, <3>2 DEF L
    <3> QED
      BY <1>14, <3>2, <3>3
  <2> QED
    BY <2>1, <2>2
<1>18. ASSUME NEW s \in Recs, v[s].type = "trust" PROVE ~InList(q, vl[s])
  <2>1. Linked(v, v[s].validlist, "valid", vl[s])
    BY <1>4, <1>18
  <2> QED
    BY <1>2, <2>1 DEF InList, Linked
<1>19. ASSUME NEW s \in Recs, NEW t \in Recs, w[s].type = "trust",
              w[t].type = "trust", s # t, NEW p \in Recs
       PROVE  ~(InList(p, nl[s]) /\ InList(p, nl[t]))
  <2>1. ~(InList(p, vl[s]) /\ InList(p, vl[t]))
    BY <1>1, <1>14, <1>19 DEF ValIs
  <2>2. /\ InList(p, nl[s]) => (p = q /\ s = r) \/ InList(p, vl[s])
        /\ InList(p, nl[t]) => (p = q /\ t = r) \/ InList(p, vl[t])
    BY <1>8, <1>16 DEF L
  <2>3. ~InList(q, vl[s]) /\ ~InList(q, vl[t])
    BY <1>14, <1>18, <1>19
  <2> QED
    BY <1>19, <2>1, <2>2, <2>3
<1>20. ValIs(w, nl)
  BY <1>8, <1>15, <1>17, <1>19 DEF ValIs
<1> QED
  BY <1>20 DEF ValOK, w, u

-----------------------------------------------------------------------------
(***************************************************************************)
(* Which ownertrusts a write can change.                                   *)
(***************************************************************************)
\* The ownertrust of the keys that are not in K is read as before.
Quiet(v, w, K) == \A k \in Keys : k \notin K => Own(w, k) = Own(v, k)

\* The trust records are the same.
TrustSame(v, w) ==
  \A q \in Recs : /\ v[q].type = "trust" <=> w[q].type = "trust"
                  /\ v[q].type = "trust" => w[q] = v[q]

\* The hash lists nl of w have what hl had in v, and r perhaps.
Added(v, hl, w, nl, r) ==
  /\ Hung(w, nl)
  /\ \A b \in Buckets : \A q \in Recs : q # 0 =>
       /\ Placed(v, hl, b, q) => Placed(w, nl, b, q)
       /\ Placed(w, nl, b, q) /\ q # r => Placed(v, hl, b, q)

\* The same records are found.
LEMMA OwnSame ==
  ASSUME NEW v, Top(v), NEW hl, Hung(v, hl), Unique(v),
         NEW w, Top(w), NEW nl, Hung(w, nl), Unique(w), NEW k \in Keys,
         \A r \in Recs : Found(w, nl, k, r) <=> Found(v, hl, k, r),
         \A r \in Recs : Found(v, hl, k, r) =>
                           w[r].ownertrust = v[r].ownertrust
  PROVE  Own(w, k) = Own(v, k)
<1>1. CASE \E r \in Recs : Found(v, hl, k, r)
  <2>1. PICK r \in Recs : Found(v, hl, k, r)
    BY <1>1
  <2>2. Own(v, k) = v[r].ownertrust /\ Own(w, k) = w[r].ownertrust
    BY <2>1, OwnIs
  <2> QED
    BY <2>1, <2>2
<1>2. CASE ~\E r \in Recs : Found(v, hl, k, r)
  BY <1>2, OwnIs
<1> QED
  BY <1>1, <1>2

\* So it is when a record is added that is of one of the keys K, or that has
\* the ownertrust that was read for its key.
LEMMA AddedQuiet ==
  ASSUME NEW v, Top(v), NEW hl, Hung(v, hl), Unique(v), NEW w, Top(w), NEW nl,
         NEW r \in Recs, NEW k \in Keys, IsTrust(v, r, k), NEW K,
         k \in K \/ v[r].ownertrust = Own(v, k),
         TrustSame(v, w), Added(v, hl, w, nl, r)
  PROVE  /\ Quiet(v, w, K) /\ Unique(w) /\ Hung(w, nl) /\ IsTrust(w, r, k)
         /\ k \in K \/ w[r].ownertrust = Own(w, k)
<1>1. \A j, q : IsTrust(v, q, j) <=> IsTrust(w, q, j)
  BY DEF IsTrust, TrustSame
<1>2. Unique(w) /\ Hung(w, nl) /\ IsTrust(w, r, k) /\ w[r] = v[r]
  BY <1>1 DEF Unique, Added, TrustSame, IsTrust
<1>3. \A j \in Keys : Bucket[j] \in Buckets
  BY TopFacts
<1>4. \A j \in Keys : \A q \in Recs :
        /\ Found(v, hl, j, q) => Found(w, nl, j, q)
        /\ Found(w, nl, j, q) /\ q # r => Found(v, hl, j, q)
  <2> SUFFICES ASSUME NEW j \in Keys, NEW q \in Recs
               PROVE  /\ Found(v, hl, j, q) => Found(w, nl, j, q)
                      /\ Found(w, nl, j, q) /\ q # r => Found(v, hl, j, q)
    OBVIOUS
  <2>1. IsTrust(v, q, j) => q # 0
    BY DEF IsTrust, Top
  <2> QED
    BY <1>1, <1>3, <2>1 DEF Found, Added
<1>5. ASSUME NEW j \in Keys, j # k PROVE Own(w, j) = Own(v, j)
  <2>1. ~Found(w, nl, j, r)
    BY <1>2, <1>5 DEF Found, IsTrust
  <2>2. \A q \in Recs : Found(w, nl, j, q) <=> Found(v, hl, j, q)
    BY <1>4, <2>1
  <2>3. \A q \in Recs : Found(v, hl, j, q) => w[q].ownertrust = v[q].ownertrust
    BY DEF Found, IsTrust, TrustSame
  <2> QED
    BY <1>2, <2>2, <2>3, OwnSame
<1>6. ASSUME k \notin K PROVE Own(w, k) = Own(v, k)
  <2>1. CASE Found(w, nl, k, r)
    <3>1. Own(w, k) = w[r].ownertrust
      BY <1>2, <2>1, OwnIs
    <3> QED
      BY <1>2, <1>6, <3>1
  <2>2. CASE ~Found(w, nl, k, r)
    <3>1. \A q \in Recs : Found(w, nl, k, q) <=> Found(v, hl, k, q)
      BY <1>4, <2>2
    <3>2. \A q \in Recs :
            Found(v, hl, k, q) => w[q].ownertrust = v[q].ownertrust
      BY DEF Found, IsTrust, TrustSame
    <3> QED
      BY <1>2, <3>1, <3>2, OwnSame
  <2> QED
    BY <2>1, <2>2
<1> QED
  BY <1>2, <1>5, <1>6 DEF Quiet

\* The hash lists are complete again.
LEMMA AddedHash ==
  ASSUME NEW v, Top(v), NEW hl, NEW r \in Recs, HashIs(v, hl, {r}), NEW w,
         NEW nl, NEW k \in Keys, IsTrust(v, r, k), TrustSame(v, w),
         Added(v, hl, w, nl, r), Shut(w, nl), Placed(w, nl, Bucket[k], r)
  PROVE  HashIs(w, nl, {})
<1>1. \A j, q : IsTrust(v, q, j) <=> IsTrust(w, q, j)
  BY DEF IsTrust, TrustSame
<1>2. ASSUME NEW j \in Keys, NEW q \in Recs, IsTrust(w, q, j)
      PROVE  Placed(w, nl, Bucket[j], q)
  <2>1. CASE q = r
    <3>1. j = k
      BY <1>1, <1>2, <2>1 DEF IsTrust
    <3> QED
      BY <2>1, <3>1
  <2>2. CASE q # r
    <3>1. Placed(v, hl, Bucket[j], q) /\ Bucket[j] \in Buckets
      BY <1>1, <1>2, <2>2, TopFacts DEF HashIs
    <3>2. q # 0
      BY <1>1, <1>2 DEF IsTrust, Top
    <3> QED
      BY <3>1, <3>2 DEF Added
  <2> QED
    BY <2>1, <2>2
<1> QED
  BY <1>2 DEF HashIs, Added

\* Nothing changes for the keys when other records are written.
LEMMA AsideQuiet ==
  ASSUME NEW v, Top(v), NEW hl, Hung(v, hl), Unique(v), NEW p \in Recs,
         NEW d, Top([v EXCEPT ![p] = d]), p # 1,
         v[p].type \notin {"hlst", "trust"}, d.type \notin {"hlst", "trust"},
         NEW K
  PROVE  Quiet(v, [v EXCEPT ![p] = d], K)
<1> DEFINE w == [v EXCEPT ![p] = d]
<1>1. /\ Hung(w, hl)
      /\ \A b \in Buckets : \A r : Placed(w, hl, b, r) <=> Placed(v, hl, b, r)
  BY HungKept
<1>2. \A r \in Recs : w[r] = IF r = p THEN d ELSE v[r]
  BY DEF Top
<1>3. \A j : \A q \in Recs : /\ IsTrust(v, q, j) <=> IsTrust(w, q, j)
                             /\ IsTrust(v, q, j) => w[q] = v[q]
  BY <1>2 DEF IsTrust
<1>6. Top(w)
  OBVIOUS
<1> HIDE DEF w
<1>4. Unique(w)
  BY <1>3 DEF Unique
<1>5. ASSUME NEW j \in Keys PROVE Own(w, j) = Own(v, j)
  <2>1. Bucket[j] \in Buckets
    BY TopFacts
  <2>2. \A q \in Recs : /\ Found(w, hl, j, q) <=> Found(v, hl, j, q)
                        /\ Found(v, hl, j, q) => w[q].ownertrust = v[q].ownertrust
    BY <1>1, <1>3, <2>1 DEF Found
  <2> QED
    BY <1>1, <1>4, <1>6, <2>2, OwnSame
<1> QED
  BY <1>5 DEF Quiet, w

\* A trust record is written, with the ownertrust that was read for its key
\* or for one of the keys K.
LEMMA TrustQuiet ==
  ASSUME NEW v, Top(v), NEW hl, Hung(v, hl), Unique(v), NEW p \in Recs, p # 1,
         NEW d, d.type = "trust", Top([v EXCEPT ![p] = d]), d.fpr \in Keys,
         v[p] = Unused \/ IsTrust(v, p, d.fpr),
         \A q \in Recs : IsTrust(v, q, d.fpr) => q = p,
         NEW K, d.fpr \in K \/ d.ownertrust = Own(v, d.fpr)
  PROVE  LET w == [v EXCEPT ![p] = d] IN
         /\ Quiet(v, w, K)
         /\ d.fpr \in K \/ d.ownertrust = Own(w, d.fpr)
<1> DEFINE w == [v EXCEPT ![p] = d]
           k == d.fpr
<1>0. v[p].type # "hlst"
  BY DEF Unused, IsTrust
<1>1. /\ Hung(w, hl)
      /\ \A b \in Buckets : \A r : Placed(w, hl, b, r) <=> Placed(v, hl, b, r)
  BY <1>0, HungKept
<1>2. \A r \in Recs : w[r] = IF r = p THEN d ELSE v[r]
  BY DEF Top
<1>3. \A j : \A q \in Recs : q # p =>
        (IsTrust(v, q, j) <=> IsTrust(w, q, j)) /\ w[q] = v[q]
  BY <1>2 DEF IsTrust
<1>4. Unique(w) /\ Top(w)
  BY UniqueKept
<1> HIDE DEF w
<1>5. IsTrust(w, p, k) /\ w[p] = d
  BY <1>2 DEF IsTrust
<1>6. ASSUME NEW j \in Keys, j # k PROVE Own(w, j) = Own(v, j)
  <2>1. Bucket[j] \in Buckets
    BY TopFacts
  <2>2. ~IsTrust(w, p, j) /\ ~IsTrust(v, p, j)
    BY <1>2, <1>6 DEF IsTrust, Unused
  <2>3. \A q \in Recs : /\ Found(w, hl, j, q) <=> Found(v, hl, j, q)
                        /\ Found(v, hl, j, q) => w[q].ownertrust = v[q].ownertrust
    BY <1>1, <1>3, <2>1, <2>2 DEF Found
  <2> QED
    BY <1>1, <1>4, <2>3, OwnSame
<1>7. ASSUME k \notin K PROVE Own(w, k) = Own(v, k)
  <2>1. CASE Found(w, hl, k, p)
    <3>1. Own(w, k) = d.ownertrust
      BY <1>1, <1>4, <1>5, <2>1, OwnIs
    <3> QED
      BY <1>7, <3>1
  <2>2. CASE ~Found(w, hl, k, p)
    <3>1. Bucket[k] \in Buckets
      BY TopFacts
    <3>2. \A q \in Recs : ~Found(w, hl, k, q)
      BY <1>3, <2>2 DEF Found
    <3>3. \A q \in Recs : ~Found(v, hl, k, q)
      BY <1>1, <1>5, <2>2, <3>1 DEF Found
    <3> QED
      BY <1>1, <1>4, <3>2, <3>3, OwnSame
  <2> QED
    BY <2>1, <2>2
<1> QED
  BY <1>6, <1>7 DEF Quiet, w

-----------------------------------------------------------------------------
(***************************************************************************)
(* The writes that upd_hashtable may do, one by one.                       *)
(***************************************************************************)
\* upd_hashtable puts a trust record into an empty place of the table.
LEMMA HashFirst ==
  ASSUME NEW v, Top(v), NEW hl, Hung(v, hl), Shut(v, hl), NEW b \in Buckets,
         NEW r \in Recs, r # 0, v[r].type = "trust", Item(v, b) = 0,
         NEW d, d.type = "htbl", d.item = [v[1].item EXCEPT ![b] = r]
  PROVE  LET w == [v EXCEPT ![1] = d] IN
         /\ Added(v, hl, w, hl, r) /\ Shut(w, hl) /\ Placed(w, hl, b, r)
<1> DEFINE w == [v EXCEPT ![1] = d]
<1>1. /\ 1 \in Recs /\ v[1].type = "htbl"
      /\ v[1].item \in [Buckets -> Recs]
      /\ \A c \in Buckets : Item(v, c) \in Recs
      /\ \A q \in Recs : w[q] = IF q = 1 THEN d ELSE v[q]
  BY TopFacts DEF Top
<1>2. \A c \in Buckets : Item(w, c) = IF c = b THEN r ELSE Item(v, c)
  BY <1>1 DEF Item
<1>3. hl[b] = <<>>
  <2>1. Linked(v, Item(v, b), "hlst", hl[b])
    BY DEF Hung
  <2>2. ASSUME hl[b] # <<>> PROVE FALSE
    <3>1. 1 \in 1..Len(hl[b]) /\ hl[b][1] = 0
      BY <2>1, <2>2, ListRec DEF Linked
    <3> QED
      BY <2>1, <3>1 DEF Linked
  <2> QED
    BY <2>2
<1>4. ASSUME NEW c \in Buckets
      PROVE  /\ Linked(w, Item(v, c), "hlst", hl[c])
             /\ EndOf(w, Item(v, c), hl[c]) = EndOf(v, Item(v, c), hl[c])
  <2>1. Linked(v, Item(v, c), "hlst", hl[c])
    BY DEF Hung
  <2> QED
    BY <1>1, <2>1, LinkedKept
<1> HIDE DEF w
<1>5. Len(<<>>) = 0 /\ <<>> \in Seq(Recs) /\ 1..0 = {}
  BY EmptySeq
<1>6. Linked(w, r, "hlst", <<>>)
  <2>1. w[r].type = "trust"
    BY <1>1
  <2> QED
    BY <1>5, <2>1 DEF Linked, EndOf
<1>7. Hung(w, hl)
  <2>1. \A c \in Buckets : Linked(w, Item(w, c), "hlst", hl[c])
    BY <1>2, <1>3, <1>4, <1>6
  <2> QED
    BY <2>1 DEF Hung
<1>8. Shut(w, hl)
  BY <1>1, <1>2, <1>3, <1>4 DEF Shut
<1>9. Placed(w, hl, b, r)
  BY <1>2, <1>3 DEF Placed
<1>10. ASSUME NEW c \in Buckets, NEW q \in Recs, q # 0
       PROVE  /\ Placed(v, hl, c, q) => Placed(w, hl, c, q)
              /\ Placed(w, hl, c, q) /\ q # r => Placed(v, hl, c, q)
  <2>1. CASE c = b
    BY <1>2, <1>3, <1>10, <2>1 DEF Placed
  <2>2. CASE c # b
    <3>1. Linked(v, Item(v, c), "hlst", hl[c])
      BY DEF Hung
    <3>2. \A j \in 1..Len(hl[c]) : w[hl[c][j]] = v[hl[c][j]]
      BY <1>1, <3>1, ListRec
    <3> QED
      BY <1>2, <2>2, <3>2 DEF Placed
  <2> QED
    BY <2>1, <2>2
<1>11. Added(v, hl, w, hl, r)
  BY <1>7, <1>10 DEF Added
<1> QED
  BY <1>8, <1>9, <1>11 DEF w

\* Lists do not run into a record that is not in use.
LEMMA NotAhead ==
  ASSUME NEW v, Top(v), NEW hl, Hung(v, hl), Shut(v, hl), NEW h \in Recs,
         h # 0, v[h] = Unused, NEW b \in Buckets
  PROVE  EndOf(v, Item(v, b), hl[b]) # h /\ ~InList(h, hl[b])
<1>1. v[h].type = "unused"
  BY DEF Unused
<1>2. EndOf(v, Item(v, b), hl[b]) # h
  BY <1>1 DEF Shut, EndOf
<1>3. ~InList(h, hl[b])
  BY <1>1 DEF Hung, Linked, InList
<1> QED
  BY <1>2, <1>3

\* It makes the first record of a list, to which nothing refers yet.
LEMMA HashHead ==
  ASSUME NEW v, Top(v), NEW hl, Hung(v, hl), Shut(v, hl), NEW h \in Recs,
         h # 0, h # 1, v[h] = Unused, NEW d, d.type = "hlst", NEW r
  PROVE  LET w == [v EXCEPT ![h] = d] IN
         /\ Added(v, hl, w, hl, r) /\ Shut(w, hl)
         /\ \A c \in Buckets : Item(w, c) = Item(v, c) /\ ~InList(h, hl[c])
<1> DEFINE w == [v EXCEPT ![h] = d]
<1>1. v[h].type = "unused" /\ \A q \in Recs : w[q] = IF q = h THEN d ELSE v[q]
  BY DEF Top, Unused
<1>2. \A b \in Buckets : EndOf(v, Item(v, b), hl[b]) # h /\ ~InList(h, hl[b])
  BY NotAhead
<1>3. /\ Hung(w, hl)
      /\ \A b \in Buckets :
           /\ Item(w, b) = Item(v, b)
           /\ EndOf(w, Item(w, b), hl[b]) = EndOf(v, Item(v, b), hl[b])
           /\ \A q : Placed(w, hl, b, q) <=> Placed(v, hl, b, q)
  BY <1>1, <1>2, HungKept
<1> HIDE DEF w
<1>4. \A b \in Buckets : Item(v, b) \in Recs
  BY TopFacts
<1>5. Shut(w, hl)
  BY <1>1, <1>3, <1>4 DEF Shut
<1>6. Added(v, hl, w, hl, r)
  BY <1>3 DEF Added
<1> QED
  BY <1>2, <1>3, <1>5, <1>6 DEF w

\* Then the table gets the list in place of the trust record.
LEMMA HashTable ==
  ASSUME NEW v, Top(v), NEW hl, Hung(v, hl), Shut(v, hl), NEW b \in Buckets,
         NEW h \in Recs, h # 0, h # 1, v[h].type = "hlst", v[h].next = 0,
         \A c \in Buckets : ~InList(h, hl[c]), hl[b] = <<>>,
         NEW r \in Recs,
         v[h].rnum = [i \in 1..HlstItems |->
                        IF i = 1 THEN Item(v, b) ELSE IF i = 2 THEN r ELSE 0],
         NEW d, d.type = "htbl", d.item = [v[1].item EXCEPT ![b] = h]
  PROVE  LET w == [v EXCEPT ![1] = d]
             nl == [hl EXCEPT ![b] = <<h>>]
         IN  Added(v, hl, w, nl, r) /\ Shut(w, nl) /\ Placed(w, nl, b, r)
<1> DEFINE w == [v EXCEPT ![1] = d]
           nl == [hl EXCEPT ![b] = <<h>>]
<1>1. /\ 1 \in Recs /\ v[1].type = "htbl"
      /\ v[1].item \in [Buckets -> Recs]
      /\ \A c \in Buckets : Item(v, c) \in Recs
      /\ \A q \in Recs : w[q] = IF q = 1 THEN d ELSE v[q]
  BY TopFacts DEF Top
<1>2. \A c \in Buckets : Item(w, c) = IF c = b THEN h ELSE Item(v, c)
  BY <1>1 DEF Item
<1>3. /\ nl \in [Buckets -> Seq(Recs)]
      /\ \A c \in Buckets : nl[c] = IF c = b THEN <<h>> ELSE hl[c]
  BY DEF Hung
<1>4. ASSUME NEW c \in Buckets
      PROVE  /\ Linked(w, Item(v, c), "hlst", hl[c])
             /\ EndOf(w, Item(v, c), hl[c]) = EndOf(v, Item(v, c), hl[c])
  <2>1. Linked(v, Item(v, c), "hlst", hl[c])
    BY DEF Hung
  <2> QED
    BY <1>1, <2>1, LinkedKept
<1> HIDE DEF w, nl
<1>5. <<h>> \in Seq(Recs) /\ Len(<<h>>) = 1 /\ <<h>>[1] = h /\ <<h>> # <<>>
  OBVIOUS
<1>6. w[h] = v[h] /\ EndOf(w, h, <<h>>) = 0
  BY <1>1, <1>5 DEF EndOf
<1>7. Linked(w, h, "hlst", <<h>>)
  <2>1. \A i \in 1..1 : i = 1
    OBVIOUS
  <2> QED
    BY <1>5, <1>6, <2>1 DEF Linked
<1>8. Hung(w, nl)
  <2>1. \A c \in Buckets : Linked(w, Item(w, c), "hlst", nl[c])
    BY <1>2, <1>3, <1>4, <1>7
  <2>2. ASSUME NEW c \in Buckets, NEW e \in Buckets, c # e,
               NEW i \in 1..Len(nl[c]), NEW j \in 1..Len(nl[e])
        PROVE  nl[c][i] # nl[e][j]
    <3>1. CASE c = b
      <4>1. nl[c][i] = h /\ nl[e] = hl[e]
        BY <1>3, <1>5, <2>2, <3>1
      <4> QED
        BY <4>1 DEF InList
    <3>2. CASE e = b
      <4>1. nl[e][j] = h /\ nl[c] = hl[c]
        BY <1>3, <1>5, <2>2, <3>2
      <4> QED
        BY <4>1 DEF InList
    <3>3. CASE c # b /\ e # b
      <4>1. nl[c] = hl[c] /\ nl[e] = hl[e]
        BY <1>3, <3>3
      <4> QED
        BY <2>2, <4>1 DEF Hung
    <3> QED
      BY <3>1, <3>2, <3>3
  <2> QED
    BY <1>3, <2>1, <2>2 DEF Hung
<1>9. Shut(w, nl)
  <2> SUFFICES ASSUME NEW c \in Buckets
               PROVE  /\ nl[c] = <<>> =>
                           Item(w, c) = 0 \/ w[Item(w, c)].type = "trust"
                      /\ nl[c] # <<>> => EndOf(w, Item(w, c), nl[c]) = 0
    BY DEF Shut
  <2>1. CASE c = b
    BY <1>2, <1>3, <1>5, <1>6, <2>1
  <2>2. CASE c # b
    <3>1. Item(w, c) = Item(v, c) /\ nl[c] = hl[c] /\ Item(v, c) \in Recs
      BY <1>1, <1>2, <1>3, <2>2
    <3> QED
      BY <1>1, <1>4, <3>1 DEF Shut
  <2> QED
    BY <2>1, <2>2
<1>10. 1 \in 1..HlstItems /\ 2 \in 1..HlstItems
  BY HlstAssumption
<1>11. \A q : Placed(w, nl, b, q) <=> \E i \in 1..HlstItems : v[h].rnum[i] = q
  <2>1. nl[b] = <<h>> /\ nl[b] # <<>> /\ Len(nl[b]) = 1 /\ nl[b][1] = h
    BY <1>3, <1>5
  <2>2. 1 \in 1..Len(nl[b]) /\ \A j \in 1..Len(nl[b]) : j = 1
    BY <2>1
  <2>3. \A j \in 1..Len(nl[b]) : w[nl[b][j]] = v[h]
    BY <1>6, <2>1, <2>2
  <2>4. ASSUME NEW q, Placed(w, nl, b, q)
        PROVE  \E i \in 1..HlstItems : v[h].rnum[i] = q
    BY <2>1, <2>3, <2>4 DEF Placed
  <2>5. ASSUME NEW q, NEW i \in 1..HlstItems, v[h].rnum[i] = q
        PROVE  Placed(w, nl, b, q)
    <3>1. w[nl[b][1]].rnum[i] = q
      BY <2>2, <2>3, <2>5
    <3> QED
      BY <2>1, <2>2, <3>1 DEF Placed
  <2> QED
    BY <2>4, <2>5
<1>12. Placed(w, nl, b, r)
  BY <1>10, <1>11
<1>13. ASSUME NEW c \in Buckets, NEW q \in Recs, q # 0
       PROVE  /\ Placed(v, hl, c, q) => Placed(w, nl, c, q)
              /\ Placed(w, nl, c, q) /\ q # r => Placed(v, hl, c, q)
  <2>1. CASE c = b
    <3>1. Placed(v, hl, c, q) <=> Item(v, b) = q
      BY <2>1 DEF Placed
    <3>2. Item(v, b) = q => Placed(w, nl, c, q)
      BY <1>10, <1>11, <2>1
    <3>3. Placed(w, nl, c, q) /\ q # r => Item(v, b) = q
      BY <1>11, <1>13, <2>1
    <3> QED
      BY <3>1, <3>2, <3>3
  <2>2. CASE c # b
    <3>1. Linked(v, Item(v, c), "hlst", hl[c])
      BY DEF Hung
    <3>2. \A j \in 1..Len(hl[c]) : w[hl[c][j]] = v[hl[c][j]]
      BY <1>1, <3>1, ListRec
    <3>3. nl[c] = hl[c] /\ Item(w, c) = Item(v, c)
      BY <1>2, <1>3, <2>2
    <3> QED
      BY <3>2, <3>3 DEF Placed
  <2> QED
    BY <2>1, <2>2
<1>14. Added(v, hl, w, nl, r)
  BY <1>8, <1>13 DEF Added
<1> QED
  BY <1>9, <1>12, <1>14 DEF w, nl

\* A list stays as it is when a record that it does not have is written.
LEMMA LinkedAway ==
  ASSUME NEW v, Top(v), NEW type \in {"hlst", "valid", "free"}, NEW h, NEW L,
         Linked(v, h, type, L), NEW p \in Recs, NEW d, ~InList(p, L),
         EndOf(v, h, L) # p
  PROVE  LET w == [v EXCEPT ![p] = d] IN
         /\ Linked(w, h, type, L)
         /\ EndOf(w, h, L) = EndOf(v, h, L)
         /\ \A j \in 1..Len(L) : w[L[j]] = v[L[j]]
<1> DEFINE w == [v EXCEPT ![p] = d]
<1>1. /\ L \in Seq(Recs) /\ Len(L) \in Nat /\ (L = <<>> <=> Len(L) = 0)
      /\ \A i \in 1..Len(L) : L[i] \in Recs /\ L[i] # 0 /\ v[L[i]].type = type
  BY ListRec
<1>2. \A r : r # p => w[r] = v[r]
  BY DEF Top
<1> HIDE DEF w
<1>3. \A j \in 1..Len(L) : w[L[j]] = v[L[j]]
  BY <1>2 DEF InList
<1>4. EndOf(w, h, L) = EndOf(v, h, L)
  BY <1>1, <1>3 DEF EndOf
<1>5. EndOf(v, h, L) = 0 \/ w[EndOf(v, h, L)].type # type
  <2>1. EndOf(v, h, L) = 0 \/ v[EndOf(v, h, L)].type # type
    BY DEF Linked
  <2> QED
    BY <1>2, <2>1
<1>6. Linked(w, h, type, L)
  BY <1>1, <1>3, <1>4, <1>5 DEF Linked
<1> QED
  BY <1>3, <1>4, <1>6 DEF w

\* The record q of the list of the bucket b has got a place for r.
InPlace(v, w, hl, b, q, r) ==
  /\ q \in Recs /\ v[q].type = "hlst"
  /\ Added(v, hl, w, hl, r) /\ Shut(w, hl) /\ Placed(w, hl, b, r)

\* upd_hashtable puts a trust record into a free place of the last record of
\* a list.
LEMMA HashPlace ==
  ASSUME NEW v, Top(v), NEW hl, Hung(v, hl), Shut(v, hl), NEW b \in Buckets,
         hl[b] # <<>>, NEW q, q = hl[b][Len(hl[b])],
         NEW i \in 1..HlstItems, v[q].rnum[i] = 0, NEW r \in Recs,
         NEW d, d.type = "hlst", d.next = v[q].next,
         d.rnum = [v[q].rnum EXCEPT ![i] = r]
  PROVE  InPlace(v, [v EXCEPT ![q] = d], hl, b, q, r)
<1> DEFINE w == [v EXCEPT ![q] = d]
<1>1. Linked(v, Item(v, b), "hlst", hl[b])
  BY DEF Hung
<1>2. /\ Len(hl[b]) \in 1..Len(hl[b]) /\ q \in Recs /\ q # 0 /\ q # 1
      /\ v[q].type = "hlst" /\ v[q].rnum \in [1..HlstItems -> Recs]
  <2>1. Len(hl[b]) \in Nat /\ Len(hl[b]) # 0
    BY <1>1, ListRec
  <2>2. Len(hl[b]) \in 1..Len(hl[b])
    BY <2>1
  <2> QED
    BY <1>1, <2>2, ListRec DEF Top
<1>3. /\ w[q] = d /\ w[1] = v[1] /\ \A x : x # q => w[x] = v[x]
      /\ d.rnum \in [1..HlstItems -> Recs]
      /\ \A j \in 1..HlstItems :
           d.rnum[j] = IF j = i THEN r ELSE v[q].rnum[j]
  <2>1. w[q] = d /\ w[1] = v[1] /\ \A x : x # q => w[x] = v[x]
    BY <1>2 DEF Top
  <2>2. d.rnum \in [1..HlstItems -> Recs]
    BY <1>2
  <2>3. \A j \in 1..HlstItems : d.rnum[j] = IF j = i THEN r ELSE v[q].rnum[j]
    BY <1>2
  <2> QED
    BY <2>1, <2>2, <2>3
<1>4. ASSUME NEW c \in Buckets
      PROVE  /\ Item(w, c) = Item(v, c) /\ Item(v, c) \in Recs
             /\ Linked(w, Item(w, c), "hlst", hl[c])
             /\ EndOf(w, Item(w, c), hl[c]) = EndOf(v, Item(v, c), hl[c])
  <2>1. Linked(v, Item(v, c), "hlst", hl[c])
    BY DEF Hung
  <2>2. Item(w, c) = Item(v, c) /\ Item(v, c) \in Recs
    BY <1>3, TopFacts DEF Item
  <2> QED
    BY <1>2, <2>1, <2>2, LinkedKept
<1> HIDE DEF w
<1>5. Hung(w, hl)
  BY <1>4 DEF Hung
<1>6. Shut(w, hl)
  <2> SUFFICES ASSUME NEW c \in Buckets
               PROVE  /\ hl[c] = <<>> =>
                           Item(w, c) = 0 \/ w[Item(w, c)].type = "trust"
                      /\ hl[c] # <<>> => EndOf(w, Item(w, c), hl[c]) = 0
    BY DEF Shut
  <2>1. Item(v, c) # q => w[Item(v, c)] = v[Item(v, c)]
    BY <1>3
  <2> QED
    BY <1>2, <1>4, <2>1 DEF Shut
<1>7. ASSUME NEW x \in Recs, NEW j \in 1..HlstItems
      PROVE  \/ w[x].rnum[j] = v[x].rnum[j]
             \/ x = q /\ j = i /\ w[x].rnum[j] = r /\ v[x].rnum[j] = 0
  <2>1. CASE x # q
    <3>1. w[x] = v[x]
      BY <1>3, <2>1
    <3> QED
      BY <3>1, Zenon
  <2>2. CASE x = q
    <3>1. w[x].rnum[j] = IF j = i THEN r ELSE v[x].rnum[j]
      BY <1>3, <2>2
    <3> QED
      BY <2>2, <3>1, Zenon
  <2> QED
    BY <2>1, <2>2
<1>8. ASSUME NEW c \in Buckets, NEW x \in Recs, x # 0
      PROVE  /\ Placed(v, hl, c, x) => Placed(w, hl, c, x)
             /\ Placed(w, hl, c, x) /\ x # r => Placed(v, hl, c, x)
  <2>1. CASE hl[c] = <<>>
    BY <1>4, <2>1 DEF Placed
  <2>2. CASE hl[c] # <<>>
    <3>1. \A j \in 1..Len(hl[c]) : hl[c][j] \in Recs
      <4>1. Linked(v, Item(v, c), "hlst", hl[c])
        BY DEF Hung
      <4> QED
        BY <4>1, ListRec
    <3>2. \A m \in 1..Len(hl[c]), j \in 1..HlstItems :
            /\ v[hl[c][m]].rnum[j] = x => w[hl[c][m]].rnum[j] = x
            /\ w[hl[c][m]].rnum[j] = x /\ x # r => v[hl[c][m]].rnum[j] = x
      BY <1>7, <1>8, <3>1
    <3> QED
      BY <2>2, <3>2 DEF Placed
  <2> QED
    BY <2>1, <2>2
<1>9. Added(v, hl, w, hl, r)
  BY <1>5, <1>8 DEF Added
<1>10. Placed(w, hl, b, r)
  <2>1. w[hl[b][Len(hl[b])]].rnum[i] = r
    BY <1>3
  <2> QED
    BY <1>2, <2>1 DEF Placed
<1> QED
  BY <1>2, <1>6, <1>9, <1>10 DEF w, InPlace

\* The list of b goes on with h, the others end.
Open(v, hl, b, h) ==
  \A c \in Buckets :
    /\ hl[c] = <<>> => Item(v, c) = 0 \/ v[Item(v, c)].type = "trust"
    /\ hl[c] # <<>> =>
         EndOf(v, Item(v, c), hl[c]) = (IF c = b THEN h ELSE 0)

LinkedOn(v, w, hl, b, q, h, r) ==
  q # h /\ Added(v, hl, w, hl, r) /\ Open(w, hl, b, h)

\* A full list is made to go on with a new record.
LEMMA HashLinkOn ==
  ASSUME NEW v, Top(v), NEW hl, Hung(v, hl), Shut(v, hl), NEW b \in Buckets,
         hl[b] # <<>>, NEW q, q = hl[b][Len(hl[b])],
         NEW h \in Recs, h # 0, v[h] = Unused,
         NEW d, d.type = "hlst", d.next = h, d.rnum = v[q].rnum, NEW r
  PROVE  LinkedOn(v, [v EXCEPT ![q] = d], hl, b, q, h, r)
<1> DEFINE w == [v EXCEPT ![q] = d]
           L == hl[b]
<1>1. Linked(v, Item(v, b), "hlst", L)
  BY DEF Hung
<1>2. /\ L \in Seq(Recs) /\ Len(L) \in Nat /\ Len(L) \in 1..Len(L)
      /\ q \in Recs /\ q # 0 /\ q # 1 /\ v[q].type = "hlst" /\ q # h
  <2>1. Len(L) \in Nat /\ Len(L) # 0 /\ L \in Seq(Recs)
    BY <1>1, ListRec
  <2>2. Len(L) \in 1..Len(L)
    BY <2>1
  <2> QED
    BY <1>1, <2>1, <2>2, ListRec DEF Top, Unused
<1>3. /\ w[q] = d /\ w[1] = v[1] /\ \A x : x # q => w[x] = v[x]
  BY <1>2 DEF Top
<1>4. \A c \in Buckets : Item(w, c) = Item(v, c) /\ Item(v, c) \in Recs
  BY <1>3, TopFacts DEF Item
<1>5. ASSUME NEW c \in Buckets, c # b
      PROVE  /\ Linked(w, Item(w, c), "hlst", hl[c])
             /\ EndOf(w, Item(w, c), hl[c]) = EndOf(v, Item(v, c), hl[c])
  <2>1. Linked(v, Item(v, c), "hlst", hl[c])
    BY DEF Hung
  <2>2. ~InList(q, hl[c])
    BY <1>2, <1>5 DEF Hung, InList
  <2>3. EndOf(v, Item(v, c), hl[c]) # q
    BY <1>2 DEF Shut, EndOf
  <2>4. /\ Linked(w, Item(v, c), "hlst", hl[c])
        /\ EndOf(w, Item(v, c), hl[c]) = EndOf(v, Item(v, c), hl[c])
    BY <1>2, <2>1, <2>2, <2>3, LinkedAway
  <2> QED
    BY <1>4, <2>4
<1> HIDE DEF w, L
<1>6. EndOf(w, Item(w, b), L) = h
  BY <1>3 DEF EndOf, L
<1>7. Linked(w, Item(w, b), "hlst", L)
  <2>1. \A j \in 1..Len(L) : L[j] # 0 /\ w[L[j]].type = "hlst"
    BY <1>1, <1>3 DEF Linked
  <2>2. ASSUME NEW j \in 1..Len(L), j < Len(L) PROVE w[L[j]].next = L[j + 1]
    <3>1. L[j] # L[Len(L)] /\ v[L[j]].next = L[j + 1]
      BY <1>1, <1>2, <2>2 DEF Linked
    <3> QED
      BY <1>3, <3>1 DEF L
  <2>3. w[h].type # "hlst"
    BY <1>2, <1>3 DEF Unused
  <2>4. \A i, j \in 1..Len(L) : i # j => L[i] # L[j]
    BY <1>1 DEF Linked
  <2>5. L # <<>> => L[1] = Item(w, b)
    BY <1>1, <1>4 DEF Linked
  <2> QED
    BY <1>2, <1>6, <2>1, <2>2, <2>3, <2>4, <2>5 DEF Linked
<1>8. Hung(w, hl)
  <2>1. \A c \in Buckets : Linked(w, Item(w, c), "hlst", hl[c])
    BY <1>5, <1>7 DEF L
  <2> QED
    BY <2>1 DEF Hung
<1>9. Open(w, hl, b, h)
  <2> SUFFICES ASSUME NEW c \in Buckets
        PROVE  /\ hl[c] = <<>> =>
                    Item(w, c) = 0 \/ w[Item(w, c)].type = "trust"
               /\ hl[c] # <<>> =>
                    EndOf(w, Item(w, c), hl[c]) = (IF c = b THEN h ELSE 0)
    BY DEF Open
  <2>1. CASE c = b
    BY <1>6, <2>1 DEF L
  <2>2. CASE c # b
    <3>1. Item(v, c) # q => w[Item(v, c)] = v[Item(v, c)]
      BY <1>3
    <3> QED
      BY <1>2, <1>4, <1>5, <2>2, <3>1 DEF Shut
  <2> QED
    BY <2>1, <2>2
<1>10. \A x \in Recs : v[x].type = "hlst" => w[x].rnum = v[x].rnum
  BY <1>3
<1>11. ASSUME NEW c \in Buckets, NEW x
       PROVE  Placed(v, hl, c, x) <=> Placed(w, hl, c, x)
  <2>1. Linked(v, Item(v, c), "hlst", hl[c])
    BY DEF Hung
  <2>2. \A j \in 1..Len(hl[c]) : w[hl[c][j]].rnum = v[hl[c][j]].rnum
    BY <1>10, <2>1, ListRec
  <2> QED
    BY <1>4, <2>2 DEF Placed
<1>12. Added(v, hl, w, hl, r)
  BY <1>8, <1>11 DEF Added
<1> QED
  BY <1>2, <1>9, <1>12 DEF w, LinkedOn

\* The new record is written.
LEMMA HashExtend ==
  ASSUME NEW v, Top(v), NEW hl, Hung(v, hl), NEW b \in Buckets, hl[b] # <<>>,
         NEW h \in Recs, h # 0, h # 1, v[h] = Unused, Open(v, hl, b, h),
         NEW r \in Recs, NEW d, d.type = "hlst", d.next = 0,
         d.rnum = [i \in 1..HlstItems |-> IF i = 1 THEN r ELSE 0]
  PROVE  LET w == [v EXCEPT ![h] = d]
             nl == [hl EXCEPT ![b] = Append(hl[b], h)]
         IN  Added(v, hl, w, nl, r) /\ Shut(w, nl) /\ Placed(w, nl, b, r)
<1> DEFINE w == [v EXCEPT ![h] = d]
           L == hl[b]
           M == Append(hl[b], h)
           nl == [hl EXCEPT ![b] = Append(hl[b], h)]
<1>1. Linked(v, Item(v, b), "hlst", L) /\ EndOf(v, Item(v, b), L) = h
  BY DEF Hung, Open
<1>2. /\ L \in Seq(Recs) /\ Len(L) \in Nat /\ Len(L) # 0
      /\ \A i \in 1..Len(L) : /\ L[i] \in Recs /\ L[i] # 0 /\ L[i] # h
                              /\ v[L[i]].type = "hlst"
  BY <1>1, ListRec DEF Unused
<1>3. /\ M \in Seq(Recs) /\ Len(M) = Len(L) + 1 /\ M[Len(L) + 1] = h
      /\ \A i \in 1..Len(L) : M[i] = L[i]
      /\ M # <<>>
  BY <1>2
<1>4. /\ w[h] = d /\ w[1] = v[1] /\ \A x : x # h => w[x] = v[x]
  BY DEF Top
<1>5. \A c \in Buckets : Item(w, c) = Item(v, c) /\ Item(v, c) \in Recs
  BY <1>4, TopFacts DEF Item
<1>6. /\ nl \in [Buckets -> Seq(Recs)]
      /\ \A c \in Buckets : nl[c] = IF c = b THEN M ELSE hl[c]
  BY <1>3 DEF Hung
<1>7. \A c \in Buckets : ~InList(h, hl[c])
  BY DEF Hung, Linked, InList, Unused
<1>8. ASSUME NEW c \in Buckets, c # b
      PROVE  /\ Linked(w, Item(w, c), "hlst", hl[c])
             /\ EndOf(w, Item(w, c), hl[c]) = EndOf(v, Item(v, c), hl[c])
             /\ \A j \in 1..Len(hl[c]) : w[hl[c][j]] = v[hl[c][j]]
  <2>1. Linked(v, Item(v, c), "hlst", hl[c])
    BY DEF Hung
  <2>2. ~InList(h, hl[c])
    BY <1>7
  <2>3. EndOf(v, Item(v, c), hl[c]) # h
    BY <1>8 DEF Open, EndOf, Unused
  <2>4. /\ Linked(w, Item(v, c), "hlst", hl[c])
        /\ EndOf(w, Item(v, c), hl[c]) = EndOf(v, Item(v, c), hl[c])
        /\ \A j \in 1..Len(hl[c]) : w[hl[c][j]] = v[hl[c][j]]
    BY <2>1, <2>2, <2>3, LinkedAway
  <2> QED
    BY <1>5, <2>4
<1> HIDE DEF w, L, M, nl
<1>9. EndOf(w, Item(w, b), M) = 0
  BY <1>3, <1>4 DEF EndOf
<1>10. \A j \in 1..Len(M) : (j \in 1..Len(L) /\ M[j] = L[j])
                            \/ (j = Len(L) + 1 /\ M[j] = h)
  BY <1>2, <1>3
<1>11. Linked(w, Item(w, b), "hlst", M)
  <2>1. \A j \in 1..Len(M) : M[j] # 0 /\ w[M[j]].type = "hlst"
    BY <1>2, <1>4, <1>10
  <2>2. ASSUME NEW j \in 1..Len(M), j < Len(M) PROVE w[M[j]].next = M[j + 1]
    <3>1. j \in 1..Len(L) /\ M[j] = L[j] /\ w[M[j]] = v[L[j]]
      BY <1>2, <1>3, <1>4, <2>2
    <3>2. CASE j < Len(L)
      <4>1. v[L[j]].next = L[j + 1] /\ j + 1 \in 1..Len(L)
        BY <1>1, <1>2, <3>1, <3>2 DEF Linked
      <4> QED
        BY <1>3, <3>1, <4>1
    <3>3. CASE j = Len(L)
      <4>1. v[L[j]].next = h
        BY <1>1, <1>2, <3>3 DEF EndOf
      <4> QED
        BY <1>3, <3>1, <3>3, <4>1
    <3> QED
      BY <1>2, <3>1, <3>2, <3>3
  <2>3. \A i, j \in 1..Len(M) : i # j => M[i] # M[j]
    <3>1. \A i, j \in 1..Len(L) : i # j => L[i] # L[j]
      BY <1>1 DEF Linked
    <3> QED
      BY <1>2, <1>10, <3>1
  <2>4. M[1] = Item(w, b)
    <3>1. 1 \in 1..Len(L) /\ L # <<>>
      BY <1>2 DEF L
    <3> QED
      BY <1>1, <1>3, <1>5, <3>1 DEF Linked
  <2> QED
    BY <1>3, <1>9, <2>1, <2>2, <2>3, <2>4 DEF Linked
<1>12. Hung(w, nl)
  <2>1. \A c \in Buckets : Linked(w, Item(w, c), "hlst", nl[c])
    BY <1>6, <1>8, <1>11
  <2>2. ASSUME NEW c \in Buckets, NEW e \in Buckets, c # e,
               NEW i \in 1..Len(nl[c]), NEW j \in 1..Len(nl[e])
        PROVE  nl[c][i] # nl[e][j]
    <3>1. CASE c = b
      <4>1. nl[e] = hl[e] /\ nl[c] = M
        BY <1>6, <2>2, <3>1
      <4>2. M[i] = h \/ (i \in 1..Len(L) /\ M[i] = L[i])
        BY <1>10, <4>1
      <4>3. hl[e][j] # h
        BY <1>7, <4>1 DEF InList
      <4>4. i \in 1..Len(L) => L[i] # hl[e][j]
        BY <2>2, <3>1, <4>1 DEF Hung, L
      <4> QED
        BY <4>1, <4>2, <4>3, <4>4
    <3>2. CASE e = b
      <4>1. nl[c] = hl[c] /\ nl[e] = M
        BY <1>6, <2>2, <3>2
      <4>2. M[j] = h \/ (j \in 1..Len(L) /\ M[j] = L[j])
        BY <1>10, <4>1
      <4>3. hl[c][i] # h
        BY <1>7, <4>1 DEF InList
      <4>4. j \in 1..Len(L) => L[j] # hl[c][i]
        BY <2>2, <3>2, <4>1 DEF Hung, L
      <4> QED
        BY <4>1, <4>2, <4>3, <4>4
    <3>3. CASE c # b /\ e # b
      <4>1. nl[c] = hl[c] /\ nl[e] = hl[e]
        BY <1>6, <3>3
      <4> QED
        BY <2>2, <4>1 DEF Hung
    <3> QED
      BY <3>1, <3>2, <3>3
  <2> QED
    BY <1>6, <2>1, <2>2 DEF Hung
<1>13. Shut(w, nl)
  <2> SUFFICES ASSUME NEW c \in Buckets
               PROVE  /\ nl[c] = <<>> =>
                           Item(w, c) = 0 \/ w[Item(w, c)].type = "trust"
                      /\ nl[c] # <<>> => EndOf(w, Item(w, c), nl[c]) = 0
    BY DEF Shut
  <2>1. CASE c = b
    BY <1>3, <1>6, <1>9, <2>1
  <2>2. CASE c # b
    <3>1. Item(w, c) = Item(v, c) /\ nl[c] = hl[c]
      BY <1>5, <1>6, <2>2
    <3>2. v[Item(v, c)].type = "trust" => w[Item(v, c)] = v[Item(v, c)]
      BY <1>4 DEF Unused
    <3> QED
      BY <1>8, <2>2, <3>1, <3>2 DEF Open
  <2> QED
    BY <2>1, <2>2
<1>14. 1 \in 1..HlstItems /\ Len(L) + 1 \in 1..Len(M) /\ L # <<>>
  BY <1>2, <1>3, HlstAssumption DEF L
<1>15. Placed(w, nl, b, r)
  <2>1. nl[b] = M /\ M # <<>>
    BY <1>3, <1>6
  <2>2. w[M[Len(L) + 1]].rnum[1] = r
    BY <1>3, <1>4, <1>14
  <2> QED
    BY <1>14, <2>1, <2>2 DEF Placed
<1>16. ASSUME NEW c \in Buckets, NEW x \in Recs, x # 0
       PROVE  /\ Placed(v, hl, c, x) => Placed(w, nl, c, x)
              /\ Placed(w, nl, c, x) /\ x # r => Placed(v, hl, c, x)
  <2>1. CASE c = b
    <3>1. nl[c] = M /\ hl[c] = L
      BY <1>6, <2>1 DEF L
    <3>2. \A j \in 1..Len(L) : w[M[j]] = v[L[j]] /\ j \in 1..Len(M)
      BY <1>2, <1>3, <1>4
    <3>3. ASSUME Placed(v, hl, c, x) PROVE Placed(w, nl, c, x)
      <4>1. PICK j \in 1..Len(L), i \in 1..HlstItems : v[L[j]].rnum[i] = x
        BY <1>14, <3>1, <3>3 DEF Placed
      <4>2. w[M[j]].rnum[i] = x /\ j \in 1..Len(M)
        BY <3>2, <4>1
      <4> QED
        BY <1>3, <3>1, <4>2 DEF Placed
    <3>4. ASSUME Placed(w, nl, c, x), x # r PROVE Placed(v, hl, c, x)
      <4>1. PICK j \in 1..Len(M), i \in 1..HlstItems : w[M[j]].rnum[i] = x
        BY <1>3, <3>1, <3>4 DEF Placed
      <4>2. j \in 1..Len(L)
        <5>1. d.rnum[i] = r \/ d.rnum[i] = 0
          OBVIOUS
        <5>2. M[j] # h
          BY <1>4, <1>16, <3>4, <4>1, <5>1
        <5> QED
          BY <1>10, <5>2
      <4>3. v[L[j]].rnum[i] = x
        BY <3>2, <4>1, <4>2
      <4> QED
        BY <1>14, <3>1, <4>2, <4>3 DEF Placed
    <3> QED
      BY <3>3, <3>4
  <2>2. CASE c # b
    <3>1. nl[c] = hl[c] /\ Item(w, c) = Item(v, c)
      BY <1>5, <1>6, <2>2
    <3>2. \A j \in 1..Len(hl[c]) : w[hl[c][j]] = v[hl[c][j]]
      BY <1>8, <2>2
    <3> QED
      BY <3>1, <3>2 DEF Placed
  <2> QED
    BY <2>1, <2>2
<1>17. Added(v, hl, w, nl, r)
  BY <1>12, <1>16 DEF Added
<1> QED
  BY <1>13, <1>15, <1>17 DEF w, nl

-----------------------------------------------------------------------------
(***************************************************************************)
(* The steps of an update as a path from one database to another, on which *)
(* every record that is written leaves the ownertrusts of other keys       *)
(* alone.                                                                  *)
(***************************************************************************)
\* One step of an update: from the records v of a file of n to w and m.
One(x, v, n, w, m, K) ==
  /\ Quiet(v, w, K)
  /\ \/ /\ x.step = "put" /\ x.recno \in Recs /\ x.recno < n
        /\ w = [v EXCEPT ![x.recno] = x.data] /\ m = n
     \/ x.step = "append" /\ w = v /\ m = n + 1

\* The steps w lead from the records a of a file of n to b and m, without a
\* change for the keys that are not in K at any of them.
LeadsBy(vs, ns, w, a, n, b, m, K) ==
  /\ vs \in [1..Len(w) + 1 -> [Recs -> Record]]
  /\ ns \in [1..Len(w) + 1 -> Nat]
  /\ vs[1] = a /\ ns[1] = n /\ vs[Len(w) + 1] = b /\ ns[Len(w) + 1] = m
  /\ \A i \in 1..Len(w) : One(w[i], vs[i], ns[i], vs[i + 1], ns[i + 1], K)
Leads(w, a, n, b, m, K) ==
  w \in Seq(Steps) /\ \E vs, ns : LeadsBy(vs, ns, w, a, n, b, m, K)

-----------------------------------------------------------------------------
\* Nothing to do.
LEMMA LeadsNothing ==
  ASSUME NEW a \in [Recs -> Record], NEW n \in Nat, NEW K
  PROVE  Leads(<<>>, a, n, a, n, K)
<1> DEFINE vs == [i \in 1..1 |-> a]
           ns == [i \in 1..1 |-> n]
<1>1. <<>> \in Seq(Steps) /\ Len(<<>>) = 0
  BY EmptySeq
<1>2. Len(<<>>) + 1 = 1 /\ 1..Len(<<>>) = {} /\ 1 \in 1..1
  BY <1>1
<1>3. LeadsBy(vs, ns, <<>>, a, n, a, n, K)
  BY <1>2 DEF LeadsBy
<1> QED
  BY <1>1, <1>3 DEF Leads

\* That is all that can be done with no steps.
LEMMA LeadsEnd ==
  ASSUME NEW a, NEW n, NEW b, NEW m, NEW K, Leads(<<>>, a, n, b, m, K)
  PROVE  a = b /\ n = m
<1>1. PICK vs, ns : LeadsBy(vs, ns, <<>>, a, n, b, m, K)
  BY DEF Leads
<1>2. Len(<<>>) + 1 = 1
  BY EmptySeq
<1> QED
  BY <1>1, <1>2 DEF LeadsBy

\* What is led from and to.
LEMMA LeadsTypes ==
  ASSUME NEW w, NEW a, NEW n, NEW b, NEW m, NEW K, Leads(w, a, n, b, m, K)
  PROVE  /\ w \in Seq(Steps) /\ a \in [Recs -> Record] /\ n \in Nat
         /\ b \in [Recs -> Record] /\ m \in Nat
<1>1. PICK vs, ns : LeadsBy(vs, ns, w, a, n, b, m, K)
  BY DEF Leads
<1>2. w \in Seq(Steps) /\ Len(w) \in Nat
  BY LenProperties DEF Leads
<1>3. 1 \in 1..Len(w) + 1 /\ Len(w) + 1 \in 1..Len(w) + 1
  BY <1>2
<1> QED
  BY <1>1, <1>2, <1>3 DEF LeadsBy

\* The first step is taken.
LEMMA LeadsTail ==
  ASSUME NEW w, w # <<>>, NEW a, NEW n, NEW b, NEW m, NEW K,
         Leads(w, a, n, b, m, K)
  PROVE  \E c, o : One(Head(w), a, n, c, o, K) /\ Leads(Tail(w), c, o, b, m, K)
<1>1. PICK vs, ns : LeadsBy(vs, ns, w, a, n, b, m, K)
  BY DEF Leads
<1>2. w \in Seq(Steps)
  BY DEF Leads
<1>3. /\ Len(w) \in Nat /\ Len(w) # 0
      /\ Head(w) \in Steps /\ Tail(w) \in Seq(Steps)
      /\ Len(Tail(w)) = Len(w) - 1
      /\ \A i \in 1..Len(Tail(w)) : Tail(w)[i] = w[i + 1]
      /\ Head(w) = w[1]
  BY <1>2, LenProperties, EmptySeq, HeadTailProperties
<1> DEFINE t == Tail(w)
           us == [i \in 1..Len(t) + 1 |-> vs[i + 1]]
           ms == [i \in 1..Len(t) + 1 |-> ns[i + 1]]
<1> HIDE DEF t
<1>4. /\ us \in [1..Len(t) + 1 -> [Recs -> Record]]
      /\ ms \in [1..Len(t) + 1 -> Nat]
  BY <1>1, <1>3 DEF LeadsBy, t
<1>5. /\ us[1] = vs[2] /\ us[Len(t) + 1] = b
      /\ ms[1] = ns[2] /\ ms[Len(t) + 1] = m
  BY <1>1, <1>3 DEF LeadsBy, t
<1>6. ASSUME NEW i \in 1..Len(t)
      PROVE  One(t[i], us[i], ms[i], us[i + 1], ms[i + 1], K)
  <2>1. i + 1 \in 1..Len(w) /\ i + 1 \in 1..Len(t) + 1
        /\ i \in 1..Len(t) + 1
    BY <1>3 DEF t
  <2>2. /\ us[i] = vs[i + 1] /\ us[i + 1] = vs[(i + 1) + 1]
        /\ ms[i] = ns[i + 1] /\ ms[i + 1] = ns[(i + 1) + 1]
        /\ t[i] = w[i + 1]
    BY <1>3, <2>1 DEF t
  <2>3. One(w[i + 1], vs[i + 1], ns[i + 1], vs[(i + 1) + 1],
            ns[(i + 1) + 1], K)
    BY <1>1, <2>1 DEF LeadsBy
  <2> QED
    BY <2>2, <2>3
<1> HIDE DEF us, ms
<1>7. LeadsBy(us, ms, t, vs[2], ns[2], b, m, K)
  BY <1>4, <1>5, <1>6 DEF LeadsBy
<1>8. Leads(t, vs[2], ns[2], b, m, K)
  BY <1>3, <1>7 DEF Leads, t
<1>9. One(Head(w), a, n, vs[2], ns[2], K)
  <2>1. 1 \in 1..Len(w) /\ 1 + 1 = 2
    BY <1>3
  <2> QED
    BY <1>1, <1>3, <2>1 DEF LeadsBy
<1> QED
  BY <1>8, <1>9 DEF t

\* A step is added.
LEMMA LeadsAppend ==
  ASSUME NEW w, NEW a, NEW n, NEW b, NEW m, NEW K, Leads(w, a, n, b, m, K),
         NEW x \in Steps, NEW c \in [Recs -> Record], NEW o \in Nat,
         One(x, b, m, c, o, K)
  PROVE  Leads(Append(w, x), a, n, c, o, K)
<1>1. PICK vs, ns : LeadsBy(vs, ns, w, a, n, b, m, K)
  BY DEF Leads
<1>2. w \in Seq(Steps)
  BY DEF Leads
<1> DEFINE y == Append(w, x)
           us == [i \in 1..Len(y) + 1 |-> IF i = Len(w) + 2 THEN c ELSE vs[i]]
           ms == [i \in 1..Len(y) + 1 |-> IF i = Len(w) + 2 THEN o ELSE ns[i]]
<1>3. /\ Len(w) \in Nat /\ y \in Seq(Steps) /\ Len(y) = Len(w) + 1
      /\ \A i \in 1..Len(w) : y[i] = w[i]
      /\ y[Len(w) + 1] = x
  BY <1>2, LenProperties, AppendProperties
<1> HIDE DEF y
<1>4. /\ us \in [1..Len(y) + 1 -> [Recs -> Record]]
      /\ ms \in [1..Len(y) + 1 -> Nat]
      /\ us[Len(y) + 1] = c /\ ms[Len(y) + 1] = o
  <2>1. \A i \in 1..Len(y) + 1 : i # Len(w) + 2 => i \in 1..Len(w) + 1
    BY <1>3
  <2>2. vs \in [1..Len(w) + 1 -> [Recs -> Record]]
        /\ ns \in [1..Len(w) + 1 -> Nat]
    BY <1>1 DEF LeadsBy
  <2>3. us \in [1..Len(y) + 1 -> [Recs -> Record]]
    BY <2>1, <2>2
  <2>4. ms \in [1..Len(y) + 1 -> Nat]
    BY <2>1, <2>2
  <2>5. us[Len(y) + 1] = c /\ ms[Len(y) + 1] = o
    BY <1>3
  <2> QED
    BY <2>3, <2>4, <2>5
<1>5. us[1] = a /\ ms[1] = n
  <2>1. 1 \in 1..Len(y) + 1 /\ 1 # Len(w) + 2
    BY <1>3
  <2> QED
    BY <1>1, <2>1 DEF LeadsBy
<1>6. ASSUME NEW i \in 1..Len(y)
      PROVE  One(y[i], us[i], ms[i], us[i + 1], ms[i + 1], K)
  <2>1. i \in 1..Len(y) + 1 /\ i + 1 \in 1..Len(y) + 1 /\ i # Len(w) + 2
    BY <1>3
  <2>2. us[i] = vs[i] /\ ms[i] = ns[i]
    BY <2>1
  <2>3. CASE i = Len(w) + 1
    <3>1. /\ y[i] = x /\ vs[i] = b /\ ns[i] = m
      BY <1>1, <1>3, <2>3 DEF LeadsBy
    <3>2. us[i + 1] = c /\ ms[i + 1] = o
      BY <1>3, <2>1, <2>3
    <3> QED
      BY <2>2, <3>1, <3>2
  <2>4. CASE i # Len(w) + 1
    <3>1. i \in 1..Len(w) /\ i + 1 # Len(w) + 2 /\ y[i] = w[i]
      BY <1>3, <2>1, <2>4
    <3>2. us[i + 1] = vs[i + 1] /\ ms[i + 1] = ns[i + 1]
      BY <2>1, <3>1
    <3>3. One(w[i], vs[i], ns[i], vs[i + 1], ns[i + 1], K)
      BY <1>1, <3>1 DEF LeadsBy
    <3> QED
      BY <2>2, <3>1, <3>2, <3>3
  <2> QED
    BY <2>3, <2>4
<1> HIDE DEF us, ms
<1>7. LeadsBy(us, ms, y, a, n, c, o, K)
  BY <1>4, <1>5, <1>6 DEF LeadsBy
<1> QED
  BY <1>3, <1>7 DEF Leads, y

\* The file of a computation only gets longer.
Grown(x, s) == Shape(x) /\ s.n \in Nat /\ x.n \in Nat /\ s.n <= x.n

\* tdbio_write_record, errors and the sync leave its length.
LEMMA WriteGrows ==
  ASSUME NEW s, Shape(s), NEW r, NEW d
  PROVE  /\ Grown(WriteRec(s, r, d), s) /\ WriteRec(s, r, d).n = s.n
         /\ s.ok => WriteRec(s, r, d).ok
         /\ Grown(Die(s), s) /\ Die(s).n = s.n
         /\ Grown(Sync(s), s) /\ Sync(s).n = s.n
<1>1. s.n \in Nat /\ s.n <= s.n
  BY DEF Shape
<1>2. /\ Shape(WriteRec(s, r, d)) /\ WriteRec(s, r, d).n = s.n
      /\ s.ok => WriteRec(s, r, d).ok
  <2>1. CASE s.ok
    <3> DEFINE w == [s.v EXCEPT ![r] = d]
               y == Append(s.w, PutStep(r, d))
               x == [s EXCEPT !.v = w, !.w = y]
    <3>1. WriteRec(s, r, d) = x
      BY <2>1 DEF WriteRec, Shape
    <3> HIDE DEF w, y
    <3>2. Shape(x) /\ x.n = s.n /\ x.ok = s.ok
      BY DEF Shape
    <3> QED
      BY <2>1, <3>1, <3>2
  <2>2. CASE ~s.ok
    BY <2>2 DEF WriteRec
  <2> QED
    BY <2>1, <2>2
<1>3. Shape(Die(s)) /\ Die(s).n = s.n
  BY DEF Die, Shape
<1>4. Shape(Sync(s)) /\ Sync(s).n = s.n
  <2>1. CASE s.ok
    <3> DEFINE y == Append(s.w, SyncStep)
               x == [s EXCEPT !.w = y]
    <3>1. Sync(s) = x
      BY <2>1 DEF Sync, Shape
    <3> HIDE DEF y
    <3>2. Shape(x) /\ x.n = s.n
      BY DEF Shape
    <3> QED
      BY <3>1, <3>2
  <2>2. CASE ~s.ok
    BY <2>2 DEF Sync
  <2> QED
    BY <2>1, <2>2
<1> QED
  BY <1>1, <1>2, <1>3, <1>4 DEF Grown

\* One after the other.
LEMMA GrownOn ==
  ASSUME NEW x, NEW y, NEW s, Grown(y, s), Grown(x, y)
  PROVE  Grown(x, s) /\ Shape(y)
  BY DEF Grown

\* There are all records below one that there is.
LEMMA GrownRecs ==
  ASSUME NEW x, NEW s, Grown(x, s), x.n \in Recs
  PROVE  s.n \in Recs
<1>1. s.n \in 0..x.n /\ 0..x.n \subseteq Recs
  BY RecsInterval DEF Grown
<1> QED
  BY <1>1

\* tdbio_new_recnum.
LEMMA AllocGrows ==
  ASSUME NEW s, Shape(s)
  PROVE  Grown(Alloc(s), s)
<1> DEFINE f == s.v[0].firstfree
           c == [s.v[0] EXCEPT !.firstfree = s.v[f].next]
<1>1. s.n \in Nat /\ s.n <= s.n /\ Grown(s, s)
  BY DEF Shape, Grown
<1>2. CASE f = 0 /\ s.n # 0
  <2> DEFINE m == s.n + 1
             y == Append(s.w, AppendStep)
             x == [s EXCEPT !.n = m, !.w = y]
  <2>1. Alloc(s) = x
    BY <1>1, <1>2 DEF Alloc, Shape
  <2>2. m \in Nat /\ s.n <= m
    BY <1>1
  <2> HIDE DEF m, y
  <2>3. Shape(x) /\ x.n = m
    BY <2>2 DEF Shape
  <2> HIDE DEF x
  <2> QED
    BY <1>1, <2>1, <2>2, <2>3 DEF Grown
<1>3. CASE (f = 0 /\ s.n = 0) \/ (f # 0 /\ s.v[f].type # "free")
  BY <1>3, WriteGrows DEF Alloc
<1>4. CASE f # 0 /\ s.v[f].type = "free"
  <2> DEFINE x == WriteRec(s, 0, c)
  <2>1. Alloc(s) = WriteRec(x, f, Unused)
    BY <1>4 DEF Alloc
  <2>2. Grown(x, s)
    BY WriteGrows
  <2> HIDE DEF x
  <2>3. Grown(WriteRec(x, f, Unused), x)
    BY <2>2, WriteGrows DEF Grown
  <2> QED
    BY <2>1, <2>2, <2>3, GrownOn
<1> QED
  BY <1>2, <1>3, <1>4

\* upd_hashtable.
LEMMA UpdHashtableGrows ==
  ASSUME NEW s, Shape(s), NEW k, NEW r
  PROVE  Grown(UpdHashtable(s, k, r), s)
<1>1. Grown(s, s) /\ Grown(Die(s), s)
  BY WriteGrows DEF Shape, Grown
<1>2. Grown(AddFirst(s, k, r), s)
  BY WriteGrows DEF AddFirst
<1>3. ASSUME NEW p, NEW d, NEW q, NEW e
      PROVE  Grown(WriteRec(WriteRec(Alloc(s), p, d), q, e), s)
  <2>1. Grown(Alloc(s), s)
    BY AllocGrows
  <2>2. Grown(WriteRec(Alloc(s), p, d), Alloc(s))
    BY <2>1, WriteGrows DEF Grown
  <2>3. Grown(WriteRec(WriteRec(Alloc(s), p, d), q, e),
              WriteRec(Alloc(s), p, d))
    BY <2>2, WriteGrows DEF Grown
  <2> QED
    BY <2>1, <2>2, <2>3, GrownOn
<1>4. Grown(AddList(s, k, r), s)
  BY <1>3 DEF AddList
<1>5. ASSUME NEW L PROVE Grown(AddToList(s, k, r, L), s)
  <2> DEFINE q == L[Len(L)]
             free == {i \in 1..HlstItems : s.v[q].rnum[i] = 0}
             rnums == [i \in 1..HlstItems |-> IF i = 1 THEN r ELSE 0]
             e == [s.v[q] EXCEPT !.rnum[Min(free)] = r]
             s1 == Alloc(s)
             h == NewRecnum(s)
             d == [s1.v[q] EXCEPT !.next = h]
  <2>1. \/ AddToList(s, k, r, L) = s
        \/ AddToList(s, k, r, L) = WriteRec(s, q, e)
        \/ AddToList(s, k, r, L)
             = WriteRec(WriteRec(s1, q, d), h, Hlst(0, rnums))
    BY DEF AddToList
  <2>2. Grown(WriteRec(s, q, e), s)
    BY WriteGrows
  <2>3. Grown(WriteRec(WriteRec(s1, q, d), h, Hlst(0, rnums)), s)
    BY <1>3
  <2> HIDE DEF q, free, rnums, e, s1, h, d
  <2> QED
    BY <1>1, <2>1, <2>2, <2>3
<1> DEFINE list == HashList(s.v, s.v[s.v[0].trusthashtbl].item[Bucket[k]])
<1>6. UpdHashtable(s, k, r) \in {Die(s), s, AddFirst(s, k, r),
                                 AddList(s, k, r), AddToList(s, k, r, list)}
  BY DEF UpdHashtable
<1>7. Grown(AddToList(s, k, r, list), s)
  BY <1>5
<1> HIDE DEF list
<1> QED
  BY <1>1, <1>2, <1>4, <1>6, <1>7

\* tdbio_write_record for a trust record, and tdb_revalidation_mark.
LEMMA TrustGrows ==
  ASSUME NEW s, Shape(s), NEW r, NEW d
  PROVE  Grown(WriteTrust(s, r, d), s) /\ Grown(Mark(s), s)
<1>1. Grown(s, s)
  BY DEF Shape, Grown
<1>2. Grown(WriteRec(s, r, d), s)
  BY WriteGrows
<1>3. Grown(UpdHashtable(WriteRec(s, r, d), d.fpr, r), WriteRec(s, r, d))
  BY <1>2, UpdHashtableGrows DEF Grown
<1>4. Grown(UpdHashtable(WriteRec(s, r, d), d.fpr, r), s)
  BY <1>2, <1>3, GrownOn
<1>5. Grown(Mark(s), s)
  BY <1>1, WriteGrows DEF Mark
<1> QED
  BY <1>1, <1>4, <1>5 DEF WriteTrust

\* update_validity.
LEMMA ValidityGrows ==
  ASSUME NEW s, Shape(s), NEW r, NEW d, NEW u, NEW x
  PROVE  Grown(SetValidity(s, r, d, u, x), s)
<1>1. ASSUME NEW y, Grown(y, s), NEW q, NEW e, NEW p, NEW c
      PROVE  Grown(WriteTrust(WriteRec(y, q, e), p, c), s)
  <2>1. Shape(y) /\ Grown(WriteRec(y, q, e), y)
    BY <1>1, WriteGrows DEF Grown
  <2>2. Grown(WriteRec(y, q, e), s) /\ Shape(WriteRec(y, q, e))
    BY <1>1, <2>1, GrownOn DEF Grown
  <2>3. Grown(WriteTrust(WriteRec(y, q, e), p, c), WriteRec(y, q, e))
    BY <2>2, TrustGrows
  <2> QED
    BY <2>2, <2>3, GrownOn
<1>2. Grown(s, s) /\ Grown(Die(s), s) /\ Grown(Alloc(s), s)
  BY WriteGrows, AllocGrows DEF Shape, Grown
<1> QED
  BY <1>1, <1>2, Zenon DEF SetValidity

-----------------------------------------------------------------------------
(***************************************************************************)
(* Databases that work, and the computations of the updates that lead from *)
(* one to another.                                                         *)
(***************************************************************************)
\* A database of n records.
Base(v, n) ==
  /\ Top(v) /\ n \in Nat /\ 2 <= n
  /\ \A r \in Recs : n <= r => v[r] = Unused

\* One that works, but for the lists of validity records; and for the trust
\* records X, that need not be found.
Core(v, n, X) == Base(v, n) /\ Unique(v) /\ FreeOK(v) /\ HashOK(v, X)
Good(v, n, X) == Core(v, n, X) /\ ValOK(v)

\* The computation s goes on; its writes lead from the records a of a file
\* of n to its own.
Led(s, a, n, K) ==
  /\ Shape(s) /\ s.ok = TRUE
  /\ Leads(s.w, a, n, s.v, s.n, K)
  /\ Quiet(a, s.v, K)

-----------------------------------------------------------------------------
\* A record of the file is written.
LEMMA BaseWrite ==
  ASSUME NEW v, NEW n, Base(v, n), NEW p \in Recs, p < n, NEW d \in Record,
         p = 0 => d.type = "ver" /\ d.trusthashtbl = 1,
         p = 1 => d.type = "htbl"
  PROVE  Base([v EXCEPT ![p] = d], n)
<1> DEFINE w == [v EXCEPT ![p] = d]
<1>1. Top(w)
  BY TopKept DEF Base
<1>2. \A r \in Recs : r # p => w[r] = v[r]
  BY DEF Base, Top
<1>3. \A r \in Recs : n <= r => r # p
  BY RecsAssumption DEF Base
<1> HIDE DEF w
<1>4. Base(w, n)
  BY <1>1, <1>2, <1>3 DEF Base
<1> QED
  BY <1>4 DEF w

\* The record d can be written as r by the computation, and x is the state
\* after that.
MayWrite(s, r, d, K) ==
  /\ r \in Recs /\ r < s.n /\ d \in Record /\ s.v \in [Recs -> Record]
  /\ Quiet(s.v, [s.v EXCEPT ![r] = d], K)
HasWritten(x, s, r, d, a, n, K) ==
  Led(x, a, n, K) /\ x.n = s.n /\ x.v = [s.v EXCEPT ![r] = d]

\* A write of the computation.
LEMMA LedWrite ==
  ASSUME NEW s, NEW a, NEW n, NEW K, Led(s, a, n, K), NEW r, NEW d,
         MayWrite(s, r, d, K)
  PROVE  HasWritten(WriteRec(s, r, d), s, r, d, a, n, K)
<1> DEFINE w == [s.v EXCEPT ![r] = d]
           p == PutStep(r, d)
           y == Append(s.w, p)
           x == [s EXCEPT !.v = w, !.w = y]
<1>1. WriteRec(s, r, d) = x
  BY DEF WriteRec, Led, Shape
<1>2. p \in Steps /\ p.step = "put" /\ p.recno = r /\ p.data = d
  BY DEF PutStep, Steps, MayWrite
<1>3. w \in [Recs -> Record]
  BY DEF MayWrite
<1>4. One(p, s.v, s.n, w, s.n, K)
  BY <1>2 DEF One, MayWrite
<1>5. s.n \in Nat /\ Shape(s) /\ s.ok = TRUE /\ Leads(s.w, a, n, s.v, s.n, K)
  BY DEF Led, Shape
<1>6. Quiet(a, w, K)
  BY DEF Quiet, Led, MayWrite
<1> HIDE DEF w, p
<1>7. Leads(y, a, n, w, s.n, K)
  BY <1>2, <1>3, <1>4, <1>5, LeadsAppend
<1> HIDE DEF y
<1>8. Shape(x) /\ x.n = s.n /\ x.ok = TRUE /\ x.v = w /\ x.w = y
  BY <1>5 DEF Shape
<1> HIDE DEF x
<1>9. Led(x, a, n, K) /\ x.n = s.n /\ x.v = w
  BY <1>6, <1>7, <1>8 DEF Led
<1> QED
  BY <1>1, <1>9 DEF w, HasWritten

\* The file gets a record more.
LEMMA LedAppend ==
  ASSUME NEW s, NEW a, NEW n, NEW K, Led(s, a, n, K), NEW x,
         x = [s EXCEPT !.n = s.n + 1, !.w = Append(s.w, AppendStep)]
  PROVE  Led(x, a, n, K) /\ x.n = s.n + 1 /\ x.v = s.v
<1> DEFINE m == s.n + 1
           p == AppendStep
           y == Append(s.w, p)
<1>0. x = [s EXCEPT !.n = m, !.w = y]
  OBVIOUS
<1>1. s.n \in Nat /\ Shape(s) /\ s.ok = TRUE /\ Leads(s.w, a, n, s.v, s.n, K)
  BY DEF Led, Shape
<1>2. p \in Steps /\ p.step = "append"
  BY StepTypes DEF AppendStep
<1>3. m \in Nat
  BY <1>1
<1>4. One(p, s.v, s.n, s.v, m, K)
  BY <1>2 DEF One, Quiet
<1>5. s.v \in [Recs -> Record]
  BY <1>1, LeadsTypes
<1> HIDE DEF m, p
<1>6. Leads(y, a, n, s.v, m, K)
  BY <1>1, <1>2, <1>3, <1>4, <1>5, LeadsAppend
<1> HIDE DEF y
<1>7. Shape(x) /\ x.n = m /\ x.ok = TRUE /\ x.v = s.v /\ x.w = y
  BY <1>0, <1>1, <1>3 DEF Shape
<1>8. Led(x, a, n, K) /\ x.n = m /\ x.v = s.v
  BY <1>6, <1>7 DEF Led
<1> QED
  BY <1>8 DEF m

\* Records that are neither trust records nor those of hash lists; the ones
\* that are written stay where they are in the lists of validity records.
Plain(v, p, d) ==
  /\ p \in Recs /\ p # 1 /\ d \in Record
  /\ v[p].type \notin {"hlst", "trust"} /\ d.type \notin {"hlst", "trust"}
  /\ p = 0 => d.type = "ver" /\ d.trusthashtbl = 1
  /\ v[p].type = "valid" <=> d.type = "valid"
  /\ v[p].type = "valid" => d.next = v[p].next

\* All but the free list is kept by such a write.
LEMMA PlainWrite ==
  ASSUME NEW v, Top(v), Unique(v), ValOK(v), NEW hl, NEW X, HashIs(v, hl, X),
         NEW p, NEW d, Plain(v, p, d)
  PROVE  LET w == [v EXCEPT ![p] = d] IN
         /\ Top(w) /\ Unique(w) /\ ValOK(w) /\ HashIs(w, hl, X)
         /\ \A K : Quiet(v, w, K)
<1> DEFINE w == [v EXCEPT ![p] = d]
<1>1. Top(w)
  BY TopKept DEF Plain
<1>2. Unique(w)
  BY UniqueKept DEF Plain
<1>3. ValOK(w)
  BY ValKept DEF Plain
<1>4. HashIs(w, hl, X)
  BY HashKept DEF Plain
<1>5. ASSUME NEW K PROVE Quiet(v, w, K)
  BY <1>1, AsideQuiet DEF Plain, HashIs
<1> QED
  BY <1>1, <1>2, <1>3, <1>4, <1>5

\* The version record with other fields.
LEMMA OtherVer ==
  ASSUME NEW d \in Record, d.type = "ver", NEW z \in Recs, NEW c \in {0, 1}
  PROVE  LET e == [d EXCEPT !.firstfree = z]
             g == [d EXCEPT !.nextcheck = c]
         IN  /\ e \in Record /\ e.type = "ver" /\ e.firstfree = z
             /\ e.trusthashtbl = d.trusthashtbl
             /\ g \in Record /\ g.type = "ver" /\ g.firstfree = d.firstfree
             /\ g.trusthashtbl = d.trusthashtbl
<1>1. /\ d = Ver(d.firstfree, d.trusthashtbl, d.nextcheck)
      /\ d.firstfree \in Recs /\ d.trusthashtbl \in Recs
      /\ d.nextcheck \in {0, 1}
  BY ByType
<1>2. /\ Ver(z, d.trusthashtbl, d.nextcheck) \in Record
      /\ Ver(d.firstfree, d.trusthashtbl, c) \in Record
  BY <1>1, Kinds
<1>3. /\ [d EXCEPT !.firstfree = z] = Ver(z, d.trusthashtbl, d.nextcheck)
      /\ [d EXCEPT !.nextcheck = c] = Ver(d.firstfree, d.trusthashtbl, c)
  BY <1>1 DEF Ver
<1>4. \A x, y, t : /\ Ver(x, y, t).type = "ver" /\ Ver(x, y, t).firstfree = x
                   /\ Ver(x, y, t).trusthashtbl = y
  BY DEF Ver
<1> QED
  BY <1>2, <1>3, <1>4

-----------------------------------------------------------------------------
\* What tdbio_new_recnum does in a database that works: it never fails; the
\* record is not in use, and nothing but the version record changes, and
\* the record if it was free.
Allotted(t, s, X) ==
  LET h == NewRecnum(s) IN
  /\ Good(t.v, t.n, X)
  /\ h \in Recs /\ h # 0 /\ h # 1 /\ h < t.n /\ t.v[h] = Unused
  /\ s.n <= t.n
  /\ \A r \in Recs : r < s.n /\ s.v[r].type # "free" => r # h
  /\ \A r \in Recs : r # 0 /\ r # h => t.v[r] = s.v[r]
  /\ s.v[h].type \in {"unused", "free"}
  /\ TrustSame(s.v, t.v)
  /\ \A hl : HashIs(s.v, hl, X) => HashIs(t.v, hl, X)
  /\ Quiet(s.v, t.v, {})

\* It appends a record.
LEMMA AllocEnd ==
  ASSUME NEW s, NEW a, NEW n, NEW K, Led(s, a, n, K), NEW X,
         Good(s.v, s.n, X), Alloc(s).n \in Recs, s.v[0].firstfree = 0
  PROVE  Led(Alloc(s), a, n, K) /\ Allotted(Alloc(s), s, X)
<1> DEFINE x == Alloc(s)
           h == NewRecnum(s)
<1>1. /\ s.n \in Nat /\ 2 <= s.n /\ Top(s.v)
      /\ \A r \in Recs : s.n <= r => s.v[r] = Unused
  BY DEF Good, Core, Base
<1>2. s.n # 0
  BY <1>1
<1>3. x = [s EXCEPT !.n = s.n + 1, !.w = Append(s.w, AppendStep)]
  BY <1>2 DEF Alloc, Led, Shape
<1>4. Led(x, a, n, K) /\ x.n = s.n + 1 /\ x.v = s.v
  BY <1>3, LedAppend
<1>5. h = s.n
  BY DEF NewRecnum
<1> HIDE DEF h
<1>6. h \in Recs /\ h # 0 /\ h # 1 /\ h < x.n /\ s.n <= x.n
  <2>1. h \in 0..x.n /\ 0..x.n \subseteq Recs
    BY <1>1, <1>4, <1>5, RecsInterval
  <2> QED
    BY <1>1, <1>4, <1>5, <2>1
<1> HIDE DEF x
<1>7. s.v[h] = Unused /\ s.v[h].type = "unused"
  BY <1>1, <1>5, <1>6 DEF Unused
<1>8. Base(x.v, x.n)
  <2>1. x.n \in Nat /\ 2 <= x.n /\ \A r \in Recs : x.n <= r => s.n <= r
    BY <1>1, <1>4, RecsAssumption
  <2> QED
    BY <1>1, <1>4, <2>1 DEF Base
<1>9. Good(x.v, x.n, X)
  BY <1>4, <1>8 DEF Good, Core
<1>10. \A r \in Recs : r < s.n => r # h
  BY <1>1, <1>5
<1>11. TrustSame(s.v, x.v) /\ Quiet(s.v, x.v, {})
  BY <1>4 DEF TrustSame, Quiet
<1>12. Allotted(x, s, X)
  BY <1>4, <1>6, <1>7, <1>9, <1>10, <1>11 DEF Allotted, h
<1> QED
  BY <1>4, <1>12 DEF x

\* It takes a record of the free list.
LEMMA AllocFree ==
  ASSUME NEW s, NEW a, NEW n, NEW K, Led(s, a, n, K), NEW X,
         Good(s.v, s.n, X), s.v[0].firstfree # 0
  PROVE  Led(Alloc(s), a, n, K) /\ Allotted(Alloc(s), s, X)
<1> DEFINE v == s.v
           f == v[0].firstfree
           c == [v[0] EXCEPT !.firstfree = v[f].next]
           y == WriteRec(s, 0, c)
           x == WriteRec(y, f, Unused)
           v1 == [v EXCEPT ![0] = c]
           v2 == [v1 EXCEPT ![f] = Unused]
<1>1. /\ s.n \in Nat /\ 2 <= s.n /\ Top(v) /\ Unique(v) /\ FreeOK(v)
      /\ ValOK(v) /\ Base(v, s.n)
      /\ \A r \in Recs : s.n <= r => v[r] = Unused
  BY DEF Good, Core, Base
<1>2. PICK hl : HashIs(v, hl, X)
  BY DEF Good, Core, HashOK
<1>3. /\ 0 \in Recs /\ v[0] \in Record /\ v[0].type = "ver"
      /\ v[0].trusthashtbl = 1 /\ v \in [Recs -> Record]
  BY <1>1, TopFacts DEF Top
<1>4. /\ f \in Recs /\ v[f].type = "free" /\ v[f].next \in Recs
  <2>1. PICK fl : FreeIs(v, fl)
    BY <1>1 DEF FreeOK
  <2>2. Linked(v, f, "free", fl) /\ EndOf(v, f, fl) = 0
    BY <2>1 DEF FreeIs
  <2>3. fl # <<>>
    BY <2>2 DEF EndOf
  <2>4. 1 \in 1..Len(fl) /\ fl[1] = f
    BY <1>1, <2>2, <2>3, ListRec DEF Linked
  <2> QED
    BY <1>1, <2>2, <2>4, ListRec
<1>5. /\ c \in Record /\ c.type = "ver" /\ c.firstfree = v[f].next
      /\ c.trusthashtbl = 1
  BY <1>3, <1>4, OtherVer
<1>6. Alloc(s) = x /\ NewRecnum(s) = f
  BY <1>4 DEF Alloc, NewRecnum
<1> HIDE DEF f, c
<1>7. /\ Unused \in Record /\ Unused.type = "unused"
  BY Kinds DEF Unused
<1>8. f # 0 /\ f # 1 /\ f < s.n /\ f \in Nat
  <2>1. f # 0 /\ f # 1
    BY <1>1, <1>4 DEF Top
  <2>2. ~(s.n <= f) /\ f \in Nat
    BY <1>1, <1>4, <1>7, RecsAssumption
  <2> QED
    BY <1>1, <2>1, <2>2
<1>9. Plain(v, 0, c)
  BY <1>3, <1>5 DEF Plain
<1>10. /\ Top(v1) /\ Unique(v1) /\ ValOK(v1)
       /\ \A g : HashIs(v, g, X) => HashIs(v1, g, X)
       /\ \A L : Quiet(v, v1, L)
  BY <1>1, <1>2, <1>9, PlainWrite
<1>11. v1[f] = v[f]
  BY <1>3, <1>8
<1>12. v1 \in [Recs -> Record]
  BY <1>10 DEF Top
<1>13. Led(y, a, n, K) /\ y.n = s.n /\ y.v = v1
  <2>1. 0 < s.n
    BY <1>1
  <2>2. MayWrite(s, 0, c, K)
    BY <1>3, <1>5, <1>10, <2>1 DEF MayWrite
  <2>3. HasWritten(y, s, 0, c, a, n, K)
    BY <2>2, LedWrite, Zenon
  <2> HIDE DEF y
  <2> QED
    BY <2>3 DEF HasWritten
<1>14. FreeOK(v2)
  BY <1>1, <1>5, FreePop DEF f
<1>15. Base(v1, s.n)
  <2>1. 0 < s.n
    BY <1>1
  <2> QED
    BY <1>1, <1>3, <1>5, <2>1, BaseWrite
<1>20. \A r \in Recs : r # 0 /\ r # f => v2[r] = v[r]
  BY <1>3
<1> HIDE DEF v1
<1>16. Plain(v1, f, Unused)
  BY <1>4, <1>7, <1>8, <1>11 DEF Plain
<1>17. /\ Top(v2) /\ Unique(v2) /\ ValOK(v2)
       /\ \A g : HashIs(v1, g, X) => HashIs(v2, g, X)
       /\ \A L : Quiet(v1, v2, L)
  BY <1>2, <1>10, <1>16, PlainWrite
<1>18. Base(v2, s.n)
  BY <1>4, <1>7, <1>8, <1>15, BaseWrite
<1>19. Led(x, a, n, K) /\ x.n = s.n /\ x.v = v2
  <2> HIDE DEF y
  <2>1. MayWrite(y, f, Unused, K)
    BY <1>4, <1>7, <1>8, <1>12, <1>13, <1>17 DEF MayWrite
  <2>2. HasWritten(x, y, f, Unused, a, n, K)
    BY <1>13, <2>1, LedWrite, Zenon
  <2> HIDE DEF x
  <2> QED
    BY <1>13, <2>2 DEF HasWritten
<1>21. v2[f] = Unused /\ v2[0].type = "ver"
  BY <1>4, <1>12, <1>17 DEF Top
<1> HIDE DEF v2, x, y
<1>22. Good(v2, s.n, X)
  BY <1>2, <1>10, <1>14, <1>17, <1>18 DEF Good, Core, HashOK
<1>23. TrustSame(v, v2)
  BY <1>3, <1>4, <1>7, <1>20, <1>21 DEF TrustSame
<1>24. Quiet(v, v2, {})
  <2>1. Quiet(v, v1, {}) /\ Quiet(v1, v2, {})
    BY <1>10, <1>17
  <2> HIDE DEF v
  <2> QED
    BY <2>1 DEF Quiet
<1>25. Allotted(x, s, X)
  <2>1. s.n <= x.n
    BY <1>1, <1>19
  <2> QED
    BY <1>4, <1>6, <1>8, <1>10, <1>17, <1>19, <1>20, <1>21, <1>22, <1>23,
       <1>24, <2>1 DEF Allotted
<1> QED
  BY <1>6, <1>19, <1>25

\* tdbio_new_recnum.
LEMMA AllocGood ==
  ASSUME NEW s, NEW a, NEW n, NEW K, Led(s, a, n, K), NEW X,
         Good(s.v, s.n, X), Alloc(s).n \in Recs
  PROVE  Led(Alloc(s), a, n, K) /\ Allotted(Alloc(s), s, X)
  BY AllocEnd, AllocFree

\* The hash table with another item.
LEMMA OtherHtbl ==
  ASSUME NEW d \in Record, d.type = "htbl", NEW b \in Buckets, NEW z \in Recs
  PROVE  LET e == [d EXCEPT !.item[b] = z] IN
         /\ e \in Record /\ e.type = "htbl"
         /\ e.item = [d.item EXCEPT ![b] = z]
<1> DEFINE x == [d.item EXCEPT ![b] = z]
<1>1. d = Htbl(d.item) /\ d.item \in [Buckets -> Recs]
  BY ByType
<1>2. x \in [Buckets -> Recs]
  BY <1>1
<1>3. Htbl(x) \in Record /\ Htbl(x).type = "htbl" /\ Htbl(x).item = x
  BY <1>2, Kinds DEF Htbl
<1>4. [d EXCEPT !.item[b] = z] = [d EXCEPT !.item = x]
  BY <1>1 DEF Htbl
<1> HIDE DEF x
<1>5. [d EXCEPT !.item = x] = Htbl(x)
  BY <1>1 DEF Htbl
<1> QED
  BY <1>3, <1>4, <1>5 DEF x

\* A record of a hash list with another place.
PlaceSet(e, d, i, z) ==
  /\ e \in Record /\ e.type = "hlst" /\ e.next = d.next
  /\ e.rnum = [d.rnum EXCEPT ![i] = z]

\* It is one.
LEMMA OtherPlace ==
  ASSUME NEW d \in Record, d.type = "hlst", NEW i \in 1..HlstItems,
         NEW z \in Recs
  PROVE  PlaceSet([d EXCEPT !.rnum[i] = z], d, i, z)
<1> DEFINE x == [d.rnum EXCEPT ![i] = z]
           e == [d EXCEPT !.rnum[i] = z]
<1>1. /\ d = Hlst(d.next, d.rnum) /\ d.next \in Recs
      /\ d.rnum \in [1..HlstItems -> Recs]
  BY ByType
<1>2. x \in [1..HlstItems -> Recs]
  BY <1>1
<1>3. e = [d EXCEPT !.rnum = x]
  BY <1>1 DEF Hlst
<1> HIDE DEF x, e
<1>4. e = Hlst(d.next, x)
  BY <1>1, <1>3 DEF Hlst
<1>5. Hlst(d.next, x) \in Record
  BY <1>1, <1>2, Kinds
<1>6. \A p, y : /\ Hlst(p, y).type = "hlst" /\ Hlst(p, y).next = p
                /\ Hlst(p, y).rnum = y
  BY DEF Hlst
<1> QED
  BY <1>4, <1>5, <1>6 DEF x, e, PlaceSet

\* With another successor.
LEMMA OtherNext ==
  ASSUME NEW d \in Record, d.type = "hlst", NEW z \in Recs, NEW e,
         e = [d EXCEPT !.next = z]
  PROVE  e \in Record /\ e.type = "hlst" /\ e.next = z /\ e.rnum = d.rnum
<1>1. /\ d = Hlst(d.next, d.rnum) /\ d.next \in Recs
      /\ d.rnum \in [1..HlstItems -> Recs]
  BY ByType
<1>2. e = Hlst(z, d.rnum)
  BY <1>1 DEF Hlst
<1>3. Hlst(z, d.rnum) \in Record
  BY <1>1, Kinds
<1> QED
  BY <1>2, <1>3 DEF Hlst

\* A new one.
LEMMA MadeHlst ==
  ASSUME NEW x \in [1..HlstItems -> Recs]
  PROVE  /\ Hlst(0, x) \in Record /\ Hlst(0, x).type = "hlst"
         /\ Hlst(0, x).next = 0 /\ Hlst(0, x).rnum = x
<1>1. 0 \in Recs
  BY RecsInterval
<1> QED
  BY <1>1, Kinds DEF Hlst

-----------------------------------------------------------------------------
\* Changes to the hash lists one after the other.
LEMMA AddedTrans ==
  ASSUME NEW v, NEW hl, NEW w, NEW nl, NEW r, Added(v, hl, w, nl, r),
         NEW u, NEW ml, Added(w, nl, u, ml, r)
  PROVE  Added(v, hl, u, ml, r)
  BY DEF Added

\* And what they leave.
LEMMA TrustTrans ==
  ASSUME NEW u, NEW v, NEW w, TrustSame(u, v), TrustSame(v, w)
  PROVE  TrustSame(u, w)
  BY DEF TrustSame

\* In the middle of upd_hashtable for the trust record r of k: all is well
\* but for that record.
Stage(s, a, n, K, hl, k, r) ==
  /\ Led(s, a, n, K) /\ Base(s.v, s.n) /\ Unique(s.v) /\ FreeOK(s.v)
  /\ ValOK(s.v) /\ Hung(s.v, hl)
  /\ k \in Keys /\ r \in Recs /\ IsTrust(s.v, r, k)
  /\ k \in K \/ s.v[r].ownertrust = Own(s.v, k)

\* The writes of upd_hashtable.
TableWrite(s, p, d) ==
  /\ p \in Recs /\ p # 0 /\ p < s.n /\ d \in Record
  /\ s.v[p].type \in {"hlst", "htbl", "unused"}
  /\ d.type \in {"hlst", "htbl"}
  /\ p = 1 => d.type = "htbl"

Staged(x, s, p, d) ==
  x.v = [s.v EXCEPT ![p] = d] /\ x.n = s.n /\ TrustSame(s.v, x.v)

\* One of these is done.
LEMMA StageWrite ==
  ASSUME NEW s, NEW a, NEW n, NEW K, NEW hl, NEW k, NEW r,
         Stage(s, a, n, K, hl, k, r), NEW p, NEW d, TableWrite(s, p, d),
         NEW nl, Added(s.v, hl, [s.v EXCEPT ![p] = d], nl, r)
  PROVE  /\ Stage(WriteRec(s, p, d), a, n, K, nl, k, r)
         /\ Staged(WriteRec(s, p, d), s, p, d)
<1> DEFINE v == s.v
           w == [v EXCEPT ![p] = d]
           x == WriteRec(s, p, d)
<1>1. /\ Led(s, a, n, K) /\ Base(v, s.n) /\ Unique(v) /\ FreeOK(v)
      /\ ValOK(v) /\ Hung(v, hl) /\ Top(v)
      /\ k \in Keys /\ r \in Recs /\ IsTrust(v, r, k)
      /\ k \in K \/ v[r].ownertrust = Own(v, k)
  BY DEF Stage, Base
<1>2. /\ p \in Recs /\ p # 0 /\ p < s.n /\ d \in Record
      /\ v[p].type \in {"hlst", "htbl", "unused"}
      /\ d.type \in {"hlst", "htbl"}
      /\ p = 1 => d.type = "htbl"
  BY DEF TableWrite
<1> HIDE DEF v
<1>3. Base(w, s.n)
  BY <1>1, <1>2, BaseWrite
<1>4. FreeOK(w)
  BY <1>1, <1>2, FreeKept
<1>5. ValOK(w)
  BY <1>1, <1>2, ValKept
<1>6. TrustSame(v, w)
  <2>1. \A q \in Recs : w[q] = IF q = p THEN d ELSE v[q]
    BY <1>1 DEF Top
  <2> HIDE DEF w
  <2> QED
    BY <1>2, <2>1 DEF TrustSame
<1>7. Top(w) /\ Added(v, hl, w, nl, r)
  BY <1>3 DEF Base, v
<1>8. /\ Quiet(v, w, K) /\ Unique(w) /\ Hung(w, nl) /\ IsTrust(w, r, k)
      /\ k \in K \/ w[r].ownertrust = Own(w, k)
  <2> HIDE DEF w
  <2> QED
    BY <1>1, <1>6, <1>7, AddedQuiet
<1>9. MayWrite(s, p, d, K)
  BY <1>1, <1>2, <1>8 DEF MayWrite, Top, v
<1>10. HasWritten(x, s, p, d, a, n, K)
  BY <1>1, <1>9, LedWrite, Zenon
<1> HIDE DEF x
<1>11. Led(x, a, n, K) /\ x.n = s.n /\ x.v = w
  BY <1>10 DEF HasWritten, v
<1>12. Staged(x, s, p, d)
  BY <1>6, <1>11 DEF Staged, v
<1> HIDE DEF w
<1>13. Stage(x, a, n, K, nl, k, r)
  BY <1>1, <1>3, <1>4, <1>5, <1>8, <1>11 DEF Stage
<1> QED
  BY <1>12, <1>13 DEF x

\* A record is allocated in between.
LEMMA StageAlloc ==
  ASSUME NEW s, NEW a, NEW n, NEW K, NEW hl, NEW k, NEW r,
         Stage(s, a, n, K, hl, k, r), HashIs(s.v, hl, {r}),
         Alloc(s).n \in Recs
  PROVE  /\ Stage(Alloc(s), a, n, K, hl, k, r)
         /\ HashIs(Alloc(s).v, hl, {r}) /\ Allotted(Alloc(s), s, {r})
<1> DEFINE t == Alloc(s)
<1>1. Good(s.v, s.n, {r})
  BY DEF Good, Core, Stage, HashOK
<1>2. Led(t, a, n, K) /\ Allotted(t, s, {r})
  BY <1>1, AllocGood DEF Stage
<1> HIDE DEF t
<1>3. /\ Good(t.v, t.n, {r}) /\ HashIs(t.v, hl, {r})
      /\ TrustSame(s.v, t.v) /\ Quiet(s.v, t.v, {})
  BY <1>2 DEF Allotted
<1>4. /\ k \in Keys /\ r \in Recs /\ IsTrust(s.v, r, k)
      /\ k \in K \/ s.v[r].ownertrust = Own(s.v, k)
  BY DEF Stage
<1>5. IsTrust(t.v, r, k) /\ t.v[r] = s.v[r] /\ Own(t.v, k) = Own(s.v, k)
  BY <1>3, <1>4 DEF IsTrust, TrustSame, Quiet
<1>6. Stage(t, a, n, K, hl, k, r)
  BY <1>2, <1>3, <1>4, <1>5 DEF Stage, Good, Core, HashIs
<1> QED
  BY <1>2, <1>3, <1>6 DEF t

\* What upd_hashtable does.
Updated(x, s, a, n, K) ==
  Led(x, a, n, K) /\ Good(x.v, x.n, {}) /\ TrustSame(s.v, x.v)

\* It is done when the record is in its place.
LEMMA StageDone ==
  ASSUME NEW s, NEW x, NEW a, NEW n, NEW K, NEW hl, NEW nl, NEW k, NEW r,
         Stage(s, a, n, K, hl, k, r), HashIs(s.v, hl, {r}),
         Stage(x, a, n, K, nl, k, r), TrustSame(s.v, x.v),
         Added(s.v, hl, x.v, nl, r), Shut(x.v, nl),
         Placed(x.v, nl, Bucket[k], r)
  PROVE  Updated(x, s, a, n, K)
<1>1. HashIs(x.v, nl, {})
  <2>1. Top(s.v) /\ k \in Keys /\ r \in Recs /\ IsTrust(s.v, r, k)
    BY DEF Stage, Base
  <2> QED
    BY <2>1, AddedHash
<1>2. Good(x.v, x.n, {})
  BY <1>1 DEF Good, Core, Stage, HashOK
<1> QED
  BY <1>2 DEF Updated, Stage

\* It was there before.
LEMMA StageThere ==
  ASSUME NEW s, NEW a, NEW n, NEW K, NEW hl, NEW k, NEW r,
         Stage(s, a, n, K, hl, k, r), HashIs(s.v, hl, {r}),
         Placed(s.v, hl, Bucket[k], r)
  PROVE  Updated(s, s, a, n, K)
<1>1. Added(s.v, hl, s.v, hl, r) /\ TrustSame(s.v, s.v) /\ Shut(s.v, hl)
  BY DEF Added, TrustSame, HashIs, Stage
<1> QED
  BY <1>1, StageDone

\* What upd_hashtable works on.
LEMMA StageFacts ==
  ASSUME NEW s, NEW a, NEW n, NEW K, NEW hl, NEW k, NEW r,
         Stage(s, a, n, K, hl, k, r)
  PROVE  /\ Top(s.v) /\ Bucket[k] \in Buckets /\ 1 \in Recs /\ r # 0
         /\ s.v[0].trusthashtbl = 1 /\ s.v[1].type = "htbl"
         /\ s.v[1] \in Record /\ Item(s.v, Bucket[k]) \in Recs
         /\ s.v[r].type = "trust" /\ r \in Recs /\ s.n \in Nat /\ 1 < s.n
         /\ Linked(s.v, Item(s.v, Bucket[k]), "hlst", hl[Bucket[k]])
         /\ Shape(s)
<1>1. Top(s.v) /\ k \in Keys /\ r \in Recs /\ IsTrust(s.v, r, k)
  BY DEF Stage, Base
<1>2. /\ Bucket[k] \in Buckets /\ 1 \in Recs /\ s.v[1] \in Record
      /\ Item(s.v, Bucket[k]) \in Recs
  BY <1>1, TopFacts
<1>3. /\ s.v[0].trusthashtbl = 1 /\ s.v[1].type = "htbl"
      /\ s.v[r].type = "trust" /\ r # 0
  BY <1>1 DEF Top, IsTrust
<1>4. s.n \in Nat /\ 1 < s.n
  BY DEF Stage, Base
<1>5. Linked(s.v, Item(s.v, Bucket[k]), "hlst", hl[Bucket[k]])
  BY <1>2 DEF Stage, Hung
<1>6. Shape(s)
  BY DEF Stage, Led
<1> QED
  BY <1>1, <1>2, <1>3, <1>4, <1>5, <1>6

\* A place of the table that has no list.
LEMMA NoList ==
  ASSUME NEW v, Top(v), NEW h, NEW L, Linked(v, h, "hlst", L)
  PROVE  L = <<>> <=> h = 0 \/ v[h].type # "hlst"
<1>1. CASE L = <<>>
  BY <1>1 DEF Linked, EndOf
<1>2. CASE L # <<>>
  <2>1. 1 \in 1..Len(L)
    BY <1>2, ListRec
  <2> QED
    BY <1>2, <2>1 DEF Linked
<1> QED
  BY <1>1, <1>2

\* The place of the table is empty.
LEMMA FirstGood ==
  ASSUME NEW s, NEW a, NEW n, NEW K, NEW hl, NEW k, NEW r,
         Stage(s, a, n, K, hl, k, r), HashIs(s.v, hl, {r}),
         Item(s.v, Bucket[k]) = 0
  PROVE  Updated(AddFirst(s, k, r), s, a, n, K)
<1> DEFINE b == Bucket[k]
           d == [s.v[1] EXCEPT !.item[b] = r]
           x == WriteRec(s, 1, d)
           w == [s.v EXCEPT ![1] = d]
<1>1. /\ Top(s.v) /\ b \in Buckets /\ 1 \in Recs /\ r # 0 /\ r \in Recs
      /\ s.v[0].trusthashtbl = 1 /\ s.v[1].type = "htbl"
      /\ s.v[1] \in Record /\ s.v[r].type = "trust" /\ 1 < s.n
  BY StageFacts
<1>2. AddFirst(s, k, r) = x
  BY <1>1 DEF AddFirst
<1>3. /\ d \in Record /\ d.type = "htbl"
      /\ d.item = [s.v[1].item EXCEPT ![b] = r]
  BY <1>1, OtherHtbl
<1> HIDE DEF d
<1>4. Hung(s.v, hl) /\ Shut(s.v, hl)
  BY DEF HashIs
<1>5. Added(s.v, hl, w, hl, r) /\ Shut(w, hl) /\ Placed(w, hl, b, r)
  BY <1>1, <1>3, <1>4, HashFirst
<1>6. TableWrite(s, 1, d)
  BY <1>1, <1>3 DEF TableWrite
<1>7. Stage(x, a, n, K, hl, k, r) /\ Staged(x, s, 1, d)
  BY <1>5, <1>6, StageWrite
<1> HIDE DEF x
<1>8. x.v = w /\ TrustSame(s.v, x.v)
  BY <1>7 DEF Staged
<1> HIDE DEF w
<1> QED
  BY <1>2, <1>5, <1>7, <1>8, StageDone

\* It has another trust record.
LEMMA ListGood ==
  ASSUME NEW s, NEW a, NEW n, NEW K, NEW hl, NEW k, NEW r,
         Stage(s, a, n, K, hl, k, r), HashIs(s.v, hl, {r}),
         hl[Bucket[k]] = <<>>, AddList(s, k, r).n \in Recs
  PROVE  Updated(AddList(s, k, r), s, a, n, K)
<1> DEFINE b == Bucket[k]
           t == Alloc(s)
           h == NewRecnum(s)
           old == Item(s.v, b)
           rnums == [i \in 1..HlstItems |->
                       IF i = 1 THEN old ELSE IF i = 2 THEN r ELSE 0]
           d == Hlst(0, rnums)
           y == WriteRec(t, h, d)
           e == [s.v[1] EXCEPT !.item[b] = h]
           x == WriteRec(y, 1, e)
           v1 == [t.v EXCEPT ![h] = d]
           v2 == [v1 EXCEPT ![1] = e]
           nl == [hl EXCEPT ![b] = <<h>>]
<1>1. /\ Top(s.v) /\ b \in Buckets /\ 1 \in Recs /\ r # 0 /\ r \in Recs
      /\ s.v[0].trusthashtbl = 1 /\ s.v[1].type = "htbl" /\ old \in Recs
      /\ s.v[1] \in Record /\ Shape(s)
  BY StageFacts
<1>2. AddList(s, k, r) = x
  BY <1>1 DEF AddList, Item
<1>3. t.n \in Recs
  <2>1. Grown(t, s)
    BY <1>1, AllocGrows
  <2> HIDE DEF t
  <2>2. Grown(y, t) /\ y.n = t.n
    BY <2>1, WriteGrows DEF Grown
  <2> HIDE DEF y
  <2>3. x.n = y.n
    BY <2>2, WriteGrows DEF Grown
  <2> QED
    BY <1>2, <2>2, <2>3
<1>4. /\ Stage(t, a, n, K, hl, k, r) /\ HashIs(t.v, hl, {r})
      /\ Allotted(t, s, {r})
  BY <1>3, StageAlloc
<1> HIDE DEF t
<1>5. /\ h \in Recs /\ h # 0 /\ h # 1 /\ h < t.n /\ t.v[h] = Unused
      /\ t.v[1] = s.v[1] /\ TrustSame(s.v, t.v)
  <2>1. \A q \in Recs : q # 0 /\ q # h => t.v[q] = s.v[q]
    BY <1>4 DEF Allotted
  <2> QED
    BY <1>1, <1>4, <2>1 DEF Allotted
<1> HIDE DEF h
<1>6. Top(t.v) /\ Hung(t.v, hl) /\ Shut(t.v, hl)
  BY <1>4, StageFacts DEF HashIs
<1>7. rnums \in [1..HlstItems -> Recs] /\ Item(t.v, b) = old
  BY <1>1, <1>5, RecsInterval DEF Item
<1> HIDE DEF old
<1>8. d \in Record /\ d.type = "hlst" /\ d.next = 0 /\ d.rnum = rnums
  BY <1>7, MadeHlst
<1>9. /\ e \in Record /\ e.type = "htbl"
      /\ e.item = [s.v[1].item EXCEPT ![b] = h]
  BY <1>1, <1>5, OtherHtbl
<1> HIDE DEF d, e, rnums
<1>10. /\ Added(t.v, hl, v1, hl, r) /\ Shut(v1, hl)
       /\ \A c \in Buckets : Item(v1, c) = Item(t.v, c) /\ ~InList(h, hl[c])
  BY <1>5, <1>6, <1>8, HashHead
<1>11. TableWrite(t, h, d)
  BY <1>5, <1>8 DEF TableWrite, Unused
<1>12. Stage(y, a, n, K, hl, k, r) /\ Staged(y, t, h, d)
  BY <1>4, <1>10, <1>11, StageWrite
<1>13. v1[h] = d /\ v1[1] = s.v[1]
  BY <1>1, <1>5, <1>6 DEF Top
<1> HIDE DEF y
<1>14. y.v = v1 /\ TrustSame(t.v, y.v) /\ y.n = t.n
  BY <1>12 DEF Staged
<1> HIDE DEF v1
<1>15. /\ Top(v1) /\ Hung(v1, hl) /\ 1 < y.n /\ v1[1] \in Record
  BY <1>12, <1>14, StageFacts DEF Stage
<1>16. Added(v1, hl, v2, nl, r) /\ Shut(v2, nl) /\ Placed(v2, nl, b, r)
  <2>1. /\ v1[h].type = "hlst" /\ v1[h].next = 0
        /\ v1[h].rnum = [i \in 1..HlstItems |-> IF i = 1 THEN Item(v1, b)
                                         ELSE IF i = 2 THEN r ELSE 0]
    BY <1>1, <1>7, <1>8, <1>10, <1>13 DEF rnums
  <2>2. e.item = [v1[1].item EXCEPT ![b] = h]
    BY <1>9, <1>13
  <2>3. \A c \in Buckets : ~InList(h, hl[c])
    BY <1>10
  <2> QED
    BY <1>1, <1>5, <1>9, <1>10, <1>15, <2>1, <2>2, <2>3, HashTable
<1>17. TableWrite(y, 1, e)
  BY <1>1, <1>9, <1>13, <1>14, <1>15 DEF TableWrite
<1>18. Stage(x, a, n, K, nl, k, r) /\ Staged(x, y, 1, e)
  <2>1. Added(y.v, hl, [y.v EXCEPT ![1] = e], nl, r)
    BY <1>14, <1>16
  <2> HIDE DEF nl
  <2> QED
    BY <1>12, <1>17, <2>1, StageWrite
<1> HIDE DEF x, nl
<1>19. x.v = v2 /\ TrustSame(y.v, x.v)
  BY <1>14, <1>18 DEF Staged
<1> HIDE DEF v2
<1>20. TrustSame(t.v, x.v) /\ TrustSame(s.v, x.v)
  BY <1>5, <1>14, <1>19 DEF TrustSame
<1>21. Added(t.v, hl, x.v, nl, r)
  BY <1>10, <1>16, <1>19, AddedTrans
<1>22. Updated(x, t, a, n, K)
  BY <1>4, <1>16, <1>18, <1>19, <1>20, <1>21, StageDone
<1> QED
  BY <1>2, <1>20, <1>22 DEF Updated

\* The last record of the list has a free place.
LEMMA PlaceGood ==
  ASSUME NEW s, NEW a, NEW n, NEW K, NEW hl, NEW k, NEW r,
         Stage(s, a, n, K, hl, k, r), HashIs(s.v, hl, {r}),
         hl[Bucket[k]] # <<>>, NEW q, q = hl[Bucket[k]][Len(hl[Bucket[k]])],
         NEW i \in 1..HlstItems, s.v[q].rnum[i] = 0
  PROVE  Updated(WriteRec(s, q, [s.v[q] EXCEPT !.rnum[i] = r]), s, a, n, K)
<1> DEFINE b == Bucket[k]
           d == [s.v[q] EXCEPT !.rnum[i] = r]
           x == WriteRec(s, q, d)
           w == [s.v EXCEPT ![q] = d]
<1>1. /\ Top(s.v) /\ b \in Buckets /\ r # 0 /\ r \in Recs
      /\ Linked(s.v, Item(s.v, b), "hlst", hl[b])
  BY StageFacts
<1>2. q \in Recs /\ q # 0 /\ s.v[q].type = "hlst" /\ s.v[q] \in Record
  <2>1. Len(hl[b]) \in Nat /\ Len(hl[b]) # 0
    BY <1>1, ListRec
  <2>2. Len(hl[b]) \in 1..Len(hl[b])
    BY <2>1
  <2>3. q \in Recs /\ q # 0 /\ s.v[q].type = "hlst"
    BY <1>1, <2>2, ListRec
  <2> QED
    BY <1>1, <2>3, TopFacts
<1>3. /\ d \in Record /\ d.type = "hlst" /\ d.next = s.v[q].next
      /\ d.rnum = [s.v[q].rnum EXCEPT ![i] = r]
  <2>1. PlaceSet(d, s.v[q], i, r)
    BY <1>1, <1>2, OtherPlace, Zenon
  <2> HIDE DEF d
  <2> QED
    BY <2>1 DEF PlaceSet
<1> HIDE DEF d
<1>4. Hung(s.v, hl) /\ Shut(s.v, hl)
  BY DEF HashIs
<1>5. Added(s.v, hl, w, hl, r) /\ Shut(w, hl) /\ Placed(w, hl, b, r)
  <2>1. /\ q = hl[b][Len(hl[b])] /\ hl[b] # <<>>
    OBVIOUS
  <2> HIDE DEF b
  <2>2. InPlace(s.v, w, hl, b, q, r)
    BY <1>1, <1>3, <1>4, <2>1, HashPlace
  <2> HIDE DEF w
  <2> QED
    BY <2>2 DEF InPlace
<1>6. TableWrite(s, q, d)
  <2>1. \A z \in Recs : s.n <= z => s.v[z] = Unused
    BY DEF Stage, Base
  <2>2. q < s.n
    <3>1. s.n \in Nat /\ q \in Nat
      BY <1>2, StageFacts, RecsAssumption
    <3>2. ~(s.n <= q)
      BY <1>2, <2>1 DEF Unused
    <3> QED
      BY <3>1, <3>2
  <2> QED
    BY <1>1, <1>2, <1>3, <2>2 DEF TableWrite, Top
<1>7. Stage(x, a, n, K, hl, k, r) /\ Staged(x, s, q, d)
  BY <1>5, <1>6, StageWrite
<1> HIDE DEF x
<1>8. x.v = w /\ TrustSame(s.v, x.v)
  BY <1>7 DEF Staged
<1> HIDE DEF w
<1>9. Updated(x, s, a, n, K)
  BY <1>5, <1>7, <1>8, StageDone
<1> QED
  BY <1>9 DEF x, d

\* A new list record behind the last one, q, of the list.
Behind(x, s, q, r) ==
  x = WriteRec(WriteRec(Alloc(s), q,
                        [Alloc(s).v[q] EXCEPT !.next = NewRecnum(s)]),
               NewRecnum(s),
               Hlst(0, [i \in 1..HlstItems |-> IF i = 1 THEN r ELSE 0]))

\* The list is full.
LEMMA ExtendGood ==
  ASSUME NEW s, NEW a, NEW n, NEW K, NEW hl, NEW k, NEW r,
         Stage(s, a, n, K, hl, k, r), HashIs(s.v, hl, {r}),
         hl[Bucket[k]] # <<>>, NEW q, q = hl[Bucket[k]][Len(hl[Bucket[k]])],
         NEW x, Behind(x, s, q, r), x.n \in Recs
  PROVE  Updated(x, s, a, n, K)
<1> DEFINE b == Bucket[k]
           t == Alloc(s)
           h == NewRecnum(s)
           rnums == [i \in 1..HlstItems |-> IF i = 1 THEN r ELSE 0]
           d == [t.v[q] EXCEPT !.next = h]
           y == WriteRec(t, q, d)
           e == Hlst(0, rnums)
           v1 == [t.v EXCEPT ![q] = d]
           v2 == [v1 EXCEPT ![h] = e]
           nl == [hl EXCEPT ![b] = Append(hl[b], h)]
<1>1. Top(s.v) /\ b \in Buckets /\ r # 0 /\ r \in Recs /\ Shape(s)
  BY StageFacts
<1>2. x = WriteRec(y, h, e)
  BY DEF Behind
<1>3. t.n \in Recs
  <2>1. Grown(t, s)
    BY <1>1, AllocGrows
  <2> HIDE DEF t, d, e, h
  <2>2. Grown(y, t) /\ y.n = t.n
    BY <2>1, WriteGrows DEF Grown
  <2> HIDE DEF y
  <2>3. x.n = y.n
    BY <1>2, <2>2, WriteGrows DEF Grown
  <2> QED
    BY <2>2, <2>3
<1>4. /\ Stage(t, a, n, K, hl, k, r) /\ HashIs(t.v, hl, {r})
      /\ Allotted(t, s, {r})
  BY <1>3, StageAlloc
<1> HIDE DEF t
<1>5. /\ h \in Recs /\ h # 0 /\ h # 1 /\ h < t.n /\ t.v[h] = Unused
      /\ TrustSame(s.v, t.v)
  BY <1>4 DEF Allotted
<1> HIDE DEF h
<1>6. /\ Top(t.v) /\ Hung(t.v, hl) /\ Shut(t.v, hl)
      /\ Linked(t.v, Item(t.v, b), "hlst", hl[b])
  BY <1>4, StageFacts DEF HashIs
<1>7. q \in Recs /\ q # 0 /\ t.v[q].type = "hlst" /\ t.v[q] \in Record
  <2>1. Len(hl[b]) \in Nat /\ Len(hl[b]) # 0
    BY <1>6, ListRec
  <2>2. Len(hl[b]) \in 1..Len(hl[b])
    BY <2>1
  <2>3. q \in Recs /\ q # 0 /\ t.v[q].type = "hlst"
    BY <1>6, <2>2, ListRec
  <2> QED
    BY <1>6, <2>3, TopFacts
<1>8. d \in Record /\ d.type = "hlst" /\ d.next = h /\ d.rnum = t.v[q].rnum
  BY <1>5, <1>7, OtherNext
<1>9. e \in Record /\ e.type = "hlst" /\ e.next = 0 /\ e.rnum = rnums
  <2>1. rnums \in [1..HlstItems -> Recs]
    BY <1>1, RecsInterval
  <2> QED
    BY <2>1, MadeHlst
<1> HIDE DEF d, e
<1>10. /\ q # h /\ Added(t.v, hl, v1, hl, r) /\ Open(v1, hl, b, h)
  <2>1. /\ Top(t.v) /\ Hung(t.v, hl) /\ Shut(t.v, hl) /\ b \in Buckets
        /\ hl[b] # <<>> /\ q = hl[b][Len(hl[b])]
        /\ h \in Recs /\ h # 0 /\ t.v[h] = Unused
        /\ d.type = "hlst" /\ d.next = h /\ d.rnum = t.v[q].rnum
    BY <1>1, <1>5, <1>6, <1>8
  <2>2. LinkedOn(t.v, v1, hl, b, q, h, r)
    BY <2>1, HashLinkOn
  <2> HIDE DEF v1, b
  <2> QED
    BY <2>2 DEF LinkedOn
<1>11. TableWrite(t, q, d)
  <2>1. \A z \in Recs : t.n <= z => t.v[z] = Unused
    BY <1>4 DEF Stage, Base
  <2>2. q < t.n
    <3>1. t.n \in Nat /\ q \in Nat
      BY <1>4, <1>7, StageFacts, RecsAssumption
    <3>2. ~(t.n <= q)
      BY <1>7, <2>1 DEF Unused
    <3> QED
      BY <3>1, <3>2
  <2> QED
    BY <1>6, <1>7, <1>8, <2>2 DEF TableWrite, Top
<1>12. Stage(y, a, n, K, hl, k, r) /\ Staged(y, t, q, d)
  BY <1>4, <1>10, <1>11, StageWrite
<1>13. v1[h] = Unused
  BY <1>5, <1>6, <1>10 DEF Top
<1> HIDE DEF y
<1>14. y.v = v1 /\ TrustSame(t.v, y.v) /\ y.n = t.n
  BY <1>12 DEF Staged
<1> HIDE DEF v1
<1>15. /\ Top(v1) /\ Hung(v1, hl)
  BY <1>12, <1>14, StageFacts DEF Stage
<1>16. Added(v1, hl, v2, nl, r) /\ Shut(v2, nl) /\ Placed(v2, nl, b, r)
  BY <1>1, <1>5, <1>9, <1>10, <1>13, <1>15, HashExtend
<1>17. TableWrite(y, h, e)
  BY <1>5, <1>9, <1>13, <1>14 DEF TableWrite, Unused
<1>18. Stage(x, a, n, K, nl, k, r) /\ Staged(x, y, h, e)
  <2>1. Added(y.v, hl, [y.v EXCEPT ![h] = e], nl, r)
    BY <1>14, <1>16
  <2> HIDE DEF nl
  <2> QED
    BY <1>2, <1>12, <1>17, <2>1, StageWrite
<1> HIDE DEF nl
<1>19. x.v = v2 /\ TrustSame(y.v, x.v)
  BY <1>14, <1>18 DEF Staged
<1> HIDE DEF v2
<1>20. TrustSame(t.v, x.v) /\ TrustSame(s.v, x.v)
  BY <1>5, <1>14, <1>19, TrustTrans
<1>21. Added(t.v, hl, x.v, nl, r)
  BY <1>10, <1>16, <1>19, AddedTrans
<1>22. Updated(x, t, a, n, K)
  BY <1>4, <1>16, <1>18, <1>19, <1>20, <1>21, StageDone
<1> QED
  BY <1>20, <1>22 DEF Updated

\* upd_hashtable puts a trust record where it is found.
LEMMA UpdHashtableGood ==
  ASSUME NEW s, NEW a, NEW n, NEW K, NEW hl, NEW k, NEW r,
         Stage(s, a, n, K, hl, k, r), HashIs(s.v, hl, {r}),
         UpdHashtable(s, k, r).n \in Recs
  PROVE  Updated(UpdHashtable(s, k, r), s, a, n, K)
<1> DEFINE b == Bucket[k]
           item == Item(s.v, b)
           L == hl[b]
           x == UpdHashtable(s, k, r)
<1>1. /\ Top(s.v) /\ b \in Buckets /\ r # 0 /\ r \in Recs /\ Shape(s)
      /\ s.v[0].trusthashtbl = 1 /\ s.v[1].type = "htbl" /\ item \in Recs
      /\ Linked(s.v, item, "hlst", L) /\ s.v[r].type = "trust"
  BY StageFacts
<1>2. L = <<>> <=> item = 0 \/ s.v[item].type # "hlst"
  BY <1>1, NoList
<1>3. HashList(s.v, item) = L
  BY <1>1, ChainIs DEF HashList
<1>4. /\ L = <<>> => item = 0 \/ s.v[item].type = "trust"
      /\ L # <<>> => EndOf(s.v, item, L) = 0
  BY <1>1 DEF HashIs, Shut
<1>5. /\ item = 0 => x = AddFirst(s, k, r)
      /\ item # 0 /\ item = r => x = s
      /\ item # 0 /\ item # r =>
           /\ s.v[item].type = "trust" => x = AddList(s, k, r)
           /\ s.v[item].type = "hlst" /\ Complete(s.v, L) =>
                x = AddToList(s, k, r, L)
  <2>1. s.v[s.v[0].trusthashtbl] = s.v[1]
        /\ s.v[s.v[0].trusthashtbl].item[Bucket[k]] = item
    BY <1>1 DEF Item
  <2> HIDE DEF item, L
  <2> QED
    BY <1>1, <1>3, <2>1 DEF UpdHashtable
<1>6. CASE item = 0
  BY <1>5, <1>6, FirstGood
<1>7. CASE item # 0 /\ item = r
  <2>1. Placed(s.v, hl, b, r)
    BY <1>1, <1>2, <1>7 DEF Placed
  <2>2. Updated(s, s, a, n, K)
    BY <2>1, StageThere
  <2> QED
    BY <1>5, <1>7, <2>2
<1>8. CASE item # 0 /\ item # r /\ L = <<>>
  <2>1. x = AddList(s, k, r)
    BY <1>4, <1>5, <1>8
  <2> QED
    BY <1>8, <2>1, ListGood
<1>9. CASE item # 0 /\ item # r /\ L # <<>>
  <2>1. s.v[item].type = "hlst" /\ Complete(s.v, L)
    BY <1>2, <1>4, <1>9 DEF Complete, EndOf
  <2>2. x = AddToList(s, k, r, L)
    BY <1>5, <1>9, <2>1
  <2> DEFINE q == L[Len(L)]
             free == {i \in 1..HlstItems : s.v[q].rnum[i] = 0}
             there == \E j \in DOMAIN L : \E i \in 1..HlstItems :
                        s.v[L[j]].rnum[i] = r
             s1 == Alloc(s)
             y == WriteRec(WriteRec(s1, q, [s1.v[q] EXCEPT
                                              !.next = NewRecnum(s)]),
                           NewRecnum(s),
                           Hlst(0, [i \in 1..HlstItems |->
                                      IF i = 1 THEN r ELSE 0]))
  <2>3. /\ there => x = s
        /\ ~there /\ free # {} =>
             x = WriteRec(s, q, [s.v[q] EXCEPT !.rnum[Min(free)] = r])
        /\ ~there /\ free = {} => x = y
    <3> HIDE DEF L, x
    <3> QED
      BY <2>2 DEF AddToList
  <2>4. CASE there
    <3>1. DOMAIN L = 1..Len(L)
      BY <1>1, SeqFacts DEF Linked
    <3>2. Placed(s.v, hl, b, r)
      BY <1>9, <2>4, <3>1 DEF Placed
    <3>3. Updated(s, s, a, n, K)
      BY <3>2, StageThere
    <3> QED
      BY <2>3, <2>4, <3>3
  <2>5. CASE ~there /\ free # {}
    <3>1. free \subseteq Nat
      OBVIOUS
    <3> DEFINE i == Min(free)
    <3>2. i \in free
      BY <2>5, <3>1, MinIsMember
    <3> HIDE DEF i
    <3>3. i \in 1..HlstItems /\ s.v[q].rnum[i] = 0
      BY <3>2
    <3>4. Updated(WriteRec(s, q, [s.v[q] EXCEPT !.rnum[i] = r]), s, a, n, K)
      BY <1>9, <3>3, PlaceGood
    <3> QED
      BY <2>3, <2>5, <3>4 DEF i
  <2>6. CASE ~there /\ free = {}
    <3>1. x = y /\ y.n \in Recs
      BY <2>3, <2>6
    <3>2. Behind(y, s, q, r)
      BY DEF Behind
    <3> HIDE DEF y
    <3>3. Updated(y, s, a, n, K)
      BY <1>9, <3>1, <3>2, ExtendGood
    <3> QED
      BY <3>1, <3>3
  <2> QED
    BY <2>4, <2>5, <2>6
<1> QED
  BY <1>6, <1>7, <1>8, <1>9

\* A trust record can be written: it is new or replaces one of its key, no
\* other has the key, and its ownertrust is the one that was read or that of
\* a key in K.
TrustWrite(s, r, d, K) ==
  /\ r \in Recs /\ r < s.n /\ d \in Record /\ d.type = "trust"
  /\ Core(s.v, s.n, {}) /\ ValOK([s.v EXCEPT ![r] = d])
  /\ s.v[r] = Unused \/ IsTrust(s.v, r, d.fpr)
  /\ \A q \in Recs : IsTrust(s.v, q, d.fpr) => q = r
  /\ d.fpr \in K \/ d.ownertrust = Own(s.v, d.fpr)

TrustWritten(x, r, d, a, n, K) ==
  Led(x, a, n, K) /\ Good(x.v, x.n, {}) /\ x.v[r] = d

\* tdbio_write_record for such a record.
LEMMA WriteTrustGood ==
  ASSUME NEW s, NEW a, NEW n, NEW K, Led(s, a, n, K), NEW r, NEW d,
         TrustWrite(s, r, d, K), WriteTrust(s, r, d).n \in Recs
  PROVE  TrustWritten(WriteTrust(s, r, d), r, d, a, n, K)
<1> DEFINE v == s.v
           w == [v EXCEPT ![r] = d]
           k == d.fpr
           y == WriteRec(s, r, d)
           x == UpdHashtable(y, k, r)
<1>1. /\ r \in Recs /\ r < s.n /\ d \in Record /\ d.type = "trust"
      /\ Base(v, s.n) /\ Top(v) /\ Unique(v) /\ FreeOK(v)
      /\ v[r] = Unused \/ IsTrust(v, r, k)
      /\ \A q \in Recs : IsTrust(v, q, k) => q = r
      /\ k \in K \/ d.ownertrust = Own(v, k)
  BY DEF TrustWrite, Core, Base
<1>2. PICK hl : HashIs(v, hl, {})
  BY DEF TrustWrite, Core, HashOK
<1>3. ValOK(w)
  BY DEF TrustWrite
<1>4. k \in Keys
  BY <1>1, ByType
<1>5. WriteTrust(s, r, d) = x
  BY DEF WriteTrust, Led
<1> HIDE DEF v, k
<1>6. /\ v[r].type \in {"unused", "trust"} /\ r # 0 /\ r # 1
  BY <1>1 DEF Unused, IsTrust, Top
<1>7. Base(w, s.n)
  BY <1>1, <1>6, BaseWrite
<1>8. Top(w)
  BY <1>7 DEF Base
<1>9. FreeOK(w)
  BY <1>1, <1>6, FreeKept
<1>10. Unique(w)
  BY <1>1, UniqueKept DEF k
<1>11. Hung(v, hl) /\ Shut(v, hl)
  BY <1>2 DEF HashIs
<1>12. /\ Quiet(v, w, K)
       /\ k \in K \/ d.ownertrust = Own(w, k)
  BY <1>1, <1>4, <1>6, <1>8, <1>11, TrustQuiet DEF k
<1>13. /\ Hung(w, hl)
       /\ \A b \in Buckets :
            /\ Item(w, b) = Item(v, b)
            /\ EndOf(w, Item(w, b), hl[b]) = EndOf(v, Item(v, b), hl[b])
            /\ \A q : Placed(w, hl, b, q) <=> Placed(v, hl, b, q)
  BY <1>1, <1>6, <1>11, HungKept
<1>14. \A q \in Recs : w[q] = IF q = r THEN d ELSE v[q]
  BY <1>1 DEF Top
<1>15. MayWrite(s, r, d, K)
  BY <1>1, <1>12 DEF MayWrite, Top, v
<1>16. HasWritten(y, s, r, d, a, n, K)
  BY <1>15, LedWrite, Zenon
<1> HIDE DEF y
<1>17. Led(y, a, n, K) /\ y.n = s.n /\ y.v = w
  BY <1>16 DEF HasWritten, v
<1> HIDE DEF w
<1>18. \A b \in Buckets : Item(v, b) \in Recs
  BY <1>1, TopFacts
<1>19. HashIs(w, hl, {r})
  <2>1. Shut(w, hl)
    BY <1>1, <1>11, <1>13, <1>14, <1>18 DEF Shut
  <2>2. ASSUME NEW j \in Keys, NEW q \in Recs, q # r, IsTrust(w, q, j)
        PROVE  Placed(w, hl, Bucket[j], q)
    <3>1. IsTrust(v, q, j) /\ Bucket[j] \in Buckets
      BY <1>1, <1>14, <2>2, TopFacts DEF IsTrust
    <3>2. Placed(v, hl, Bucket[j], q)
      BY <1>2, <3>1 DEF HashIs
    <3> QED
      BY <1>13, <3>1, <3>2
  <2> QED
    BY <1>13, <2>1, <2>2 DEF HashIs
<1>20. IsTrust(w, r, k) /\ w[r] = d
  BY <1>1, <1>14 DEF IsTrust, k
<1>21. Stage(y, a, n, K, hl, k, r)
  BY <1>1, <1>3, <1>4, <1>7, <1>9, <1>10, <1>12, <1>13, <1>17, <1>20
     DEF Stage, w
<1>22. HashIs(y.v, hl, {r}) /\ x.n \in Recs
  BY <1>5, <1>17, <1>19
<1>23. Updated(x, y, a, n, K)
  BY <1>21, <1>22, UpdHashtableGood
<1> HIDE DEF x
<1>24. x.v[r] = d
  BY <1>1, <1>17, <1>20, <1>23 DEF Updated, TrustSame
<1>25. TrustWritten(x, r, d, a, n, K)
  BY <1>23, <1>24 DEF TrustWritten, Updated
<1> QED
  BY <1>5, <1>25

\* A plain record is written, and the free list is not touched.
PlainWritten(x, s, p, d, a, n, K) ==
  /\ HasWritten(x, s, p, d, a, n, K) /\ Good(x.v, x.n, {})
  /\ TrustSame(s.v, x.v) /\ Quiet(s.v, x.v, {})

\* The version record or a validity record.
LEMMA PlainGood ==
  ASSUME NEW s, NEW a, NEW n, NEW K, Led(s, a, n, K), Good(s.v, s.n, {}),
         NEW p, NEW d, Plain(s.v, p, d), p < s.n,
         s.v[p].type # "free", d.type # "free",
         p = 0 => d.firstfree = s.v[0].firstfree
  PROVE  PlainWritten(WriteRec(s, p, d), s, p, d, a, n, K)
<1> DEFINE v == s.v
           w == [v EXCEPT ![p] = d]
           x == WriteRec(s, p, d)
<1>1. /\ Base(v, s.n) /\ Top(v) /\ Unique(v) /\ FreeOK(v) /\ ValOK(v)
      /\ p \in Recs /\ d \in Record /\ p # 1
      /\ v[p].type \notin {"hlst", "trust"} /\ d.type \notin {"hlst", "trust"}
      /\ p = 0 => d.type = "ver" /\ d.trusthashtbl = 1
  BY DEF Good, Core, Base, Plain
<1>2. PICK hl : HashIs(v, hl, {})
  BY DEF Good, Core, HashOK
<1>3. /\ Top(w) /\ Unique(w) /\ ValOK(w) /\ HashIs(w, hl, {})
      /\ \A L : Quiet(v, w, L)
  BY <1>1, <1>2, PlainWrite
<1>4. Base(w, s.n)
  BY <1>1, BaseWrite
<1>5. FreeOK(w)
  BY <1>1, FreeKept
<1>6. \A q \in Recs : w[q] = IF q = p THEN d ELSE v[q]
  BY <1>1 DEF Top
<1>7. MayWrite(s, p, d, K)
  BY <1>1, <1>3 DEF MayWrite, Top
<1>8. HasWritten(x, s, p, d, a, n, K)
  BY <1>7, LedWrite, Zenon
<1> HIDE DEF x
<1>9. x.v = w /\ x.n = s.n
  BY <1>8 DEF HasWritten
<1> HIDE DEF w
<1>10. TrustSame(v, w)
  BY <1>1, <1>6 DEF TrustSame
<1>11. Good(w, s.n, {}) /\ Quiet(v, w, {})
  BY <1>3, <1>4, <1>5 DEF Good, Core, HashOK
<1>12. PlainWritten(x, s, p, d, a, n, K)
  BY <1>8, <1>9, <1>10, <1>11 DEF PlainWritten
<1> QED
  BY <1>12 DEF x

\* The nextcheck of the version record.
LEMMA NextcheckGood ==
  ASSUME NEW s, NEW a, NEW n, NEW K, Led(s, a, n, K), Good(s.v, s.n, {}),
         NEW c \in {0, 1}
  PROVE  LET d == [s.v[0] EXCEPT !.nextcheck = c] IN
         PlainWritten(WriteRec(s, 0, d), s, 0, d, a, n, K)
<1> DEFINE d == [s.v[0] EXCEPT !.nextcheck = c]
<1>1. Top(s.v) /\ s.n \in Nat /\ 2 <= s.n
  BY DEF Good, Core, Base
<1>2. /\ 0 \in Recs /\ s.v[0] \in Record /\ s.v[0].type = "ver"
      /\ s.v[0].trusthashtbl = 1
  BY <1>1, TopFacts DEF Top
<1>3. /\ d \in Record /\ d.type = "ver" /\ d.trusthashtbl = 1
      /\ d.firstfree = s.v[0].firstfree
  BY <1>2, OtherVer
<1> HIDE DEF d
<1>4. Plain(s.v, 0, d) /\ 0 < s.n
  BY <1>1, <1>2, <1>3 DEF Plain
<1> QED
  BY <1>2, <1>3, <1>4, PlainGood DEF d

\* What an update ends with.
Marked(x, s, a, n, K) ==
  Led(x, a, n, K) /\ Good(x.v, x.n, {}) /\ TrustSame(s.v, x.v)

\* tdb_revalidation_mark.
LEMMA MarkGood ==
  ASSUME NEW s, NEW a, NEW n, NEW K, Led(s, a, n, K), Good(s.v, s.n, {})
  PROVE  Marked(Mark(s), s, a, n, K)
<1> DEFINE d == [s.v[0] EXCEPT !.nextcheck = 1]
           x == WriteRec(s, 0, d)
<1>1. PlainWritten(x, s, 0, d, a, n, K)
  BY NextcheckGood
<1> HIDE DEF x
<1>2. Marked(x, s, a, n, K)
  BY <1>1 DEF PlainWritten, HasWritten, Marked
<1>3. Marked(s, s, a, n, K)
  BY DEF Marked, TrustSame
<1>4. Mark(s) = x \/ Mark(s) = s
  BY DEF Mark, x
<1> QED
  BY <1>2, <1>3, <1>4

\* In a database that works, a trust record is found, and its ownertrust is
\* the one that is read.
LEMMA OwnGood ==
  ASSUME NEW v, NEW n, Good(v, n, {}), NEW k \in Keys, NEW r,
         IsTrust(v, r, k)
  PROVE  Own(v, k) = v[r].ownertrust /\ Lookup(v, k) = r /\ r \in Recs
         /\ r > 0
<1>1. Top(v) /\ Unique(v)
  BY DEF Good, Core, Base
<1>2. PICK hl : HashIs(v, hl, {})
  BY DEF Good, Core, HashOK
<1>3. r \in Recs
  BY DEF IsTrust
<1>4. Found(v, hl, k, r) /\ Hung(v, hl)
  BY <1>2, <1>3 DEF Found, HashIs
<1> QED
  BY <1>1, <1>3, <1>4, OwnIs, LookupPlaced

\* If none is found, there is none.
LEMMA NoneGood ==
  ASSUME NEW v, NEW n, Good(v, n, {}), NEW k \in Keys, Lookup(v, k) = 0
  PROVE  Own(v, k) = 0 /\ \A r \in Recs : ~IsTrust(v, r, k)
<1>1. Own(v, k) = 0
  BY DEF Own
<1>2. ASSUME NEW r \in Recs, IsTrust(v, r, k) PROVE FALSE
  BY <1>2, OwnGood
<1> QED
  BY <1>1, <1>2

\* A validity record is put in front of the list of the trust record d, which
\* is there already or new.
PrependTo(s, r, d, K) ==
  /\ r \in Recs /\ r < s.n /\ d \in Record /\ d.type = "trust"
  /\ (s.v[r] = Unused /\ d.validlist = 0) \/ s.v[r] = d
  /\ \A q \in Recs : IsTrust(s.v, q, d.fpr) => q = r
  /\ d.fpr \in K \/ d.ownertrust = Own(s.v, d.fpr)

\* It is done.
LEMMA PrependGood ==
  ASSUME NEW s, NEW a, NEW n, NEW K, Led(s, a, n, K), Good(s.v, s.n, {}),
         NEW r, NEW d, PrependTo(s, r, d, K), NEW u \in Names,
         NEW z \in Values, NEW x,
         x = WriteTrust(WriteRec(Alloc(s), NewRecnum(s),
                                 Valid(u, z, d.validlist)),
                        r, [d EXCEPT !.validlist = NewRecnum(s)]),
         x.n \in Recs
  PROVE  Led(x, a, n, K) /\ Good(x.v, x.n, {})
<1> DEFINE t == Alloc(s)
           h == NewRecnum(s)
           e == Valid(u, z, d.validlist)
           c == [d EXCEPT !.validlist = h]
           k == d.fpr
           y == WriteRec(t, h, e)
           v == t.v
           w == [v EXCEPT ![h] = e]
<1>1. /\ r \in Recs /\ r < s.n /\ d \in Record /\ d.type = "trust"
      /\ (s.v[r] = Unused /\ d.validlist = 0) \/ s.v[r] = d
      /\ \A q \in Recs : IsTrust(s.v, q, k) => q = r
      /\ k \in K \/ d.ownertrust = Own(s.v, k)
  BY DEF PrependTo
<1>2. /\ d = Trust(k, d.ownertrust, d.validlist) /\ k \in Keys
      /\ d.ownertrust \in Values /\ d.validlist \in Recs
  BY <1>1, ByType
<1>3. x = WriteTrust(y, r, c) /\ Shape(s)
  BY DEF Led
<1>4. t.n \in Recs
  <2>1. Grown(t, s)
    BY <1>3, AllocGrows
  <2> HIDE DEF t
  <2>2. Grown(y, t) /\ y.n = t.n
    BY <2>1, WriteGrows DEF Grown
  <2> HIDE DEF y, c
  <2>3. Grown(x, y)
    BY <1>3, <2>2, TrustGrows DEF Grown
  <2>4. y.n \in Recs
    BY <2>3, GrownRecs
  <2> QED
    BY <2>2, <2>4
<1>5. Led(t, a, n, K) /\ Allotted(t, s, {})
  BY <1>4, AllocGood
<1> HIDE DEF t
<1>6. /\ h \in Recs /\ h # 0 /\ h # 1 /\ h < t.n /\ v[h] = Unused
      /\ Good(v, t.n, {}) /\ TrustSame(s.v, v) /\ Quiet(s.v, v, {})
      /\ s.n <= t.n
      /\ \A q \in Recs : q < s.n /\ s.v[q].type # "free" => q # h
      /\ \A q \in Recs : q # 0 /\ q # h => v[q] = s.v[q]
  BY <1>5 DEF Allotted
<1> HIDE DEF h, v, k
<1>7. s.n \in Nat /\ t.n \in Nat /\ r \in Nat /\ Top(s.v)
  BY <1>1, <1>6, RecsAssumption DEF Good, Core, Base
<1>8. /\ r # 0 /\ r # h /\ r < t.n /\ v[r] = s.v[r]
  <2>1. s.v[r].type \in {"trust", "unused"}
    BY <1>1 DEF Unused
  <2>2. r # 0 /\ r # h
    BY <1>1, <1>6, <1>7, <2>1 DEF Top
  <2> QED
    BY <1>1, <1>6, <1>7, <2>2
<1>9. /\ e \in Record /\ e.type = "valid" /\ e.next = d.validlist
  BY <1>2, Kinds DEF Valid
<1>10. c = Trust(k, d.ownertrust, h)
  BY <1>2 DEF Trust
<1>11. /\ c \in Record /\ c.type = "trust" /\ c.fpr = k
       /\ c.validlist = h /\ c.ownertrust = d.ownertrust
  BY <1>2, <1>6, <1>10, Kinds DEF Trust
<1> HIDE DEF e, c
<1>12. /\ Base(v, t.n) /\ Top(v) /\ Unique(v) /\ FreeOK(v) /\ ValOK(v)
  BY <1>6 DEF Good, Core, Base
<1>13. PICK hl : HashIs(v, hl, {})
  BY <1>6 DEF Good, Core, HashOK
<1>14. v[h].type = "unused" /\ Hung(v, hl)
  BY <1>6, <1>13 DEF Unused, HashIs
<1>15. Base(w, t.n)
  BY <1>6, <1>9, <1>12, BaseWrite
<1>16. Top(w)
  BY <1>15 DEF Base
<1>17. Unique(w)
  BY <1>6, <1>9, <1>12, UniqueKept
<1>18. FreeOK(w)
  BY <1>6, <1>9, <1>12, <1>14, FreeKept
<1>19. HashIs(w, hl, {})
  BY <1>6, <1>9, <1>12, <1>13, <1>14, HashKept
<1>20. Quiet(v, w, K) /\ Quiet(v, w, {})
  BY <1>6, <1>9, <1>12, <1>14, <1>16, AsideQuiet
<1>21. \A q \in Recs : w[q] = IF q = h THEN e ELSE v[q]
  BY <1>12 DEF Top
<1>22. ValOK([w EXCEPT ![r] = c])
  <2>1. CASE s.v[r] = d
    <3>1. v[r].type = "trust" /\ e.next = v[r].validlist
      BY <1>1, <1>8, <1>9, <2>1
    <3> QED
      BY <1>1, <1>6, <1>9, <1>11, <1>12, <3>1, ValPrepend
  <2>2. CASE s.v[r] = Unused /\ d.validlist = 0
    <3> DEFINE o == [v EXCEPT ![r] = d]
               p == [[o EXCEPT ![h] = e] EXCEPT ![r] = c]
    <3>1. ValOK(o)
      BY <1>1, <1>8, <1>12, <2>2, ValNew
    <3>2. Top(o)
      <4>1. r # 1
        BY <1>8, <1>12, <2>2 DEF Top, Unused
      <4> QED
        BY <1>1, <1>8, <1>12, <4>1, TopKept
    <3>3. o[r] = d /\ o[h] = Unused
      BY <1>1, <1>6, <1>8, <1>12 DEF Top
    <3>6. p = [w EXCEPT ![r] = c]
      BY <1>1, <1>6, <1>8, <1>12 DEF Top
    <3> HIDE DEF o
    <3>4. o[r].type = "trust" /\ e.next = o[r].validlist
      BY <1>1, <1>9, <2>2, <3>3
    <3>5. ValOK(p)
      BY <1>1, <1>6, <1>9, <1>11, <3>1, <3>2, <3>3, <3>4, ValPrepend
    <3> QED
      BY <3>5, <3>6
  <2> QED
    BY <1>1, <2>1, <2>2
<1>23. Led(y, a, n, K) /\ y.n = t.n /\ y.v = w
  <2>1. MayWrite(t, h, e, K)
    BY <1>6, <1>9, <1>12, <1>20 DEF MayWrite, Top, v
  <2>2. HasWritten(y, t, h, e, a, n, K)
    BY <1>5, <2>1, LedWrite, Zenon
  <2> HIDE DEF y
  <2> QED
    BY <2>2 DEF HasWritten, v
<1> HIDE DEF y, w
<1>24. w[r] = s.v[r]
  BY <1>1, <1>8, <1>21
<1>25. \A q \in Recs : IsTrust(w, q, k) => IsTrust(s.v, q, k)
  BY <1>6, <1>9, <1>21 DEF IsTrust, TrustSame
<1>26. Own(w, k) = Own(s.v, k)
  BY <1>2, <1>6, <1>20 DEF Quiet
<1>27. TrustWrite(y, r, c, K)
  <2>1. w[r] = Unused \/ IsTrust(w, r, k)
    BY <1>1, <1>24 DEF IsTrust, k
  <2>2. Core(w, t.n, {})
    BY <1>15, <1>17, <1>18, <1>19 DEF Core, HashOK
  <2> QED
    BY <1>1, <1>8, <1>11, <1>22, <1>23, <1>25, <1>26, <2>1, <2>2
       DEF TrustWrite
<1>28. TrustWritten(x, r, c, a, n, K)
  BY <1>3, <1>23, <1>27, WriteTrustGood
<1> QED
  BY <1>28 DEF TrustWritten

\* A validity record with another validity.
LEMMA OtherValid ==
  ASSUME NEW d \in Record, d.type = "valid", NEW z \in Values
  PROVE  LET e == [d EXCEPT !.validity = z] IN
         e \in Record /\ e.type = "valid" /\ e.next = d.next
<1>1. /\ d = Valid(d.name, d.validity, d.next) /\ d.name \in Names
      /\ d.next \in Recs
  BY ByType
<1>2. [d EXCEPT !.validity = z] = Valid(d.name, z, d.next)
  BY <1>1 DEF Valid
<1>3. Valid(d.name, z, d.next) \in Record
  BY <1>1, Kinds
<1> QED
  BY <1>2, <1>3 DEF Valid

\* update_validity.
LEMMA SetValidityGood ==
  ASSUME NEW s, NEW a, NEW n, NEW K, Led(s, a, n, K), Good(s.v, s.n, {}),
         NEW r, NEW d, PrependTo(s, r, d, K), NEW u \in Names,
         NEW z \in Values, SetValidity(s, r, d, u, z).n \in Recs
  PROVE  /\ Led(SetValidity(s, r, d, u, z), a, n, K)
         /\ Good(SetValidity(s, r, d, u, z).v,
                 SetValidity(s, r, d, u, z).n, {})
<1> DEFINE v == s.v
           x == SetValidity(s, r, d, u, z)
           k == d.fpr
<1>1. /\ r \in Recs /\ r < s.n /\ d \in Record /\ d.type = "trust"
      /\ (v[r] = Unused /\ d.validlist = 0) \/ v[r] = d
      /\ \A q \in Recs : IsTrust(v, q, k) => q = r
      /\ k \in K \/ d.ownertrust = Own(v, k)
  BY DEF PrependTo
<1>2. Top(v) /\ ValOK(v) /\ Base(v, s.n)
  BY DEF Good, Core, Base
<1>3. PICK L : /\ Linked(v, d.validlist, "valid", L)
               /\ EndOf(v, d.validlist, L) = 0
               /\ v[r] = Unused => L = <<>>
  <2>1. CASE v[r] = d
    <3>1. PICK vl : ValIs(v, vl)
      BY <1>2 DEF ValOK
    <3>2. /\ Linked(v, d.validlist, "valid", vl[r])
          /\ EndOf(v, d.validlist, vl[r]) = 0
      BY <1>1, <2>1, <3>1 DEF ValIs
    <3> QED
      BY <1>1, <2>1, <3>2 DEF Unused
  <2>2. CASE v[r] = Unused /\ d.validlist = 0
    <3>1. Len(<<>>) = 0 /\ <<>> \in Seq(Recs) /\ 1..0 = {}
      BY EmptySeq
    <3>2. Linked(v, d.validlist, "valid", <<>>)
          /\ EndOf(v, d.validlist, <<>>) = 0
      BY <2>2, <3>1 DEF Linked, EndOf
    <3> QED
      BY <3>2
  <2> QED
    BY <1>1, <2>1, <2>2
<1>4. ValidList(v, d.validlist) = L
  BY <1>3, ChainIs DEF ValidList
<1>5. DOMAIN L = 1..Len(L) /\ Len(L) \in Nat
  BY <1>3, SeqFacts DEF Linked
<1> DEFINE old == {j \in DOMAIN L : v[L[j]].name = u}
           q == L[Min(old)]
           e == [v[q] EXCEPT !.validity = z]
           y == WriteRec(s, q, e)
           p == WriteTrust(WriteRec(Alloc(s), NewRecnum(s),
                                    Valid(u, z, d.validlist)),
                           r, [d EXCEPT !.validlist = NewRecnum(s)])
<1>6. /\ old # {} => x = WriteTrust(y, r, d)
      /\ old = {} => x = p
  <2>1. (IF L = <<>> THEN d.validlist ELSE v[L[Len(L)]].next) = 0
    BY <1>3 DEF EndOf
  <2> QED
    BY <1>4, <2>1 DEF SetValidity
<1>7. CASE old = {}
  <2>1. x = p
    BY <1>6, <1>7
  <2> HIDE DEF x
  <2>2. Led(x, a, n, K) /\ Good(x.v, x.n, {})
    <3>1. x.n \in Recs
      BY DEF x
    <3> QED
      BY <2>1, <3>1, PrependGood
  <2> QED
    BY <2>2 DEF x
<1>8. CASE old # {}
  <2>1. Min(old) \in old
    <3>1. old \subseteq Nat
      BY <1>5
    <3> HIDE DEF old
    <3> QED
      BY <1>8, <3>1, MinIsMember
  <2>2. Min(old) \in 1..Len(L) /\ L # <<>>
    <3> HIDE DEF x
    <3>1. Min(old) \in DOMAIN L
      BY <2>1
    <3> HIDE DEF old
    <3> QED
      BY <1>5, <3>1
  <2>3. x = WriteTrust(y, r, d)
    BY <1>6, <1>8
  <2> HIDE DEF q
  <2>4. q \in Recs /\ q # 0 /\ v[q].type = "valid" /\ v[q] \in Record
    <3>2. \A i \in 1..Len(L) : L[i] \in Recs /\ L[i] # 0
                                /\ v[L[i]].type = "valid"
      BY <1>2, <1>3, ListRec
    <3>1. q \in Recs /\ q # 0 /\ v[q].type = "valid"
      BY <2>2, <3>2, Zenon DEF q
    <3> QED
      BY <1>2, <3>1, TopFacts
  <2>5. v[r] = d
    BY <1>1, <1>3, <2>2
  <2>6. e \in Record /\ e.type = "valid" /\ e.next = v[q].next
    BY <2>4, OtherValid
  <2>7. q < s.n
    <3>1. \A i \in Recs : s.n <= i => v[i] = Unused
      BY <1>2 DEF Base
    <3>2. ~(s.n <= q)
      BY <2>4, <3>1 DEF Unused
    <3> QED
      BY <1>2, <2>4, <3>2, RecsAssumption DEF Base
  <2> HIDE DEF e
  <2>8. Plain(s.v, q, e)
    BY <1>2, <2>4, <2>6 DEF Plain, Top
  <2>9. PlainWritten(y, s, q, e, a, n, K)
    BY <2>4, <2>6, <2>7, <2>8, PlainGood
  <2> HIDE DEF y
  <2>10. /\ Led(y, a, n, K) /\ y.n = s.n /\ Good(y.v, y.n, {})
         /\ TrustSame(v, y.v) /\ Quiet(v, y.v, {})
    BY <2>9 DEF PlainWritten, HasWritten
  <2> HIDE DEF v
  <2>11. y.v[r] = d /\ k \in Keys
    BY <1>1, <2>5, <2>10, ByType DEF TrustSame
  <2>12. y.v \in [Recs -> Record]
    BY <2>10 DEF Good, Core, Base, Top
  <2>13. [y.v EXCEPT ![r] = d] = y.v
    BY <1>1, <2>11, <2>12
  <2>14. ValOK([y.v EXCEPT ![r] = d])
    BY <2>10, <2>13 DEF Good
  <2> HIDE DEF k
  <2>15. /\ \A i \in Recs : IsTrust(y.v, i, k) => i = r
         /\ IsTrust(y.v, r, k)
    <3>1. \A i \in Recs : IsTrust(y.v, i, k) => IsTrust(v, i, k)
      BY <2>10 DEF IsTrust, TrustSame
    <3>2. IsTrust(y.v, r, k)
      BY <1>1, <2>11 DEF IsTrust, k
    <3> QED
      BY <1>1, <3>1, <3>2
  <2>16. k \in K \/ d.ownertrust = Own(y.v, k)
    BY <1>1, <2>10, <2>11 DEF Quiet
  <2>17. TrustWrite(y, r, d, K)
    BY <1>1, <2>10, <2>14, <2>15, <2>16 DEF TrustWrite, Good, k
  <2>18. WriteTrust(y, r, d).n \in Recs
    BY <2>3
  <2> HIDE DEF x
  <2>19. TrustWritten(x, r, d, a, n, K)
    BY <2>3, <2>10, <2>17, <2>18, WriteTrustGood
  <2>20. Led(x, a, n, K) /\ Good(x.v, x.n, {})
    BY <2>19 DEF TrustWritten
  <2> QED
    BY <2>20 DEF x
<1> QED
  BY <1>7, <1>8

-----------------------------------------------------------------------------
(***************************************************************************)
(* A database that works is what DiskSound asks for.                       *)
(***************************************************************************)
\* The records of a list, as the walk finds them.
LEMMA ChainRange ==
  ASSUME NEW v, NEW h, NEW type, NEW L, Linked(v, h, type, L)
  PROVE  \A q : q \in Range(Chain(v, h, type)) <=> InList(q, L)
<1>1. Chain(v, h, type) = L
  BY ChainIs
<1>2. DOMAIN L = 1..Len(L)
  BY SeqFacts DEF Linked
<1> QED
  BY <1>1, <1>2 DEF Range, InList

\* The trust record that a validity record belongs to is the only one.
LEMMA OneOwner ==
  ASSUME NEW v, NEW n, Good(v, n, {}), NEW q \in OfType(v, n, "valid")
  PROVE  Cardinality({r \in OfType(v, n, "trust") :
                        q \in Range(ValidList(v, v[r].validlist))}) = 1
<1> DEFINE S == {r \in OfType(v, n, "trust") :
                   q \in Range(ValidList(v, v[r].validlist))}
<1>1. PICK vl : ValIs(v, vl)
  BY DEF Good, ValOK
<1>2. q \in Recs /\ v[q].type = "valid"
  BY DEF OfType
<1>3. PICK p \in Recs : v[p].type = "trust" /\ InList(q, vl[p])
  BY <1>1, <1>2 DEF ValIs
<1>4. ASSUME NEW r \in Recs, v[r].type = "trust"
      PROVE  q \in Range(ValidList(v, v[r].validlist)) <=> InList(q, vl[r])
  BY <1>1, <1>4, ChainRange DEF ValIs, ValidList
<1>5. ASSUME NEW r \in Recs, v[r].type = "trust"
      PROVE  r < n
  <2>1. r \in Nat /\ n \in Nat /\ (n <= r => v[r] = Unused)
    BY RecsAssumption DEF Good, Core, Base
  <2>2. v[r] # Unused
    BY <1>5 DEF Unused
  <2> QED
    BY <2>1, <2>2
<1>6. S = {p}
  <2>1. p \in S
    BY <1>3, <1>4, <1>5 DEF OfType
  <2>2. ASSUME NEW r \in S PROVE r = p
    <3>1. r \in Recs /\ v[r].type = "trust"
      BY DEF OfType
    <3>2. InList(q, vl[r])
      BY <1>4, <3>1
    <3> QED
      BY <1>1, <1>2, <1>3, <3>1, <3>2 DEF ValIs
  <2> HIDE DEF S
  <2> QED
    BY <2>1, <2>2
<1> HIDE DEF S
<1> QED
  BY <1>6, FS_Singleton DEF S

\* A database that is kept as the updates keep it works.
LEMMA GoodSound ==
  ASSUME NEW v, NEW n, Good(v, n, {})
  PROVE  Sound(v, n)
<1>1. /\ Top(v) /\ n \in Nat
      /\ \A r \in Recs : n <= r => v[r] = Unused
  BY DEF Good, Core, Base
<1>2. v[0].type = "ver" /\ v[0].trusthashtbl = 1 /\ v[1].type = "htbl"
  BY <1>1 DEF Top
<1>3. ASSUME NEW k \in Keys
      PROVE  LET item == v[1].item[Bucket[k]]
             IN  \/ item = 0
                 \/ v[item].type = "trust"
                 \/ v[item].type = "hlst" /\ Complete(v, HashList(v, item))
  <2> DEFINE b == Bucket[k]
             i == Item(v, b)
  <2>1. PICK hl : HashIs(v, hl, {})
    BY DEF Good, Core, HashOK
  <2>2. b \in Buckets
    BY <1>1, TopFacts
  <2>3. Linked(v, i, "hlst", hl[b])
    BY <2>1, <2>2 DEF HashIs, Hung
  <2>4. hl[b] = <<>> <=> i = 0 \/ v[i].type # "hlst"
    BY <1>1, <2>3, NoList
  <2>5. /\ hl[b] = <<>> => i = 0 \/ v[i].type = "trust"
        /\ hl[b] # <<>> => EndOf(v, i, hl[b]) = 0
    BY <2>1, <2>2 DEF HashIs, Shut
  <2>6. HashList(v, i) = hl[b]
    BY <2>3, ChainIs DEF HashList
  <2>7. hl[b] # <<>> => v[i].type = "hlst" /\ Complete(v, HashList(v, i))
    BY <2>4, <2>5, <2>6 DEF Complete, EndOf
  <2> QED
    BY <2>5, <2>7 DEF Item
<1>4. ASSUME NEW r \in OfType(v, n, "trust")
      PROVE  Lookup(v, v[r].fpr) = r
  <2>1. r \in Recs /\ v[r].type = "trust"
    BY DEF OfType
  <2>2. v[r].fpr \in Keys
    BY <1>1, <2>1, ByType DEF Top
  <2>3. IsTrust(v, r, v[r].fpr)
    BY <2>1 DEF IsTrust
  <2> QED
    BY <2>2, <2>3, OwnGood
<1>5. OfType(v, n, "free") = Range(Chain(v, v[0].firstfree, "free"))
  <2>1. PICK fl : FreeIs(v, fl)
    BY DEF Good, Core, FreeOK
  <2>2. \A q : q \in Range(Chain(v, v[0].firstfree, "free"))
                 <=> InList(q, fl)
    BY <2>1, ChainRange DEF FreeIs
  <2>3. ASSUME NEW q, InList(q, fl) PROVE q \in OfType(v, n, "free")
    <3>1. q \in Recs /\ v[q].type = "free"
      <4>1. PICK i \in 1..Len(fl) : fl[i] = q
        BY <2>3 DEF InList
      <4>2. Linked(v, v[0].firstfree, "free", fl)
        BY <2>1 DEF FreeIs
      <4> QED
        BY <1>1, <4>1, <4>2, ListRec
    <3>2. q \in Nat /\ v[q] # Unused
      BY <3>1, RecsAssumption DEF Unused
    <3>3. q < n
      BY <1>1, <3>1, <3>2
    <3> QED
      BY <3>1, <3>3 DEF OfType
  <2>4. ASSUME NEW q \in OfType(v, n, "free") PROVE InList(q, fl)
    BY <2>1 DEF OfType, FreeIs
  <2> QED
    BY <2>2, <2>3, <2>4
<1> QED
  BY <1>2, <1>3, <1>4, <1>5, OneOwner DEF Sound

\* The file may get longer by unused records.
LEMMA GoodMore ==
  ASSUME NEW v, NEW n, Good(v, n, {})
  PROVE  Good(v, n + 1, {}) /\ n \in Nat /\ 2 <= n
<1>1. n \in Nat /\ 2 <= n /\ Base(v, n)
  BY DEF Good, Core, Base
<1>2. Base(v, n + 1)
  BY <1>1, RecsAssumption DEF Base
<1> QED
  BY <1>1, <1>2 DEF Good, Core

-----------------------------------------------------------------------------
(***************************************************************************)
(* The inductive invariant: where a process is between two databases that  *)
(* work.                                                                   *)
(***************************************************************************)
\* What is read once the record that waits for room is in the cache.
Pending(w, c) == IF c.op = "flush" THEN [w EXCEPT ![c.recno] = c.data] ELSE w

\* The keys of the running update, and what it promises.
KeysOf(c) == {x.key : x \in c}
Promised(c, d) == [k \in Keys |-> IF \E x \in c : x.key = k
                                  THEN (CHOOSE x \in c : TRUE).value
                                  ELSE d[k]]

UnlockStep == [step |-> "unlock"]

\* The steps t lead from the records v of a file of e records to a database
\* that works and has the ownertrusts that were promised; it is promised when
\* they end with a sync, otherwise nothing is.
Ahead(t, v, e, c, d) ==
  \E w, a, n :
    /\ Leads(w, v, e, a, n, KeysOf(c)) /\ Good(a, n, {})
    /\ \A k \in Keys : Own(a, k) = Promised(c, d)[k]
    /\ \/ t = Append(w, SyncStep)
       \/ (t = w \/ t = Append(w, UnlockStep)) /\ Promised(c, d) = d

\* The file f holds a database that works, with the ownertrusts d.
OnDisk(f, e, d) == Good(f, e, {}) /\ \A k \in Keys : Own(f, k) = d[k]

\* A database that exists.
Running ==
  /\ 2 <= eof /\ done = [k \in Keys |-> done[k]]
  /\ Ahead(todo, Pending(written, call), eof, current, done)
  /\ \A r \in Recs : eof <= r => file[r] = Unused /\ written[r] = Unused
  /\ call.op = "flush" =>
       /\ call.recno < eof
       /\ Quiet(written, Pending(written, call), KeysOf(current))
  /\ ~partial => OnDisk(file, eof, done)

\* A database while it is made.
V0 == Ver(0, 0, 0)
V1 == Ver(0, 1, 0)
H0 == Htbl([b \in Buckets |-> 0])
Two(x, y) == [r \in Recs |-> IF r = 0 THEN x ELSE IF r = 1 THEN y ELSE Unused]
Early == {Two(x, y) : x \in {Unused, V0, V1}, y \in {Unused, H0}}
Extent(f) == IF f[1] # Unused THEN 2 ELSE IF f[0] # Unused THEN 1 ELSE 0

\* What is done then, and what remains of it after j steps.
Making == <<PutStep(0, V0), SyncStep, PutStep(1, H0), PutStep(0, V1), SyncStep,
            UnlockStep>>
Rest(j, t) == /\ t \in Seq(Steps) /\ Len(t) = 6 - j
              /\ \A i \in 1..6 - j : t[i] = Making[i + j]

\* The records on disk at the last sync, and the ones that are read, when t
\* remains to be done.
Phase(t, b, v) ==
  \/ t = <<>> /\ b = v /\ v \in {Two(Unused, Unused), Two(V0, Unused)}
  \/ Rest(0, t) /\ b = Two(Unused, Unused) /\ v = Two(Unused, Unused)
  \/ Rest(1, t) /\ b = Two(Unused, Unused) /\ v = Two(V0, Unused)
  \/ Rest(2, t) /\ b = Two(V0, Unused) /\ v = Two(V0, Unused)
  \/ Rest(3, t) /\ b = Two(V0, Unused) /\ v = Two(V0, H0)
  \/ Rest(4, t) /\ b = Two(V0, Unused) /\ v = Two(V1, H0)

\* The file is somewhere between these two.
Between(t, v, f, p) ==
  \E b : /\ Phase(t, b, v)
         /\ \A r \in Recs : f[r] \in {b[r], v[r]}
         /\ ~p => f = b

\* No key has an ownertrust then, and the file is no longer than what was
\* written to it.
Creating ==
  /\ current = {} /\ done = [k \in Keys |-> 0]
  /\ file \in Early /\ written \in Early /\ eof = Extent(file)
  /\ Between(todo, Pending(written, call), file, partial)

\* A process that is about to end after a write has failed.
Exiting == /\ todo # <<>> /\ Head(todo).step = "exit"
           /\ partial = TRUE /\ call.op = "idle"

\* A sync is due while records are written back, and as long as no process
\* ended then, the process is in one of these three situations.
SInv == /\ deaths \in Nat /\ partial \in BOOLEAN
        /\ partial => cacheIsDirty = TRUE
        /\ ~torn => Running \/ Creating \/ Exiting

-----------------------------------------------------------------------------
\* Leading is easier with more keys to change.
LEMMA LeadsMore ==
  ASSUME NEW w, NEW a, NEW n, NEW b, NEW m, NEW K, Leads(w, a, n, b, m, {})
  PROVE  Leads(w, a, n, b, m, K)
<1>1. PICK vs, ns : LeadsBy(vs, ns, w, a, n, b, m, {})
  BY DEF Leads
<1>2. w \in Seq(Steps)
  BY DEF Leads
<1>3. \A i \in 1..Len(w) : One(w[i], vs[i], ns[i], vs[i + 1], ns[i + 1], K)
  BY <1>1 DEF LeadsBy, One, Quiet
<1>4. LeadsBy(vs, ns, w, a, n, b, m, K)
  BY <1>1, <1>3 DEF LeadsBy
<1> QED
  BY <1>2, <1>4 DEF Leads

\* What remains gets shorter.
LEMMA AheadPut ==
  ASSUME NEW t, NEW v, NEW e, NEW c, NEW d, Ahead(t, v, e, c, d), t # <<>>,
         Head(t).step \in {"put", "append"}
  PROVE  \E b, m : /\ One(Head(t), v, e, b, m, KeysOf(c))
                   /\ Ahead(Tail(t), b, m, c, d)
<1>1. PICK w, a, n :
        /\ Leads(w, v, e, a, n, KeysOf(c)) /\ Good(a, n, {})
        /\ \A k \in Keys : Own(a, k) = Promised(c, d)[k]
        /\ \/ t = Append(w, SyncStep)
           \/ (t = w \/ t = Append(w, UnlockStep)) /\ Promised(c, d) = d
  BY DEF Ahead
<1>2. /\ w \in Seq(Steps) /\ SyncStep \in Steps /\ UnlockStep \in Steps
      /\ SyncStep.step = "sync" /\ UnlockStep.step = "unlock"
  BY <1>1, LeadsTypes DEF SyncStep, UnlockStep, Steps
<1> HIDE DEF SyncStep, UnlockStep
<1>3. w # <<>>
  <2> SUFFICES ASSUME w = <<>> PROVE FALSE
    OBVIOUS
  <2>1. /\ Append(w, SyncStep) # <<>> /\ Head(Append(w, SyncStep)) = SyncStep
        /\ Append(w, UnlockStep) # <<>>
        /\ Head(Append(w, UnlockStep)) = UnlockStep
    BY <1>2
  <2> QED
    BY <1>1, <1>2, <2>1
<1>4. \A x \in Steps : /\ Tail(Append(w, x)) = Append(Tail(w), x)
                       /\ Head(Append(w, x)) = Head(w)
  BY <1>2, <1>3
<1>5. PICK b, m : /\ One(Head(w), v, e, b, m, KeysOf(c))
                  /\ Leads(Tail(w), b, m, a, n, KeysOf(c))
  BY <1>1, <1>3, LeadsTail
<1>6. /\ Head(t) = Head(w)
      /\ \/ Tail(t) = Append(Tail(w), SyncStep)
         \/ /\ Tail(t) = Tail(w) \/ Tail(t) = Append(Tail(w), UnlockStep)
            /\ Promised(c, d) = d
  BY <1>1, <1>2, <1>4
<1>7. Ahead(Tail(t), b, m, c, d)
  BY <1>1, <1>5, <1>6 DEF Ahead
<1> QED
  BY <1>5, <1>6, <1>7

\* When a sync or the end of the section comes, all is there.
LEMMA AheadSync ==
  ASSUME NEW t, NEW v, NEW e, NEW c, NEW d, Ahead(t, v, e, c, d),
         t = <<>> \/ Head(t).step \notin {"put", "append"}
  PROVE  /\ OnDisk(v, e, Promised(c, d))
         /\ t # <<>> => Tail(t) = <<>>
         /\ t = <<>> \/ Head(t).step # "sync" => Promised(c, d) = d
         /\ t # <<>> => Head(t).step \in {"sync", "unlock"}
<1>1. PICK w, a, n :
        /\ Leads(w, v, e, a, n, KeysOf(c)) /\ Good(a, n, {})
        /\ \A k \in Keys : Own(a, k) = Promised(c, d)[k]
        /\ \/ t = Append(w, SyncStep)
           \/ (t = w \/ t = Append(w, UnlockStep)) /\ Promised(c, d) = d
  BY DEF Ahead
<1>2. /\ w \in Seq(Steps) /\ SyncStep \in Steps /\ UnlockStep \in Steps
      /\ SyncStep.step = "sync" /\ UnlockStep.step = "unlock"
  BY <1>1, LeadsTypes DEF SyncStep, UnlockStep, Steps
<1> HIDE DEF SyncStep, UnlockStep
<1>3. w = <<>>
  <2> SUFFICES ASSUME w # <<>> PROVE FALSE
    OBVIOUS
  <2>1. PICK b, m : One(Head(w), v, e, b, m, KeysOf(c))
    BY <1>1, LeadsTail
  <2>2. Head(w).step \in {"put", "append"}
    BY <2>1 DEF One
  <2>3. \A x \in Steps : /\ Append(w, x) # <<>>
                         /\ Head(Append(w, x)) = Head(w)
    BY <1>2
  <2> QED
    BY <1>1, <1>2, <2>2, <2>3
<1>4. a = v /\ n = e
  BY <1>1, <1>3, LeadsEnd
<1>5. \A x \in Steps : /\ Append(w, x) # <<>> /\ Head(Append(w, x)) = x
                       /\ Tail(Append(w, x)) = <<>>
  BY <1>2, <1>3
<1> QED
  BY <1>1, <1>2, <1>3, <1>4, <1>5 DEF OnDisk

\* The other way round.
LEMMA NothingAhead ==
  ASSUME NEW v, NEW e, NEW c, NEW d, OnDisk(v, e, d), Promised(c, d) = d
  PROVE  /\ Ahead(<<>>, v, e, c, d)
         /\ Ahead(Append(<<>>, UnlockStep), v, e, c, d)
<1>1. Good(v, e, {}) /\ \A k \in Keys : Own(v, k) = Promised(c, d)[k]
  BY DEF OnDisk
<1>2. v \in [Recs -> Record] /\ e \in Nat
  BY <1>1 DEF Good, Core, Base, Top
<1>3. Leads(<<>>, v, e, v, e, KeysOf(c))
  BY <1>2, LeadsNothing
<1> QED
  BY <1>1, <1>3 DEF Ahead

\* Nothing is promised when there is no update.
LEMMA NoPromise ==
  ASSUME NEW d, d = [k \in Keys |-> d[k]]
  PROVE  Promised({}, d) = d
  BY DEF Promised

-----------------------------------------------------------------------------
(***************************************************************************)
(* The calls of the cache, as seen from the updates.                       *)
(***************************************************************************)
\* put_record_into_cache: what is read afterwards, or when there is room.
LEMMA PutDoes ==
  ASSUME PInv, DoPut
  PROVE  LET r == Head(todo).recno
             d == Head(todo).data
         IN  /\ todo # <<>> /\ Head(todo).step = "put" /\ call.op = "idle"
             /\ todo' = Tail(todo)
             /\ UNCHANGED <<file, eof, current, partial, torn, done, deaths>>
             /\ cacheIsDirty = TRUE => cacheIsDirty' = TRUE
             /\ Pending(written, call) = written
             /\ Pending(written', call') = [written EXCEPT ![r] = d]
             /\ call'.op = "flush" => call'.recno = r /\ written' = written
             /\ call'.op # "flush" => written' = [written EXCEPT ![r] = d]
<1> DEFINE r == Head(todo).recno
           d == Head(todo).data
<1>1. /\ Put(r, d) /\ todo # <<>> /\ Head(todo).step = "put"
      /\ call.op = "idle" /\ todo' = Tail(todo)
      /\ UNCHANGED <<eof, current, partial, torn, done, deaths>>
  BY DEF DoPut, At
<1> HIDE DEF r, d
<1>2. /\ file' = file /\ (cacheIsDirty = TRUE => cacheIsDirty' = TRUE)
      /\ \/ call' = call /\ written' = [written EXCEPT ![r] = d]
         \/ /\ call'.op = "flush" /\ call'.recno = r /\ call'.data = d
            /\ written' = written
  <2>1. CASE PutFlush(r, d)
    BY <2>1 DEF PutFlush
  <2>2. CASE PutSame(r, d) \/ PutHit(r, d) \/ PutReuse(r, d)
    BY <2>2 DEF PutSame, PutHit, PutReuse
  <2>3. CASE PutNew(r, d) \/ PutDiscard(r, d)
    BY <2>3 DEF PutNew, PutDiscard
  <2> QED
    BY <1>1, <2>1, <2>2, <2>3 DEF Put
<1>3. Pending(written, call) = written
  BY <1>1 DEF Pending
<1>4. Pending(written', call') = [written EXCEPT ![r] = d]
  BY <1>1, <1>2 DEF Pending
<1> QED
  BY <1>1, <1>2, <1>3, <1>4 DEF r, d

\* write_cache_item: the record that is read gets to the file, and not the
\* one that waits.
LEMMA ItemDoes ==
  ASSUME PInv, WriteItem
  PROVE  /\ \E p \in Recs : /\ file' = [file EXCEPT ![p] = written[p]]
                            /\ Pending(written, call)[p] = written[p]
         /\ cacheIsDirty' = TRUE /\ eof' = Extended /\ partial' = TRUE
         /\ UNCHANGED <<written, todo, current, torn, done, deaths>>
         /\ call'.op = call.op /\ call'.recno = call.recno
         /\ Pending(written', call') = Pending(written, call)
<1>0. call \in Call /\ CacheTypeOK /\ Current /\ FlagKept /\ FlushKept
  BY DEF PInv, Inv, CacheTypeOK
<1>1. PICK i \in Slots :
        /\ i \in Dirty
        /\ file' = [file EXCEPT ![cacheList[i].recno] = cacheList[i].data]
        /\ call'.op = call.op /\ call'.data = call.data
        /\ call'.recno = call.recno
        /\ UNCHANGED <<written, cacheIsDirty>>
  <2>1. CASE FlushWrite
    BY <1>0, <2>1 DEF FlushWrite, IsFirst, GivenUp, Call
  <2>2. CASE SyncWrite
    BY <2>2 DEF SyncWrite, IsFirst
  <2> QED
    BY <2>1, <2>2 DEF WriteItem
<1> DEFINE p == cacheList[i].recno
           d == cacheList[i].data
<1>2. i \in DOMAIN cacheList /\ In(i) /\ cacheList[i].dirty
  BY <1>1 DEF Dirty, Used, Slots, In
<1>3. p \in Recs /\ d = written[p]
  BY <1>0, <1>2, ListType DEF Current
<1>4. cacheIsDirty' = TRUE
  <2>1. cacheIsDirty \in BOOLEAN
    BY <1>0 DEF CacheTypeOK
  <2>2. cacheIsDirty
    BY <1>0, <1>2 DEF FlagKept
  <2> QED
    BY <1>1, <2>1, <2>2
<1>5. Pending(written, call)[p] = written[p]
  <2>1. call.op = "flush" => p # call.recno
    BY <1>0, <1>2 DEF FlushKept
  <2>2. written \in [Recs -> Data]
    BY <1>0 DEF CacheTypeOK
  <2> HIDE DEF p
  <2> QED
    BY <1>3, <2>1, <2>2 DEF Pending
<1>6. Pending(written', call') = Pending(written, call)
  BY <1>1 DEF Pending
<1>7. /\ eof' = Extended /\ partial' = TRUE
      /\ UNCHANGED <<todo, current, torn, done, deaths>>
  BY DEF WriteItem
<1> HIDE DEF Extended, p, d
<1>8. file' = [file EXCEPT ![p] = written[p]]
  BY <1>1, <1>3 DEF p, d
<1> QED
  BY <1>1, <1>3, <1>4, <1>5, <1>6, <1>7, <1>8

\* The length of the file after one record was written.
LEMMA ExtendedIs ==
  ASSUME eof \in Nat, NEW p \in Recs, file \in [Recs -> Record], NEW d,
         file' = [file EXCEPT ![p] = d]
  PROVE  Extended = IF file[p] = d \/ p < eof THEN eof ELSE p + 1
<1> DEFINE A == {q \in Recs : file'[q] # file[q]}
           S == {eof} \cup {r + 1 : r \in A}
<1>1. (file[p] = d => A = {}) /\ (file[p] # d => A = {p})
  OBVIOUS
<1>2. p \in Nat
  BY RecsAssumption
<1>3. (file[p] = d => S = {eof}) /\ (file[p] # d => S = {eof, p + 1})
  <2> HIDE DEF A
  <2> QED
    BY <1>1
<1>4. Extended = Max(S)
  BY DEF Extended
<1> HIDE DEF S
<1>5. S \subseteq Nat /\ \E x \in S : \A y \in S : x >= y
  BY <1>2, <1>3
<1>6. Max(S) \in S /\ \A y \in S : Max(S) >= y
  BY <1>5 DEF Max
<1>7. Max(S) \in Nat
  BY <1>5, <1>6
<1> HIDE DEF Extended
<1> QED
  BY <1>2, <1>3, <1>4, <1>6, <1>7

\* tdbio_sync returns: the file is what is read.
LEMMA SyncDoes ==
  ASSUME PInv, SInv, DoSyncClean \/ DoSyncDone
  PROVE  /\ todo # <<>> /\ Head(todo).step = "sync" /\ todo' = Tail(todo)
         /\ file = written /\ UNCHANGED <<file, written, eof, torn, deaths>>
         /\ Pending(written, call) = written
         /\ Pending(written', call') = written
         /\ call'.op = "idle" /\ partial' = FALSE
         /\ \/ current' = {} /\ done' = Promised(current, done)
            \/ UNCHANGED <<current, done>> /\ ~partial
<1>0. /\ CacheTypeOK /\ Current /\ CleanOnDisk /\ FlagKept
      /\ partial => cacheIsDirty = TRUE
  BY DEF PInv, Inv, SInv
<1>1. ASSUME \A i \in DOMAIN cacheList : In(i) => ~cacheList[i].dirty
      PROVE  file = written
  <2>1. file \in [Recs -> Data] /\ written \in [Recs -> Data]
    BY <1>0 DEF CacheTypeOK
  <2>2. ASSUME NEW r \in Recs PROVE file[r] = written[r]
    <3>1. CASE \E i \in DOMAIN cacheList : In(i) /\ cacheList[i].recno = r
      BY <1>0, <1>1, <3>1 DEF CleanOnDisk, Current
    <3>2. CASE ~\E i \in DOMAIN cacheList : In(i) /\ cacheList[i].recno = r
      BY <1>0, <3>2 DEF Current
    <3> QED
      BY <3>1, <3>2
  <2> QED
    BY <2>1, <2>2
<1>2. CASE DoSyncClean
  <2>1. /\ todo # <<>> /\ call.op = "idle" /\ Head(todo).step = "sync"
        /\ ~cacheIsDirty /\ todo' = Tail(todo)
        /\ UNCHANGED <<cvars, eof, current, partial, torn, done, deaths>>
    BY <1>2 DEF DoSyncClean, At
  <2>2. file = written
    BY <1>0, <1>1, <2>1 DEF FlagKept
  <2>3. partial = FALSE
    <3>1. ~partial
      BY <1>0, <2>1
    <3>2. partial \in BOOLEAN
      BY DEF SInv
    <3> QED
      BY <3>1, <3>2
  <2> QED
    BY <2>1, <2>2, <2>3 DEF cvars, Pending
<1>3. CASE DoSyncDone
  <2>1. /\ call.op = "sync" /\ Dirty = {} /\ call' = Idle
        /\ UNCHANGED <<file, written, eof, torn, deaths>>
        /\ todo' = Tail(todo) /\ partial' = FALSE /\ current' = {}
        /\ done' = Finished(done)
    BY <1>3 DEF DoSyncDone, SyncDone
  <2>2. todo # <<>> /\ Head(todo).step = "sync"
    BY <2>1 DEF PInv
  <2>3. file = written
    BY <1>1, <2>1 DEF Dirty, Used, Slots, In
  <2>4. done' = Promised(current, done)
    BY <2>1 DEF Finished, Promised
  <2> QED
    BY <2>1, <2>2, <2>3, <2>4 DEF Pending, Idle
<1> QED
  BY <1>2, <1>3

\* put_record_into_cache goes on after the flush.
LEMMA FlushDoes ==
  ASSUME PInv, DoFlushDone
  PROVE  /\ call.op = "flush" /\ call'.op = "idle"
         /\ written' = Pending(written, call)
         /\ Pending(written', call') = Pending(written, call)
         /\ cacheIsDirty' = TRUE
         /\ UNCHANGED <<file, eof, todo, current, partial, torn, done, deaths>>
<1>1. /\ call.op = "flush" /\ call'.op = "idle" /\ cacheIsDirty' = TRUE
      /\ written' = [written EXCEPT ![call.recno] = call.data]
      /\ UNCHANGED <<file, eof, todo, current, partial, torn, done, deaths>>
  BY DEF DoFlushDone, FlushDone, Idle
<1> QED
  BY <1>1 DEF Pending

\* A write fails, and the process is about to end.
LEMMA FailsDoes ==
  ASSUME PInv, DoWriteFails
  PROVE  Exiting' /\ cacheIsDirty' = TRUE
         /\ UNCHANGED <<written, torn, deaths>>
<1>1. PICK i \in Slots :
        /\ i \in Dirty /\ call' = Idle /\ UNCHANGED <<written, cacheIsDirty>>
  BY DEF DoWriteFails, WriteFails, IsFirst
<1>2. /\ todo' = <<[step |-> "exit"]>> /\ partial' = TRUE
      /\ UNCHANGED <<torn, deaths>>
  BY DEF DoWriteFails
<1>3. todo' # <<>> /\ Head(todo').step = "exit"
  BY <1>2
<1>4. Exiting'
  BY <1>1, <1>2, <1>3 DEF Exiting, Idle
<1>5. cacheIsDirty' = TRUE
  <2>1. cacheIsDirty \in BOOLEAN /\ FlagKept
    BY DEF PInv, Inv, CacheTypeOK
  <2>2. i \in DOMAIN cacheList /\ In(i) /\ cacheList[i].dirty
    BY <1>1 DEF Dirty, Used, Slots, In
  <2> QED
    BY <1>1, <2>1, <2>2 DEF FlagKept
<1> QED
  BY <1>1, <1>2, <1>4, <1>5

-----------------------------------------------------------------------------
(***************************************************************************)
(* The steps of an update on a database that exists.                       *)
(***************************************************************************)
\* A record is written to a database.
LEMMA RunningPut ==
  ASSUME PInv, Running, DoPut
  PROVE  Running' /\ Quiet(written, written', KeysOf(current))
<1> DEFINE r == Head(todo).recno
           d == Head(todo).data
           K == KeysOf(current)
<1>1. /\ todo # <<>> /\ Head(todo).step = "put" /\ call.op = "idle"
      /\ todo' = Tail(todo)
      /\ UNCHANGED <<file, eof, current, partial, torn, done, deaths>>
      /\ Pending(written, call) = written
      /\ Pending(written', call') = [written EXCEPT ![r] = d]
      /\ call'.op = "flush" => call'.recno = r /\ written' = written
      /\ call'.op # "flush" => written' = [written EXCEPT ![r] = d]
  BY PutDoes
<1>2. Ahead(todo, written, eof, current, done)
  BY <1>1 DEF Running
<1>3. PICK b, m : /\ One(Head(todo), written, eof, b, m, K)
                  /\ Ahead(Tail(todo), b, m, current, done)
  BY <1>1, <1>2, AheadPut
<1>4. /\ Quiet(written, b, K) /\ r \in Recs /\ r < eof
      /\ b = [written EXCEPT ![r] = d] /\ m = eof
  BY <1>1, <1>3 DEF One
<1>5. written \in [Recs -> Record] /\ eof \in Nat
  BY RecordAssumption DEF PInv, Inv, CacheTypeOK
<1> HIDE DEF r, d, K
<1>6. Ahead(todo', Pending(written', call'), eof', current', done')
  BY <1>1, <1>3, <1>4
<1>7. \A q \in Recs : eof <= q => file[q] = Unused /\ b[q] = Unused
  <2>1. \A q \in Recs : eof <= q => file[q] = Unused /\ written[q] = Unused
    BY DEF Running
  <2>2. ASSUME NEW q \in Recs, eof <= q PROVE q # r
    BY <1>4, <1>5, <2>2, RecsAssumption
  <2> QED
    BY <1>4, <1>5, <2>1, <2>2
<1>8. \A q \in Recs : eof <= q => file'[q] = Unused /\ written'[q] = Unused
  BY <1>1, <1>4, <1>7 DEF Running
<1>9. Quiet(written, written', K)
  <2>1. Quiet(written, written, K)
    BY DEF Quiet
  <2> QED
    BY <1>1, <1>4, <2>1
<1>10. call'.op = "flush" =>
         /\ call'.recno < eof'
         /\ Quiet(written', Pending(written', call'), KeysOf(current'))
  BY <1>1, <1>4 DEF K
<1>11. /\ 2 <= eof' /\ done' = [k \in Keys |-> done'[k]]
       /\ ~partial' => OnDisk(file', eof', done')
  BY <1>1 DEF Running
<1>12. Running'
  BY <1>1, <1>6, <1>8, <1>10, <1>11 DEF Running
<1> QED
  BY <1>9, <1>12 DEF K

\* The file gets longer.
LEMMA RunningAppend ==
  ASSUME PInv, Running, DoAppend
  PROVE  Running' /\ written' = written
<1> DEFINE K == KeysOf(current)
<1>1. /\ todo # <<>> /\ Head(todo).step = "append" /\ call.op = "idle"
      /\ todo' = Tail(todo) /\ eof' = eof + 1
      /\ UNCHANGED <<file, written, call, current, partial, done>>
  BY DEF DoAppend, At, cvars
<1>2. PICK b, m : /\ One(Head(todo), Pending(written, call), eof, b, m, K)
                  /\ Ahead(Tail(todo), b, m, current, done)
  BY <1>1, AheadPut DEF Running
<1>3. b = Pending(written, call) /\ m = eof + 1
  BY <1>1, <1>2 DEF One
<1>4. Ahead(todo', Pending(written', call'), eof', current', done')
  BY <1>1, <1>2, <1>3
<1>5. eof \in Nat
  BY DEF PInv
<1>6. \A q \in Recs : eof' <= q => file'[q] = Unused /\ written'[q] = Unused
  BY <1>1, <1>5, RecsAssumption DEF Running
<1>7. ~partial' => OnDisk(file', eof', done')
  BY <1>1, GoodMore DEF Running, OnDisk
<1>8. 2 <= eof' /\ done' = [k \in Keys |-> done'[k]]
  BY <1>1, <1>5 DEF Running
<1> QED
  BY <1>1, <1>4, <1>6, <1>7, <1>8 DEF Running

\* tdbio_sync begins.
LEMMA RunningSync ==
  ASSUME PInv, Running, DoSync
  PROVE  Running' /\ written' = written
<1>1. /\ call.op = "idle" /\ call'.op = "sync"
      /\ UNCHANGED <<file, written, eof, todo, current, partial, done>>
  BY DEF DoSync, SyncStart, Idle
<1>2. Pending(written', call') = Pending(written, call)
  BY <1>1 DEF Pending
<1> QED
  BY <1>1, <1>2 DEF Running

\* tdbio_sync returns, and what was promised is on disk.
LEMMA RunningSynced ==
  ASSUME PInv, SInv, Running, DoSyncClean \/ DoSyncDone
  PROVE  Running' /\ written' = written
<1>1. /\ todo # <<>> /\ Head(todo).step = "sync" /\ todo' = Tail(todo)
      /\ file = written /\ UNCHANGED <<file, written, eof, torn, deaths>>
      /\ Pending(written, call) = written
      /\ Pending(written', call') = written
      /\ call'.op = "idle" /\ partial' = FALSE
      /\ \/ current' = {} /\ done' = Promised(current, done)
         \/ UNCHANGED <<current, done>> /\ ~partial
  BY SyncDoes
<1>2. Ahead(todo, written, eof, current, done)
  BY <1>1 DEF Running
<1>3. OnDisk(written, eof, Promised(current, done)) /\ Tail(todo) = <<>>
  BY <1>1, <1>2, AheadSync
<1>4. done' = Promised(current, done) /\ Promised(current', done') = done'
  <2>1. CASE current' = {} /\ done' = Promised(current, done)
    <3>1. done' = [k \in Keys |-> done'[k]]
      BY <2>1 DEF Promised
    <3> QED
      BY <2>1, <3>1, NoPromise
  <2>2. CASE UNCHANGED <<current, done>> /\ ~partial
    <3>1. done = [k \in Keys |-> done[k]] /\ OnDisk(file, eof, done)
      BY <2>2 DEF Running
    <3>2. \A k \in Keys : done[k] = Promised(current, done)[k]
      BY <1>1, <1>3, <3>1 DEF OnDisk
    <3>3. Promised(current, done) = [k \in Keys |-> Promised(current, done)[k]]
      BY DEF Promised
    <3>4. Promised(current, done) = done
      BY <3>1, <3>2, <3>3
    <3> QED
      BY <2>2, <3>4
  <2> QED
    BY <1>1, <2>1, <2>2
<1>5. OnDisk(written, eof, done')
  BY <1>3, <1>4
<1>6. Ahead(<<>>, written, eof, current', done')
  BY <1>4, <1>5, NothingAhead
<1>7. Ahead(todo', Pending(written', call'), eof', current', done')
  BY <1>1, <1>3, <1>6
<1>8. done' = [k \in Keys |-> done'[k]]
  BY <1>4 DEF Promised
<1>9. \A q \in Recs : eof' <= q => file'[q] = Unused /\ written'[q] = Unused
  BY <1>1 DEF Running
<1>10. 2 <= eof' /\ OnDisk(file', eof', done') /\ call'.op # "flush"
  BY <1>1, <1>5 DEF Running
<1> QED
  BY <1>1, <1>7, <1>8, <1>9, <1>10 DEF Running

\* The end of the section that made the database.
LEMMA RunningUnlock ==
  ASSUME PInv, Running, DoUnlock
  PROVE  Running' /\ written' = written
<1>1. /\ todo # <<>> /\ Head(todo).step = "unlock" /\ todo' = Tail(todo)
      /\ call.op = "idle"
      /\ UNCHANGED <<file, written, call, eof, current, partial, done>>
  BY DEF DoUnlock, SectionEnd, At
<1>2. /\ OnDisk(Pending(written, call), eof, Promised(current, done))
      /\ Tail(todo) = <<>> /\ Promised(current, done) = done
  BY <1>1, AheadSync DEF Running
<1>3. Ahead(<<>>, Pending(written, call), eof, current, done)
  BY <1>2, NothingAhead
<1>4. Ahead(todo', Pending(written', call'), eof', current', done')
  BY <1>1, <1>2, <1>3
<1>5. /\ 2 <= eof' /\ done' = [k \in Keys |-> done'[k]]
      /\ \A r \in Recs : eof' <= r => file'[r] = Unused /\ written'[r] = Unused
      /\ call'.op # "flush" /\ (~partial' => OnDisk(file', eof', done'))
  BY <1>1 DEF Running
<1> QED
  BY <1>1, <1>4, <1>5 DEF Running

\* write_cache_item.
LEMMA RunningWrite ==
  ASSUME PInv, Running, WriteItem
  PROVE  Running' /\ written' = written
<1>1. /\ cacheIsDirty' = TRUE /\ eof' = Extended /\ partial' = TRUE
      /\ UNCHANGED <<written, todo, current, torn, done, deaths>>
      /\ call'.op = call.op /\ call'.recno = call.recno
      /\ Pending(written', call') = Pending(written, call)
  BY ItemDoes
<1>2. PICK p \in Recs : file' = [file EXCEPT ![p] = written[p]]
  BY ItemDoes
<1>3. /\ eof \in Nat /\ file \in [Recs -> Record]
      /\ \A r \in Recs : eof <= r => file[r] = Unused /\ written[r] = Unused
  BY RecordAssumption DEF PInv, Inv, CacheTypeOK, Running
<1>4. file[p] = written[p] \/ p < eof
  BY <1>3, RecsAssumption
<1>5. Extended = eof
  BY <1>2, <1>3, <1>4, ExtendedIs
<1> HIDE DEF Extended
<1>6. \A r \in Recs : eof <= r => file'[r] = Unused /\ written'[r] = Unused
  BY <1>1, <1>2, <1>3
<1> QED
  BY <1>1, <1>5, <1>6 DEF Running

\* The record that had to wait is in the cache.
LEMMA RunningFlushed ==
  ASSUME PInv, Running, DoFlushDone
  PROVE  Running' /\ Quiet(written, written', KeysOf(current))
<1>1. /\ call.op = "flush" /\ call'.op = "idle"
      /\ written' = Pending(written, call)
      /\ Pending(written', call') = Pending(written, call)
      /\ UNCHANGED <<file, eof, todo, current, partial, torn, done, deaths>>
  BY FlushDoes
<1>2. /\ call.recno < eof /\ call.recno \in Recs
      /\ Quiet(written, Pending(written, call), KeysOf(current))
      /\ written \in [Recs -> Data] /\ eof \in Nat
  BY <1>1 DEF Running, PInv, Inv, CacheTypeOK, Call
<1>3. ASSUME NEW q \in Recs, eof <= q
      PROVE  file'[q] = Unused /\ written'[q] = Unused
  <2>1. q # call.recno
    BY <1>2, <1>3, RecsAssumption
  <2>2. file[q] = Unused /\ written[q] = Unused
    BY <1>3 DEF Running
  <2> QED
    BY <1>1, <1>2, <2>1, <2>2 DEF Pending
<1> QED
  BY <1>1, <1>2, <1>3 DEF Running

\* The next process finds the database.
LEMMA RunningRestart ==
  ASSUME PInv, Running, NextProcess, ~torn'
  PROVE  Running'
<1>1. /\ written' = file /\ UNCHANGED <<file, eof, done>>
      /\ call'.op = "idle" /\ todo' = <<>> /\ current' = {}
      /\ ~partial
  BY DEF NextProcess, Restart, Idle
<1>2. /\ OnDisk(file, eof, done) /\ 2 <= eof
      /\ done = [k \in Keys |-> done[k]]
      /\ \A r \in Recs : eof <= r => file[r] = Unused
  BY <1>1 DEF Running
<1>3. Ahead(<<>>, file, eof, {}, done)
  BY <1>2, NoPromise, NothingAhead
<1>4. Pending(written', call') = file
  BY <1>1 DEF Pending
<1>5. Ahead(todo', Pending(written', call'), eof', current', done')
  BY <1>1, <1>3, <1>4
<1> QED
  BY <1>1, <1>2, <1>5 DEF Running

-----------------------------------------------------------------------------
(***************************************************************************)
(* The start of each update on a database that exists.                     *)
(***************************************************************************)
\* What an update of a database starts from.
LEMMA BeginGood ==
  ASSUME PInv, Running, Ready
  PROVE  /\ View = written /\ Pending(written, call) = written
         /\ OnDisk(View, eof, done) /\ Promised(current, done) = done
         /\ \A K : Led(Begin, View, eof, K)
         /\ Begin.v = View /\ Begin.n = eof /\ Good(View, eof, {})
<1>1. View = written /\ written \in [Recs -> Record] /\ eof \in Nat
  BY ViewCurrent, RecordAssumption DEF PInv, Inv, CacheTypeOK
<1>2. todo = <<>> /\ Pending(written, call) = written
  BY DEF Ready, Pending
<1>3. Ahead(todo, written, eof, current, done)
  BY <1>2 DEF Running
<1>4. OnDisk(written, eof, done) /\ Promised(current, done) = done
  BY <1>2, <1>3, AheadSync
<1> HIDE DEF View
<1> DEFINE s == Begin
<1>5. s.v = View /\ s.n = eof /\ s.ok = TRUE /\ s.w = <<>> /\ Shape(s)
  BY <1>1 DEF Begin, Shape
<1> HIDE DEF s
<1>6. ASSUME NEW K PROVE Led(s, View, eof, K)
  <2>1. Leads(<<>>, View, eof, View, eof, K)
    BY <1>1, LeadsNothing
  <2>2. Quiet(View, View, K)
    BY DEF Quiet
  <2> QED
    BY <1>5, <2>1, <2>2 DEF Led
<1> QED
  BY <1>1, <1>2, <1>4, <1>5, <1>6 DEF s, OnDisk

\* It goes on as it promises.
LEMMA RunningStart ==
  ASSUME PInv, Running, Ready, UNCHANGED <<cvars, eof, partial, done>>,
         Ahead(todo', View, eof, current', done)
  PROVE  Running' /\ written' = written
<1>1. View = written /\ call.op = "idle"
  BY ViewCurrent DEF PInv, Ready
<1> HIDE DEF View
<1>2. UNCHANGED <<file, written, call>>
  BY DEF cvars
<1>3. Pending(written', call') = View
  BY <1>1, <1>2 DEF Pending
<1> QED
  BY <1>1, <1>2, <1>3 DEF Running

\* An update that writes, and leaves it to a later one to sync.
LEMMA Unsynced ==
  ASSUME PInv, Running, Ready, NEW s, Run(s), UNCHANGED current,
         Led(s, View, eof, {}), Good(s.v, s.n, {})
  PROVE  Running' /\ written' = written
<1>1. /\ OnDisk(View, eof, done) /\ Promised(current, done) = done
  BY BeginGood
<1> HIDE DEF View
<1>2. /\ Leads(s.w, View, eof, s.v, s.n, {}) /\ Quiet(View, s.v, {})
      /\ s.ok = TRUE
  BY DEF Led
<1>3. Leads(s.w, View, eof, s.v, s.n, KeysOf(current))
  BY <1>2, LeadsMore
<1>4. \A k \in Keys : Own(s.v, k) = Promised(current, done)[k]
  BY <1>1, <1>2 DEF OnDisk, Quiet
<1>5. todo' = s.w /\ UNCHANGED <<cvars, eof, partial, done>>
  BY <1>2 DEF Run
<1>6. Ahead(s.w, View, eof, current, done)
  BY <1>1, <1>3, <1>4 DEF Ahead
<1> QED
  BY <1>5, <1>6, RunningStart

\* An update that promises and syncs.
LEMMA Synced ==
  ASSUME PInv, Running, Ready, NEW s, Run(Sync(s)),
         Led(s, View, eof, KeysOf(current')), Good(s.v, s.n, {}),
         \A k \in Keys : Own(s.v, k) = Promised(current', done)[k]
  PROVE  Running' /\ written' = written
<1> HIDE DEF View
<1> DEFINE x == Sync(s)
<1>1. Leads(s.w, View, eof, s.v, s.n, KeysOf(current')) /\ s.ok = TRUE
  BY DEF Led
<1>2. x.w = Append(s.w, SyncStep) /\ x.ok = TRUE
  <2>1. s = [v |-> s.v, n |-> s.n, w |-> s.w, ok |-> s.ok]
    BY DEF Led, Shape
  <2>2. x = [s EXCEPT !.w = Append(s.w, SyncStep)]
    BY <1>1 DEF Sync
  <2> HIDE DEF x
  <2> QED
    BY <1>1, <2>1, <2>2
<1>3. todo' = IF x.ok THEN x.w ELSE x.w \o <<[step |-> "exit"]>>
  BY DEF Run
<1>4. UNCHANGED <<cvars, eof, partial, done>>
  BY DEF Run
<1> HIDE DEF x
<1>5. todo' = Append(s.w, SyncStep)
  BY <1>2, <1>3
<1>6. Ahead(Append(s.w, SyncStep), View, eof, current', done)
  BY <1>1 DEF Ahead
<1> QED
  BY <1>4, <1>5, <1>6, RunningStart

\* An update for one key, and what it promises.
ForKey(c, k, x) == c = {[key |-> k, value |-> x]}

\* An update of one ownertrust is about its key, and promises its value.
LEMMA OnePromise ==
  ASSUME NEW k, NEW x, NEW d, NEW c, ForKey(c, k, x)
  PROVE  /\ KeysOf(c) = {k}
         /\ \A q \in Keys : Promised(c, d)[q] = IF q = k THEN x ELSE d[q]
<1> DEFINE e == [key |-> k, value |-> x]
<1>1. e.key = k /\ e.value = x /\ c = {e}
  BY DEF ForKey
<1> HIDE DEF e
<1>2. (CHOOSE y \in c : TRUE) = e
  BY <1>1
<1>3. KeysOf(c) = {k} /\ \A q : (\E y \in c : y.key = q) <=> q = k
  BY <1>1 DEF KeysOf
<1> QED
  BY <1>1, <1>2, <1>3 DEF Promised

\* A trust record was written, then the database is marked and synced.
LEMMA TrustRuns ==
  ASSUME PInv, Running, Ready, NEW k \in Keys, NEW x, NEW s, NEW r, NEW d,
         TrustWritten(s, r, d, View, eof, {k}), r \in Recs,
         d.type = "trust", d.fpr = k, d.ownertrust = x,
         Run(Sync(Mark(s))), current' = {[key |-> k, value |-> x]}
  PROVE  Running' /\ written' = written
<1> DEFINE m == Mark(s)
<1>0. OnDisk(View, eof, done)
  BY BeginGood
<1> HIDE DEF View
<1>1. Led(s, View, eof, {k}) /\ Good(s.v, s.n, {}) /\ s.v[r] = d
  BY DEF TrustWritten
<1>2. Marked(m, s, View, eof, {k})
  BY <1>1, MarkGood
<1> HIDE DEF m
<1>3. Led(m, View, eof, {k}) /\ Good(m.v, m.n, {}) /\ m.v[r] = d
  BY <1>1, <1>2 DEF Marked, TrustSame
<1>4. IsTrust(m.v, r, k)
  BY <1>3 DEF IsTrust
<1>5. Own(m.v, k) = x
  BY <1>3, <1>4, OwnGood
<1>6. \A q \in Keys : q # k => Own(m.v, q) = done[q]
  BY <1>0, <1>3 DEF Led, Quiet, OnDisk
<1>7. /\ KeysOf(current') = {k}
      /\ \A q \in Keys : Promised(current', done)[q] =
                           IF q = k THEN x ELSE done[q]
  <2>1. ForKey(current', k, x)
    BY DEF ForKey
  <2> QED
    BY <2>1, OnePromise
<1>8. \A q \in Keys : Own(m.v, q) = Promised(current', done)[q]
  BY <1>5, <1>6, <1>7
<1>9. Run(Sync(m)) /\ Led(m, View, eof, KeysOf(current'))
  BY <1>3, <1>7 DEF m
<1> QED
  BY <1>3, <1>8, <1>9, Synced

\* A trust record with another ownertrust.
LEMMA OtherTrust ==
  ASSUME NEW d \in Record, d.type = "trust", NEW x \in Values
  PROVE  LET e == [d EXCEPT !.ownertrust = x] IN
         /\ e \in Record /\ e.type = "trust" /\ e.fpr = d.fpr
         /\ e.ownertrust = x /\ e.validlist = d.validlist
<1> DEFINE e == [d EXCEPT !.ownertrust = x]
<1>1. /\ d = Trust(d.fpr, d.ownertrust, d.validlist)
      /\ d.fpr \in Keys /\ d.validlist \in Recs
  BY ByType
<1>2. e = Trust(d.fpr, x, d.validlist)
  BY <1>1 DEF Trust
<1>3. Trust(d.fpr, x, d.validlist) \in Record
  BY <1>1, Kinds
<1> QED
  BY <1>2, <1>3 DEF Trust

\* tdb_update_ownertrust of a key that has a trust record, and
\* tdb_clear_ownertrusts.
LEMMA ChangeRuns ==
  ASSUME PInv, Running, Ready, HasTable, NEW k \in Keys, NEW x \in Values,
         Lookup(View, k) > 0,
         Run(Sync(Mark(WriteTrust(Begin, Lookup(View, k),
                        [View[Lookup(View, k)] EXCEPT !.ownertrust = x])))),
         current' = {[key |-> k, value |-> x]}
  PROVE  Running' /\ written' = written
<1> DEFINE r == Lookup(View, k)
           d == [View[r] EXCEPT !.ownertrust = x]
           s == WriteTrust(Begin, r, d)
<1>1. /\ Led(Begin, View, eof, {k}) /\ Begin.v = View /\ Begin.n = eof
      /\ Good(View, eof, {})
  BY BeginGood
<1>2. /\ View \in [Recs -> Record] /\ Within(View, eof) /\ eof \in Nat
      /\ View[0].type = "ver"
  BY BeginSane DEF HasTable
<1>3. /\ r \in Recs /\ r # 0 /\ r < eof
      /\ View[r].type = "trust" /\ View[r].fpr = k
  BY <1>2, LookupFound
<1> HIDE DEF View, r
<1>4. /\ d \in Record /\ d.type = "trust" /\ d.fpr = k
      /\ d.ownertrust = x /\ d.validlist = View[r].validlist
  BY <1>2, <1>3, OtherTrust
<1>5. /\ Top(View) /\ ValOK(View) /\ Core(View, eof, {}) /\ Unique(View)
  BY <1>1 DEF Good, Core, Base
<1> HIDE DEF d
<1>6. ValOK([View EXCEPT ![r] = d])
  BY <1>3, <1>4, <1>5, ValKept
<1>7. TrustWrite(Begin, r, d, {k})
  <2>1. IsTrust(View, r, k)
    BY <1>3 DEF IsTrust
  <2>2. \A q \in Recs : IsTrust(View, q, k) => q = r
    BY <1>3, <1>5, <2>1 DEF Unique
  <2> QED
    BY <1>1, <1>3, <1>4, <1>5, <1>6, <2>1, <2>2 DEF TrustWrite
<1>8. Run(Sync(Mark(s)))
  BY DEF r, d
<1>9. Mark(s).n \in Recs /\ Grown(Mark(s), s)
  <2>1. Sync(Mark(s)).n \in Recs
    BY <1>8 DEF Run
  <2>2. Grown(s, Begin) /\ Grown(Mark(s), s)
    BY <1>1, GrownOn, TrustGrows DEF Led, Grown
  <2> HIDE DEF s
  <2>3. Grown(Sync(Mark(s)), Mark(s))
    BY <2>2, WriteGrows DEF Grown
  <2>4. Mark(s).n \in Recs
    BY <2>1, <2>3, GrownRecs
  <2> QED
    BY <2>2, <2>4
<1>10. s.n \in Recs
  <2> HIDE DEF s
  <2> QED
    BY <1>9, GrownRecs
<1>11. TrustWritten(s, r, d, View, eof, {k})
  BY <1>1, <1>7, <1>10, WriteTrustGood
<1> HIDE DEF s
<1> QED
  BY <1>3, <1>4, <1>8, <1>11, TrustRuns

\* The trust record of a key that had none may be written where
\* tdbio_new_recnum says.
LEMMA NewTrustGood ==
  ASSUME PInv, Running, Ready, NEW k \in Keys, Lookup(View, k) = 0,
         NEW x \in Values, NEW K, Alloc(Begin).n \in Recs
  PROVE  LET t == Alloc(Begin)
             h == NewRecnum(Begin)
             d == Trust(k, x, 0)
         IN  /\ Led(t, View, eof, K) /\ Good(t.v, t.n, {})
             /\ h \in Recs /\ h < t.n /\ t.v[h] = Unused
             /\ d \in Record /\ d.type = "trust" /\ d.fpr = k
             /\ d.ownertrust = x /\ d.validlist = 0
             /\ \A q \in Recs : ~IsTrust(t.v, q, k)
             /\ Own(t.v, k) = 0
<1> DEFINE t == Alloc(Begin)
           h == NewRecnum(Begin)
           d == Trust(k, x, 0)
<1>1. /\ Led(Begin, View, eof, K) /\ Begin.v = View /\ Begin.n = eof
      /\ Good(View, eof, {})
  BY BeginGood
<1>2. Good(Begin.v, Begin.n, {})
  BY <1>1
<1>3. Led(t, View, eof, K) /\ Allotted(t, Begin, {})
  BY <1>1, <1>2, AllocGood
<1>4. Own(View, k) = 0 /\ \A r \in Recs : ~IsTrust(View, r, k)
  BY <1>1, NoneGood
<1> HIDE DEF View, t
<1>5. /\ Good(t.v, t.n, {}) /\ h \in Recs /\ h < t.n /\ t.v[h] = Unused
      /\ TrustSame(View, t.v) /\ Quiet(View, t.v, {})
  BY <1>1, <1>3 DEF Allotted
<1>6. \A q \in Recs : ~IsTrust(t.v, q, k)
  BY <1>4, <1>5 DEF TrustSame, IsTrust
<1>7. Own(t.v, k) = 0
  BY <1>4, <1>5 DEF Quiet
<1>8. d \in Record
  BY Kinds, RecsAssumption
<1> HIDE DEF h
<1>9. /\ d.type = "trust" /\ d.fpr = k
      /\ d.ownertrust = x /\ d.validlist = 0
  BY DEF Trust
<1> HIDE DEF d
<1> QED
  BY <1>3, <1>5, <1>6, <1>7, <1>8, <1>9 DEF t, h, d

\* tdb_update_ownertrust of a key that has none.
LEMMA NewRuns ==
  ASSUME PInv, Running, Ready, NEW k \in Keys, NEW x \in Values,
         Lookup(View, k) = 0,
         Run(Sync(Mark(WriteTrust(Alloc(Begin), NewRecnum(Begin),
                                  Trust(k, x, 0))))),
         current' = {[key |-> k, value |-> x]}
  PROVE  Running' /\ written' = written
<1> DEFINE t == Alloc(Begin)
           h == NewRecnum(Begin)
           d == Trust(k, x, 0)
           s == WriteTrust(t, h, d)
<1>1. Led(Begin, View, eof, {k})
  BY BeginGood
<1>2. Grown(t, Begin)
  BY <1>1, AllocGrows DEF Led
<1> HIDE DEF t
<1>3. Grown(s, t)
  BY <1>2, TrustGrows DEF Grown
<1>4. Run(Sync(Mark(s)))
  BY DEF t
<1> HIDE DEF s
<1>5. Grown(Mark(s), s) /\ Grown(Sync(Mark(s)), Mark(s))
  BY <1>3, TrustGrows, WriteGrows DEF Grown
<1>6. s.n \in Recs /\ t.n \in Recs
  <2>1. Sync(Mark(s)).n \in Recs
    BY <1>4 DEF Run
  <2>2. Mark(s).n \in Recs
    BY <1>5, <2>1, GrownRecs
  <2> QED
    BY <1>3, <1>5, <2>2, GrownRecs
<1>7. /\ Led(t, View, eof, {k}) /\ Good(t.v, t.n, {})
      /\ h \in Recs /\ h < t.n /\ t.v[h] = Unused
      /\ d \in Record /\ d.type = "trust" /\ d.fpr = k
      /\ d.ownertrust = x /\ d.validlist = 0
      /\ \A q \in Recs : ~IsTrust(t.v, q, k)
  BY <1>6, NewTrustGood DEF t
<1> HIDE DEF View, h, d
<1>8. ValOK([t.v EXCEPT ![h] = d])
  <2>1. Top(t.v) /\ ValOK(t.v)
    BY <1>7 DEF Good, Core, Base
  <2> QED
    BY <1>7, <2>1, ValNew
<1>9. TrustWrite(t, h, d, {k})
  BY <1>7, <1>8 DEF TrustWrite, Good
<1>10. TrustWritten(s, h, d, View, eof, {k})
  BY <1>6, <1>7, <1>9, WriteTrustGood DEF s
<1> QED
  BY <1>4, <1>7, <1>10, TrustRuns DEF View

\* update_validity.
LEMMA ValidityRuns ==
  ASSUME PInv, Running, NEW k \in Keys, NEW u \in Names, NEW x \in Values,
         UpdateValidity(k, u, x)
  PROVE  Running' /\ written' = written
<1> DEFINE r == Lookup(View, k)
           h == NewRecnum(Begin)
           t == Alloc(Begin)
           d == Trust(k, 0, 0)
<1>1. Ready /\ HasTable /\ UNCHANGED current
  BY DEF UpdateValidity
<1>2. /\ Led(Begin, View, eof, {}) /\ Begin.v = View /\ Begin.n = eof
      /\ Good(View, eof, {}) /\ Good(Begin.v, Begin.n, {})
  BY <1>1, BeginGood
<1>3. CASE r > 0 /\ Run(SetValidity(Begin, r, View[r], u, x))
  <2> DEFINE s == SetValidity(Begin, r, View[r], u, x)
  <2>1. /\ View \in [Recs -> Record] /\ Within(View, eof) /\ eof \in Nat
        /\ View[0].type = "ver"
    BY <1>1, BeginSane DEF HasTable
  <2>2. /\ r \in Recs /\ r # 0 /\ r < eof
        /\ View[r].type = "trust" /\ View[r].fpr = k
    BY <1>3, <2>1, LookupFound
  <2>3. IsTrust(View, r, k)
    BY <2>2 DEF IsTrust
  <2>4. PrependTo(Begin, r, View[r], {})
    <3>1. \A q \in Recs : IsTrust(View, q, k) => q = r
      BY <1>2, <2>2, <2>3 DEF Good, Core, Unique
    <3>2. Own(View, k) = View[r].ownertrust
      BY <1>2, <2>3, OwnGood
    <3> HIDE DEF r, View
    <3> QED
      BY <1>2, <2>1, <2>2, <3>1, <3>2 DEF PrependTo
  <2>5. s.n \in Recs
    BY <1>3 DEF Run
  <2>6. Led(s, View, eof, {}) /\ Good(s.v, s.n, {})
    BY <1>2, <2>4, <2>5, SetValidityGood
  <2>7. Run(s)
    BY <1>3
  <2> HIDE DEF s
  <2> QED
    BY <1>1, <2>6, <2>7, Unsynced
<1>4. CASE r = 0 /\ Run(SetValidity(t, h, d, u, x))
  <2> DEFINE s == SetValidity(t, h, d, u, x)
  <2>1. s.n \in Recs
    BY <1>4 DEF Run
  <2>2. Grown(t, Begin)
    BY <1>2, AllocGrows DEF Led
  <2>3. Grown(s, t)
    BY <2>2, ValidityGrows DEF Grown
  <2>4. t.n \in Recs
    <3> HIDE DEF s, t
    <3> QED
      BY <2>1, <2>3, GrownRecs
  <2>5. /\ Led(t, View, eof, {}) /\ Good(t.v, t.n, {})
        /\ h \in Recs /\ h < t.n /\ t.v[h] = Unused
        /\ d \in Record /\ d.type = "trust" /\ d.fpr = k
        /\ d.ownertrust = 0 /\ d.validlist = 0
        /\ \A q \in Recs : ~IsTrust(t.v, q, k)
        /\ Own(t.v, k) = 0
    BY <1>1, <1>4, <2>4, NewTrustGood, ValuesAssumption
  <2> HIDE DEF t, h, d, View
  <2>6. PrependTo(t, h, d, {})
    BY <2>5 DEF PrependTo
  <2>7. Led(s, View, eof, {}) /\ Good(s.v, s.n, {})
    BY <2>1, <2>5, <2>6, SetValidityGood
  <2>8. Run(s)
    BY <1>4
  <2> HIDE DEF s
  <2> QED
    BY <1>1, <2>7, <2>8, Unsynced DEF View
<1> QED
  BY <1>3, <1>4 DEF UpdateValidity

\* tdb_update_ownertrust, tdb_clear_ownertrusts.
LEMMA OwnertrustRuns ==
  ASSUME PInv, Running, NEW k \in Keys,
         ClearOwnertrust(k) \/ \E x \in Values : UpdateOwnertrust(k, x)
  PROVE  Running' /\ written' = written
<1>1. CASE ClearOwnertrust(k)
  <2>1. /\ Ready /\ HasTable /\ Lookup(View, k) > 0
        /\ Run(Sync(Mark(WriteTrust(Begin, Lookup(View, k),
                          [View[Lookup(View, k)] EXCEPT !.ownertrust = 0]))))
        /\ current' = {[key |-> k, value |-> 0]}
    BY <1>1 DEF ClearOwnertrust
  <2> QED
    BY <2>1, ChangeRuns, ValuesAssumption, Zenon
<1>2. ASSUME NEW x \in Values, UpdateOwnertrust(k, x)
      PROVE  Running' /\ written' = written
  <2>1. Ready /\ HasTable /\ current' = {[key |-> k, value |-> x]}
    BY <1>2 DEF UpdateOwnertrust
  <2>2. CASE /\ Lookup(View, k) > 0
             /\ Run(Sync(Mark(WriteTrust(Begin, Lookup(View, k),
                       [View[Lookup(View, k)] EXCEPT !.ownertrust = x]))))
    BY <2>1, <2>2, ChangeRuns, Zenon
  <2>3. CASE /\ Lookup(View, k) = 0
             /\ Run(Sync(Mark(WriteTrust(Alloc(Begin), NewRecnum(Begin),
                                         Trust(k, x, 0)))))
    BY <2>1, <2>3, NewRuns, Zenon
  <2> QED
    BY <1>2, <2>2, <2>3 DEF UpdateOwnertrust
<1> QED
  BY <1>1, <1>2

\* The end of validate_keys.
LEMMA FinishRuns ==
  ASSUME PInv, Running, FinishValidation
  PROVE  Running' /\ written' = written
<1> DEFINE d == [View[0] EXCEPT !.nextcheck = 0]
           s == WriteRec(Begin, 0, d)
           K == KeysOf(current)
<1>1. Ready /\ Run(Sync(s)) /\ UNCHANGED current
  BY DEF FinishValidation
<1>2. /\ Led(Begin, View, eof, {}) /\ Led(Begin, View, eof, K)
      /\ Begin.v = View /\ Begin.n = eof
      /\ Good(Begin.v, Begin.n, {}) /\ OnDisk(View, eof, done)
      /\ Promised(current, done) = done
  BY <1>1, BeginGood
<1>3. d = [Begin.v[0] EXCEPT !.nextcheck = 0]
  BY <1>2
<1>4. PlainWritten(s, Begin, 0, d, View, eof, K)
  BY <1>2, <1>3, NextcheckGood
<1> HIDE DEF s, d
<1>5. Led(s, View, eof, K) /\ Good(s.v, s.n, {}) /\ Quiet(View, s.v, {})
  BY <1>2, <1>4 DEF PlainWritten, HasWritten
<1>6. \A k \in Keys : Own(s.v, k) = Promised(current', done)[k]
  BY <1>1, <1>2, <1>5 DEF Quiet, OnDisk
<1> QED
  BY <1>1, <1>5, <1>6, Synced

\* The records of w are those of v but for some validities.
Like(v, w) ==
  /\ w \in [Recs -> Record]
  /\ \A r \in Recs : \/ w[r] = v[r]
                     \/ /\ v[r].type = "valid" /\ w[r].type = "valid"
                        /\ w[r].next = v[r].next

\* Lists are the same then.
LEMMA LinkedLike ==
  ASSUME NEW v, Top(v), NEW w, Like(v, w),
         NEW type \in {"hlst", "valid", "free"}, NEW h \in Recs, NEW L,
         Linked(v, h, type, L)
  PROVE  Linked(w, h, type, L) /\ EndOf(w, h, L) = EndOf(v, h, L)
<1>1. /\ L \in Seq(Recs) /\ Len(L) \in Nat
      /\ L = <<>> <=> Len(L) = 0
      /\ \A i \in 1..Len(L) : /\ L[i] \in Recs /\ v[L[i]].type = type
                              /\ v[L[i]].next \in Recs
  BY ListRec
<1>2. \A i \in 1..Len(L) : /\ w[L[i]].type = v[L[i]].type
                           /\ w[L[i]].next = v[L[i]].next
  BY <1>1 DEF Like
<1>3. EndOf(w, h, L) = EndOf(v, h, L) /\ EndOf(v, h, L) \in Recs
  BY <1>1, <1>2 DEF EndOf
<1>4. w[EndOf(v, h, L)].type = v[EndOf(v, h, L)].type
  BY <1>3 DEF Like
<1> QED
  BY <1>1, <1>2, <1>3, <1>4 DEF Linked

\* So the database works as before.
LEMMA LikeGood ==
  ASSUME NEW v, NEW n, Good(v, n, {}), NEW w, Like(v, w)
  PROVE  Good(w, n, {}) /\ Quiet(v, w, {})
<1>1. /\ Top(v) /\ n \in Nat /\ 2 <= n /\ Unique(v)
      /\ \A r \in Recs : n <= r => v[r] = Unused
  BY DEF Good, Core, Base
<1>2. /\ 0 \in Recs /\ 1 \in Recs /\ v[1].item \in [Buckets -> Recs]
      /\ \A b \in Buckets : Item(v, b) \in Recs
  BY <1>1, TopFacts
<1>3. \A r \in Recs : /\ w[r].type = v[r].type
                      /\ v[r].type # "valid" => w[r] = v[r]
  BY DEF Like
<1>4. w[0] = v[0] /\ w[1] = v[1] /\ v[0].type = "ver" /\ Top(w)
  BY <1>1, <1>2, <1>3 DEF Top, Like
<1>5. Base(w, n)
  <2>1. ASSUME NEW r \in Recs, n <= r PROVE w[r] = Unused
    <3>1. v[r] = Unused
      BY <1>1, <2>1
    <3> QED
      BY <1>3, <3>1 DEF Unused
  <2> QED
    BY <1>1, <1>4, <2>1 DEF Base
<1>6. \A k : \A r \in Recs : IsTrust(w, r, k) <=> IsTrust(v, r, k)
  BY <1>3 DEF IsTrust
<1>7. Unique(w)
  BY <1>1, <1>6 DEF Unique
<1>8. FreeOK(w)
  <2>1. PICK fl : FreeIs(v, fl)
    BY DEF Good, Core, FreeOK
  <2>2. v[0].firstfree \in Recs
    BY <1>1, <1>2, <1>4, ByType DEF Top
  <2>3. Linked(w, v[0].firstfree, "free", fl)
        /\ EndOf(w, v[0].firstfree, fl) = 0
    BY <1>1, <2>1, <2>2, LinkedLike DEF FreeIs
  <2>4. FreeIs(w, fl)
    BY <1>3, <1>4, <2>1, <2>3 DEF FreeIs
  <2> QED
    BY <2>4 DEF FreeOK
<1>9. PICK hl : HashIs(v, hl, {})
  BY DEF Good, Core, HashOK
<1>10. \A b \in Buckets : Item(w, b) = Item(v, b)
  BY <1>4 DEF Item
<1>11. ASSUME NEW b \in Buckets
       PROVE  /\ Linked(w, Item(w, b), "hlst", hl[b])
              /\ EndOf(w, Item(w, b), hl[b]) = EndOf(v, Item(v, b), hl[b])
  <2>1. Linked(v, Item(v, b), "hlst", hl[b])
    BY <1>9 DEF HashIs, Hung
  <2> QED
    BY <1>1, <1>2, <1>10, <2>1, LinkedLike
<1>12. Hung(w, hl) /\ Hung(v, hl)
  BY <1>9, <1>11 DEF HashIs, Hung
<1>13. \A b \in Buckets : \A r : Placed(w, hl, b, r) <=> Placed(v, hl, b, r)
  <2>1. ASSUME NEW b \in Buckets, NEW j \in 1..Len(hl[b])
        PROVE  w[hl[b][j]] = v[hl[b][j]]
    <3>1. Linked(v, Item(v, b), "hlst", hl[b])
      BY <1>12 DEF Hung
    <3>2. hl[b][j] \in Recs /\ v[hl[b][j]].type = "hlst"
      BY <1>1, <3>1, ListRec
    <3> QED
      BY <1>3, <3>2
  <2> QED
    BY <1>10, <2>1 DEF Placed
<1>14. Shut(w, hl)
  BY <1>2, <1>3, <1>9, <1>10, <1>11 DEF HashIs, Shut
<1>15. \A k \in Keys : \A r \in Recs :
         IsTrust(w, r, k) => Placed(w, hl, Bucket[k], r)
  <2>1. \A k \in Keys : Bucket[k] \in Buckets
    BY <1>1, TopFacts
  <2> QED
    BY <1>6, <1>9, <1>13, <2>1 DEF HashIs
<1>16. HashIs(w, hl, {})
  BY <1>12, <1>14, <1>15 DEF HashIs
<1>17. ValOK(w)
  <2>1. PICK vl : ValIs(v, vl)
    BY DEF Good, ValOK
  <2>2. ASSUME NEW r \in Recs, w[r].type = "trust"
        PROVE  /\ Linked(w, w[r].validlist, "valid", vl[r])
               /\ EndOf(w, w[r].validlist, vl[r]) = 0
    <3>1. w[r] = v[r] /\ v[r].type = "trust" /\ v[r].validlist \in Recs
      BY <1>1, <1>3, <2>2, ByType DEF Top
    <3>2. /\ Linked(v, v[r].validlist, "valid", vl[r])
          /\ EndOf(v, v[r].validlist, vl[r]) = 0
      BY <2>1, <3>1 DEF ValIs
    <3> QED
      BY <1>1, <3>1, <3>2, LinkedLike
  <2>3. ValIs(w, vl)
    BY <1>3, <2>1, <2>2 DEF ValIs
  <2> QED
    BY <2>3 DEF ValOK
<1>18. Good(w, n, {})
  BY <1>5, <1>7, <1>8, <1>16, <1>17 DEF Good, Core, HashOK
<1>19. ASSUME NEW k \in Keys PROVE Own(w, k) = Own(v, k)
  <2>1. Bucket[k] \in Buckets
    BY <1>1, TopFacts
  <2>2. \A r \in Recs : Found(w, hl, k, r) <=> Found(v, hl, k, r)
    BY <1>6, <1>13, <2>1 DEF Found
  <2>3. \A r \in Recs : Found(v, hl, k, r) =>
                          w[r].ownertrust = v[r].ownertrust
    BY <1>3 DEF Found, IsTrust
  <2> QED
    BY <1>1, <1>4, <1>7, <1>12, <2>2, <2>3, OwnSame
<1> QED
  BY <1>18, <1>19 DEF Quiet

\* The records of S without their validities.
Reset(v, S) == [q \in Recs |-> IF q \in S THEN [v[q] EXCEPT !.validity = 0]
                               ELSE v[q]]

\* They are as before but for these.
LEMMA ResetLike ==
  ASSUME NEW v \in [Recs -> Record], NEW S,
         \A q \in S : q \in Recs /\ v[q].type = "valid"
  PROVE  Like(v, Reset(v, S))
<1>1. ASSUME NEW q \in S
      PROVE  LET e == [v[q] EXCEPT !.validity = 0] IN
             e \in Record /\ e.type = "valid" /\ e.next = v[q].next
  BY OtherValid, ValuesAssumption
<1> DEFINE w == Reset(v, S)
<1>2. \A q \in Recs : w[q] = IF q \in S THEN [v[q] EXCEPT !.validity = 0]
                             ELSE v[q]
  BY DEF Reset
<1>3. w = [q \in Recs |-> w[q]]
  BY DEF Reset
<1> HIDE DEF w
<1>4. w \in [Recs -> Record]
  BY <1>1, <1>2, <1>3
<1> QED
  BY <1>1, <1>2, <1>4 DEF Like, w

\* reset_trust_records.
LEMMA ResetRuns ==
  ASSUME PInv, Running, ResetTrustRecords
  PROVE  Running' /\ written' = written
<1>1. Ready /\ UNCHANGED current
  BY DEF ResetTrustRecords
<1>2. /\ Begin.v = View /\ Begin.n = eof /\ Good(View, eof, {})
      /\ View \in [Recs -> Record] /\ eof \in Nat
      /\ OnDisk(View, eof, done) /\ Promised(current, done) = done
  BY <1>1, BeginGood, BeginSane
<1> DEFINE C == Cardinality(ToReset)
           W(p) == [i \in DOMAIN p |->
                      PutStep(p[i], [View[p[i]] EXCEPT !.validity = 0])]
<1>3. PICK p \in [1..C -> ToReset] :
        /\ \A i, j \in DOMAIN p : i < j => p[i] < p[j]
        /\ Run([Begin EXCEPT !.w = W(p)])
  BY DEF ResetTrustRecords
<1>4. C \in Nat
  <2>1. IsFiniteSet(Recs) /\ ToReset \subseteq Recs
    BY RecsInterval DEF ToReset
  <2> QED
    BY <2>1, FS_Subset, FS_CardinalityType
<1> DEFINE w == W(p)
           s == [Begin EXCEPT !.w = w]
           T(i) == {p[j] : j \in {k \in 1..C : k < i}}
           V(i) == Reset(View, T(i))
           vs == [i \in 1..C + 1 |-> V(i)]
           ns == [i \in 1..C + 1 |-> eof]
<1> HIDE DEF C, View
<1>5. \A i \in 1..C : /\ p[i] \in Recs /\ p[i] < eof
                      /\ View[p[i]].type = "valid"
  BY <1>3 DEF ToReset
<1>6. \A i, j \in 1..C : p[i] = p[j] => i = j
  <2> SUFFICES ASSUME NEW i \in 1..C, NEW j \in 1..C, i < j
               PROVE  p[i] # p[j]
    BY <1>4
  <2>1. p[i] < p[j] /\ p[i] \in Nat
    BY <1>3, <1>5, RecsAssumption
  <2> QED
    BY <2>1
<1>7. ASSUME NEW i \in 1..C
      PROVE  /\ w[i] = PutStep(p[i], [View[p[i]] EXCEPT !.validity = 0])
             /\ w[i] \in Steps /\ w[i].step = "put" /\ w[i].recno = p[i]
             /\ w[i].data = [View[p[i]] EXCEPT !.validity = 0]
  <2>1. w[i] = PutStep(p[i], [View[p[i]] EXCEPT !.validity = 0])
    BY <1>3
  <2>2. [View[p[i]] EXCEPT !.validity = 0] \in Record
    BY <1>2, <1>5, OtherValid, ValuesAssumption
  <2> HIDE DEF w
  <2> QED
    BY <1>5, <2>1, <2>2, StepTypes DEF PutStep
<1>8. w \in Seq(Steps) /\ Len(w) = C
  <2>1. DOMAIN w = 1..C /\ w = [i \in 1..C |-> w[i]]
    BY <1>3
  <2> HIDE DEF w
  <2>2. w \in [1..C -> Steps]
    BY <1>7, <2>1
  <2> QED
    BY <1>4, <2>2, SeqDef, LenProperties
<1> HIDE DEF w
<1>9. ASSUME NEW i \in 1..C + 1
      PROVE  /\ Like(View, V(i)) /\ V(i) \in [Recs -> Record]
             /\ Good(V(i), eof, {}) /\ Quiet(View, V(i), {})
  <2>1. \A q \in T(i) : q \in Recs /\ View[q].type = "valid"
    BY <1>5
  <2> HIDE DEF T
  <2>2. Like(View, V(i))
    BY <1>2, <2>1, ResetLike
  <2> HIDE DEF V
  <2> QED
    BY <1>2, <2>2, LikeGood DEF Like
<1>10. V(1) = View
  <2>1. T(1) = {}
    BY <1>4
  <2> HIDE DEF T
  <2> QED
    BY <1>2, <2>1 DEF Reset
<1>11. ASSUME NEW i \in 1..C
       PROVE  V(i + 1) = [V(i) EXCEPT ![p[i]] = w[i].data]
  <2>1. \A q : q \in T(i + 1) <=> q \in T(i) \/ q = p[i]
    BY <1>4
  <2>2. /\ \A q \in Recs : V(i)[q] = IF q \in T(i)
                                     THEN [View[q] EXCEPT !.validity = 0]
                                     ELSE View[q]
        /\ \A q \in Recs : V(i + 1)[q] = IF q \in T(i + 1)
                                     THEN [View[q] EXCEPT !.validity = 0]
                                     ELSE View[q]
        /\ V(i) = [q \in Recs |-> V(i)[q]]
        /\ V(i + 1) = [q \in Recs |-> V(i + 1)[q]]
    BY DEF Reset
  <2>3. p[i] \in Recs /\ w[i].data = [View[p[i]] EXCEPT !.validity = 0]
    BY <1>5, <1>7
  <2> HIDE DEF T, V
  <2>4. \A q \in Recs : V(i + 1)[q] = IF q = p[i] THEN w[i].data ELSE V(i)[q]
    BY <2>1, <2>2, <2>3
  <2> DEFINE a == V(i)
             b == V(i + 1)
  <2>5. /\ a = [q \in Recs |-> a[q]] /\ b = [q \in Recs |-> b[q]]
        /\ \A q \in Recs : b[q] = IF q = p[i] THEN w[i].data ELSE a[q]
    BY <2>2, <2>4
  <2> HIDE DEF a, b
  <2>6. b = [a EXCEPT ![p[i]] = w[i].data]
    BY <2>3, <2>5
  <2> QED
    BY <2>6 DEF a, b
<1> HIDE DEF V, T
<1>12. LeadsBy(vs, ns, w, View, eof, V(C + 1), eof, {})
  <2>1. /\ vs \in [1..C + 1 -> [Recs -> Record]] /\ ns \in [1..C + 1 -> Nat]
        /\ vs[1] = View /\ vs[C + 1] = V(C + 1)
        /\ ns[1] = eof /\ ns[C + 1] = eof
    BY <1>2, <1>4, <1>9, <1>10
  <2>2. ASSUME NEW i \in 1..C
        PROVE  One(w[i], vs[i], ns[i], vs[i + 1], ns[i + 1], {})
    <3>1. /\ vs[i] = V(i) /\ vs[i + 1] = V(i + 1) /\ ns[i] = eof
          /\ ns[i + 1] = eof /\ i \in 1..C + 1 /\ i + 1 \in 1..C + 1
      BY <1>4
    <3>2. Quiet(V(i), V(i + 1), {})
      BY <1>9, <3>1 DEF Quiet
    <3> QED
      BY <1>5, <1>7, <1>11, <3>1, <3>2 DEF One
  <2> HIDE DEF vs, ns
  <2> QED
    BY <1>8, <2>1, <2>2 DEF LeadsBy
<1> HIDE DEF vs, ns
<1>13. Leads(w, View, eof, V(C + 1), eof, {})
  BY <1>8, <1>12 DEF Leads
<1>14. Leads(w, View, eof, V(C + 1), eof, KeysOf(current))
  BY <1>13, LeadsMore
<1>15. Good(V(C + 1), eof, {}) /\ Quiet(View, V(C + 1), {})
  BY <1>4, <1>9
<1>16. \A k \in Keys : Own(V(C + 1), k) = Promised(current, done)[k]
  BY <1>2, <1>15 DEF OnDisk, Quiet
<1>17. Ahead(w, View, eof, current, done)
  BY <1>2, <1>14, <1>15, <1>16 DEF Ahead
<1>18. todo' = w /\ UNCHANGED <<cvars, eof, partial, done>>
  <2>1. s.w = w /\ s.ok = TRUE
    BY DEF Begin
  <2>2. Run(s)
    BY <1>3 DEF w
  <2> HIDE DEF s
  <2> QED
    BY <2>1, <2>2 DEF Run
<1> QED
  BY <1>1, <1>17, <1>18, RunningStart DEF View

-----------------------------------------------------------------------------
(***************************************************************************)
(* A database while it is made.                                            *)
(***************************************************************************)
\* The records that a new database has.
LEMMA NewRecords ==
  /\ V0 \in Record /\ V0.type = "ver" /\ V0.trusthashtbl = 0
  /\ V0.firstfree = 0 /\ V1.firstfree = 0
  /\ V1 \in Record /\ V1.type = "ver" /\ V1.trusthashtbl = 1
  /\ H0 \in Record /\ H0.type = "htbl" /\ \A b \in Buckets : H0.item[b] = 0
  /\ Unused \in Record /\ Unused.type = "unused"
  /\ V1 = [V0 EXCEPT !.trusthashtbl = 1]
  /\ 0 \in Recs /\ 1 \in Recs /\ Recs \subseteq Nat
<1>1. 0 \in Recs /\ 1 \in Recs /\ Recs \subseteq Nat
  BY RecsAssumption, RecsInterval
<1>2. /\ V0 \in Record /\ V0.type = "ver" /\ V0.trusthashtbl = 0
      /\ V0.firstfree = 0 /\ V1.firstfree = 0
      /\ V1 \in Record /\ V1.type = "ver" /\ V1.trusthashtbl = 1
      /\ V1 = [V0 EXCEPT !.trusthashtbl = 1]
  <2>1. /\ \A c \in {0, 1} : c \in Recs
        /\ 0 \in {0, 1} /\ 1 \in {0, 1}
    BY <1>1
  <2>2. V0 \in Record /\ V1 \in Record
    BY <2>1, Kinds, Zenon DEF V0, V1
  <2> QED
    BY <2>2 DEF V0, V1, Ver
<1> DEFINE x == [b \in Buckets |-> 0]
<1>3. x \in [Buckets -> Recs] /\ \A b \in Buckets : x[b] = 0
  BY <1>1
<1> HIDE DEF x
<1>4. /\ Htbl(x) \in Record /\ Htbl(x).type = "htbl"
      /\ \A b \in Buckets : Htbl(x).item[b] = 0
  BY <1>3, Kinds DEF Htbl
<1>5. Unused \in Record /\ Unused.type = "unused"
  BY Kinds DEF Unused
<1> QED
  BY <1>1, <1>2, <1>4, <1>5 DEF H0, x

\* A database of these two.
LEMMA TwoRecords ==
  ASSUME NEW x \in {Unused, V0, V1}, NEW y \in {Unused, H0}
  PROVE  /\ Two(x, y) \in [Recs -> Record] /\ Two(x, y) \in Early
         /\ Two(x, y)[0] = x /\ Two(x, y)[1] = y
         /\ \A r \in Recs \ {0, 1} : Two(x, y)[r] = Unused
         /\ \A z : [Two(x, y) EXCEPT ![0] = z] = Two(z, y)
         /\ \A z : [Two(x, y) EXCEPT ![1] = z] = Two(x, z)
<1> DEFINE v == Two(x, y)
<1>1. /\ x \in Record /\ y \in Record /\ Unused \in Record
      /\ 0 \in Recs /\ 1 \in Recs
  BY NewRecords
<1>2. /\ v = [r \in Recs |-> v[r]] /\ v[0] = x /\ v[1] = y
      /\ \A r \in Recs \ {0, 1} : v[r] = Unused
  BY <1>1 DEF Two
<1>3. v \in Early
  BY DEF Early
<1>4. ASSUME NEW z PROVE [v EXCEPT ![0] = z] = Two(z, y)
  BY <1>1 DEF Two
<1>5. ASSUME NEW z PROVE [v EXCEPT ![1] = z] = Two(x, z)
  <2> DEFINE u == [v EXCEPT ![1] = z]
             c == Two(x, z)
  <2>1. c = [r \in Recs |-> c[r]] /\ \A r \in Recs \ {0, 1} : c[r] = Unused
    BY DEF Two
  <2>2. c[0] = x /\ c[1] = z
    BY <1>1 DEF Two
  <2> HIDE DEF c, v
  <2>3. /\ u = [r \in Recs |-> u[r]] /\ u[1] = z
        /\ \A r \in Recs : r # 1 => u[r] = v[r]
    BY <1>1, <1>2
  <2>4. \A r \in Recs : u[r] = c[r]
    BY <1>1, <1>2, <2>1, <2>2, <2>3
  <2> HIDE DEF u
  <2>5. u = c
    BY <2>1, <2>3, <2>4
  <2> QED
    BY <2>5 DEF u, c, v
<1> HIDE DEF v
<1>6. v \in [Recs -> Record]
  BY <1>1, <1>2
<1> QED
  BY <1>2, <1>3, <1>4, <1>5, <1>6 DEF v

\* A database without trust records works.
LEMMA EmptyGood ==
  ASSUME NEW v \in [Recs -> Record], v[0].type = "ver",
         v[0].trusthashtbl = 1, v[1] = H0,
         \A r \in Recs \ {0, 1} : v[r].type \in {"unused", "free"},
         NEW n \in Nat, 2 <= n, \A r \in Recs : n <= r => v[r] = Unused,
         FreeOK(v)
  PROVE  Good(v, n, {}) /\ \A k \in Keys : Own(v, k) = 0
<1> DEFINE hl == [b \in Buckets |-> <<>>]
           vl == [r \in Recs |-> <<>>]
<1>1. Top(v) /\ Base(v, n)
  BY NewRecords DEF Top, Base
<1>2. \A r \in Recs : v[r].type \notin {"hlst", "trust", "valid"}
  BY NewRecords
<1>3. \A b \in Buckets : Item(v, b) = 0
  BY NewRecords DEF Item
<1>4. \A h, type : h = 0 => Linked(v, h, type, <<>>)
  BY DEF Linked, EndOf
<1>5. /\ hl \in [Buckets -> Seq(Recs)] /\ \A b \in Buckets : hl[b] = <<>>
      /\ vl \in [Recs -> Seq(Recs)] /\ \A r \in Recs : vl[r] = <<>>
  OBVIOUS
<1> HIDE DEF hl, vl
<1>6. Hung(v, hl)
  BY <1>3, <1>4, <1>5 DEF Hung
<1>7. Shut(v, hl)
  BY <1>3, <1>5 DEF Shut
<1>8. \A k : \A r \in Recs : ~IsTrust(v, r, k)
  BY <1>2 DEF IsTrust
<1>9. HashIs(v, hl, {}) /\ Unique(v)
  BY <1>6, <1>7, <1>8 DEF HashIs, Unique
<1>10. ValIs(v, vl)
  BY <1>2, <1>5 DEF ValIs
<1>11. Good(v, n, {})
  BY <1>1, <1>9, <1>10 DEF Good, Core, HashOK, ValOK
<1>12. ASSUME NEW k \in Keys PROVE Own(v, k) = 0
  BY <1>1, <1>6, <1>8, <1>9, OwnIs DEF Found
<1> QED
  BY <1>11, <1>12

\* A new one does.
LEMMA MadeGood ==
  /\ Good(Two(V1, H0), 2, {}) /\ \A k \in Keys : Own(Two(V1, H0), k) = 0
<1> DEFINE v == Two(V1, H0)
<1>1. /\ v \in [Recs -> Record] /\ v[0] = V1 /\ v[1] = H0
      /\ \A r \in Recs \ {0, 1} : v[r] = Unused
  BY TwoRecords
<1> HIDE DEF v
<1>2. FreeOK(v)
  <2>1. Linked(v, 0, "free", <<>>) /\ EndOf(v, 0, <<>>) = 0
    BY DEF Linked, EndOf
  <2>2. \A r \in Recs : v[r].type # "free"
    BY <1>1, NewRecords
  <2>3. FreeIs(v, <<>>)
    BY <1>1, <2>1, <2>2, NewRecords DEF FreeIs
  <2> QED
    BY <2>3 DEF FreeOK
<1>3. \A r \in Recs : 2 <= r => r \in Recs \ {0, 1}
  BY NewRecords
<1>4. /\ v[0].type = "ver" /\ v[0].trusthashtbl = 1
      /\ \A r \in Recs \ {0, 1} : v[r].type \in {"unused", "free"}
      /\ \A r \in Recs : 2 <= r => v[r] = Unused
  BY <1>1, <1>3, NewRecords
<1>5. Good(v, 2, {}) /\ \A k \in Keys : Own(v, k) = 0
  BY <1>1, <1>2, <1>4, EmptyGood
<1> QED
  BY <1>5 DEF v

\* So does the one that was there, with a free record.
LEMMA OldGood ==
  ASSUME NEW v, v = [r \in Recs |-> CASE r = 0 -> Ver(2, 1, 0)
                                      [] r = 1 -> Htbl([b \in Buckets |-> 0])
                                      [] r = 2 -> Free(0)
                                      [] OTHER -> Unused]
  PROVE  Good(v, 3, {}) /\ \A k \in Keys : Own(v, k) = 0
<1>1. /\ 0 \in Recs /\ 1 \in Recs /\ 2 \in Recs /\ Recs \subseteq Nat
  BY RecsAssumption, RecsInterval
<1>2. /\ v[0] = Ver(2, 1, 0) /\ v[1] = H0 /\ v[2] = Free(0)
      /\ \A r \in Recs \ {0, 1, 2} : v[r] = Unused
      /\ v = [r \in Recs |-> v[r]]
  BY <1>1 DEF H0
<1>3. /\ Ver(2, 1, 0) \in Record /\ Free(0) \in Record
      /\ v[0].type = "ver" /\ v[0].firstfree = 2 /\ v[0].trusthashtbl = 1
      /\ v[2].type = "free" /\ v[2].next = 0
  <2>1. Ver(2, 1, 0) \in Record /\ Free(0) \in Record
    <3>1. 0 \in {0, 1}
      OBVIOUS
    <3> QED
      BY <1>1, <3>1, Kinds, Zenon
  <2> QED
    BY <1>2, <2>1 DEF Ver, Free
<1>4. v \in [Recs -> Record]
  BY <1>1, <1>2, <1>3, NewRecords
<1>5. FreeOK(v)
  <2> DEFINE L == <<2>>
  <2>1. L \in Seq(Recs) /\ Len(L) = 1 /\ L[1] = 2 /\ L # <<>>
    BY <1>1
  <2> HIDE DEF L
  <2>2. EndOf(v, 2, L) = 0
    BY <1>3, <2>1 DEF EndOf
  <2>3. Linked(v, 2, "free", L)
    BY <1>3, <2>1, <2>2 DEF Linked
  <2>4. InList(2, L)
    BY <2>1 DEF InList
  <2>5. \A r \in Recs : v[r].type = "free" => r = 2
    BY <1>2, <1>3, NewRecords
  <2>6. FreeIs(v, L)
    BY <1>3, <2>2, <2>3, <2>4, <2>5 DEF FreeIs
  <2> QED
    BY <2>6 DEF FreeOK
<1>6. /\ \A r \in Recs \ {0, 1} : v[r].type \in {"unused", "free"}
      /\ \A r \in Recs : 3 <= r => v[r] = Unused
  BY <1>1, <1>2, <1>3, NewRecords
<1> QED
  BY <1>2, <1>3, <1>4, <1>5, <1>6, EmptyGood

\* Until then there is no ownertrust.
LEMMA EarlyOwn ==
  ASSUME NEW v \in Early, NEW k \in Keys
  PROVE  Own(v, k) = 0
<1>1. PICK x \in {Unused, V0, V1}, y \in {Unused, H0} : v = Two(x, y)
  BY DEF Early
<1>2. v[0] = x /\ v[1] = y
  BY <1>1, TwoRecords
<1> HIDE DEF V0, V1, H0, Unused
<1>3. CASE x = V1 /\ y = H0
  BY <1>1, <1>3, MadeGood
<1>4. CASE ~(x = V1 /\ y = H0)
  <2>1. Lookup(v, k) = -1
    <3>1. CASE x = Unused
      <4>1. v[0].type # "ver"
        BY <1>2, <3>1, NewRecords
      <4> QED
        BY <4>1 DEF Lookup
    <3>2. CASE x = V0
      <4>1. v[0].type = "ver" /\ v[0].trusthashtbl = 0
        BY <1>2, <3>2, NewRecords
      <4> QED
        BY <4>1 DEF Lookup
    <3>3. CASE x = V1 /\ y = Unused
      <4>1. /\ v[0].type = "ver" /\ v[0].trusthashtbl = 1
            /\ v[1].type # "htbl"
        BY <1>2, <3>3, NewRecords
      <4> QED
        BY <4>1 DEF Lookup
    <3> QED
      BY <1>4, <3>1, <3>2, <3>3
  <2> QED
    BY <2>1 DEF Own
<1> QED
  BY <1>3, <1>4

\* What remains gets shorter.
LEMMA RestTail ==
  ASSUME NEW j \in 0..5, NEW t, Rest(j, t)
  PROVE  /\ t # <<>> /\ Head(t) = Making[j + 1]
         /\ Rest(j + 1, Tail(t))
<1>1. /\ t \in Seq(Steps) /\ Len(t) = 6 - j
      /\ \A i \in 1..6 - j : t[i] = Making[i + j]
  BY DEF Rest
<1>2. t # <<>> /\ Head(t) = t[1] /\ 1 \in 1..6 - j
  BY <1>1
<1>3. /\ Tail(t) \in Seq(Steps) /\ Len(Tail(t)) = 6 - (j + 1)
      /\ \A i \in 1..6 - (j + 1) : Tail(t)[i] = t[i + 1]
  BY <1>1, <1>2
<1> HIDE DEF Making
<1>4. \A i \in 1..6 - (j + 1) : /\ i + 1 \in 1..6 - j
                                /\ (i + 1) + j = i + (j + 1)
  OBVIOUS
<1>5. \A i \in 1..6 - (j + 1) : Tail(t)[i] = Making[i + (j + 1)]
  BY <1>1, <1>3, <1>4
<1>6. Rest(j + 1, Tail(t))
  BY <1>3, <1>5 DEF Rest
<1>7. 1 + j = j + 1
  OBVIOUS
<1> QED
  BY <1>1, <1>2, <1>6, <1>7

\* The steps by which a database is made.
LEMMA MakingSteps ==
  /\ Making[0 + 1] = PutStep(0, V0) /\ Making[1 + 1] = SyncStep
  /\ Making[2 + 1] = PutStep(1, H0) /\ Making[3 + 1] = PutStep(0, V1)
  /\ Making[4 + 1] = SyncStep /\ Making[5 + 1] = UnlockStep
  /\ \A r, d : /\ PutStep(r, d).step = "put" /\ PutStep(r, d).recno = r
               /\ PutStep(r, d).data = d
  /\ SyncStep.step = "sync" /\ UnlockStep.step = "unlock"
<1>1. /\ \A r, d : /\ PutStep(r, d).step = "put" /\ PutStep(r, d).recno = r
                   /\ PutStep(r, d).data = d
      /\ SyncStep.step = "sync" /\ UnlockStep.step = "unlock"
  BY DEF PutStep, SyncStep, UnlockStep
<1>2. /\ Making[0 + 1] = PutStep(0, V0) /\ Making[1 + 1] = SyncStep
      /\ Making[2 + 1] = PutStep(1, H0) /\ Making[3 + 1] = PutStep(0, V1)
      /\ Making[4 + 1] = SyncStep /\ Making[5 + 1] = UnlockStep
  BY DEF Making
<1> QED
  BY <1>1, <1>2

\* Where a database is while it is made.
LEMMA Phases ==
  ASSUME NEW t, NEW b, NEW v, Phase(t, b, v)
  PROVE  /\ b \in {Two(Unused, Unused), Two(V0, Unused)} /\ v \in Early
         /\ t = <<>> => b = v
         /\ t # <<>> =>
              \/ /\ Head(t) = PutStep(0, V0) /\ b = v
                 /\ v = Two(Unused, Unused)
                 /\ Phase(Tail(t), b, Two(V0, Unused))
              \/ /\ Head(t) = SyncStep /\ v = Two(V0, Unused)
                 /\ Phase(Tail(t), v, v)
              \/ /\ Head(t) = PutStep(1, H0) /\ b = v
                 /\ v = Two(V0, Unused)
                 /\ Phase(Tail(t), b, Two(V0, H0))
              \/ /\ Head(t) = PutStep(0, V1) /\ b = Two(V0, Unused)
                 /\ v = Two(V0, H0)
                 /\ Phase(Tail(t), b, Two(V1, H0))
              \/ /\ Head(t) = SyncStep /\ v = Two(V1, H0)
                 /\ Tail(t) = Append(<<>>, UnlockStep)
<1>1. /\ Two(Unused, Unused) \in Early /\ Two(V0, Unused) \in Early
      /\ Two(V0, H0) \in Early /\ Two(V1, H0) \in Early
  BY TwoRecords
<1>2. CASE t = <<>> /\ b = v /\ v \in {Two(Unused, Unused), Two(V0, Unused)}
  BY <1>1, <1>2
<1>3. CASE Rest(0, t) /\ b = Two(Unused, Unused) /\ v = Two(Unused, Unused)
  <2>1. t # <<>> /\ Head(t) = Making[0 + 1] /\ Rest(0 + 1, Tail(t))
    BY <1>3, RestTail
  <2>2. Rest(1, Tail(t)) /\ Head(t) = PutStep(0, V0)
    BY <2>1, MakingSteps
  <2> QED
    BY <1>1, <1>3, <2>1, <2>2, Zenon DEF Phase
<1>4. CASE Rest(1, t) /\ b = Two(Unused, Unused) /\ v = Two(V0, Unused)
  <2>1. t # <<>> /\ Head(t) = Making[1 + 1] /\ Rest(1 + 1, Tail(t))
    BY <1>4, RestTail
  <2>2. Rest(2, Tail(t)) /\ Head(t) = SyncStep
    BY <2>1, MakingSteps
  <2> QED
    BY <1>1, <1>4, <2>1, <2>2, Zenon DEF Phase
<1>5. CASE Rest(2, t) /\ b = Two(V0, Unused) /\ v = Two(V0, Unused)
  <2>1. t # <<>> /\ Head(t) = Making[2 + 1] /\ Rest(2 + 1, Tail(t))
    BY <1>5, RestTail
  <2>2. Rest(3, Tail(t)) /\ Head(t) = PutStep(1, H0)
    BY <2>1, MakingSteps
  <2> QED
    BY <1>1, <1>5, <2>1, <2>2, Zenon DEF Phase
<1>6. CASE Rest(3, t) /\ b = Two(V0, Unused) /\ v = Two(V0, H0)
  <2>1. t # <<>> /\ Head(t) = Making[3 + 1] /\ Rest(3 + 1, Tail(t))
    BY <1>6, RestTail
  <2>2. Rest(4, Tail(t)) /\ Head(t) = PutStep(0, V1)
    BY <2>1, MakingSteps
  <2> QED
    BY <1>1, <1>6, <2>1, <2>2, Zenon DEF Phase
<1>7. CASE Rest(4, t) /\ b = Two(V0, Unused) /\ v = Two(V1, H0)
  <2>1. t # <<>> /\ Head(t) = Making[4 + 1] /\ Rest(4 + 1, Tail(t))
    BY <1>7, RestTail
  <2>2. Rest(5, Tail(t)) /\ Head(t) = SyncStep
    BY <2>1, MakingSteps
  <2>3. Tail(t) \in Seq(Steps) /\ Len(Tail(t)) = 1 /\ Tail(t)[1] = UnlockStep
    <3>1. /\ Tail(t) \in Seq(Steps) /\ Len(Tail(t)) = 6 - 5
          /\ \A i \in 1..6 - 5 : Tail(t)[i] = Making[i + 5]
      BY <2>2 DEF Rest
    <3>2. 1 \in 1..6 - 5 /\ 6 - 5 = 1 /\ 1 + 5 = 5 + 1
      OBVIOUS
    <3> QED
      BY <3>1, <3>2, MakingSteps
  <2>4. Tail(t) = Append(<<>>, UnlockStep)
    <3> DEFINE u == Tail(t)
    <3> HIDE DEF u
    <3>1. UnlockStep \in Steps
      BY DEF UnlockStep, Steps
    <3>2. u \in Seq(Steps) /\ Len(u) = 1 /\ u[1] = UnlockStep
      BY <2>3 DEF u
    <3> HIDE DEF UnlockStep
    <3>3. u = <<UnlockStep>>
      BY <3>2
    <3>4. Append(<<>>, UnlockStep) = <<UnlockStep>>
      BY <3>1
    <3>5. u = Append(<<>>, UnlockStep)
      BY <3>3, <3>4
    <3> QED
      BY <3>5 DEF u
  <2> QED
    BY <1>1, <1>7, <2>1, <2>2, <2>4, Zenon
<1> QED
  BY <1>2, <1>3, <1>4, <1>5, <1>6, <1>7 DEF Phase

\* Their order.
LEMMA BeforeAfter ==
  ASSUME NEW t, NEW b, NEW v, Phase(t, b, v)
  PROVE  /\ b \in [Recs -> Record] /\ v \in [Recs -> Record]
         /\ v[0] = Unused => b[0] = Unused
         /\ b[1] = Unused
         /\ \A r \in Recs \ {0, 1} : b[r] = Unused /\ v[r] = Unused
<1>1. V0 # Unused /\ V1 # Unused
  BY NewRecords
<1>2. \/ b = Two(Unused, Unused) /\ v = Two(Unused, Unused)
      \/ b = Two(Unused, Unused) /\ v = Two(V0, Unused)
      \/ b = Two(V0, Unused) /\ v = Two(V0, Unused)
      \/ b = Two(V0, Unused) /\ v = Two(V0, H0)
      \/ b = Two(V0, Unused) /\ v = Two(V1, H0)
  BY DEF Phase
<1> HIDE DEF V0, V1, H0
<1> QED
  BY <1>1, <1>2, TwoRecords

\* A set of records by what its members are.
LEMMA EarlyIs ==
  ASSUME NEW f
  PROVE  f \in Early <=>
           /\ f \in [Recs -> Record]
           /\ f[0] \in {Unused, V0, V1} /\ f[1] \in {Unused, H0}
           /\ \A r \in Recs \ {0, 1} : f[r] = Unused
<1>1. ASSUME f \in Early
      PROVE  /\ f \in [Recs -> Record]
             /\ f[0] \in {Unused, V0, V1} /\ f[1] \in {Unused, H0}
             /\ \A r \in Recs \ {0, 1} : f[r] = Unused
  <2>1. PICK x \in {Unused, V0, V1}, y \in {Unused, H0} : f = Two(x, y)
    BY <1>1 DEF Early
  <2> QED
    BY <2>1, TwoRecords
<1>2. ASSUME f \in [Recs -> Record], f[0] \in {Unused, V0, V1},
             f[1] \in {Unused, H0}, \A r \in Recs \ {0, 1} : f[r] = Unused
      PROVE  f \in Early
  <2> DEFINE c == Two(f[0], f[1])
  <2>1. c = [r \in Recs |-> c[r]] /\ \A r \in Recs : c[r] = f[r]
    BY <1>2 DEF Two
  <2>2. c \in Early
    BY <1>2, TwoRecords
  <2> HIDE DEF c
  <2>3. c = f
    BY <1>2, <2>1
  <2> QED
    BY <2>2, <2>3
<1> QED
  BY <1>1, <1>2

\* A record of a new database is written.
LEMMA CreatingPut ==
  ASSUME PInv, Creating, DoPut
  PROVE  Creating'
<1> DEFINE r == Head(todo).recno
           d == Head(todo).data
           v == Pending(written, call)
           z == Pending(written', call')
<1>1. /\ todo # <<>> /\ Head(todo).step = "put" /\ todo' = Tail(todo)
      /\ UNCHANGED <<file, eof, current, partial, done>>
      /\ v = written /\ z = [v EXCEPT ![r] = d]
      /\ written' = written \/ written' = z
  BY PutDoes
<1>2. PICK b : /\ Phase(todo, b, v) /\ \A q \in Recs : file[q] \in {b[q], v[q]}
               /\ ~partial => file = b
  BY DEF Creating, Between
<1> HIDE DEF v, z, r, d, V0, V1, H0
<1>3. SyncStep.step = "sync"
  BY MakingSteps
<1>4. /\ Phase(todo', b, z) /\ z \in Early
      /\ \A q \in Recs : v[q] = b[q] \/ v[q] = z[q]
  <2>1. CASE /\ Head(todo) = PutStep(0, V0) /\ b = v
             /\ v = Two(Unused, Unused)
             /\ Phase(Tail(todo), b, Two(V0, Unused))
    <3>1. r = 0 /\ d = V0
      BY <2>1, MakingSteps DEF r, d
    <3>2. z = Two(V0, Unused)
      BY <1>1, <2>1, <3>1, TwoRecords
    <3> QED
      BY <1>1, <2>1, <3>2, TwoRecords
  <2>2. CASE /\ Head(todo) = PutStep(1, H0) /\ b = v
             /\ v = Two(V0, Unused)
             /\ Phase(Tail(todo), b, Two(V0, H0))
    <3>1. r = 1 /\ d = H0
      BY <2>2, MakingSteps DEF r, d
    <3>2. z = Two(V0, H0)
      BY <1>1, <2>2, <3>1, TwoRecords
    <3> QED
      BY <1>1, <2>2, <3>2, TwoRecords
  <2>3. CASE /\ Head(todo) = PutStep(0, V1) /\ b = Two(V0, Unused)
             /\ v = Two(V0, H0)
             /\ Phase(Tail(todo), b, Two(V1, H0))
    <3>1. r = 0 /\ d = V1
      BY <2>3, MakingSteps DEF r, d
    <3>2. z = Two(V1, H0)
      BY <1>1, <2>3, <3>1, TwoRecords
    <3>3. \A q \in Recs : v[q] = b[q] \/ v[q] = z[q]
      BY <2>3, <3>2, TwoRecords
    <3> QED
      BY <1>1, <2>3, <3>2, <3>3, TwoRecords
  <2> QED
    BY <1>1, <1>2, <1>3, <2>1, <2>2, <2>3, Phases
<1>5. \A q \in Recs : file'[q] \in {b[q], z[q]}
  BY <1>1, <1>2, <1>4
<1>6. Between(todo', z, file', partial')
  BY <1>1, <1>2, <1>4, <1>5 DEF Between
<1>7. written' \in Early
  BY <1>1, <1>4 DEF Creating
<1> QED
  BY <1>1, <1>6, <1>7 DEF Creating, z

\* tdbio_sync begins.
LEMMA CreatingSync ==
  ASSUME PInv, Creating, DoSync
  PROVE  Creating'
<1>1. /\ call.op = "idle" /\ call'.op = "sync"
      /\ UNCHANGED <<file, written, eof, todo, current, partial, done>>
  BY DEF DoSync, SyncStart, Idle
<1>2. Pending(written', call') = Pending(written, call)
  BY <1>1 DEF Pending
<1> QED
  BY <1>1, <1>2 DEF Creating

\* tdbio_sync returns, after the first time with the version record on disk,
\* after the second with a database that works.
LEMMA CreatingSynced ==
  ASSUME PInv, SInv, Creating, DoSyncClean \/ DoSyncDone
  PROVE  Creating' \/ Running'
<1> DEFINE v == Pending(written, call)
<1>1. /\ todo # <<>> /\ Head(todo).step = "sync" /\ todo' = Tail(todo)
      /\ file = written /\ UNCHANGED <<file, written, eof>>
      /\ v = written /\ Pending(written', call') = v
      /\ call'.op = "idle" /\ partial' = FALSE
      /\ \/ current' = {} /\ done' = Promised(current, done)
         \/ UNCHANGED <<current, done>>
  BY SyncDoes
<1> HIDE DEF v
<1>2. current = {} /\ done = [k \in Keys |-> 0] /\ eof = Extent(file)
  BY DEF Creating
<1>3. Promised({}, done) = done
  BY <1>2, NoPromise
<1>4. current' = {} /\ done' = done
  BY <1>1, <1>2, <1>3
<1>5. PICK b : Phase(todo, b, v)
  BY DEF Creating, Between, v
<1> HIDE DEF V0, V1, H0
<1>6. \A r, d : PutStep(r, d).step = "put"
  BY MakingSteps
<1>7. CASE Phase(Tail(todo), v, v)
  <2>1. Between(todo', v, file', partial')
    BY <1>1, <1>7 DEF Between
  <2> QED
    BY <1>1, <1>2, <1>4, <2>1 DEF Creating
<1>8. CASE v = Two(V1, H0) /\ Tail(todo) = Append(<<>>, UnlockStep)
  <2>1. file = Two(V1, H0)
    BY <1>1, <1>8
  <2>2. eof = 2
    <3>1. file[1] = H0 /\ H0 # Unused
      BY <2>1, TwoRecords, NewRecords
    <3> QED
      BY <1>2, <3>1 DEF Extent
  <2>3. OnDisk(v, 2, done)
    BY <1>2, <1>8, MadeGood DEF OnDisk
  <2>4. Ahead(Append(<<>>, UnlockStep), v, 2, {}, done)
    BY <1>3, <2>3, NothingAhead
  <2>5. Ahead(todo', Pending(written', call'), eof', current', done')
    BY <1>1, <1>4, <1>8, <2>2, <2>4
  <2>6. \A r \in Recs : eof' <= r => file'[r] = Unused /\ written'[r] = Unused
    <3>1. \A r \in Recs \ {0, 1} : file[r] = Unused
      BY <2>1, TwoRecords
    <3>2. \A r \in Recs : 2 <= r => r \in Recs \ {0, 1}
      BY RecsAssumption
    <3> QED
      BY <1>1, <2>2, <3>1, <3>2
  <2>7. 2 <= eof' /\ call'.op # "flush" /\ OnDisk(file', eof', done')
    BY <1>1, <1>4, <2>2, <2>3
  <2>8. done' = [k \in Keys |-> done'[k]]
    BY <1>2, <1>4
  <2> QED
    BY <2>5, <2>6, <2>7, <2>8 DEF Running
<1> QED
  BY <1>1, <1>5, <1>6, <1>7, <1>8, Phases

\* write_cache_item.
LEMMA CreatingWrite ==
  ASSUME PInv, Creating, WriteItem
  PROVE  Creating'
<1> DEFINE v == Pending(written, call)
<1>1. /\ eof' = Extended /\ partial' = TRUE
      /\ UNCHANGED <<written, todo, current, done>>
      /\ Pending(written', call') = v
  BY ItemDoes
<1>2. PICK p \in Recs : file' = [file EXCEPT ![p] = v[p]]
  BY ItemDoes, Zenon
<1>3. PICK b : /\ Phase(todo, b, v) /\ \A q \in Recs : file[q] \in {b[q], v[q]}
  BY DEF Creating, Between
<1>4. /\ eof \in Nat /\ file \in [Recs -> Record] /\ eof = Extent(file)
      /\ file \in Early
  BY RecordAssumption DEF PInv, Inv, CacheTypeOK, Creating
<1> HIDE DEF v
<1>8. /\ file[p] = v[p] \/ p < eof => Extended = eof
      /\ file[p] # v[p] /\ ~(p < eof) => Extended = p + 1
  <2>1. eof \in Nat /\ file \in [Recs -> Record]
    BY <1>4
  <2> DEFINE d == v[p]
  <2>2. file' = [file EXCEPT ![p] = d]
    BY <1>2
  <2> HIDE DEF d, Extended
  <2>3. Extended = IF file[p] = d \/ p < eof THEN eof ELSE p + 1
    BY <2>1, <2>2, ExtendedIs
  <2> QED
    BY <2>3 DEF d
<1> HIDE DEF V0, V1, H0, Extended, Unused
<1>5. v \in Early
  BY <1>3, Phases
<1>6. /\ v[0] = Unused => b[0] = Unused
      /\ b[1] = Unused
      /\ \A r \in Recs \ {0, 1} : b[r] = Unused /\ v[r] = Unused
  BY <1>3, BeforeAfter
<1>7. /\ 0 \in Recs /\ 1 \in Recs /\ p \in Nat
  BY NewRecords
<1>9. Extended = Extent(file')
  <2>1. CASE p = 0
    <3>1. file'[0] = v[0] /\ file'[1] = file[1]
      BY <1>2, <1>4, <1>7, <2>1
    <3>2. v[0] = Unused => file[0] = Unused
      BY <1>3, <1>6, <1>7
    <3>3. CASE file[1] # Unused
      BY <1>4, <1>8, <2>1, <3>1, <3>3 DEF Extent
    <3>4. CASE file[1] = Unused /\ file[0] # Unused
      BY <1>4, <1>8, <2>1, <3>1, <3>2, <3>4 DEF Extent
    <3>5. CASE file[1] = Unused /\ file[0] = Unused
      BY <1>4, <1>8, <2>1, <3>1, <3>5 DEF Extent
    <3> QED
      BY <3>3, <3>4, <3>5
  <2>2. CASE p = 1
    <3>1. file'[1] = v[1] /\ file'[0] = file[0]
      BY <1>2, <1>4, <1>7, <2>2
    <3>2. file[1] # v[1] => file[1] = Unused
      BY <1>3, <1>6, <1>7
    <3>3. CASE file[1] = v[1]
      BY <1>4, <1>8, <2>2, <3>1, <3>3 DEF Extent
    <3>4. CASE file[1] # v[1]
      <4>1. ~(1 < eof)
        BY <1>4, <3>2, <3>4 DEF Extent
      <4> QED
        BY <1>8, <2>2, <3>1, <3>2, <3>4, <4>1 DEF Extent
    <3> QED
      BY <3>3, <3>4
  <2>3. CASE p # 0 /\ p # 1
    <3>1. file[p] = v[p]
      BY <1>3, <1>6, <2>3
    <3>2. file' = file
      BY <1>2, <1>4, <3>1
    <3> QED
      BY <1>4, <1>8, <3>1, <3>2
  <2> QED
    BY <2>1, <2>2, <2>3
<1>10. file' \in Early
  <2>1. /\ file' \in [Recs -> Record]
        /\ \A q \in Recs : file'[q] = file[q] \/ file'[q] = v[q]
    BY <1>2, <1>4, <1>5, EarlyIs
  <2> QED
    BY <1>4, <1>5, <1>7, <2>1, EarlyIs
<1>11. \A q \in Recs : file'[q] \in {b[q], v[q]}
  BY <1>2, <1>3, <1>4
<1>12. Between(todo', v, file', partial')
  BY <1>1, <1>3, <1>11 DEF Between
<1> QED
  BY <1>1, <1>9, <1>10, <1>12 DEF Creating

\* The record that had to wait is in the cache.
LEMMA CreatingFlushed ==
  ASSUME PInv, Creating, DoFlushDone
  PROVE  Creating'
<1>1. /\ written' = Pending(written, call)
      /\ Pending(written', call') = Pending(written, call)
      /\ UNCHANGED <<file, eof, todo, current, partial, done>>
  BY FlushDoes
<1>2. Pending(written, call) \in Early
  BY Phases DEF Creating, Between
<1> QED
  BY <1>1, <1>2 DEF Creating

\* A process that ends before it has written anything back.
LEMMA CreatingRestart ==
  ASSUME PInv, Creating, NextProcess, ~torn'
  PROVE  Creating'
<1>1. /\ written' = file /\ UNCHANGED <<file, eof, done>>
      /\ call'.op = "idle" /\ todo' = <<>> /\ current' = {}
      /\ ~partial
  BY DEF NextProcess, Restart, Idle
<1>2. PICK b : Phase(todo, b, Pending(written, call)) /\ file = b
  BY <1>1 DEF Creating, Between
<1>3. b \in {Two(Unused, Unused), Two(V0, Unused)}
  BY <1>2, Phases
<1>4. Phase(<<>>, b, b)
  BY <1>3 DEF Phase
<1>5. Pending(written', call') = b
  BY <1>1, <1>2 DEF Pending
<1>6. Between(todo', Pending(written', call'), file', partial')
  BY <1>1, <1>2, <1>4, <1>5 DEF Between
<1> QED
  BY <1>1, <1>6 DEF Creating

\* Nothing else happens before there is a database.
LEMMA CreatingOnly ==
  ASSUME PInv, Creating
  PROVE  ~DoAppend /\ ~DoUnlock /\ ~(Ready /\ HasTable)
<1> DEFINE v == Pending(written, call)
<1>1. PICK b : /\ Phase(todo, b, v)
  BY DEF Creating, Between
<1> HIDE DEF v
<1>2. ASSUME todo # <<>>
      PROVE  Head(todo).step \in {"put", "sync"}
  BY <1>1, <1>2, Phases, MakingSteps
<1>3. ~DoAppend /\ ~DoUnlock
  BY <1>2 DEF DoAppend, DoUnlock, At
<1>4. ASSUME Ready, HasTable PROVE FALSE
  <2>1. todo = <<>> /\ v = written
    BY <1>4 DEF Ready, Pending, v
  <2>2. View = written
    BY ViewCurrent DEF PInv
  <2>3. View \in {Two(Unused, Unused), Two(V0, Unused)}
    BY <1>1, <2>1, <2>2, Phases
  <2>4. View[0].type = "ver" /\ View[0].trusthashtbl # 0
    BY <1>4 DEF HasTable
  <2> HIDE DEF View, V0
  <2>5. View[0] \in {Unused, V0}
    BY <2>3, TwoRecords
  <2> QED
    BY <2>4, <2>5, NewRecords
<1> QED
  BY <1>3, <1>4

\* What a computation x has when it added the step p to s and sees v.
Adds(x, s, p, v) ==
  Shape(x) /\ x.ok = TRUE /\ x.w = Append(s.w, p) /\ x.v = v

\* tdbio_write_record adds a write.
LEMMA WriteAdds ==
  ASSUME NEW s, Shape(s), s.ok = TRUE, NEW r, NEW d
  PROVE  Adds(WriteRec(s, r, d), s, PutStep(r, d), [s.v EXCEPT ![r] = d])
<1> DEFINE p == PutStep(r, d)
           q == Append(s.w, p)
           v == [s.v EXCEPT ![r] = d]
<1>1. s = [v |-> s.v, n |-> s.n, w |-> s.w, ok |-> TRUE] /\ s.n \in Nat
  BY DEF Shape
<1>2. WriteRec(s, r, d) = [s EXCEPT !.v = v, !.w = q]
  BY DEF WriteRec
<1> HIDE DEF p, q, v
<1>3. WriteRec(s, r, d) = [v |-> v, n |-> s.n, w |-> q, ok |-> TRUE]
  BY <1>1, <1>2
<1>4. /\ Shape(WriteRec(s, r, d)) /\ WriteRec(s, r, d).ok = TRUE
      /\ WriteRec(s, r, d).w = q /\ WriteRec(s, r, d).v = v
  BY <1>1, <1>3 DEF Shape
<1> QED
  BY <1>4 DEF q, v, p, Adds

\* do_sync adds a sync.
LEMMA SyncAdds ==
  ASSUME NEW s, Shape(s), s.ok = TRUE
  PROVE  Adds(Sync(s), s, SyncStep, s.v)
<1> DEFINE z == Append(s.w, SyncStep)
<1>1. s = [v |-> s.v, n |-> s.n, w |-> s.w, ok |-> TRUE] /\ s.n \in Nat
  BY DEF Shape
<1>2. Sync(s) = [s EXCEPT !.w = z]
  BY DEF Sync
<1> HIDE DEF z
<1>3. Sync(s) = [v |-> s.v, n |-> s.n, w |-> z, ok |-> TRUE]
  BY <1>1, <1>2
<1>4. Shape(Sync(s)) /\ Sync(s).ok = TRUE /\ Sync(s).w = z /\ Sync(s).v = s.v
  BY <1>1, <1>3 DEF Shape
<1> QED
  BY <1>4 DEF z, Adds

\* create_hashtable for a version record without one.
LEMMA TableSteps ==
  ASSUME NEW s, Shape(s), s.ok = TRUE, s.v[0] = V0
  PROVE  CreateHashtable(s).w =
           Append(Append(Append(s.w, PutStep(1, H0)), PutStep(0, V1)),
                  SyncStep)
<1> DEFINE d == [s.v[0] EXCEPT !.trusthashtbl = 1]
           a == WriteRec(s, 1, H0)
           c == WriteRec(a, 0, d)
<1>1. d = V1
  BY NewRecords
<1>2. CreateHashtable(s) = Sync(c)
  BY DEF CreateHashtable, H0
<1> HIDE DEF d, H0, V1
<1>3. Adds(a, s, PutStep(1, H0), [s.v EXCEPT ![1] = H0])
  BY WriteAdds
<1>4. Shape(a) /\ a.ok = TRUE /\ a.w = Append(s.w, PutStep(1, H0))
  BY <1>3 DEF Adds
<1> HIDE DEF a
<1>5. Adds(c, a, PutStep(0, d), [a.v EXCEPT ![0] = d])
  BY <1>4, WriteAdds
<1>6. Shape(c) /\ c.ok = TRUE /\ c.w = Append(a.w, PutStep(0, d))
  BY <1>5 DEF Adds
<1> HIDE DEF c
<1>7. Adds(Sync(c), c, SyncStep, c.v)
  BY <1>6, SyncAdds
<1>8. Sync(c).w = Append(c.w, SyncStep)
  BY <1>7 DEF Adds
<1> QED
  BY <1>1, <1>2, <1>4, <1>6, <1>8

\* What one more step adds.
LEMMA OneMore ==
  ASSUME NEW t \in Seq(Steps), NEW x \in Steps
  PROVE  /\ Append(t, x) \in Seq(Steps) /\ Len(Append(t, x)) = Len(t) + 1
         /\ Append(t, x)[Len(t) + 1] = x
         /\ \A i \in 1..Len(t) : Append(t, x)[i] = t[i]
         /\ t \o <<x>> = Append(t, x) /\ Len(t) \in Nat
<1>1. t \o <<x>> = Append(t, x)
  BY AppendIsConcat
<1> QED
  BY <1>1

\* The database is about to be made.
LEMMA CreatingStart ==
  ASSUME PInv, Creating, CreateDb
  PROVE  Creating'
<1> DEFINE b == Sync(WriteRec(Begin, 0, Ver(0, 0, 0)))
           c == IF eof = 0 THEN CreateHashtable(b) ELSE CreateHashtable(Begin)
           v == Pending(written, call)
           t1 == Append(<<>>, PutStep(0, V0))
           t2 == Append(t1, SyncStep)
           A(t) == Append(t, PutStep(1, H0))
           B(t) == Append(A(t), PutStep(0, V1))
           C(t) == Append(B(t), SyncStep)
           D(t) == Append(C(t), UnlockStep)
<1>1. /\ todo = <<>> /\ call.op = "idle"
      /\ UNCHANGED <<file, written, eof, call, current, partial, done>>
      /\ eof = 0 \/ eof = 1
      /\ todo' = c.w \o <<UnlockStep>>
  <2>1. todo' = c.w \o <<UnlockStep>>
    BY DEF CreateDb, UnlockStep
  <2>2. /\ todo = <<>> /\ call.op = "idle"
        /\ UNCHANGED <<file, written, eof, call, current, partial, done>>
        /\ eof = 0 \/ eof = 1
    BY DEF CreateDb, SectionBegin
  <2> QED
    BY <2>1, <2>2
<1>2. /\ View = written /\ v = written /\ Pending(written', call') = v
  BY <1>1, ViewCurrent DEF PInv, Pending
<1>3. PICK a : /\ Phase(todo, a, v) /\ \A q \in Recs : file[q] \in {a[q], v[q]}
               /\ ~partial => file = a
  BY DEF Creating, Between
<1>4. a = v /\ a \in {Two(Unused, Unused), Two(V0, Unused)}
  BY <1>1, <1>3, Phases
<1>5. file = v /\ eof = Extent(file)
  <2>1. file \in [Recs -> Record] /\ v \in [Recs -> Record]
    BY <1>2, RecordAssumption DEF PInv, Inv, CacheTypeOK
  <2> HIDE DEF v
  <2>2. \A q \in Recs : file[q] = v[q]
    BY <1>3, <1>4
  <2>3. file = v
    BY <2>1, <2>2
  <2> QED
    BY <2>3 DEF Creating
<1>6. /\ Begin.v = v /\ Begin.n = eof /\ Begin.ok = TRUE /\ Begin.w = <<>>
      /\ Shape(Begin)
  <2>1. eof \in Nat
    BY DEF PInv
  <2> HIDE DEF View, v
  <2> QED
    BY <1>2, <2>1 DEF Begin, Shape
<1> HIDE DEF v
<1>7. /\ PutStep(0, V0) \in Steps /\ PutStep(1, H0) \in Steps
      /\ PutStep(0, V1) \in Steps /\ SyncStep \in Steps /\ UnlockStep \in Steps
  BY NewRecords, StepTypes DEF SyncStep, UnlockStep
<1>8. ASSUME NEW t \in Seq(Steps)
      PROVE  /\ D(t) \in Seq(Steps) /\ Len(t) \in Nat /\ Len(D(t)) = Len(t) + 4
             /\ \A i \in 1..Len(t) : D(t)[i] = t[i]
             /\ D(t)[Len(t) + 1] = PutStep(1, H0)
             /\ D(t)[Len(t) + 2] = PutStep(0, V1)
             /\ D(t)[Len(t) + 3] = SyncStep
             /\ D(t)[Len(t) + 4] = UnlockStep
             /\ C(t) \o <<UnlockStep>> = D(t)
  <2> HIDE DEF SyncStep, UnlockStep, V0, V1, H0, A, B, C, D
  <2>1. /\ A(t) \in Seq(Steps) /\ Len(A(t)) = Len(t) + 1 /\ Len(t) \in Nat
        /\ \A i \in 1..Len(t) : A(t)[i] = t[i]
        /\ A(t)[Len(t) + 1] = PutStep(1, H0)
    BY <1>7, OneMore DEF A
  <2>2. /\ B(t) \in Seq(Steps) /\ Len(B(t)) = Len(t) + 2
        /\ \A i \in 1..Len(t) + 1 : B(t)[i] = A(t)[i]
        /\ B(t)[Len(t) + 2] = PutStep(0, V1)
    BY <1>7, <2>1, OneMore DEF B
  <2>3. /\ C(t) \in Seq(Steps) /\ Len(C(t)) = Len(t) + 3
        /\ \A i \in 1..Len(t) + 2 : C(t)[i] = B(t)[i]
        /\ C(t)[Len(t) + 3] = SyncStep
    BY <1>7, <2>1, <2>2, OneMore DEF C
  <2>4. /\ D(t) \in Seq(Steps) /\ Len(D(t)) = Len(t) + 4
        /\ \A i \in 1..Len(t) + 3 : D(t)[i] = C(t)[i]
        /\ D(t)[Len(t) + 4] = UnlockStep
        /\ C(t) \o <<UnlockStep>> = D(t)
    BY <1>7, <2>1, <2>3, OneMore DEF D
  <2>5. /\ \A i \in 1..Len(t) : i \in 1..Len(t) + 1
        /\ \A i \in 1..Len(t) + 1 : i \in 1..Len(t) + 2
        /\ \A i \in 1..Len(t) + 2 : i \in 1..Len(t) + 3
        /\ Len(t) + 1 \in 1..Len(t) + 1 /\ Len(t) + 2 \in 1..Len(t) + 2
        /\ Len(t) + 3 \in 1..Len(t) + 3
    BY <2>1
  <2>6. \A i \in 1..Len(t) + 2 : D(t)[i] = B(t)[i]
    BY <2>3, <2>4, <2>5, Zenon
  <2>7. \A i \in 1..Len(t) + 1 : D(t)[i] = A(t)[i]
    BY <2>2, <2>5, <2>6, Zenon
  <2>8. \A i \in 1..Len(t) : D(t)[i] = t[i]
    BY <2>1, <2>5, <2>7, Zenon
  <2>9. D(t)[Len(t) + 1] = PutStep(1, H0)
    BY <2>1, <2>5, <2>7, Zenon
  <2>10. D(t)[Len(t) + 2] = PutStep(0, V1)
    BY <2>2, <2>5, <2>6, Zenon
  <2>11. D(t)[Len(t) + 3] = SyncStep
    BY <2>3, <2>4, <2>5, Zenon
  <2> QED
    BY <2>1, <2>4, <2>8, <2>9, <2>10, <2>11, Zenon
<1>9. CASE v = Two(Unused, Unused)
  <2>1. eof = 0
    BY <1>5, <1>9, TwoRecords DEF Extent
  <2>2. Shape(b) /\ b.ok = TRUE /\ b.w = t2 /\ b.v[0] = V0
    <3> DEFINE x == WriteRec(Begin, 0, V0)
    <3>0. Adds(x, Begin, PutStep(0, V0), [Begin.v EXCEPT ![0] = V0])
      <4> HIDE DEF Begin, V0
      <4> QED
        BY <1>6, WriteAdds
    <3>1. /\ Shape(x) /\ x.ok = TRUE /\ x.w = t1
          /\ x.v = [v EXCEPT ![0] = V0]
      BY <1>6, <3>0 DEF Adds
    <3>2. b = Sync(x)
      BY DEF V0
    <3> HIDE DEF x, b, t1
    <3>3. Shape(b) /\ b.ok = TRUE /\ b.w = t2 /\ b.v = x.v
      BY <3>1, <3>2, SyncAdds DEF Adds
    <3>4. x.v[0] = V0
      BY <1>9, <3>1, TwoRecords
    <3> QED
      BY <3>3, <3>4
  <2>3. c.w = C(t2)
    <3> HIDE DEF b, t2
    <3> QED
      BY <2>1, <2>2, TableSteps
  <2>4. /\ t2 \in Seq(Steps) /\ Len(t2) = 2 /\ t2[1] = PutStep(0, V0)
        /\ t2[2] = SyncStep
    <3>0. <<>> \in Seq(Steps) /\ Len(<<>>) = 0
      OBVIOUS
    <3> HIDE DEF t1, SyncStep, V0
    <3>1. t1 \in Seq(Steps) /\ Len(t1) = 1 /\ t1[1] = PutStep(0, V0)
      BY <1>7, <3>0, OneMore DEF t1
    <3> HIDE DEF t1
    <3>2. /\ t2 \in Seq(Steps) /\ Len(t2) = Len(t1) + 1
          /\ t2[Len(t1) + 1] = SyncStep
          /\ \A i \in 1..Len(t1) : t2[i] = t1[i]
      BY <1>7, <3>1, OneMore
    <3>3. 1 \in 1..Len(t1) /\ Len(t1) + 1 = 2
      BY <3>1
    <3> QED
      BY <3>1, <3>2, <3>3
  <2> HIDE DEF t2, c, C, D, SyncStep, UnlockStep, V0, V1, H0
  <2>5. todo' = D(t2)
    BY <1>1, <1>8, <2>3, <2>4
  <2>6. Rest(0, todo')
    <3>1. /\ todo' \in Seq(Steps) /\ Len(todo') = 6
          /\ todo'[1] = PutStep(0, V0) /\ todo'[2] = SyncStep
          /\ todo'[3] = PutStep(1, H0)
          /\ todo'[4] = PutStep(0, V1) /\ todo'[5] = SyncStep
          /\ todo'[6] = UnlockStep
      <4>1. /\ 1 \in 1..Len(t2) /\ 2 \in 1..Len(t2) /\ Len(t2) + 1 = 3
            /\ Len(t2) + 2 = 4 /\ Len(t2) + 3 = 5 /\ Len(t2) + 4 = 6
        BY <2>4
      <4>2. /\ D(t2) \in Seq(Steps) /\ Len(D(t2)) = Len(t2) + 4
            /\ \A i \in 1..Len(t2) : D(t2)[i] = t2[i]
            /\ D(t2)[Len(t2) + 1] = PutStep(1, H0)
            /\ D(t2)[Len(t2) + 2] = PutStep(0, V1)
            /\ D(t2)[Len(t2) + 3] = SyncStep
            /\ D(t2)[Len(t2) + 4] = UnlockStep
        BY <1>8, <2>4
      <4> QED
        BY <2>4, <2>5, <4>1, <4>2
    <3>2. \A i \in 1..6 - 0 : todo'[i] = Making[i + 0]
      BY <3>1 DEF Making
    <3> HIDE DEF Making
    <3> QED
      BY <3>1, <3>2 DEF Rest
  <2>7. Phase(todo', v, v)
    BY <1>9, <2>6 DEF Phase
  <2> QED
    BY <1>1, <1>2, <1>4, <1>5, <2>7 DEF Creating, Between
<1>10. CASE v = Two(V0, Unused)
  <2>1. eof = 1
    BY <1>5, <1>10, TwoRecords, NewRecords DEF Extent
  <2>2. Begin.v[0] = V0
    BY <1>6, <1>10, TwoRecords
  <2>3. c.w = C(<<>>)
    <3>1. c = CreateHashtable(Begin)
      BY <2>1
    <3> HIDE DEF c, Begin, V0, V1, H0, SyncStep
    <3> QED
      BY <1>6, <2>2, <3>1, TableSteps
  <2>4. <<>> \in Seq(Steps) /\ Len(<<>>) = 0
    OBVIOUS
  <2> HIDE DEF c, C, D, SyncStep, UnlockStep, V0, V1, H0
  <2>5. todo' = D(<<>>)
    BY <1>1, <1>8, <2>3, <2>4
  <2>6. Rest(2, todo')
    <3>1. /\ todo' \in Seq(Steps) /\ Len(todo') = 4
          /\ todo'[1] = PutStep(1, H0) /\ todo'[2] = PutStep(0, V1)
          /\ todo'[3] = SyncStep /\ todo'[4] = UnlockStep
      <4> DEFINE t0 == <<>>
      <4>0. t0 \in Seq(Steps) /\ Len(t0) = 0 /\ todo' = D(t0)
        BY <2>4, <2>5
      <4> HIDE DEF t0
      <4>1. /\ Len(t0) + 1 = 1 /\ Len(t0) + 2 = 2 /\ Len(t0) + 3 = 3
            /\ Len(t0) + 4 = 4
        BY <4>0
      <4>2. /\ D(t0) \in Seq(Steps) /\ Len(D(t0)) = Len(t0) + 4
            /\ D(t0)[Len(t0) + 1] = PutStep(1, H0)
            /\ D(t0)[Len(t0) + 2] = PutStep(0, V1)
            /\ D(t0)[Len(t0) + 3] = SyncStep
            /\ D(t0)[Len(t0) + 4] = UnlockStep
        BY <1>8, <4>0
      <4> QED
        BY <4>0, <4>1, <4>2
    <3>2. \A i \in 1..6 - 2 : todo'[i] = Making[i + 2]
      BY <3>1 DEF Making
    <3> HIDE DEF Making
    <3> QED
      BY <3>1, <3>2 DEF Rest
  <2>7. Phase(todo', v, v)
    BY <1>10, <2>6 DEF Phase
  <2> QED
    BY <1>1, <1>2, <1>4, <1>5, <2>7 DEF Creating, Between
<1> QED
  BY <1>4, <1>9, <1>10

-----------------------------------------------------------------------------
(***************************************************************************)
(* The induction, and the theorems.                                        *)
(***************************************************************************)
\* The ownertrusts of all keys but the one of the update are what they were.
OthersKept == Quiet(written, written', KeysOf(current))

\* What was written back counts until a sync completes or the process ends.
LEMMA CountsStep ==
  ASSUME PInv, SInv, [Next]_vars
  PROVE  /\ deaths' \in Nat /\ partial' \in BOOLEAN
         /\ partial' => cacheIsDirty' = TRUE
         /\ ~torn' => ~torn
         /\ deaths' = deaths => torn' = torn
<1>0. deaths \in Nat /\ partial \in BOOLEAN /\ (partial => cacheIsDirty = TRUE)
  BY DEF SInv
<1>1. CASE UNCHANGED <<cacheIsDirty, partial, torn, deaths>>
  BY <1>0, <1>1
<1>2. CASE UNCHANGED vars
  BY <1>1, <1>2 DEF vars, cvars
<1>3. CASE CreateDb
  BY <1>1, <1>3 DEF CreateDb, SectionBegin
<1>4. ASSUME NEW s, Run(s)
      PROVE  UNCHANGED <<cacheIsDirty, partial, torn, deaths>>
  BY <1>4 DEF Run, cvars
<1>5. CASE \E k \in Keys, x \in Values : UpdateOwnertrust(k, x)
  <2>1. \E s : Run(s)
    BY <1>5 DEF UpdateOwnertrust
  <2> QED
    BY <1>1, <1>4, <2>1
<1>6. CASE \E k \in Keys : ClearOwnertrust(k)
  <2>1. \E s : Run(s)
    BY <1>6 DEF ClearOwnertrust
  <2> QED
    BY <1>1, <1>4, <2>1
<1>7. CASE \E k \in Keys, u \in Names, x \in Values : UpdateValidity(k, u, x)
  <2>1. \E s : Run(s)
    BY <1>7 DEF UpdateValidity
  <2> QED
    BY <1>1, <1>4, <2>1
<1>8. CASE ResetTrustRecords
  <2>1. \E s : Run(s)
    BY <1>8 DEF ResetTrustRecords
  <2> QED
    BY <1>1, <1>4, <2>1
<1>9. CASE FinishValidation
  <2>1. \E s : Run(s)
    BY <1>9 DEF FinishValidation
  <2> QED
    BY <1>1, <1>4, <2>1
<1>10. CASE DoPut
  <2>1. /\ UNCHANGED <<partial, torn, deaths>>
        /\ cacheIsDirty = TRUE => cacheIsDirty' = TRUE
    BY <1>10, PutDoes
  <2> QED
    BY <1>0, <2>1
<1>11. CASE DoAppend \/ DoUnlock \/ DoSync
  BY <1>1, <1>11 DEF DoAppend, DoUnlock, DoSync, SectionEnd, SyncStart, cvars
<1>12. CASE DoSyncClean \/ DoSyncDone
  <2>1. partial' = FALSE /\ UNCHANGED <<torn, deaths>>
    BY <1>12, SyncDoes
  <2> QED
    BY <1>0, <2>1
<1>13. CASE WriteItem
  <2>1. /\ cacheIsDirty' = TRUE /\ partial' = TRUE
        /\ UNCHANGED <<torn, deaths>>
    BY <1>13, ItemDoes
  <2> QED
    BY <1>0, <2>1
<1>14. CASE DoFlushDone
  <2>1. cacheIsDirty' = TRUE /\ UNCHANGED <<partial, torn, deaths>>
    BY <1>14 DEF DoFlushDone, FlushDone
  <2> QED
    BY <1>0, <2>1
<1>15. CASE DoWriteFails
  <2>1. cacheIsDirty' = TRUE /\ UNCHANGED <<torn, deaths>>
    BY <1>15, FailsDoes
  <2>2. partial' = TRUE
    BY <1>15 DEF DoWriteFails
  <2> QED
    BY <1>0, <2>1, <2>2
<1>16. CASE NextProcess
  <2>1. partial' = FALSE /\ deaths' = deaths + 1 /\ torn' = (torn \/ partial)
    BY <1>16 DEF NextProcess
  <2>2. deaths' \in Nat /\ deaths' # deaths
    BY <1>0, <2>1
  <2>3. partial' \in BOOLEAN /\ (partial' => cacheIsDirty' = TRUE)
    BY <2>1
  <2>4. ~torn' => ~torn
    BY <2>1, Zenon
  <2> QED
    BY <2>2, <2>3, <2>4
<1> QED
  BY <1>2, <1>3, <1>5, <1>6, <1>7, <1>8, <1>9, <1>10, <1>11, <1>12, <1>13,
     <1>14, <1>15, <1>16 DEF Next

\* Nothing is changed for any key when no record is.
LEMMA SameKept ==
  ASSUME written' = written
  PROVE  OthersKept
  BY DEF OthersKept, Quiet

\* A database that exists stays one, or the process is about to end.
LEMMA RunningStep ==
  ASSUME PInv, SInv, Running, Next, ~torn'
  PROVE  (Running' \/ Exiting') /\ (deaths' = deaths => OthersKept)
<1>1. ~CreateDb
  BY DEF Running, CreateDb, PInv
<1>2. CASE \E k \in Keys, x \in Values : UpdateOwnertrust(k, x)
  BY <1>2, OwnertrustRuns, SameKept
<1>3. CASE \E k \in Keys : ClearOwnertrust(k)
  BY <1>3, OwnertrustRuns, SameKept
<1>4. CASE \E k \in Keys, u \in Names, x \in Values : UpdateValidity(k, u, x)
  BY <1>4, ValidityRuns, SameKept
<1>5. CASE ResetTrustRecords
  BY <1>5, ResetRuns, SameKept
<1>6. CASE FinishValidation
  BY <1>6, FinishRuns, SameKept
<1>7. CASE DoPut
  BY <1>7, RunningPut DEF OthersKept
<1>8. CASE DoAppend
  BY <1>8, RunningAppend, SameKept
<1>9. CASE DoSync
  BY <1>9, RunningSync, SameKept
<1>10. CASE DoSyncClean \/ DoSyncDone
  BY <1>10, RunningSynced, SameKept
<1>11. CASE DoUnlock
  BY <1>11, RunningUnlock, SameKept
<1>12. CASE WriteItem
  BY <1>12, RunningWrite, SameKept
<1>13. CASE DoFlushDone
  BY <1>13, RunningFlushed DEF OthersKept
<1>14. CASE DoWriteFails
  BY <1>14, FailsDoes, SameKept
<1>15. CASE NextProcess
  <2>1. deaths' # deaths
    BY <1>15 DEF NextProcess, SInv
  <2> QED
    BY <1>15, <2>1, RunningRestart
<1> QED
  BY <1>1, <1>2, <1>3, <1>4, <1>5, <1>6, <1>7, <1>8, <1>9, <1>10, <1>11,
     <1>12, <1>13, <1>14, <1>15 DEF Next

\* No key has an ownertrust while the database is made.
LEMMA EarlyKept ==
  ASSUME Creating, Creating'
  PROVE  OthersKept
  BY EarlyOwn DEF Creating, OthersKept, Quiet

\* A database that is made is made further, or is there.
LEMMA CreatingStep ==
  ASSUME PInv, SInv, Creating, Next, ~torn'
  PROVE  /\ Creating' \/ Running' \/ Exiting'
         /\ deaths' = deaths => OthersKept
<1>1. ~DoAppend /\ ~DoUnlock /\ ~(Ready /\ HasTable)
  BY CreatingOnly
<1>2. /\ ~\E k \in Keys, x \in Values : UpdateOwnertrust(k, x)
      /\ ~\E k \in Keys : ClearOwnertrust(k)
      /\ ~\E k \in Keys, u \in Names, x \in Values : UpdateValidity(k, u, x)
      /\ ~ResetTrustRecords /\ ~FinishValidation
  <2> HIDE DEF Ready, HasTable
  <2>1. ~\E k \in Keys, x \in Values : UpdateOwnertrust(k, x)
    BY <1>1 DEF UpdateOwnertrust
  <2>2. ~\E k \in Keys : ClearOwnertrust(k)
    BY <1>1 DEF ClearOwnertrust
  <2>3. ~\E k \in Keys, u \in Names, x \in Values : UpdateValidity(k, u, x)
    BY <1>1 DEF UpdateValidity
  <2>4. ~ResetTrustRecords /\ ~FinishValidation
    BY <1>1 DEF ResetTrustRecords, FinishValidation
  <2> QED
    BY <2>1, <2>2, <2>3, <2>4
<1>3. CASE CreateDb
  BY <1>3, CreatingStart, EarlyKept
<1>4. CASE DoPut
  BY <1>4, CreatingPut, EarlyKept
<1>5. CASE DoSync
  BY <1>5, CreatingSync, EarlyKept
<1>6. CASE DoSyncClean \/ DoSyncDone
  <2>1. written' = written
    BY <1>6, SyncDoes
  <2> QED
    BY <1>6, <2>1, CreatingSynced, SameKept
<1>7. CASE WriteItem
  BY <1>7, CreatingWrite, EarlyKept
<1>8. CASE DoFlushDone
  BY <1>8, CreatingFlushed, EarlyKept
<1>9. CASE DoWriteFails
  BY <1>9, FailsDoes, SameKept
<1>10. CASE NextProcess
  <2>1. deaths' # deaths
    BY <1>10 DEF NextProcess, SInv
  <2> QED
    BY <1>10, <2>1, CreatingRestart
<1> QED
  BY <1>1, <1>2, <1>3, <1>4, <1>5, <1>6, <1>7, <1>8, <1>9, <1>10 DEF Next

\* After a failed write the process can only end, and the database counts as
\* torn then.
LEMMA ExitingStep ==
  ASSUME Exiting, Next
  PROVE  torn'
<1>1. /\ todo # <<>> /\ Head(todo).step = "exit" /\ call.op = "idle" /\ partial
  BY DEF Exiting
<1>2. ~DoPut /\ ~DoAppend /\ ~DoSync /\ ~DoSyncClean /\ ~DoUnlock
  BY <1>1 DEF DoPut, DoAppend, DoSync, DoSyncClean, DoUnlock, At
<1>3. ~WriteItem /\ ~DoFlushDone /\ ~DoSyncDone /\ ~DoWriteFails
  BY <1>1 DEF WriteItem, FlushWrite, SyncWrite, DoFlushDone, FlushDone,
              DoSyncDone, SyncDone, DoWriteFails, WriteFails
<1>4. ~Ready /\ ~CreateDb
  BY <1>1 DEF Ready, CreateDb
<1>5. /\ ~\E k \in Keys, x \in Values : UpdateOwnertrust(k, x)
      /\ ~\E k \in Keys : ClearOwnertrust(k)
  BY <1>4 DEF UpdateOwnertrust, ClearOwnertrust
<1>6. /\ ~\E k \in Keys, u \in Names, x \in Values : UpdateValidity(k, u, x)
      /\ ~ResetTrustRecords /\ ~FinishValidation
  BY <1>4 DEF UpdateValidity, ResetTrustRecords, FinishValidation
<1>7. NextProcess
  BY <1>2, <1>3, <1>4, <1>5, <1>6 DEF Next
<1> QED
  BY <1>1, <1>7 DEF NextProcess

\* The step of the induction, and what it says about other keys.
LEMMA SoundStep ==
  ASSUME PInv, SInv, [Next]_vars
  PROVE  SInv' /\ (~torn /\ deaths' = deaths => OthersKept)
<1>1. /\ deaths' \in Nat /\ partial' \in BOOLEAN
      /\ partial' => cacheIsDirty' = TRUE
      /\ ~torn' => ~torn
      /\ deaths' = deaths => torn' = torn
  BY CountsStep
<1>2. CASE torn'
  BY <1>1, <1>2 DEF SInv
<1>3. CASE ~torn' /\ UNCHANGED vars
  <2>1. UNCHANGED <<file, written, call, eof, todo, current, partial, done>>
    BY <1>3 DEF vars, cvars
  <2>2. /\ Running => Running'
        /\ Creating => Creating'
        /\ Exiting => Exiting'
    <3>1. Running => Running'
      BY <2>1 DEF Running
    <3>2. Creating => Creating'
      BY <2>1 DEF Creating
    <3>3. Exiting => Exiting'
      BY <2>1 DEF Exiting
    <3> QED
      BY <3>1, <3>2, <3>3
  <2>3. OthersKept
    BY <2>1, SameKept
  <2> QED
    BY <1>1, <1>3, <2>2, <2>3 DEF SInv
<1>4. CASE ~torn' /\ Next
  <2>1. Running \/ Creating \/ Exiting
    BY <1>1, <1>4 DEF SInv
  <2>2. ~Exiting
    BY <1>4, ExitingStep
  <2>3. /\ Creating' \/ Running' \/ Exiting'
        /\ deaths' = deaths => OthersKept
    BY <1>4, <2>1, <2>2, RunningStep, CreatingStep
  <2> QED
    BY <1>1, <2>3 DEF SInv
<1> QED
  BY <1>2, <1>3, <1>4

\* The first process finds no database, or an old one that works.
LEMMA FirstSound == Init => SInv
<1> SUFFICES ASSUME Init PROVE SInv
  OBVIOUS
<1>1. /\ written = file /\ call.op = "idle" /\ todo = <<>> /\ current = {}
      /\ partial = FALSE /\ deaths = 0 /\ done = [k \in Keys |-> 0]
      /\ Pending(written, call) = file
  BY DEF Init, CacheInit, Idle, Pending
<1>2. CASE file = [r \in Recs |-> Unused] /\ eof = 0
  <2> DEFINE u == Two(Unused, Unused)
  <2>1. u \in Early /\ u[0] = Unused /\ u[1] = Unused
    BY TwoRecords
  <2>2. file = u
    BY <1>2 DEF Two
  <2> HIDE DEF u
  <2>3. eof = Extent(file)
    BY <1>2, <2>1, <2>2 DEF Extent
  <2>4. Phase(todo, file, file)
    BY <1>1, <2>2 DEF Phase, u
  <2>5. Creating
    BY <1>1, <2>1, <2>2, <2>3, <2>4 DEF Creating, Between
  <2> QED
    BY <1>1, <2>5 DEF SInv
<1>3. CASE file # [r \in Recs |-> Unused] \/ eof # 0
  <2>1. /\ file = [r \in Recs |-> CASE r = 0 -> Ver(2, 1, 0)
                                    [] r = 1 -> Htbl([b \in Buckets |-> 0])
                                    [] r = 2 -> Free(0)
                                    [] OTHER -> Unused]
        /\ eof = 3
    BY <1>3 DEF Init
  <2>2. Good(file, 3, {}) /\ \A k \in Keys : Own(file, k) = 0
    BY <2>1, OldGood
  <2>3. OnDisk(file, eof, done)
    BY <1>1, <2>1, <2>2 DEF OnDisk
  <2>4. done = [k \in Keys |-> done[k]]
    BY <1>1
  <2>5. Promised(current, done) = done
    BY <1>1, <2>4, NoPromise
  <2>6. Ahead(todo, file, eof, current, done)
    BY <1>1, <2>3, <2>5, NothingAhead
  <2>7. \A r \in Recs : eof <= r => file[r] = Unused
    BY <2>1, <2>2 DEF Good, Core, Base
  <2>8. 2 <= eof
    BY <2>1
  <2>9. Running
    BY <1>1, <2>3, <2>4, <2>6, <2>7, <2>8 DEF Running
  <2> QED
    BY <1>1, <2>9 DEF SInv
<1> QED
  BY <1>2, <1>3

\* SInv holds throughout.
LEMMA SoundHolds == Spec => []SInv
  BY FirstSound, SoundStep, PointersHold, PTL DEF Spec

\* Whatever updates ran, and wherever a process ended, as long as none of an
\* update was written back by then, the next one finds a database that works:
\* tdbio.c keeps the hash table, the lists of validity records and the list
\* of free records consistent through all that trustdb.c does.
THEOREM DiskStaysSound == Spec => []DiskSound
<1>1. PInv /\ SInv => DiskSound
  <2> SUFFICES ASSUME PInv, SInv, ~torn, ~partial PROVE Sound(file, eof)
    BY DEF DiskSound
  <2>1. CASE Running
    BY <2>1, GoodSound DEF Running, OnDisk
  <2>2. CASE Creating
    <3>1. file \in {Two(Unused, Unused), Two(V0, Unused)} /\ eof = Extent(file)
      BY <2>2, Phases DEF Creating, Between
    <3>2. CASE file = Two(Unused, Unused)
      <4>1. eof = 0
        BY <3>1, <3>2, TwoRecords DEF Extent
      <4> QED
        BY <4>1 DEF Sound
    <3>3. CASE file = Two(V0, Unused)
      <4>1. file[0] = V0 /\ eof = 1
        BY <3>1, <3>3, TwoRecords, NewRecords DEF Extent
      <4>2. file[0].type = "ver" /\ file[0].trusthashtbl = 0
        BY <4>1, NewRecords
      <4> QED
        BY <4>1, <4>2 DEF Sound
    <3> QED
      BY <3>1, <3>2, <3>3
  <2> QED
    BY <2>1, <2>2 DEF SInv, Exiting
<1> QED
  BY <1>1, SoundHolds, PointersHold, PTL

\* What tdb_update_ownertrust and tdb_clear_ownertrusts returned for is found
\* on disk by the next process, and no value that they did not return for.
THEOREM UpdatesStayDurable == Spec => []UpdatesDurable
<1>1. PInv /\ SInv => UpdatesDurable
  <2> SUFFICES ASSUME PInv, SInv, eof > 1, ~torn, ~partial, NEW k \in Keys
               PROVE  Own(file, k) = done[k]
    BY DEF UpdatesDurable
  <2>1. CASE Running
    BY <2>1 DEF Running, OnDisk
  <2>2. ~Creating
    <3> SUFFICES ASSUME Creating PROVE FALSE
      OBVIOUS
    <3>1. file \in {Two(Unused, Unused), Two(V0, Unused)} /\ eof = Extent(file)
      BY Phases DEF Creating, Between
    <3>2. file[1] = Unused
      BY <3>1, TwoRecords
    <3> QED
      BY <3>1, <3>2 DEF Extent
  <2> QED
    BY <2>1, <2>2 DEF SInv, Exiting
<1> QED
  BY <1>1, SoundHolds, PointersHold, PTL

\* No write of an update, not even one in the middle of it, changes the
\* ownertrust that is read for another key, whatever hash list they share.
THEOREM UpdatesLeaveOthers == Spec => OthersUntouched
<1>1. PInv => View = written
  BY ViewCurrent DEF PInv
<1>2. PInv' => (View = written)'
  BY <1>1, PTL
<1>3. ASSUME PInv, PInv', SInv, [Next]_vars
      PROVE  [~torn /\ deaths' = deaths =>
                \A k \in Keys : Own(View', k) # Own(View, k)
                                  => \E c \in current : c.key = k]_vars
  <2> SUFFICES ASSUME ~torn, deaths' = deaths, NEW k \in Keys,
                      Own(View', k) # Own(View, k)
               PROVE  \E c \in current : c.key = k
    OBVIOUS
  <2>1. View = written /\ View' = written'
    BY <1>1, <1>2, <1>3
  <2>2. OthersKept
    BY <1>3, SoundStep
  <2> QED
    BY <2>1, <2>2 DEF OthersKept, Quiet, KeysOf
<1> QED
  BY <1>3, SoundHolds, PointersHold, PTL DEF Spec, OthersUntouched
=============================================================================
