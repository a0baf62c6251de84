--------------------------- MODULE TdbCacheProofs ---------------------------
(***************************************************************************)
(* Proofs about TdbCache, for any records, data and cache size, and with   *)
(* failing writes and processes that end anywhere.                         *)
(***************************************************************************)
EXTENDS TdbCache, FiniteSetTheorems, SequenceTheorems, TLAPS

In(i) == cacheList[i].used

\* No record has two entries.
Distinct == \A i, j \in DOMAIN cacheList :
              In(i) /\ In(j) /\ cacheList[i].recno = cacheList[j].recno
                => i = j

\* An entry holds what was written last, and so does the file for records
\* that are not in the cache.
Current ==
  /\ \A i \in DOMAIN cacheList :
       In(i) => cacheList[i].data = written[cacheList[i].recno]
  /\ \A r \in Recs :
       (\A i \in DOMAIN cacheList : In(i) => cacheList[i].recno # r)
         => file[r] = written[r]

\* A clean entry is that of the file, and only the flag keeps tdbio_sync
\* from looking for dirty ones.
CleanOnDisk ==
  \A i \in DOMAIN cacheList : In(i) /\ ~cacheList[i].dirty =>
    /\ file[cacheList[i].recno] = cacheList[i].data
FlagKept == ~cacheIsDirty =>
              \A i \in DOMAIN cacheList : In(i) => ~cacheList[i].dirty

\* The record for which a full cache makes room is not in the cache, nor are
\* there clean entries; a slot is found before the loop can end.
FlushKept ==
  call.op = "flush" =>
    /\ \A i \in DOMAIN cacheList : In(i) => cacheList[i].recno # call.recno
    /\ call.slot # 0 => call.slot \in DOMAIN cacheList /\ ~In(call.slot)
    /\ call.slot = 0 => call.left > 0 /\ Dirty # {}

\* cache_entries is exact, so that it never gets negative, and the list is
\* within its limit.
Counted == /\ cacheEntries = Cardinality(Used)
           /\ Len(cacheList) <= Soft

\* The lock was taken once for the section and once for the flush; the sync
\* that drops it is not within a section.
Depth == (IF section THEN 1 ELSE 0) + (IF call.op = "idle" THEN 0 ELSE 1)
Locked == /\ LockOnce /\ Depth > 0 => isLocked > 0
          /\ ~LockOnce => isLocked >= Depth
          /\ call.op = "sync" /\ call.did => ~section

Inv == /\ CacheTypeOK /\ Distinct /\ Current /\ CleanOnDisk /\ FlagKept
       /\ FlushKept /\ Counted /\ Locked

-----------------------------------------------------------------------------
LEMMA ListType ==
  ASSUME CacheTypeOK
  PROVE  /\ Len(cacheList) \in Nat
         /\ DOMAIN cacheList = 1..Len(cacheList)
         /\ \A i \in DOMAIN cacheList :
              /\ cacheList[i] \in Entry
              /\ cacheList[i].recno \in Recs
              /\ cacheList[i].data \in Data
<1>1. cacheList \in Seq(Entry)
  BY DEF CacheTypeOK
<1>2. Len(cacheList) \in Nat /\ DOMAIN cacheList = 1..Len(cacheList)
  BY <1>1, LenProperties
<1>3. \A i \in DOMAIN cacheList : cacheList[i] \in Entry
  BY <1>1, <1>2, ElementOfSeq
<1> QED
  BY <1>2, <1>3 DEF Entry

\* One entry replaced.
LEMMA EntryReplaced ==
  ASSUME CacheTypeOK, NEW k \in DOMAIN cacheList, NEW e \in Entry,
         cacheList' = [cacheList EXCEPT ![k] = e]
  PROVE  /\ cacheList' \in Seq(Entry)
         /\ DOMAIN cacheList' = DOMAIN cacheList
         /\ Len(cacheList') = Len(cacheList)
         /\ cacheList'[k] = e
         /\ \A j \in DOMAIN cacheList : j # k => cacheList'[j] = cacheList[j]
<1>1. cacheList \in Seq(Entry)
  BY DEF CacheTypeOK
<1>2. k \in 1..Len(cacheList)
  BY ListType
<1>3. /\ cacheList' \in Seq(Entry)
      /\ Len(cacheList') = Len(cacheList)
      /\ \A j \in 1..Len(cacheList) :
           cacheList'[j] = IF j = k THEN e ELSE cacheList[j]
  BY <1>1, <1>2, ExceptSeq
<1>4. DOMAIN cacheList' = 1..Len(cacheList')
  BY <1>3, LenProperties
<1> QED
  BY <1>2, <1>3, <1>4, ListType

LEMMA UsedFinite ==
  ASSUME CacheTypeOK
  PROVE  /\ IsFiniteSet(Used) /\ IsFiniteSet(Dirty) /\ IsFiniteSet(Clean)
         /\ Cardinality(Used) \in Nat /\ Cardinality(Dirty) \in Nat
         /\ Cardinality(Clean) \in Nat
<1>1. IsFiniteSet(Slots)
  BY ListType, FS_Interval DEF Slots
<1>2. Used \subseteq Slots /\ Dirty \subseteq Slots /\ Clean \subseteq Slots
  BY DEF Used, Dirty, Clean
<1>3. IsFiniteSet(Used) /\ IsFiniteSet(Dirty) /\ IsFiniteSet(Clean)
  BY <1>1, <1>2, FS_Subset
<1> QED
  BY <1>3, FS_CardinalityType

\* What PutDiscard does to the list.
LEMMA Discarded ==
  ASSUME CacheTypeOK, NEW r \in Recs, NEW d \in Data, PutDiscard(r, d)
  PROVE  /\ cacheList' \in Seq(Entry)
         /\ DOMAIN cacheList' = DOMAIN cacheList
         /\ Len(cacheList') = Len(cacheList)
         /\ \E i \in Clean : \E gone \in SUBSET Clean :
              /\ i \in gone
              /\ cacheEntries' = cacheEntries - Cardinality(gone) + 1
              /\ cacheList' = [j \in Slots |->
                    IF j = i THEN NewEntry(r, d)
                    ELSE IF j \in gone
                         THEN [cacheList[j] EXCEPT !.used = FALSE]
                         ELSE cacheList[j]]
<1> DEFINE n == AtLeastOne(Cardinality(Clean) \div 3)
           gone == FirstN(Clean, n)
<1>1. PICK i \in Slots :
        /\ IsFirst(i, Clean)
        /\ cacheList' = [j \in Slots |->
                           IF j = i THEN NewEntry(r, d)
                           ELSE IF j \in gone
                                THEN [cacheList[j] EXCEPT !.used = FALSE]
                                ELSE cacheList[j]]
  BY DEF PutDiscard
<1>2. n \in Nat /\ n >= 1
  BY UsedFinite DEF AtLeastOne
<1>3. i \in Clean /\ gone \subseteq Clean
  BY <1>1 DEF IsFirst, FirstN
<1>4. {j \in Clean : j >= i} = {i}
  <2>1. \A j \in Clean : j \in Nat /\ j <= i
    BY <1>1, ListType DEF IsFirst, Clean, Used, Slots
  <2> QED
    BY <1>3, <2>1
<1>5. i \in gone
  <2> HIDE DEF n
  <2>1. Cardinality({i}) = 1
    BY FS_Singleton
  <2> QED
    BY <1>2, <1>3, <1>4, <2>1 DEF FirstN
<1>6. \A j \in Slots : cacheList'[j] \in Entry
  <2>1. NewEntry(r, d) \in Entry
    BY DEF NewEntry, Entry
  <2>2. \A j \in Slots : /\ cacheList[j] \in Entry
                         /\ [cacheList[j] EXCEPT !.used = FALSE] \in Entry
    BY ListType DEF Entry, Slots
  <2> HIDE DEF gone
  <2> QED
    BY <1>1, <2>1, <2>2
<1>7. DOMAIN cacheList' = 1..Len(cacheList) /\ Slots = 1..Len(cacheList)
  <2> HIDE DEF gone
  <2> QED
    BY <1>1, ListType DEF Slots
<1>8. cacheList' \in [1..Len(cacheList) -> Entry]
  <2> HIDE DEF gone
  <2> QED
    BY <1>1, <1>6, <1>7
<1>9. cacheList' \in Seq(Entry) /\ Len(cacheList') = Len(cacheList)
  BY <1>8, ListType
<1> QED
  <2>1. cacheEntries' = cacheEntries - Cardinality(gone) + 1
    BY DEF PutDiscard
  <2>2. DOMAIN cacheList' = DOMAIN cacheList
    BY <1>7, ListType
  <2> HIDE DEF gone
  <2> QED
    BY <1>1, <1>3, <1>5, <1>9, <2>1, <2>2

\* How the number of entries in use changes with one of them.
LEMMA UsedReplaced ==
  ASSUME CacheTypeOK, NEW k \in DOMAIN cacheList, NEW e \in Entry,
         cacheList' = [cacheList EXCEPT ![k] = e]
  PROVE  /\ e.used => Used' = Used \cup {k}
         /\ ~e.used => Used' = Used \ {k}
         /\ e.used /\ k \in Used => Cardinality(Used') = Cardinality(Used)
         /\ e.used /\ k \notin Used
              => Cardinality(Used') = Cardinality(Used) + 1
         /\ ~e.used /\ k \in Used
              => Cardinality(Used') = Cardinality(Used) - 1
<1>1. /\ e.used => Used' = Used \cup {k}
      /\ ~e.used => Used' = Used \ {k}
  BY EntryReplaced DEF Used, Slots
<1>2. /\ Cardinality(Used \cup {k}) =
            IF k \in Used THEN Cardinality(Used) ELSE Cardinality(Used) + 1
      /\ Cardinality(Used \ {k}) =
            IF k \in Used THEN Cardinality(Used) - 1 ELSE Cardinality(Used)
  BY UsedFinite, FS_AddElement, FS_RemoveElement
<1> QED
  BY <1>1, <1>2

LEMMA NewEntryType ==
  ASSUME NEW r \in Recs, NEW d \in Data
  PROVE  /\ NewEntry(r, d) \in Entry
         /\ NewEntry(r, d).used /\ NewEntry(r, d).dirty
         /\ NewEntry(r, d).recno = r /\ NewEntry(r, d).data = d
  BY DEF NewEntry, Entry

LEMMA LockType ==
  ASSUME CacheTypeOK
  PROVE  /\ Taken(isLocked) \in Nat /\ Taken(isLocked) > 0
         /\ ~LockOnce => Taken(isLocked) = isLocked + 1
         /\ Released(isLocked) \in Nat
         /\ LockOnce => Released(isLocked) = isLocked
         /\ ~LockOnce /\ isLocked > 0 => Released(isLocked) = isLocked - 1
  BY FlagsAssumption DEF CacheTypeOK, Taken, Released

\* A record without an entry is put into slot k, free till now.
LEMMA FillsSlot ==
  ASSUME Inv, NEW r \in Recs, NEW d \in Data, NEW k \in DOMAIN cacheList,
         ~In(k), \A i \in DOMAIN cacheList : In(i) => cacheList[i].recno # r,
         cacheList' = [cacheList EXCEPT ![k] = NewEntry(r, d)],
         written' = [written EXCEPT ![r] = d],
         cacheEntries' = cacheEntries + 1, cacheIsDirty' = TRUE, file' = file
  PROVE  /\ cacheList' \in Seq(Entry) /\ written' \in [Recs -> Data]
         /\ cacheEntries' \in Nat
         /\ Distinct' /\ Current' /\ CleanOnDisk' /\ FlagKept' /\ Counted'
<1> DEFINE e == NewEntry(r, d)
<1>1. e \in Entry /\ e.used /\ e.dirty /\ e.recno = r /\ e.data = d
  BY NewEntryType
<1> HIDE DEF e
<1>2. /\ cacheList' \in Seq(Entry)
      /\ DOMAIN cacheList' = DOMAIN cacheList
      /\ Len(cacheList') = Len(cacheList)
      /\ cacheList'[k] = e
      /\ \A j \in DOMAIN cacheList : j # k => cacheList'[j] = cacheList[j]
  BY <1>1, EntryReplaced DEF Inv, e
<1>3. written' \in [Recs -> Data] /\ cacheEntries' \in Nat
  BY DEF Inv, CacheTypeOK
<1>4. written'[r] = d /\ \A q \in Recs : q # r => written'[q] = written[q]
  BY DEF Inv, CacheTypeOK
<1>5. Distinct'
  BY <1>1, <1>2 DEF Inv, Distinct, In
<1>6. Current'
  <2>1. \A i \in DOMAIN cacheList : cacheList[i].recno \in Recs
    BY ListType DEF Inv
  <2>2. ASSUME NEW i \in DOMAIN cacheList', In(i)'
        PROVE  cacheList'[i].data = written'[cacheList'[i].recno]
    BY <1>1, <1>2, <1>4, <2>1, <2>2 DEF Inv, Current, In
  <2>3. ASSUME NEW q \in Recs,
               \A i \in DOMAIN cacheList' : In(i)' => cacheList'[i].recno # q
        PROVE  file'[q] = written'[q]
    <3>1. q # r
      BY <1>1, <1>2, <2>3 DEF In
    <3>2. \A i \in DOMAIN cacheList : In(i) => cacheList[i].recno # q
      BY <1>2, <2>3 DEF In
    <3> QED
      BY <3>1, <3>2, <1>4 DEF Inv, Current
  <2> QED
    BY <2>2, <2>3 DEF Current
<1>7. CleanOnDisk'
  BY <1>1, <1>2 DEF Inv, CleanOnDisk, In
<1>8. FlagKept'
  BY DEF FlagKept
<1>9. Counted'
  <2>1. k \notin Used
    BY DEF Used, In
  <2>2. Cardinality(Used') = Cardinality(Used) + 1
    BY <1>1, <2>1, UsedReplaced DEF Inv, e
  <2> QED
    BY <1>2, <2>2 DEF Inv, Counted
<1> QED
  BY <1>2, <1>3, <1>5, <1>6, <1>7, <1>8, <1>9

-----------------------------------------------------------------------------
\* One lemma for each action.
LEMMA SectionSteps == Inv /\ (SectionBegin \/ SectionEnd) => Inv'
<1> SUFFICES ASSUME Inv, SectionBegin \/ SectionEnd PROVE Inv'
  OBVIOUS
<1>1. /\ UNCHANGED <<file, cacheList, cacheEntries, cacheIsDirty, call,
                     written>>
      /\ call.op = "idle"
      /\ \/ ~section /\ section' = TRUE /\ isLocked' = Taken(isLocked)
         \/ section /\ section' = FALSE /\ isLocked' = Released(isLocked)
  BY DEF SectionBegin, SectionEnd
<1>2. isLocked' \in Nat /\ section' \in BOOLEAN
  BY <1>1, LockType DEF Inv
<1>3. CacheTypeOK'
  BY <1>1, <1>2 DEF Inv, CacheTypeOK
<1>4. Distinct' /\ Current' /\ CleanOnDisk' /\ FlagKept'
  BY <1>1 DEF Inv, Distinct, Current, CleanOnDisk, FlagKept, In
<1>5. Counted' /\ FlushKept'
  BY <1>1 DEF Inv, Counted, FlushKept, Used, Slots
<1>6. Locked'
  <2>1. isLocked \in Nat
    BY DEF Inv, CacheTypeOK
  <2> QED
    BY <1>1, <2>1, LockType, FlagsAssumption DEF Inv, Locked, Depth
<1> QED
  BY <1>3, <1>4, <1>5, <1>6 DEF Inv

LEMMA PutSameStep ==
  ASSUME Inv, NEW r \in Recs, NEW d \in Data, PutSame(r, d)
  PROVE  Inv'
<1>1. PICK i \in DOMAIN cacheList :
        In(i) /\ cacheList[i].recno = r /\ cacheList[i].data = d
  BY DEF PutSame, Hits, Used, Slots, In
<1>2. written[r] = d
  BY <1>1 DEF Inv, Current
<1>3. written' = written
  BY <1>2 DEF PutSame, Inv, CacheTypeOK
<1> QED
  BY <1>3 DEF PutSame, Inv, CacheTypeOK, Distinct, Current, CleanOnDisk,
              FlagKept, FlushKept, Counted, Locked, Depth, In, Used, Dirty,
              Slots

LEMMA PutHitStep ==
  ASSUME Inv, NEW r \in Recs, NEW d \in Data, PutHit(r, d)
  PROVE  Inv'
<1> DEFINE e == NewEntry(r, d)
<1>1. e \in Entry /\ e.used /\ e.dirty /\ e.recno = r /\ e.data = d
  BY NewEntryType
<1> HIDE DEF e
<1>2. PICK k \in DOMAIN cacheList :
        /\ In(k) /\ cacheList[k].recno = r
        /\ cacheList' = [cacheList EXCEPT ![k] = e]
        /\ cacheIsDirty' = IF cacheList[k].dirty THEN cacheIsDirty ELSE TRUE
  BY DEF PutHit, Hits, Used, Slots, In, e
<1>3. /\ cacheList' \in Seq(Entry)
      /\ DOMAIN cacheList' = DOMAIN cacheList
      /\ Len(cacheList') = Len(cacheList)
      /\ cacheList'[k] = e
      /\ \A j \in DOMAIN cacheList : j # k => cacheList'[j] = cacheList[j]
  BY <1>1, <1>2, EntryReplaced DEF Inv
<1>4. /\ call.op = "idle"
      /\ written' = [written EXCEPT ![r] = d]
      /\ UNCHANGED <<file, cacheEntries, isLocked, section, call>>
  BY DEF PutHit
<1>5. /\ written' \in [Recs -> Data] /\ written'[r] = d
      /\ \A q \in Recs : q # r => written'[q] = written[q]
  BY <1>4 DEF Inv, CacheTypeOK
<1>6. cacheIsDirty' \in BOOLEAN
  BY <1>2 DEF Inv, CacheTypeOK
<1>7. CacheTypeOK'
  BY <1>3, <1>4, <1>5, <1>6 DEF Inv, CacheTypeOK
<1>8. Distinct'
  BY <1>1, <1>2, <1>3 DEF Inv, Distinct, In
<1>9. Current'
  <2>1. \A i \in DOMAIN cacheList : cacheList[i].recno \in Recs
    BY ListType DEF Inv
  <2>2. ASSUME NEW i \in DOMAIN cacheList', In(i)'
        PROVE  cacheList'[i].data = written'[cacheList'[i].recno]
    <3>1. CASE i = k
      BY <3>1, <1>1, <1>3, <1>5
    <3>2. CASE i # k
      BY <3>2, <1>2, <1>3, <1>5, <2>1, <2>2 DEF Inv, Current, Distinct, In
    <3> QED
      BY <3>1, <3>2
  <2>3. ASSUME NEW q \in Recs,
               \A i \in DOMAIN cacheList' : In(i)' => cacheList'[i].recno # q
        PROVE  file'[q] = written'[q]
    <3>1. q # r
      BY <1>1, <1>3, <2>3 DEF In
    <3>2. \A i \in DOMAIN cacheList : In(i) => cacheList[i].recno # q
      BY <1>2, <1>3, <2>3, <3>1 DEF In
    <3> QED
      BY <3>1, <3>2, <1>4, <1>5 DEF Inv, Current
  <2> QED
    BY <2>2, <2>3 DEF Current
<1>10. CleanOnDisk'
  BY <1>1, <1>3, <1>4 DEF Inv, CleanOnDisk, In
<1>11. FlagKept'
  <2>1. CASE cacheList[k].dirty
    BY <2>1, <1>2 DEF Inv, FlagKept, In
  <2>2. CASE ~cacheList[k].dirty
    BY <2>2, <1>2 DEF FlagKept
  <2> QED
    BY <2>1, <2>2
<1>12. Counted'
  <2>1. k \in Used
    BY <1>2 DEF Used, Slots, In
  <2>2. Cardinality(Used') = Cardinality(Used)
    BY <1>1, <1>2, <2>1, UsedReplaced DEF Inv
  <2> QED
    BY <1>3, <1>4, <2>2 DEF Inv, Counted
<1> QED
  BY <1>4, <1>7, <1>8, <1>9, <1>10, <1>11, <1>12
     DEF Inv, FlushKept, Locked, Depth

LEMMA PutReuseStep ==
  ASSUME Inv, NEW r \in Recs, NEW d \in Data, PutReuse(r, d)
  PROVE  Inv'
<1>1. PICK k \in DOMAIN cacheList :
        /\ k \in Slots \ Used
        /\ cacheList' = [cacheList EXCEPT ![k] = NewEntry(r, d)]
  BY DEF PutReuse, IsFirst, Slots
<1>2. ~In(k)
  BY <1>1 DEF Used, In
<1>3. \A i \in DOMAIN cacheList : In(i) => cacheList[i].recno # r
  BY DEF PutReuse, Hits, Used, Slots, In
<1>4. /\ cacheList' \in Seq(Entry) /\ written' \in [Recs -> Data]
      /\ cacheEntries' \in Nat
      /\ Distinct' /\ Current' /\ CleanOnDisk' /\ FlagKept' /\ Counted'
  BY <1>1, <1>2, <1>3, FillsSlot DEF PutReuse
<1> QED
  BY <1>4 DEF Inv, PutReuse, CacheTypeOK, FlushKept, Locked, Depth

LEMMA FlushDoneStep == Inv /\ FlushDone => Inv'
<1> SUFFICES ASSUME Inv, FlushDone PROVE Inv'
  OBVIOUS
<1>1. /\ call.op = "flush" /\ call \in Call
      /\ call.recno \in Recs /\ call.data \in Data
  BY DEF Inv, FlushDone, CacheTypeOK, Call
<1>2. call.slot \in DOMAIN cacheList /\ ~In(call.slot)
  BY <1>1 DEF Inv, FlushDone, FlushKept
<1>3. /\ cacheList' \in Seq(Entry) /\ written' \in [Recs -> Data]
      /\ cacheEntries' \in Nat
      /\ Distinct' /\ Current' /\ CleanOnDisk' /\ FlagKept' /\ Counted'
  BY <1>1, <1>2, FillsSlot DEF FlushDone, Inv, FlushKept
<1>4. call' \in Call /\ call'.op = "idle"
  BY RecsAssumption, DataAssumption DEF FlushDone, Idle, Call
<1>5. isLocked' \in Nat
  BY LockType DEF FlushDone, Inv
<1>6. CacheTypeOK'
  BY <1>3, <1>4, <1>5 DEF Inv, FlushDone, CacheTypeOK
<1>7. Locked'
  <2>1. /\ isLocked \in Nat /\ section' = section
        /\ isLocked' = Released(isLocked)
    BY DEF Inv, FlushDone, CacheTypeOK
  <2> QED
    BY <1>1, <1>4, <2>1, LockType, FlagsAssumption DEF Inv, Locked, Depth
<1> QED
  BY <1>3, <1>4, <1>6, <1>7 DEF Inv, FlushKept

LEMMA PutNewStep ==
  ASSUME Inv, NEW r \in Recs, NEW d \in Data, PutNew(r, d)
  PROVE  Inv'
<1> DEFINE e == NewEntry(r, d)
           n == Len(cacheList)
<1>1. e \in Entry /\ e.used /\ e.dirty /\ e.recno = r /\ e.data = d
  BY NewEntryType
<1> HIDE DEF e
<1>2. cacheList' = Append(cacheList, e)
  BY DEF PutNew, e
<1>3. /\ cacheList' \in Seq(Entry) /\ n \in Nat
      /\ DOMAIN cacheList = 1..n
      /\ DOMAIN cacheList' = 1..(n + 1) /\ Len(cacheList') = n + 1
      /\ cacheList'[n + 1] = e
      /\ \A j \in DOMAIN cacheList : cacheList'[j] = cacheList[j]
  BY <1>1, <1>2 DEF Inv, CacheTypeOK
<1>4. /\ call.op = "idle"
      /\ written' = [written EXCEPT ![r] = d]
      /\ cacheIsDirty' = TRUE
      /\ cacheEntries' = cacheEntries + 1
      /\ UNCHANGED <<file, isLocked, section, call>>
  BY DEF PutNew
<1>5. /\ written' \in [Recs -> Data] /\ written'[r] = d
      /\ \A q \in Recs : q # r => written'[q] = written[q]
  BY <1>4 DEF Inv, CacheTypeOK
<1>6. \A i \in DOMAIN cacheList : In(i) => cacheList[i].recno # r
  BY DEF PutNew, Hits, Used, Slots, In
<1> HIDE DEF n
<1>7. CacheTypeOK'
  BY <1>3, <1>4, <1>5 DEF Inv, CacheTypeOK
<1>8. Distinct'
  BY <1>1, <1>3, <1>6 DEF Inv, Distinct, In
<1>9. Current'
  <2>1. \A i \in DOMAIN cacheList : cacheList[i].recno \in Recs
    BY ListType DEF Inv
  <2>2. ASSUME NEW i \in DOMAIN cacheList', In(i)'
        PROVE  cacheList'[i].data = written'[cacheList'[i].recno]
    <3>1. CASE i = n + 1
      BY <3>1, <1>1, <1>3, <1>5
    <3>2. CASE i # n + 1
      <4>1. i \in DOMAIN cacheList
        BY <3>2, <1>3
      <4> QED
        BY <4>1, <1>3, <1>5, <1>6, <2>1, <2>2 DEF Inv, Current, In
    <3> QED
      BY <3>1, <3>2
  <2>3. ASSUME NEW q \in Recs,
               \A i \in DOMAIN cacheList' : In(i)' => cacheList'[i].recno # q
        PROVE  file'[q] = written'[q]
    <3>1. q # r
      BY <1>1, <1>3, <2>3 DEF In
    <3>2. \A i \in DOMAIN cacheList : In(i) => cacheList[i].recno # q
      BY <1>3, <2>3, <3>1 DEF In
    <3> QED
      BY <3>1, <3>2, <1>4, <1>5 DEF Inv, Current
  <2> QED
    BY <2>2, <2>3 DEF Current
<1>10. CleanOnDisk'
  <2> SUFFICES ASSUME NEW i \in DOMAIN cacheList', In(i)',
                      ~cacheList'[i].dirty
               PROVE  file'[cacheList'[i].recno] = cacheList'[i].data
    BY DEF CleanOnDisk
  <2>1. i # n + 1
    BY <1>1, <1>3
  <2>2. i \in DOMAIN cacheList
    BY <2>1, <1>3
  <2> QED
    BY <2>2, <1>3, <1>4 DEF Inv, CleanOnDisk, In
<1>11. FlagKept'
  BY <1>4 DEF FlagKept
<1>12. Counted'
  <2>1. Used' = Used \cup {n + 1}
    <3>1. n + 1 \in Used'
      BY <1>1, <1>3 DEF Used, Slots
    <3>2. \A j \in Slots : j \in Used <=> j \in Used'
      BY <1>3 DEF Used, Slots
    <3>3. Used \subseteq Slots /\ Used' \subseteq Slots \cup {n + 1}
      BY <1>3 DEF Used, Slots
    <3> QED
      BY <3>1, <3>2, <3>3
  <2>2. n + 1 \notin Used
    BY <1>3 DEF Used, Slots
  <2>3. Cardinality(Used') = Cardinality(Used) + 1
    BY <2>1, <2>2, UsedFinite, FS_AddElement DEF Inv
  <2>4. n = Cardinality(Used)
    BY <1>3, FS_Interval DEF PutNew, Slots
  <2>5. cacheEntries < Soft
    BY DEF PutNew
  <2> QED
    BY <1>3, <1>4, <2>3, <2>4, <2>5, SoftAssumption DEF Inv, Counted
<1> QED
  BY <1>4, <1>7, <1>8, <1>9, <1>10, <1>11, <1>12
     DEF Inv, FlushKept, Locked, Depth

LEMMA PutDiscardStep ==
  ASSUME Inv, NEW r \in Recs, NEW d \in Data, PutDiscard(r, d)
  PROVE  Inv'
<1> DEFINE e == NewEntry(r, d)
<1>1. e \in Entry /\ e.used /\ e.dirty /\ e.recno = r /\ e.data = d
  BY NewEntryType
<1>2. PICK k \in Clean : \E gone \in SUBSET Clean :
              /\ k \in gone
              /\ cacheEntries' = cacheEntries - Cardinality(gone) + 1
              /\ cacheList' = [j \in Slots |->
                    IF j = k THEN e
                    ELSE IF j \in gone
                         THEN [cacheList[j] EXCEPT !.used = FALSE]
                         ELSE cacheList[j]]
  BY Discarded DEF Inv
<1> HIDE DEF e
<1>3. PICK gone \in SUBSET Clean :
              /\ k \in gone
              /\ cacheEntries' = cacheEntries - Cardinality(gone) + 1
              /\ cacheList' = [j \in Slots |->
                    IF j = k THEN e
                    ELSE IF j \in gone
                         THEN [cacheList[j] EXCEPT !.used = FALSE]
                         ELSE cacheList[j]]
  BY <1>2
<1>4. /\ cacheList' \in Seq(Entry)
      /\ DOMAIN cacheList' = DOMAIN cacheList
      /\ Len(cacheList') = Len(cacheList)
  BY Discarded DEF Inv
<1>5. /\ k \in DOMAIN cacheList /\ In(k) /\ ~cacheList[k].dirty
      /\ \A j \in gone : In(j) /\ ~cacheList[j].dirty
      /\ gone \subseteq DOMAIN cacheList
  BY <1>3 DEF Clean, Dirty, Used, Slots, In
<1>6. cacheList'[k] = e
  BY <1>3, <1>5 DEF Slots
<1>7. \A j \in DOMAIN cacheList \ gone : cacheList'[j] = cacheList[j]
  BY <1>3 DEF Slots
<1>8. \A j \in gone : j # k => ~In(j)'
  <2>1. \A j \in DOMAIN cacheList : cacheList[j] \in Entry
    BY ListType DEF Inv
  <2>2. \A j \in gone : j # k =>
          cacheList'[j] = [cacheList[j] EXCEPT !.used = FALSE]
    BY <1>3, <1>5 DEF Slots
  <2>3. \A j \in gone : [cacheList[j] EXCEPT !.used = FALSE].used = FALSE
    BY <1>5, <2>1 DEF Entry
  <2> QED
    BY <2>2, <2>3 DEF In
<1>9. /\ call.op = "idle"
      /\ written' = [written EXCEPT ![r] = d]
      /\ cacheIsDirty' = TRUE
      /\ UNCHANGED <<file, isLocked, section, call>>
  BY DEF PutDiscard
<1>10. /\ written' \in [Recs -> Data] /\ written'[r] = d
       /\ \A q \in Recs : q # r => written'[q] = written[q]
  BY <1>9 DEF Inv, CacheTypeOK
<1>11. \A i \in DOMAIN cacheList : In(i) => cacheList[i].recno # r
  BY DEF PutDiscard, Hits, Used, Slots, In
<1>12. \A i \in DOMAIN cacheList : In(i)' /\ i # k =>
         i \notin gone /\ In(i) /\ cacheList'[i] = cacheList[i]
  BY <1>7, <1>8 DEF In
<1>13. Counted' /\ cacheEntries' \in Nat
  <2>1. Used' = (Used \ gone) \cup {k}
    <3>1. \A j \in DOMAIN cacheList : j \in Used' <=>
            j = k \/ j \in Used \ gone
      BY <1>1, <1>4, <1>6, <1>7, <1>12 DEF Used, Slots, In
    <3>2. /\ Used' \subseteq DOMAIN cacheList
          /\ (Used \ gone) \cup {k} \subseteq DOMAIN cacheList
      BY <1>4, <1>5 DEF Used, Slots
    <3> QED
      BY <3>1, <3>2
  <2>2. gone \subseteq Used /\ Used \cap gone = gone
    BY DEF Clean
  <2>3. /\ IsFiniteSet(Used) /\ IsFiniteSet(Used \ gone)
        /\ Cardinality(Used \ gone) = Cardinality(Used) - Cardinality(gone)
    BY <2>2, UsedFinite, FS_Difference DEF Inv
  <2>4. Cardinality(Used \ gone) \in Nat
    BY <2>3, FS_CardinalityType
  <2>5. Cardinality(Used') = Cardinality(Used \ gone) + 1
    BY <1>3, <2>1, <2>3, FS_AddElement
  <2>6. cacheEntries = Cardinality(Used) /\ cacheEntries \in Nat
    BY DEF Inv, Counted, CacheTypeOK
  <2>7. Cardinality(gone) \in Nat
    BY <2>2, <2>3, FS_Subset, FS_CardinalityType
  <2>8. cacheEntries' = Cardinality(Used')
    BY <1>3, <2>3, <2>5, <2>6, <2>7
  <2> QED
    BY <1>4, <2>4, <2>5, <2>8 DEF Inv, Counted
<1>14. CacheTypeOK'
  BY <1>4, <1>9, <1>10, <1>13 DEF Inv, CacheTypeOK
<1>15. Distinct'
  BY <1>1, <1>4, <1>6, <1>11, <1>12 DEF Inv, Distinct, In
<1>16. Current'
  <2>1. \A i \in DOMAIN cacheList : cacheList[i].recno \in Recs
    BY ListType DEF Inv
  <2>2. ASSUME NEW i \in DOMAIN cacheList', In(i)'
        PROVE  cacheList'[i].data = written'[cacheList'[i].recno]
    <3>1. CASE i = k
      BY <3>1, <1>1, <1>6, <1>10
    <3>2. CASE i # k
      <4>1. i \in DOMAIN cacheList /\ In(i) /\ cacheList'[i] = cacheList[i]
        BY <3>2, <1>4, <1>12, <2>2
      <4> QED
        BY <4>1, <1>10, <1>11, <2>1 DEF Inv, Current
    <3> QED
      BY <3>1, <3>2
  <2>3. ASSUME NEW q \in Recs,
               \A i \in DOMAIN cacheList' : In(i)' => cacheList'[i].recno # q
        PROVE  file'[q] = written'[q]
    <3>1. q # r
      BY <1>1, <1>4, <1>5, <1>6, <2>3 DEF In
    <3>2. CASE \E j \in gone : cacheList[j].recno = q
      <4>1. PICK j \in gone : cacheList[j].recno = q
        BY <3>2
      <4>2. file[q] = cacheList[j].data /\ written[q] = cacheList[j].data
        BY <4>1, <1>5 DEF Inv, CleanOnDisk, Current
      <4> QED
        BY <3>1, <4>2, <1>9, <1>10
    <3>3. CASE ~\E j \in gone : cacheList[j].recno = q
      <4>1. \A i \in DOMAIN cacheList : In(i) => cacheList[i].recno # q
        BY <1>4, <1>7, <2>3, <3>3 DEF In
      <4> QED
        BY <4>1, <3>1, <1>9, <1>10 DEF Inv, Current
    <3> QED
      BY <3>2, <3>3
  <2> QED
    BY <2>2, <2>3 DEF Current
<1>17. CleanOnDisk'
  <2> SUFFICES ASSUME NEW i \in DOMAIN cacheList', In(i)',
                      ~cacheList'[i].dirty
               PROVE  file'[cacheList'[i].recno] = cacheList'[i].data
    BY DEF CleanOnDisk
  <2>1. i # k
    BY <1>1, <1>6
  <2> QED
    BY <2>1, <1>4, <1>9, <1>12 DEF Inv, CleanOnDisk
<1>18. FlagKept'
  BY <1>9 DEF FlagKept
<1> QED
  BY <1>9, <1>13, <1>14, <1>15, <1>16, <1>17, <1>18
     DEF Inv, FlushKept, Locked, Depth

\* Dirty entry k is written to the file, and stays as a clean one or goes.
LEMMA EntryWritten ==
  ASSUME Inv, NEW k \in Dirty, NEW e \in Entry, ~e.dirty,
         e.recno = cacheList[k].recno, e.data = cacheList[k].data,
         cacheList' = [cacheList EXCEPT ![k] = e],
         file' = [file EXCEPT ![cacheList[k].recno] = cacheList[k].data],
         UNCHANGED <<cacheIsDirty, written>>
  PROVE  /\ cacheList' \in Seq(Entry) /\ file' \in [Recs -> Data]
         /\ k \in DOMAIN cacheList /\ In(k)
         /\ DOMAIN cacheList' = DOMAIN cacheList
         /\ Len(cacheList') = Len(cacheList)
         /\ cacheList'[k] = e
         /\ \A j \in DOMAIN cacheList : j # k => cacheList'[j] = cacheList[j]
         /\ Distinct' /\ Current' /\ CleanOnDisk' /\ FlagKept'
<1>1. k \in DOMAIN cacheList /\ In(k) /\ cacheList[k].dirty
  BY DEF Dirty, Used, Slots, In
<1>2. /\ cacheList' \in Seq(Entry)
      /\ DOMAIN cacheList' = DOMAIN cacheList
      /\ Len(cacheList') = Len(cacheList)
      /\ cacheList'[k] = e
      /\ \A j \in DOMAIN cacheList : j # k => cacheList'[j] = cacheList[j]
  BY <1>1, EntryReplaced DEF Inv
<1>3. \A i \in DOMAIN cacheList : /\ cacheList[i].recno \in Recs
                                  /\ cacheList[i].data \in Data
  BY ListType DEF Inv
<1>4. /\ file' \in [Recs -> Data]
      /\ file'[cacheList[k].recno] = cacheList[k].data
      /\ \A q \in Recs : q # cacheList[k].recno => file'[q] = file[q]
  BY <1>1, <1>3 DEF Inv, CacheTypeOK
<1>5. Distinct'
  BY <1>1, <1>2 DEF Inv, Distinct, In
<1>6. Current'
  <2>1. ASSUME NEW i \in DOMAIN cacheList', In(i)'
        PROVE  cacheList'[i].data = written'[cacheList'[i].recno]
    <3>1. CASE i = k
      BY <3>1, <1>1, <1>2 DEF Inv, Current
    <3>2. CASE i # k
      BY <3>2, <1>2, <2>1 DEF Inv, Current, In
    <3> QED
      BY <3>1, <3>2
  <2>2. ASSUME NEW q \in Recs,
               \A i \in DOMAIN cacheList' : In(i)' => cacheList'[i].recno # q
        PROVE  file'[q] = written'[q]
    <3>1. CASE q = cacheList[k].recno
      BY <3>1, <1>1, <1>4 DEF Inv, Current
    <3>2. CASE q # cacheList[k].recno
      <4>1. \A i \in DOMAIN cacheList : In(i) => cacheList[i].recno # q
        BY <1>2, <2>2, <3>2 DEF In
      <4> QED
        BY <4>1, <3>2, <1>4 DEF Inv, Current
    <3> QED
      BY <3>1, <3>2
  <2> QED
    BY <2>1, <2>2 DEF Current
<1>7. CleanOnDisk'
  <2> SUFFICES ASSUME NEW i \in DOMAIN cacheList', In(i)',
                      ~cacheList'[i].dirty
               PROVE  file'[cacheList'[i].recno] = cacheList'[i].data
    BY DEF CleanOnDisk
  <2>1. CASE i = k
    BY <2>1, <1>2, <1>4
  <2>2. CASE i # k
    <3>1. /\ i \in DOMAIN cacheList /\ In(i) /\ ~cacheList[i].dirty
          /\ cacheList'[i] = cacheList[i]
      BY <2>2, <1>2 DEF In
    <3>2. cacheList[i].recno # cacheList[k].recno
      BY <2>2, <3>1, <1>1 DEF Inv, Distinct
    <3> QED
      BY <3>1, <3>2, <1>3, <1>4 DEF Inv, CleanOnDisk
  <2> QED
    BY <2>1, <2>2
<1>8. FlagKept'
  BY <1>1, <1>2 DEF Inv, FlagKept, In
<1> QED
  BY <1>1, <1>2, <1>4, <1>5, <1>6, <1>7, <1>8

LEMMA PutFlushStep ==
  ASSUME Inv, NEW r \in Recs, NEW d \in Data, PutFlush(r, d)
  PROVE  Inv'
<1>1. /\ UNCHANGED <<file, cacheList, cacheEntries, cacheIsDirty, section,
                     written>>
      /\ call.op = "idle" /\ isLocked' = Taken(isLocked)
      /\ Dirty # {}
      /\ call' = [op |-> "flush", recno |-> r, data |-> d,
                  left |-> AtLeastOne(Cardinality(Dirty) \div 5),
                  slot |-> 0, did |-> FALSE]
  BY DEF PutFlush
<1>2. /\ AtLeastOne(Cardinality(Dirty) \div 5) \in Nat
      /\ AtLeastOne(Cardinality(Dirty) \div 5) > 0
  BY UsedFinite DEF AtLeastOne, Inv
<1>3. /\ call' \in Call /\ call'.op = "flush" /\ call'.recno = r
      /\ call'.slot = 0 /\ call'.left > 0
  BY <1>1, <1>2 DEF Call
<1>4. CacheTypeOK'
  BY <1>1, <1>3, LockType DEF Inv, CacheTypeOK
<1>5. Distinct' /\ Current' /\ CleanOnDisk' /\ FlagKept'
  BY <1>1 DEF Inv, Distinct, Current, CleanOnDisk, FlagKept, In
<1>6. Counted'
  BY <1>1 DEF Inv, Counted, Used, Slots
<1>7. FlushKept'
  <2>1. \A i \in DOMAIN cacheList : In(i) => cacheList[i].recno # r
    BY DEF PutFlush, Hits, Used, Slots, In
  <2>2. Dirty' = Dirty
    BY <1>1 DEF Dirty, Used, Slots
  <2> QED
    BY <1>1, <1>3, <2>1, <2>2 DEF FlushKept, In
<1>8. Locked'
  <2>1. isLocked \in Nat
    BY DEF Inv, CacheTypeOK
  <2> QED
    BY <1>1, <1>3, <2>1, LockType, FlagsAssumption DEF Inv, Locked, Depth
<1> QED
  BY <1>4, <1>5, <1>6, <1>7, <1>8 DEF Inv

LEMMA FlushWriteStep == Inv /\ FlushWrite => Inv'
<1> SUFFICES ASSUME Inv, FlushWrite PROVE Inv'
  OBVIOUS
<1>1. PICK k \in Slots :
        /\ call.op = "flush" /\ call.left > 0 /\ IsFirst(k, Dirty)
        /\ file' = [file EXCEPT ![cacheList[k].recno] = cacheList[k].data]
        /\ GivenUp(k)
  BY DEF FlushWrite
<1> DEFINE e == [cacheList[k] EXCEPT !.dirty = FALSE, !.used = FALSE]
<1>2. k \in Dirty /\ k \in DOMAIN cacheList /\ In(k) /\ k \in Used
  BY <1>1 DEF IsFirst, Dirty, Used, Slots, In
<1>3. /\ e \in Entry /\ ~e.used /\ ~e.dirty
      /\ e.recno = cacheList[k].recno /\ e.data = cacheList[k].data
  <2>1. cacheList[k] \in Entry
    BY <1>2, ListType DEF Inv
  <2> QED
    BY <2>1 DEF Entry
<1>4. cacheList' = [cacheList EXCEPT ![k] = e]
  BY <1>1 DEF GivenUp
<1> HIDE DEF e
<1>5. /\ cacheEntries' = cacheEntries - 1
      /\ call' = [call EXCEPT !.left = @ - 1,
                              !.slot = IF @ = 0 THEN k ELSE @]
      /\ UNCHANGED <<cacheIsDirty, isLocked, section, written>>
  BY <1>1 DEF GivenUp
<1>6. /\ cacheList' \in Seq(Entry) /\ file' \in [Recs -> Data]
      /\ DOMAIN cacheList' = DOMAIN cacheList
      /\ Len(cacheList') = Len(cacheList)
      /\ cacheList'[k] = e
      /\ \A j \in DOMAIN cacheList : j # k => cacheList'[j] = cacheList[j]
      /\ Distinct' /\ Current' /\ CleanOnDisk' /\ FlagKept'
  BY <1>1, <1>2, <1>3, <1>4, <1>5, EntryWritten
<1>7. Counted' /\ cacheEntries' \in Nat
  <2>1. Cardinality(Used') = Cardinality(Used) - 1
    BY <1>2, <1>3, <1>4, UsedReplaced DEF Inv
  <2>2. Cardinality(Used') \in Nat
    <3>1. Used' = Used \ {k}
      BY <1>2, <1>3, <1>4, UsedReplaced DEF Inv
    <3> QED
      BY <3>1, UsedFinite, FS_Subset, FS_CardinalityType DEF Inv
  <2> QED
    BY <1>5, <1>6, <2>1, <2>2 DEF Inv, Counted
<1>8. /\ call \in Call /\ k \in Nat /\ k # 0
  BY <1>2, ListType DEF Inv, CacheTypeOK
<1>9. /\ call' \in Call /\ call'.op = "flush" /\ call'.recno = call.recno
      /\ call'.did = call.did
      /\ call'.slot = IF call.slot = 0 THEN k ELSE call.slot
  <2> DEFINE s == IF call.slot = 0 THEN k ELSE call.slot
             n == call.left - 1
  <2>1. s \in Nat /\ n \in Nat
    BY <1>1, <1>8 DEF Call
  <2>2. call' = [call EXCEPT !.left = n, !.slot = s]
    BY <1>5, <1>8 DEF Call
  <2> HIDE DEF s, n
  <2>3. /\ call' \in Call /\ call'.op = call.op /\ call'.recno = call.recno
        /\ call'.did = call.did /\ call'.slot = s
    BY <1>8, <2>1, <2>2 DEF Call
  <2> QED
    BY <1>1, <2>3 DEF s
<1>10. CacheTypeOK'
  BY <1>5, <1>6, <1>7, <1>9 DEF Inv, CacheTypeOK
<1>11. FlushKept'
  <2>1. \A i \in DOMAIN cacheList : In(i) => cacheList[i].recno # call.recno
    BY <1>1 DEF Inv, FlushKept
  <2>2. \A i \in DOMAIN cacheList' : In(i)' =>
          cacheList'[i].recno # call'.recno
    BY <1>3, <1>6, <1>9, <2>1 DEF In
  <2>3. call'.slot # 0
    BY <1>8, <1>9
  <2>4. call'.slot \in DOMAIN cacheList' /\ ~cacheList'[call'.slot].used
    <3>1. CASE call.slot = 0
      BY <3>1, <1>2, <1>3, <1>6, <1>9
    <3>2. CASE call.slot # 0
      BY <3>2, <1>1, <1>2, <1>3, <1>6, <1>9 DEF Inv, FlushKept, In
    <3> QED
      BY <3>1, <3>2
  <2> QED
    BY <2>2, <2>3, <2>4 DEF FlushKept, In
<1>12. Locked'
  BY <1>1, <1>5, <1>9 DEF Inv, Locked, Depth
<1> QED
  BY <1>6, <1>7, <1>10, <1>11, <1>12 DEF Inv

LEMMA SyncStartStep == Inv /\ SyncStart => Inv'
<1> SUFFICES ASSUME Inv, SyncStart PROVE Inv'
  OBVIOUS
<1>1. /\ UNCHANGED <<file, cacheList, cacheEntries, cacheIsDirty, section,
                     written>>
      /\ call.op = "idle" /\ isLocked' = Taken(isLocked)
      /\ call' = [Idle EXCEPT !.op = "sync", !.did = (isLocked = 0)]
  BY DEF SyncStart
<1>2. call' \in Call /\ call'.op = "sync" /\ call'.did = (isLocked = 0)
  BY <1>1, RecsAssumption, DataAssumption DEF Call, Idle
<1>3. CacheTypeOK'
  BY <1>1, <1>2, LockType DEF Inv, CacheTypeOK
<1>4. Distinct' /\ Current' /\ CleanOnDisk' /\ FlagKept'
  BY <1>1 DEF Inv, Distinct, Current, CleanOnDisk, FlagKept, In
<1>5. Counted' /\ FlushKept'
  BY <1>1, <1>2 DEF Inv, Counted, FlushKept, Used, Slots
<1>6. Locked'
  <2>1. isLocked \in Nat
    BY DEF Inv, CacheTypeOK
  <2>2. isLocked = 0 => ~section
    BY <1>1, <2>1, FlagsAssumption DEF Inv, Locked, Depth
  <2>3. /\ isLocked' \in Nat /\ isLocked' > 0
        /\ ~LockOnce => isLocked' = isLocked + 1
    BY <1>1, LockType DEF Inv
  <2>4. ~LockOnce => isLocked' >= Depth'
    BY <1>1, <1>2, <2>1, <2>3 DEF Inv, Locked, Depth
  <2> QED
    BY <1>1, <1>2, <2>2, <2>3, <2>4 DEF Locked
<1> QED
  BY <1>3, <1>4, <1>5, <1>6 DEF Inv

LEMMA SyncWriteStep == Inv /\ SyncWrite => Inv'
<1> SUFFICES ASSUME Inv, SyncWrite PROVE Inv'
  OBVIOUS
<1>1. PICK k \in Slots :
        /\ IsFirst(k, Dirty)
        /\ call.op = "sync"
        /\ file' = [file EXCEPT ![cacheList[k].recno] = cacheList[k].data]
        /\ cacheList' = [cacheList EXCEPT ![k].dirty = FALSE]
        /\ UNCHANGED <<cacheEntries, cacheIsDirty, isLocked, section, call,
                       written>>
  BY DEF SyncWrite
<1> DEFINE e == [cacheList[k] EXCEPT !.dirty = FALSE]
<1>2. k \in Dirty /\ k \in DOMAIN cacheList /\ In(k) /\ k \in Used
  BY <1>1 DEF IsFirst, Dirty, Used, Slots, In
<1>3. /\ e \in Entry /\ e.used /\ ~e.dirty
      /\ e.recno = cacheList[k].recno /\ e.data = cacheList[k].data
  <2>1. cacheList[k] \in Entry
    BY <1>2, ListType DEF Inv
  <2> QED
    BY <2>1, <1>2 DEF Entry, In
<1>4. cacheList' = [cacheList EXCEPT ![k] = e]
  BY <1>1
<1> HIDE DEF e
<1>5. /\ cacheList' \in Seq(Entry) /\ file' \in [Recs -> Data]
      /\ Len(cacheList') = Len(cacheList)
      /\ Distinct' /\ Current' /\ CleanOnDisk' /\ FlagKept'
  BY <1>1, <1>2, <1>3, <1>4, EntryWritten
<1>6. Counted'
  <2>1. Cardinality(Used') = Cardinality(Used)
    BY <1>2, <1>3, <1>4, UsedReplaced DEF Inv
  <2> QED
    BY <1>1, <1>5, <2>1 DEF Inv, Counted
<1> QED
  BY <1>1, <1>5, <1>6 DEF Inv, CacheTypeOK, FlushKept, Locked, Depth

LEMMA SyncDoneStep == Inv /\ SyncDone => Inv'
<1> SUFFICES ASSUME Inv, SyncDone PROVE Inv'
  OBVIOUS
<1>1. /\ UNCHANGED <<file, cacheList, cacheEntries, section, written>>
      /\ call.op = "sync" /\ Dirty = {}
      /\ isLocked' = IF call.did THEN Released(isLocked) ELSE isLocked
      /\ cacheIsDirty' = FALSE /\ call' = Idle
  BY DEF SyncDone
<1>2. call' \in Call /\ call'.op = "idle"
  BY <1>1, RecsAssumption, DataAssumption DEF Call, Idle
<1>3. isLocked \in Nat /\ isLocked' \in Nat
  BY <1>1, LockType DEF Inv, CacheTypeOK
<1>4. CacheTypeOK'
  BY <1>1, <1>2, <1>3 DEF Inv, CacheTypeOK
<1>5. Distinct' /\ Current' /\ CleanOnDisk'
  BY <1>1 DEF Inv, Distinct, Current, CleanOnDisk, In
<1>6. FlagKept'
  BY <1>1 DEF FlagKept, Dirty, Used, Slots, In
<1>7. Counted' /\ FlushKept'
  BY <1>1, <1>2 DEF Inv, Counted, FlushKept, Used, Slots
<1>8. Locked'
  <2>1. CASE call.did
    BY <2>1, <1>1, <1>2, <1>3, LockType, FlagsAssumption
       DEF Inv, Locked, Depth
  <2>2. CASE ~call.did
    BY <2>2, <1>1, <1>2, <1>3, FlagsAssumption DEF Inv, Locked, Depth
  <2> QED
    BY <2>1, <2>2
<1> QED
  BY <1>4, <1>5, <1>6, <1>7, <1>8 DEF Inv

LEMMA WriteFailsStep == Inv /\ WriteFails => Inv'
<1> SUFFICES ASSUME Inv, WriteFails PROVE Inv'
  OBVIOUS
<1>1. PICK k \in Slots :
        /\ IsFirst(k, Dirty)
        /\ \E d \in {file[cacheList[k].recno], Torn} :
             file' = [file EXCEPT ![cacheList[k].recno] = d]
        /\ call' = Idle
        /\ UNCHANGED <<cacheList, cacheEntries, cacheIsDirty, isLocked,
                       section, written>>
  BY DEF WriteFails
<1>2. /\ k \in DOMAIN cacheList /\ In(k) /\ cacheList[k].dirty
      /\ \A i \in DOMAIN cacheList : cacheList[i].recno \in Recs
  BY <1>1, ListType DEF IsFirst, Dirty, Used, Slots, In, Inv
<1>3. /\ file' \in [Recs -> Data]
      /\ \A q \in Recs : q # cacheList[k].recno => file'[q] = file[q]
  BY <1>1, <1>2, DataAssumption DEF Inv, CacheTypeOK
<1>4. call' \in Call /\ call'.op = "idle"
  BY <1>1, RecsAssumption, DataAssumption DEF Call, Idle
<1>5. CacheTypeOK'
  BY <1>1, <1>3, <1>4 DEF Inv, CacheTypeOK
<1>6. Distinct' /\ FlagKept'
  BY <1>1 DEF Inv, Distinct, FlagKept, In
<1>7. Current'
  BY <1>1, <1>2, <1>3 DEF Inv, Current, In
<1>8. CleanOnDisk'
  BY <1>1, <1>2, <1>3 DEF Inv, CleanOnDisk, Distinct, In
<1>9. Counted' /\ FlushKept'
  BY <1>1, <1>4 DEF Inv, Counted, FlushKept, Used, Slots
<1>10. Locked'
  <2>1. isLocked \in Nat
    BY DEF Inv, CacheTypeOK
  <2> QED
    BY <1>1, <1>4, <2>1, FlagsAssumption DEF Inv, Locked, Depth
<1> QED
  BY <1>5, <1>6, <1>7, <1>8, <1>9, <1>10 DEF Inv

\* A process that starts: nothing is cached.
LEMMA EmptyCache ==
  ASSUME file \in [Recs -> Data], cacheList = <<>>, cacheEntries = 0,
         cacheIsDirty = FALSE, isLocked = 0, section = FALSE, call = Idle,
         written = file
  PROVE  Inv
<1>1. DOMAIN cacheList = {} /\ Len(cacheList) = 0 /\ cacheList \in Seq(Entry)
  OBVIOUS
<1>2. call \in Call /\ call.op = "idle"
  BY RecsAssumption, DataAssumption DEF Call, Idle
<1>3. CacheTypeOK
  BY <1>1, <1>2 DEF CacheTypeOK
<1>4. Distinct /\ Current /\ CleanOnDisk /\ FlagKept
  BY <1>1 DEF Distinct, Current, CleanOnDisk, FlagKept
<1>5. Counted
  <2>1. Used = {}
    BY <1>1 DEF Used, Slots
  <2> QED
    BY <1>1, <2>1, FS_EmptySet, SoftAssumption DEF Counted
<1>6. FlushKept /\ Locked
  BY <1>2 DEF FlushKept, Locked, Depth
<1> QED
  BY <1>3, <1>4, <1>5, <1>6 DEF Inv

LEMMA RestartStep == Inv /\ Restart => Inv'
<1> SUFFICES ASSUME Inv, Restart PROVE Inv'
  OBVIOUS
<1>1. /\ file' \in [Recs -> Data] /\ cacheList' = <<>> /\ cacheEntries' = 0
      /\ cacheIsDirty' = FALSE /\ isLocked' = 0 /\ section' = FALSE
      /\ call' = Idle /\ written' = file'
  BY DEF Inv, CacheTypeOK, Restart
<1>2. DOMAIN cacheList' = {} /\ Len(cacheList') = 0
      /\ cacheList' \in Seq(Entry)
  BY <1>1
<1>3. call' \in Call /\ call'.op = "idle"
  BY <1>1, RecsAssumption, DataAssumption DEF Call, Idle
<1>4. CacheTypeOK'
  BY <1>1, <1>2, <1>3 DEF CacheTypeOK
<1>5. Distinct' /\ Current' /\ CleanOnDisk' /\ FlagKept'
  BY <1>1, <1>2 DEF Distinct, Current, CleanOnDisk, FlagKept
<1>6. Counted'
  <2>1. Used' = {}
    BY <1>2 DEF Used, Slots
  <2> QED
    BY <1>1, <1>2, <2>1, FS_EmptySet, SoftAssumption DEF Counted
<1>7. FlushKept' /\ Locked'
  BY <1>1, <1>3 DEF FlushKept, Locked, Depth
<1> QED
  BY <1>4, <1>5, <1>6, <1>7 DEF Inv

LEMMA InvInit == CacheInit => Inv
  BY EmptyCache DEF CacheInit

LEMMA InvStep == Inv /\ [CacheNext]_cvars => Inv'
<1> SUFFICES ASSUME Inv, [CacheNext]_cvars PROVE Inv'
  OBVIOUS
<1>1. CASE SectionBegin \/ SectionEnd
  BY <1>1, SectionSteps
<1>2. ASSUME NEW r \in Recs, NEW d \in Data, Put(r, d) PROVE Inv'
  BY <1>2, PutSameStep, PutHitStep, PutReuseStep, PutNewStep,
     PutDiscardStep, PutFlushStep DEF Put
<1>3. CASE FlushWrite \/ FlushDone
  BY <1>3, FlushWriteStep, FlushDoneStep
<1>4. CASE SyncStart \/ SyncWrite \/ SyncDone
  BY <1>4, SyncStartStep, SyncWriteStep, SyncDoneStep
<1>5. CASE WriteFails \/ Restart
  BY <1>5, WriteFailsStep, RestartStep
<1>6. CASE UNCHANGED cvars
  BY <1>6 DEF cvars, Inv, CacheTypeOK, Distinct, Current, CleanOnDisk,
     FlagKept, FlushKept, Counted, Locked, Depth, In, Used, Dirty, Slots
<1> QED
  BY <1>1, <1>2, <1>3, <1>4, <1>5, <1>6 DEF CacheNext

-----------------------------------------------------------------------------
LEMMA InvHolds == CacheSpec => []Inv
<1> QED
  BY InvInit, InvStep, PTL DEF CacheSpec

\* What the invariant says of reads.
LEMMA ViewCurrent == Inv => View = written
<1> SUFFICES ASSUME Inv PROVE View = written
  OBVIOUS
<1>1. written \in [Recs -> Data]
  BY DEF Inv, CacheTypeOK
<1>2. ASSUME NEW r \in Recs PROVE View[r] = written[r]
  <2>1. CASE \E i \in Used : cacheList[i].recno = r
    <3> DEFINE i == CHOOSE j \in Used : cacheList[j].recno = r
    <3>1. i \in Used /\ cacheList[i].recno = r
      BY <2>1
    <3>2. View[r] = cacheList[i].data
      BY <2>1 DEF View
    <3>3. cacheList[i].data = written[cacheList[i].recno]
      BY <3>1 DEF Inv, Current, Used, Slots, In
    <3> QED
      BY <3>1, <3>2, <3>3
  <2>2. CASE ~\E i \in Used : cacheList[i].recno = r
    <3>1. View[r] = file[r]
      BY <2>2 DEF View
    <3>2. \A i \in DOMAIN cacheList : In(i) => cacheList[i].recno # r
      BY <2>2 DEF Used, Slots, In
    <3> QED
      BY <3>1, <3>2 DEF Inv, Current
  <2> QED
    BY <2>1, <2>2
<1>3. View = [r \in Recs |-> View[r]]
  BY DEF View
<1> QED
  BY <1>1, <1>2, <1>3

\* The variables of the record cache have their types.
THEOREM CacheTypes == CacheSpec => []CacheTypeOK
<1>1. Inv => CacheTypeOK
  BY DEF Inv
<1> QED
  BY <1>1, InvHolds, PTL

\* A read returns the record that was written last.
THEOREM ReadsLast == CacheSpec => []ReadsLastWritten
<1>1. Inv => ReadsLastWritten
  BY ViewCurrent DEF ReadsLastWritten
<1> QED
  BY <1>1, InvHolds, PTL

\* A cache that is not dirty agrees with the file.
THEOREM SyncedOnDisk == CacheSpec => []SyncedIsOnDisk
<1>1. ASSUME Inv, ~cacheIsDirty PROVE View = file
  <2>1. file \in [Recs -> Data] /\ written \in [Recs -> Data]
    BY <1>1 DEF Inv, CacheTypeOK
  <2>2. ASSUME NEW r \in Recs PROVE file[r] = written[r]
    <3>1. CASE \E i \in DOMAIN cacheList : In(i) /\ cacheList[i].recno = r
      BY <1>1, <3>1 DEF Inv, FlagKept, CleanOnDisk, Current
    <3>2. CASE ~\E i \in DOMAIN cacheList : In(i) /\ cacheList[i].recno = r
      BY <1>1, <3>2 DEF Inv, Current
    <3> QED
      BY <3>1, <3>2
  <2>3. file = written
    BY <2>1, <2>2
  <2> QED
    BY <1>1, <2>3, ViewCurrent
<1>2. Inv => SyncedIsOnDisk
  BY <1>1 DEF SyncedIsOnDisk
<1> QED
  BY <1>2, InvHolds, PTL

\* The cache keeps to its limit, and cache_entries is exact.
THEOREM Bounded == CacheSpec => []CacheBounded
<1>1. Inv => CacheBounded
  BY DEF Inv, Counted, CacheBounded
<1> QED
  BY <1>1, InvHolds, PTL

\* The database file is written under its lock only.
THEOREM LockHeld == CacheSpec => []LockedWhileWriting
<1>1. Inv => LockedWhileWriting
  <2> SUFFICES ASSUME Inv, call.op # "idle" \/ section PROVE isLocked > 0
    BY DEF LockedWhileWriting
  <2>1. isLocked \in Nat
    BY DEF Inv, CacheTypeOK
  <2> QED
    BY <2>1, FlagsAssumption DEF Inv, Locked, Depth
<1> QED
  BY <1>1, InvHolds, PTL

-----------------------------------------------------------------------------
\* A step that changes what is on disk writes the record written last there,
\* or tears it, and a step that changes what is read writes one record.
LEMMA StoreStep == Inv /\ [CacheNext]_cvars => [RStore!Next]_(RStore!vars)
<1> SUFFICES ASSUME Inv, [CacheNext]_cvars
             PROVE  [RStore!Next]_(RStore!vars)
  OBVIOUS
<1> USE DEF RStore!Next, RStore!vars
<1>1. written \in [Recs -> Data] /\ file \in [Recs -> Data]
  BY DEF Inv, CacheTypeOK
<1>2. CASE UNCHANGED <<file, written>>
  BY <1>2
<1>3. ASSUME NEW r \in Recs, NEW d \in Data,
             written' = [written EXCEPT ![r] = d], file' = file
      PROVE  RStore!Store(r)
  BY <1>1, <1>3 DEF RStore!Store
<1>4. ASSUME NEW r \in Recs, NEW d \in Data, Put(r, d)
      PROVE  RStore!Store(r) \/ UNCHANGED <<file, written>>
  BY <1>3, <1>4 DEF Put, PutSame, PutHit, PutReuse, PutNew, PutDiscard,
                    PutFlush
<1>5. CASE FlushDone
  <2>1. call.recno \in Recs /\ call.data \in Data
    BY DEF Inv, CacheTypeOK, Call
  <2> QED
    BY <1>3, <1>5, <2>1 DEF FlushDone
<1>6. CASE FlushWrite \/ SyncWrite
  <2>1. PICK k \in Slots :
          /\ IsFirst(k, Dirty)
          /\ file' = [file EXCEPT ![cacheList[k].recno] = cacheList[k].data]
          /\ written' = written
    BY <1>6 DEF FlushWrite, SyncWrite, GivenUp
  <2>2. /\ cacheList[k].recno \in Recs
        /\ cacheList[k].data = written[cacheList[k].recno]
    BY <2>1, ListType DEF Inv, Current, IsFirst, Dirty, Used, Slots, In
  <2>3. RStore!WriteBack(cacheList[k].recno)
    BY <2>1, <2>2 DEF RStore!WriteBack
  <2> QED
    BY <2>2, <2>3
<1>7. CASE WriteFails
  <2>1. PICK k \in Slots :
          /\ IsFirst(k, Dirty) /\ written' = written
          /\ \E d \in {file[cacheList[k].recno], Torn} :
               file' = [file EXCEPT ![cacheList[k].recno] = d]
    BY <1>7 DEF WriteFails
  <2>2. cacheList[k].recno \in Recs
    BY <2>1, ListType DEF Inv, IsFirst, Dirty, Used, Slots
  <2>3. CASE file' = [file EXCEPT ![cacheList[k].recno] = Torn]
    BY <2>1, <2>2, <2>3 DEF RStore!Tear
  <2>4. CASE file' = [file EXCEPT ![cacheList[k].recno] =
                                    file[cacheList[k].recno]]
    BY <1>1, <1>2, <2>1, <2>2, <2>4
  <2> QED
    BY <2>1, <2>3, <2>4
<1>8. CASE Restart
  BY <1>8 DEF Restart, RStore!Restart
<1>9. CASE SectionBegin \/ SectionEnd \/ SyncStart \/ SyncDone
  BY <1>2, <1>9 DEF SectionBegin, SectionEnd, SyncStart, SyncDone
<1>10. CASE UNCHANGED cvars
  BY <1>2, <1>10 DEF cvars
<1> QED
  BY <1>2, <1>4, <1>5, <1>6, <1>7, <1>8, <1>9, <1>10 DEF CacheNext

\* The cache implements the record store.
THEOREM CacheImplements == CacheSpec => ImplementsRecordStore
<1>1. CacheInit => RStore!Init
  BY DEF CacheInit, RStore!Init
<1> QED
  BY <1>1, StoreStep, InvHolds, PTL
     DEF CacheSpec, ImplementsRecordStore, RStore!Spec
=============================================================================
