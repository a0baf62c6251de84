------------------------------- MODULE TrustDb -------------------------------
(***************************************************************************)
(* The trust database of gpg: the records, the hash table and the lists of *)
(* free records of g10/tdbio.c, and the updates of g10/trustdb.c, on top   *)
(* of the record cache (module TdbCache).                                  *)
(*                                                                         *)
(* A process reads what it needs through its own cache; so an update is    *)
(* computed at once from the View, as the sequence of the records that it  *)
(* writes, and then carried out record by record.  Each of these may flush *)
(* others, and the process may end anywhere.  The fingerprint of a key is  *)
(* the key itself, its first byte is Bucket[key]; the 26 records of the    *)
(* hash table are one.                                                     *)
(***************************************************************************)
EXTENDS TdbCache, FiniteSetsExt, Functions

CONSTANTS
  Keys,       \* keys, by fingerprint
  Bucket,     \* key[0] for each of them
  Names,      \* user ids, by name hash
  Values,     \* ownertrust and validity values, 0 is unknown
  HlstItems,  \* ITEMS_PER_HLST_RECORD
  MaxOps,     \* bound: updates in a behaviour
  MaxDeaths   \* bound: processes that end before the last one

ASSUME RecsInterval ==
  IsFiniteSet(Recs) /\ 2 \in Recs /\ \A r \in Recs : 0..r \subseteq Recs
ASSUME BucketAssumption == Bucket \in [Keys -> Nat]
ASSUME ValuesAssumption == 0 \in Values
ASSUME HlstAssumption == HlstItems \in Nat /\ HlstItems >= 2

Buckets == {Bucket[k] : k \in Keys}

VARIABLES
  eof,      \* length of the file in records
  todo,     \* what the running update has still to do
  current,  \* the key whose ownertrust it sets, and the value
  partial,  \* records were written back since the last complete sync
  torn,     \* a process ended then
  done,     \* ownertrust of the updates that returned
  ops, deaths

vars == <<cvars, eof, todo, current, partial, torn, done, ops, deaths>>

-----------------------------------------------------------------------------
\* The types of records, tdbio.h.
Unused == [type |-> "unused"]
Garbled == [type |-> "garbled"]
Ver(free, tbl, next) == [type |-> "ver", firstfree |-> free,
                         trusthashtbl |-> tbl, nextcheck |-> next]
Htbl(items) == [type |-> "htbl", item |-> items]
Hlst(next, rnums) == [type |-> "hlst", next |-> next, rnum |-> rnums]
Trust(k, own, list) == [type |-> "trust", fpr |-> k, ownertrust |-> own,
                        validlist |-> list]
Valid(u, x, next) == [type |-> "valid", name |-> u, validity |-> x,
                      next |-> next]
Free(next) == [type |-> "free", next |-> next]

Record == {Unused, Garbled}
          \cup [type : {"ver"}, firstfree : Recs, trusthashtbl : Recs,
                nextcheck : {0, 1}]
          \cup [type : {"htbl"}, item : [Buckets -> Recs]]
          \cup [type : {"hlst"}, next : Recs, rnum : [1..HlstItems -> Recs]]
          \cup [type : {"trust"}, fpr : Keys, ownertrust : Values,
                validlist : Recs]
          \cup [type : {"valid"}, name : Names, validity : Values,
                next : Recs]
          \cup [type : {"free"}, next : Recs]

ASSUME RecordAssumption == Data = Record /\ Zero = Unused /\ Torn = Garbled

\* No file, or one with a free record as older versions left it.
Init == /\ \/ /\ file = [r \in Recs |-> Unused]
              /\ eof = 0
           \/ /\ file = [r \in Recs |->
                          CASE r = 0 -> Ver(2, 1, 0)
                            [] r = 1 -> Htbl([b \in Buckets |-> 0])
                            [] r = 2 -> Free(0)
                            [] OTHER -> Unused]
              /\ eof = 3
        /\ CacheInit
        /\ todo = <<>> /\ current = {}
        /\ partial = FALSE /\ torn = FALSE
        /\ done = [k \in Keys |-> 0]
        /\ ops = 0 /\ deaths = 0

-----------------------------------------------------------------------------
(***************************************************************************)
(* Updates as a computation on [v, n, w, ok]: the records seen, the length *)
(* of the file, the writes so far, and whether the process goes on.        *)
(***************************************************************************)
PutStep(r, d) == [step |-> "put", recno |-> r, data |-> d]
AppendStep == [step |-> "append"]
SyncStep == [step |-> "sync"]

Begin == [v |-> View, n |-> eof, w |-> <<>>, ok |-> TRUE]
Die(s) == [s EXCEPT !.ok = FALSE]
WriteRec(s, r, d) == IF s.ok
                     THEN [s EXCEPT !.v[r] = d,
                                    !.w = Append(@, PutStep(r, d))]
                     ELSE s
Sync(s) == IF s.ok THEN [s EXCEPT !.w = Append(@, SyncStep)] ELSE s

\* tdbio_new_recnum: where the next record goes, and what that changes.
NewRecnum(s) ==
  IF s.v[0].firstfree # 0 THEN s.v[0].firstfree ELSE s.n

Alloc(s) ==
  LET f == s.v[0].firstfree
  IN  IF f = 0
      THEN IF s.n = 0 THEN Die(s)
           ELSE [s EXCEPT !.n = @ + 1, !.w = Append(@, AppendStep)]
      ELSE IF s.v[f].type # "free"
           THEN Die(s)
           ELSE WriteRec(WriteRec(s, 0, [s.v[0] EXCEPT
                                           !.firstfree = s.v[f].next]),
                         f, Unused)

\* The records from h on along their next fields, as far as they are of the
\* given type; a list that runs into itself is cut.
Chain(v, h, type) ==
  LET walk[i \in 0..Cardinality(Recs)] ==
        IF i = 0 THEN <<>>
        ELSE LET p == walk[i - 1]
                 r == IF p = <<>> THEN h ELSE v[p[Len(p)]].next
             IN  IF r # 0 /\ v[r].type = type THEN Append(p, r) ELSE p
  IN  walk[Cardinality(Recs)]

\* The records of a hash list, from the one that the table points to.
HashList(v, h) == Chain(v, h, "hlst")

Complete(v, list) == v[list[Len(list)]].next = 0

\* upd_hashtable for the trust record r of key k.
AddFirst(s, k, r) ==
  LET t == s.v[0].trusthashtbl
  IN  WriteRec(s, t, [s.v[t] EXCEPT !.item[Bucket[k]] = r])

\* Bug: the record that was there is forgotten.
AddListDropsOld(s, k, r) ==
  LET t == s.v[0].trusthashtbl
      h == NewRecnum(s)
      rnums == [i \in 1..HlstItems |-> IF i = 1 THEN r ELSE 0]
  IN  WriteRec(WriteRec(Alloc(s), h, Hlst(0, rnums)),
               t, [s.v[t] EXCEPT !.item[Bucket[k]] = h])

\* The table pointed to a trust record: put both into a new list.
AddList(s, k, r) ==
  LET t == s.v[0].trusthashtbl
      old == s.v[t].item[Bucket[k]]
      h == NewRecnum(s)
      rnums == [i \in 1..HlstItems |->
                  IF i = 1 THEN old ELSE IF i = 2 THEN r ELSE 0]
  IN  WriteRec(WriteRec(Alloc(s), h, Hlst(0, rnums)),
               t, [s.v[t] EXCEPT !.item[Bucket[k]] = h])

\* Extend a list; only its last record is searched for a free place.
AddToList(s, k, r, list) ==
  LET q == list[Len(list)]
      free == {i \in 1..HlstItems : s.v[q].rnum[i] = 0}
      h == NewRecnum(s)
      rnums == [i \in 1..HlstItems |-> IF i = 1 THEN r ELSE 0]
  IN  CASE \E j \in DOMAIN list : \E i \in 1..HlstItems :
             s.v[list[j]].rnum[i] = r -> s
        [] OTHER ->
             IF free # {}
             THEN WriteRec(s, q, [s.v[q] EXCEPT !.rnum[Min(free)] = r])
             ELSE LET s1 == Alloc(s)
                  IN  WriteRec(WriteRec(s1, q, [s1.v[q] EXCEPT !.next = h]),
                               h, Hlst(0, rnums))

UpdHashtable(s, k, r) ==
  LET t == s.v[s.v[0].trusthashtbl]
      item == t.item[Bucket[k]]
      list == HashList(s.v, item)
  IN  IF t.type # "htbl" THEN Die(s)
      ELSE IF item = 0 THEN AddFirst(s, k, r)
      ELSE IF item = r THEN s
      ELSE CASE s.v[item].type = "trust" -> AddList(s, k, r)
             [] s.v[item].type = "hlst" ->
                  IF Complete(s.v, list) THEN AddToList(s, k, r, list)
                  ELSE Die(s)
             [] OTHER -> Die(s)

\* Bug: the hash table is not updated.
WriteTrustOnly(s, r, d) == WriteRec(s, r, d)

\* tdbio_write_record for a trust record.
WriteTrust(s, r, d) ==
  IF s.ok THEN UpdHashtable(WriteRec(s, r, d), d.fpr, r) ELSE s

\* lookup_hashtable on v: the record of k, 0 for GPG_ERR_NOT_FOUND, -1 for
\* another error.
IsOf(v, r, k) == r # 0 /\ v[r].type = "trust" /\ v[r].fpr = k

Lookup(v, k) ==
  LET t == v[0].trusthashtbl
      item == v[t].item[Bucket[k]]
      list == HashList(v, item)
      hits(j) == {i \in 1..HlstItems : IsOf(v, v[list[j]].rnum[i], k)}
      with == {j \in DOMAIN list : hits(j) # {}}
  IN  CASE v[0].type # "ver" -> -1
        [] v[0].type = "ver" /\ (t = 0 \/ v[t].type # "htbl") -> -1
        [] OTHER -> IF item = 0 THEN 0
                    ELSE IF v[item].type # "hlst"
                    THEN IF IsOf(v, item, k) THEN item ELSE 0
                    ELSE IF with # {}
                    THEN v[list[Min(with)]].rnum[Min(hits(Min(with)))]
                    ELSE IF Complete(v, list) THEN 0 ELSE -1

\* tdb_revalidation_mark and do_sync.
Mark(s) == IF s.v[0].nextcheck # 1
           THEN WriteRec(s, 0, [s.v[0] EXCEPT !.nextcheck = 1])
           ELSE s

-----------------------------------------------------------------------------
\* The process starts what s computes; it exits at an error, and what it
\* wrote till then is in the cache or was flushed.
Run(s) == /\ todo' = IF s.ok THEN s.w ELSE s.w \o <<[step |-> "exit"]>>
          /\ s.n \in Recs
          /\ ops' = ops + 1
          /\ UNCHANGED <<cvars, eof, partial, torn, done, deaths>>

Ready == todo = <<>> /\ call.op = "idle" /\ ~section /\ ops < MaxOps

HasTable == View[0].type = "ver" /\ View[0].trusthashtbl # 0

\* tdb_update_ownertrust.
UpdateOwnertrust(k, x) ==
  LET r == Lookup(View, k)
      n == NewRecnum(Begin)
  IN  /\ Ready /\ HasTable
      /\ \/ r > 0 /\ View[r].ownertrust # x
            /\ Run(Sync(Mark(WriteTrust(Begin, r,
                                 [View[r] EXCEPT !.ownertrust = x]))))
         \/ r = 0
            /\ Run(Sync(Mark(WriteTrust(Alloc(Begin), n, Trust(k, x, 0)))))
      /\ current' = {[key |-> k, value |-> x]}

\* tdb_clear_ownertrusts.
ClearOwnertrust(k) ==
  LET r == Lookup(View, k)
  IN  /\ Ready /\ HasTable
      /\ r > 0 /\ View[r].ownertrust # 0
      /\ Run(Sync(Mark(WriteTrust(Begin, r,
                                  [View[r] EXCEPT !.ownertrust = 0]))))
      /\ current' = {[key |-> k, value |-> 0]}

\* The validity records of a trust record, up to one of another type.
ValidList(v, r) == Chain(v, r, "valid")

\* update_validity; the caller syncs, once for many keys.
SetValidity(s, r, d, u, x) ==
  LET list == ValidList(s.v, d.validlist)
      old == {j \in DOMAIN list : s.v[list[j]].name = u}
      n == NewRecnum(s)
  IN  IF old # {}
      THEN LET q == list[Min(old)]
           IN  WriteTrust(WriteRec(s, q, [s.v[q] EXCEPT !.validity = x]),
                          r, d)
      ELSE IF (IF list = <<>> THEN d.validlist
               ELSE s.v[list[Len(list)]].next) # 0
      THEN Die(s)
      ELSE WriteTrust(WriteRec(Alloc(s), n, Valid(u, x, d.validlist)),
                      r, [d EXCEPT !.validlist = n])

UpdateValidity(k, u, x) ==
  LET r == Lookup(View, k)
      n == NewRecnum(Begin)
  IN  /\ Ready /\ HasTable
      /\ \/ r > 0 /\ Run(SetValidity(Begin, r, View[r], u, x))
         \/ r = 0
            /\ Run(SetValidity(Alloc(Begin), n, Trust(k, 0, 0), u, x))
      /\ UNCHANGED current

\* reset_trust_records, the start of validate_keys: all validity records,
\* up to the first record that can't be read, in the order of their numbers.
ToReset == {r \in Recs : /\ 0 < r /\ r < eof
                         /\ View[r].type = "valid" /\ View[r].validity # 0
                         /\ \A q \in Recs : q < r => View[q] # Garbled}

ResetTrustRecords ==
  /\ Ready /\ HasTable
  /\ ToReset # {}
  /\ \E p \in [1..Cardinality(ToReset) -> ToReset] :
       /\ \A i, j \in DOMAIN p : i < j => p[i] < p[j]
       /\ Run([Begin EXCEPT !.w =
                [i \in DOMAIN p |->
                   PutStep(p[i], [View[p[i]] EXCEPT !.validity = 0])]])
  /\ UNCHANGED current

\* The end of validate_keys: tdbio_write_nextcheck,
\* tdbio_update_version_record and do_sync.
FinishValidation ==
  /\ Ready /\ HasTable
  /\ Run(Sync(WriteRec(Begin, 0, [View[0] EXCEPT !.nextcheck = 0])))
  /\ UNCHANGED current

\* create_version_record and create_hashtable, under the lock that
\* tdbio_set_dbname, or get_trusthashrec for a file with nothing but the
\* version record, takes around them.
CreateHashtable(s) ==
  Sync(WriteRec(WriteRec(s, 1, Htbl([b \in Buckets |-> 0])),
                0, [s.v[0] EXCEPT !.trusthashtbl = 1]))

CreateDb ==
  /\ todo = <<>> /\ ops < MaxOps
  /\ \/ eof = 0
     \/ eof = 1 /\ View[0].type = "ver" /\ View[0].trusthashtbl = 0
  /\ SectionBegin
  /\ todo' = (IF eof = 0
              THEN CreateHashtable(Sync(WriteRec(Begin, 0, Ver(0, 0, 0))))
              ELSE CreateHashtable(Begin)).w \o <<[step |-> "unlock"]>>
  /\ ops' = ops + 1
  /\ UNCHANGED <<eof, current, partial, torn, done, deaths>>

-----------------------------------------------------------------------------
(***************************************************************************)
(* The steps of an update, each with the call of the cache that it makes.  *)
(***************************************************************************)
At(step) == todo # <<>> /\ call.op = "idle" /\ Head(todo).step = step

DoPut == /\ At("put")
         /\ Put(Head(todo).recno, Head(todo).data)
         /\ todo' = Tail(todo)
         /\ UNCHANGED <<eof, current, partial, torn, done, ops, deaths>>

\* Bug: the number is not reserved.
DoAppendNothing == /\ At("append")
                   /\ todo' = Tail(todo)
                   /\ UNCHANGED <<cvars, eof, current, partial, torn, done,
                                  ops, deaths>>

\* The write(2) of tdbio_new_recnum, past the cache.
DoAppend == /\ At("append")
            /\ eof' = eof + 1
            /\ todo' = Tail(todo)
            /\ UNCHANGED <<cvars, current, partial, torn, done, ops, deaths>>

\* The update returned, and with it what it promised.
Finished(d) == [k \in Keys |-> IF \E c \in current : c.key = k
                               THEN (CHOOSE c \in current : TRUE).value
                               ELSE d[k]]

DoSync == /\ At("sync") /\ SyncStart
          /\ UNCHANGED <<eof, todo, current, partial, torn, done, ops,
                         deaths>>

DoSyncClean == /\ At("sync") /\ ~cacheIsDirty
               /\ todo' = Tail(todo)
               /\ UNCHANGED <<cvars, eof, current, partial, torn, done, ops,
                              deaths>>

DoUnlock == /\ At("unlock") /\ SectionEnd
            /\ todo' = Tail(todo)
            /\ UNCHANGED <<eof, current, partial, torn, done, ops, deaths>>

\* A write(2) beyond the end of the file extends it.
Extended == Max({eof} \cup {r + 1 : r \in {q \in Recs : file'[q] # file[q]}})

WriteItem == /\ \/ FlushWrite
                \/ SyncWrite
             /\ eof' = Extended
             /\ partial' = TRUE
             /\ UNCHANGED <<todo, current, torn, done, ops, deaths>>

DoFlushDone == /\ FlushDone
               /\ UNCHANGED <<eof, todo, current, partial, torn, done, ops,
                              deaths>>

DoSyncDone == /\ SyncDone
              /\ todo' = Tail(todo)
              /\ partial' = FALSE
              /\ done' = Finished(done)
              /\ current' = {}
              /\ UNCHANGED <<eof, torn, ops, deaths>>

\* write_record and do_sync end the process when a write fails.
DoWriteFails == /\ WriteFails
                /\ eof' = Extended
                /\ partial' = TRUE
                /\ todo' = <<[step |-> "exit"]>>
                /\ UNCHANGED <<current, torn, done, ops, deaths>>

\* The process ends, by itself or not, and the next one starts.
NextProcess == /\ deaths < MaxDeaths
               /\ Restart
               /\ torn' = (torn \/ partial)
               /\ partial' = FALSE
               /\ todo' = <<>> /\ current' = {}
               /\ deaths' = deaths + 1
               /\ UNCHANGED <<eof, done, ops>>

Next == \/ CreateDb
        \/ \E k \in Keys, x \in Values : UpdateOwnertrust(k, x)
        \/ \E k \in Keys : ClearOwnertrust(k)
        \/ \E k \in Keys, u \in Names, x \in Values : UpdateValidity(k, u, x)
        \/ ResetTrustRecords
        \/ FinishValidation
        \/ DoPut \/ DoAppend \/ DoSync \/ DoSyncClean \/ DoUnlock
        \/ WriteItem \/ DoFlushDone \/ DoSyncDone \/ DoWriteFails
        \/ NextProcess

Spec == Init /\ [][Next]_vars

-----------------------------------------------------------------------------
(***************************************************************************)
(* Properties                                                              *)
(***************************************************************************)
OfType(v, n, type) == {r \in Recs : r < n /\ v[r].type = type}

\* A database of n records that works: every trust record is found under
\* its fingerprint and there is no second one, every validity record is in
\* the list of one trust record, and the free records are those of the
\* free list.
Sound(v, n) ==
  \/ n = 0
  \/ n = 1 /\ v[0].type = "ver" /\ v[0].trusthashtbl = 0
  \/ /\ v[0].type = "ver" /\ v[v[0].trusthashtbl].type = "htbl"
     /\ \A k \in Keys :
          LET item == v[v[0].trusthashtbl].item[Bucket[k]]
          IN  \/ item = 0
              \/ v[item].type = "trust"
              \/ v[item].type = "hlst" /\ Complete(v, HashList(v, item))
     /\ \A r \in OfType(v, n, "trust") : Lookup(v, v[r].fpr) = r
     /\ \A q \in OfType(v, n, "valid") :
          Cardinality({r \in OfType(v, n, "trust") :
                        q \in Range(ValidList(v, v[r].validlist))}) = 1
     /\ OfType(v, n, "free")
          = Range(Chain(v, v[0].firstfree, "free"))

\* The next process finds a database that works, at whatever point of an
\* update this one ends, as long as none of the update was written back.
DiskSound == ~torn /\ ~partial => Sound(file, eof)

Own(v, k) == IF Lookup(v, k) > 0 THEN v[Lookup(v, k)].ownertrust ELSE 0

\* An ownertrust that tdb_update_ownertrust has returned for is on disk, and
\* nothing newer is, when the process ends outside a flush.
UpdatesDurable ==
  eof > 1 /\ ~torn /\ ~partial => \A k \in Keys : Own(file, k) = done[k]

RecsOf(d) == CASE d.type = "ver" -> {d.firstfree}
               [] d.type = "htbl" -> Range(d.item)
               [] d.type = "hlst" -> {d.next} \cup Range(d.rnum)
               [] d.type = "trust" -> {d.validlist}
               [] d.type \in {"valid", "free"} -> {d.next}
               [] OTHER -> {}

\* Whenever a process ends, and however many did before, no record on disk
\* refers to one beyond the end of the file.  (The pointer to the hash table
\* may: the repair in get_trusthashrec writes the version record first.)
DiskPointersExist ==
  \A r \in Recs : \A q \in RecsOf(file[r]) : q = 0 \/ q < eof

\* An update changes the ownertrust of its key and of no other, also while
\* it runs and whatever list the keys share.
OthersUntouched ==
  [][~torn /\ deaths' = deaths =>
       \A k \in Keys : Own(View', k) # Own(View, k)
                         => \E c \in current : c.key = k]_vars
=============================================================================
