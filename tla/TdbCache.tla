------------------------------ MODULE TdbCache ------------------------------
(***************************************************************************)
(* The record cache of the trust database, g10/tdbio.c, and its use of the *)
(* lock on the database file.  One process; every write(2) to the file is  *)
(* a step of its own, so that the process may end and another one start    *)
(* between any two of them.  A record is a value of Data; Zero is a record *)
(* of type 0 and what lies beyond the end of the file.                     *)
(*                                                                         *)
(* The cache is a linked list whose new entries go to the front; here it   *)
(* is a sequence with the front at its end.  Entries never leave the list, *)
(* they are marked unused.                                                 *)
(***************************************************************************)
EXTENDS Integers, Sequences, FiniteSets

CONSTANTS
  Recs,       \* record numbers
  Data,       \* contents of a record
  Zero,       \* the record of type 0
  Torn,       \* a record of which write(2) wrote a part
  Soft,       \* MAX_CACHE_ENTRIES_SOFT
  LockOnce,   \* opt.lock_once
  WriteErrors \* write(2) may fail

ASSUME RecsAssumption == Recs \subseteq Nat /\ 0 \in Recs
ASSUME DataAssumption == Zero \in Data /\ Torn \in Data
ASSUME SoftAssumption == Soft \in Nat \ {0}
ASSUME FlagsAssumption == LockOnce \in BOOLEAN /\ WriteErrors \in BOOLEAN

VARIABLES
  file,          \* the records on disk
  cacheList,     \* cache_list
  cacheEntries,  \* cache_entries
  cacheIsDirty,  \* cache_is_dirty
  isLocked,      \* is_locked: how often the lock was taken
  section,       \* a caller holds the lock around several calls
  call,          \* the flush that is running
  written        \* history: the data written last, or found on disk

cvars == <<file, cacheList, cacheEntries, cacheIsDirty, isLocked, section,
           call, written>>

Entry == [used : BOOLEAN, recno : Recs, data : Data, dirty : BOOLEAN]

\* op says who flushes; the entry that a full cache makes room for; how many
\* entries are left to flush; the slot that is free then; did_lock.
Call == [op : {"idle", "sync", "flush"}, recno : Recs, data : Data,
         left : Nat, slot : Nat, did : BOOLEAN]

Idle == [op |-> "idle", recno |-> 0, data |-> Zero, left |-> 0, slot |-> 0,
         did |-> FALSE]

Slots == DOMAIN cacheList
Used == {i \in Slots : cacheList[i].used}
Dirty == {i \in Used : cacheList[i].dirty}
Clean == Used \ Dirty

\* get_record_from_cache and the read that follows a miss.
View == [r \in Recs |-> IF \E i \in Used : cacheList[i].recno = r
                        THEN cacheList[CHOOSE i \in Used :
                                         cacheList[i].recno = r].data
                        ELSE file[r]]

CacheInit == /\ file \in [Recs -> Data]
             /\ cacheList = <<>>
             /\ cacheEntries = 0
             /\ cacheIsDirty = FALSE
             /\ isLocked = 0
             /\ section = FALSE
             /\ call = Idle
             /\ written = file

-----------------------------------------------------------------------------
\* take_write_lock and release_write_lock; only the count is kept here, and
\* the lock file is held while it is not 0.
Taken(n) == IF LockOnce THEN 1 ELSE n + 1
Released(n) == IF LockOnce \/ n = 0 THEN n ELSE n - 1

\* tdbio_set_dbname and get_trusthashrec take the lock around the creation
\* of the version record and the hash table.
SectionBegin == /\ call.op = "idle" /\ ~section
                /\ section' = TRUE
                /\ isLocked' = Taken(isLocked)
                /\ UNCHANGED <<file, cacheList, cacheEntries, cacheIsDirty,
                               call, written>>

SectionEnd == /\ call.op = "idle" /\ section
              /\ section' = FALSE
              /\ isLocked' = Released(isLocked)
              /\ UNCHANGED <<file, cacheList, cacheEntries, cacheIsDirty,
                             call, written>>

-----------------------------------------------------------------------------
(***************************************************************************)
(* put_record_into_cache                                                   *)
(***************************************************************************)
NewEntry(r, d) == [used |-> TRUE, recno |-> r, data |-> d, dirty |-> TRUE]

Hits(r) == {i \in Used : cacheList[i].recno = r}

\* The first slots in the order of the list that belong to S.
IsFirst(i, S) == i \in S /\ \A j \in S : j <= i
FirstN(S, n) == {i \in S : Cardinality({j \in S : j >= i}) <= n}

AtLeastOne(n) == IF n = 0 THEN 1 ELSE n

\* The record is in the cache: with the same data, or with others, which
\* makes a clean entry dirty.
PutSame(r, d) ==
  /\ call.op = "idle"
  /\ \E i \in Hits(r) : cacheList[i].data = d
  /\ written' = [written EXCEPT ![r] = d]
  /\ UNCHANGED <<file, cacheList, cacheEntries, cacheIsDirty, isLocked,
                 section, call>>

PutHit(r, d) ==
  /\ call.op = "idle"
  /\ \E i \in Hits(r) :
       /\ cacheList[i].data # d
       /\ cacheList' = [cacheList EXCEPT ![i] = NewEntry(r, d)]
       /\ cacheIsDirty' = IF cacheList[i].dirty THEN cacheIsDirty ELSE TRUE
  /\ written' = [written EXCEPT ![r] = d]
  /\ UNCHANGED <<file, cacheEntries, isLocked, section, call>>

PutReuse(r, d) ==
  /\ call.op = "idle" /\ Hits(r) = {}
  /\ Slots # Used
  /\ \E i \in Slots : /\ IsFirst(i, Slots \ Used)
                      /\ cacheList' = [cacheList EXCEPT ![i] = NewEntry(r, d)]
  /\ cacheEntries' = cacheEntries + 1
  /\ cacheIsDirty' = TRUE
  /\ written' = [written EXCEPT ![r] = d]
  /\ UNCHANGED <<file, isLocked, section, call>>

\* Bug: one entry more than the limit.
PutNewTooMany(r, d) ==
  /\ call.op = "idle" /\ Hits(r) = {}
  /\ Slots = Used /\ cacheEntries <= Soft
  /\ cacheList' = Append(cacheList, NewEntry(r, d))
  /\ cacheEntries' = cacheEntries + 1
  /\ cacheIsDirty' = TRUE
  /\ written' = [written EXCEPT ![r] = d]
  /\ UNCHANGED <<file, isLocked, section, call>>

PutNew(r, d) ==
  /\ call.op = "idle" /\ Hits(r) = {}
  /\ Slots = Used /\ cacheEntries < Soft
  /\ cacheList' = Append(cacheList, NewEntry(r, d))
  /\ cacheEntries' = cacheEntries + 1
  /\ cacheIsDirty' = TRUE
  /\ written' = [written EXCEPT ![r] = d]
  /\ UNCHANGED <<file, isLocked, section, call>>

\* The cache is full: a third of the clean entries goes.
PutDiscard(r, d) ==
  LET gone == FirstN(Clean, AtLeastOne(Cardinality(Clean) \div 3))
  IN  /\ call.op = "idle" /\ Hits(r) = {}
      /\ Slots = Used /\ cacheEntries >= Soft /\ Clean # {}
      /\ \E i \in Slots :
           /\ IsFirst(i, Clean)
           /\ cacheList' = [j \in Slots |->
                              IF j = i THEN NewEntry(r, d)
                              ELSE IF j \in gone
                                   THEN [cacheList[j] EXCEPT !.used = FALSE]
                                   ELSE cacheList[j]]
      /\ cacheEntries' = cacheEntries - Cardinality(gone) + 1
      /\ cacheIsDirty' = TRUE
      /\ written' = [written EXCEPT ![r] = d]
      /\ UNCHANGED <<file, isLocked, section, call>>

\* The cache is full of dirty entries: a fifth of them is written first.
PutFlush(r, d) ==
  /\ call.op = "idle" /\ Hits(r) = {}
  /\ Slots = Used /\ cacheEntries >= Soft /\ Clean = {} /\ Dirty # {}
  /\ isLocked' = Taken(isLocked)
  /\ call' = [op |-> "flush", recno |-> r, data |-> d,
              left |-> AtLeastOne(Cardinality(Dirty) \div 5), slot |-> 0,
              did |-> FALSE]
  /\ UNCHANGED <<file, cacheList, cacheEntries, cacheIsDirty, section, written>>

Put(r, d) == \/ PutSame(r, d)
             \/ PutHit(r, d)
             \/ PutReuse(r, d)
             \/ PutNew(r, d)
             \/ PutDiscard(r, d)
             \/ PutFlush(r, d)

\* An entry that was flushed is given up; the first of them is taken for
\* the new record.
GivenUp(i) ==
  /\ cacheList' = [cacheList EXCEPT ![i].dirty = FALSE, ![i].used = FALSE]
  /\ cacheEntries' = cacheEntries - 1
  /\ call' = [call EXCEPT !.left = @ - 1,
                          !.slot = IF @ = 0 THEN i ELSE @]
  /\ UNCHANGED <<cacheIsDirty, isLocked, section, written>>

\* Bug: the entry is given up without being written.
FlushWriteNothing ==
  \E i \in Slots : /\ call.op = "flush" /\ call.left > 0
                   /\ IsFirst(i, Dirty)
                   /\ UNCHANGED file
                   /\ GivenUp(i)

\* Bug: the record that waits for room is written in place of the other.
FlushWriteNew ==
  \E i \in Slots :
    /\ call.op = "flush" /\ call.left > 0
    /\ IsFirst(i, Dirty)
    /\ file' = [file EXCEPT ![cacheList[i].recno] = call.data]
    /\ GivenUp(i)

\* write_cache_item for the next entry that is flushed.
FlushWrite ==
  \E i \in Slots :
    /\ call.op = "flush" /\ call.left > 0
    /\ IsFirst(i, Dirty)
    /\ file' = [file EXCEPT ![cacheList[i].recno] = cacheList[i].data]
    /\ GivenUp(i)

FlushDone ==
  /\ call.op = "flush" /\ (call.left = 0 \/ Dirty = {})
  /\ cacheList' = [cacheList EXCEPT
                     ![call.slot] = NewEntry(call.recno, call.data)]
  /\ cacheEntries' = cacheEntries + 1
  /\ cacheIsDirty' = TRUE
  /\ isLocked' = Released(isLocked)
  /\ written' = [written EXCEPT ![call.recno] = call.data]
  /\ call' = Idle
  /\ UNCHANGED <<file, section>>

-----------------------------------------------------------------------------
(***************************************************************************)
(* tdbio_sync                                                              *)
(***************************************************************************)
SyncStart ==
  /\ call.op = "idle" /\ cacheIsDirty
  /\ isLocked' = Taken(isLocked)
  /\ call' = [Idle EXCEPT !.op = "sync", !.did = (isLocked = 0)]
  /\ UNCHANGED <<file, cacheList, cacheEntries, cacheIsDirty, section, written>>

SyncWrite ==
  \E i \in Slots :
    /\ IsFirst(i, Dirty)
    /\ call.op = "sync"
    /\ file' = [file EXCEPT ![cacheList[i].recno] = cacheList[i].data]
    /\ cacheList' = [cacheList EXCEPT ![i].dirty = FALSE]
    /\ UNCHANGED <<cacheEntries, cacheIsDirty, isLocked, section, call,
                   written>>

\* Bug: the loop ends one entry early.
SyncDoneEarly ==
  /\ call.op = "sync" /\ Cardinality(Dirty) <= 1
  /\ cacheIsDirty' = FALSE
  /\ isLocked' = IF call.did THEN Released(isLocked) ELSE isLocked
  /\ call' = Idle
  /\ UNCHANGED <<file, cacheList, cacheEntries, section, written>>

\* Bug: the lock is dropped although the caller holds it.
SyncDoneUnlocks ==
  /\ call.op = "sync" /\ Dirty = {}
  /\ cacheIsDirty' = FALSE
  /\ isLocked' = 0
  /\ call' = Idle
  /\ UNCHANGED <<file, cacheList, cacheEntries, section, written>>

SyncDone ==
  /\ call.op = "sync" /\ Dirty = {}
  /\ cacheIsDirty' = FALSE
  /\ isLocked' = IF call.did THEN Released(isLocked) ELSE isLocked
  /\ call' = Idle
  /\ UNCHANGED <<file, cacheList, cacheEntries, section, written>>

\* write_cache_item fails, perhaps after a part of the record: the entry
\* stays dirty and the lock is kept.
WriteFails ==
  \E i \in Slots :
    /\ IsFirst(i, Dirty)
    /\ WriteErrors
    /\ call.op # "idle"
    /\ call.op = "flush" => call.left > 0
    /\ \E d \in {file[cacheList[i].recno], Torn} :
         file' = [file EXCEPT ![cacheList[i].recno] = d]
    /\ call' = Idle
    /\ UNCHANGED <<cacheList, cacheEntries, cacheIsDirty, isLocked,
                   section, written>>

\* The process ends at any time, and with it the lock (cleanup, or the next
\* dotlock_take finds it stale).
Restart == /\ cacheList' = <<>> /\ cacheEntries' = 0 /\ cacheIsDirty' = FALSE
           /\ isLocked' = 0 /\ section' = FALSE /\ call' = Idle
           /\ written' = file
           /\ UNCHANGED file

CacheNext == \/ SectionBegin \/ SectionEnd
             \/ \E r \in Recs, d \in Data \ {Torn} : Put(r, d)
             \/ FlushWrite \/ FlushDone
             \/ SyncStart \/ SyncWrite \/ SyncDone
             \/ WriteFails \/ Restart

CacheSpec == CacheInit /\ [][CacheNext]_cvars

-----------------------------------------------------------------------------
\* The variables have their types.
CacheTypeOK == /\ file \in [Recs -> Data]
               /\ cacheList \in Seq(Entry)
               /\ cacheEntries \in Nat
               /\ cacheIsDirty \in BOOLEAN
               /\ isLocked \in Nat
               /\ section \in BOOLEAN
               /\ call \in Call
               /\ written \in [Recs -> Data]

\* When the cache says that it is not dirty, which is all that tdbio_sync
\* looks at, the next process will read what this one reads: no entry that
\* differs from the file was given up, forgotten or counted as written.
SyncedIsOnDisk == ~cacheIsDirty => View = file

\* The cache never exceeds MAX_CACHE_ENTRIES_SOFT, whatever was discarded,
\* flushed or failed to be flushed, and cache_entries is the number of
\* entries in use, which decides when to discard.
CacheBounded == /\ Len(cacheList) <= Soft
                /\ cacheEntries = Cardinality(Used)

\* Cached records get to the file only under the lock, and a flush leaves
\* the lock to the caller that had taken it before.
LockedWhileWriting == call.op # "idle" \/ section => isLocked > 0

\* A read returns what was written last, through hits, discards, flushes
\* and failed writes: no record is dropped before it is on disk, and none
\* has two entries.
ReadsLastWritten == View = written

RStore == INSTANCE RecordStore WITH mem <- written, disk <- file

\* What gets to the disk, and when a process ends there, is the record
\* written last, or a torn one when its write was cut short.
ImplementsRecordStore == RStore!Spec
=============================================================================
