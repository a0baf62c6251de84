---------------------------- MODULE RecordStore ----------------------------
(***************************************************************************)
(* What the record cache of g10/tdbio.c promises to its callers: a store   *)
(* of numbered records in which a read returns the record written last,    *)
(* with a copy on disk that lags behind.  A record gets to the disk at any *)
(* time after it was written and before the next tdbio_sync returns, in    *)
(* any order; a write(2) that is cut short leaves a torn record on disk;   *)
(* and the next process finds what is on disk.                             *)
(***************************************************************************)
CONSTANTS Recs, Data, Torn

VARIABLES
  mem,    \* what tdbio_read_record returns
  disk    \* what it would return in the next process

vars == <<mem, disk>>

Init == /\ mem \in [Recs -> Data]
        /\ disk = mem

\* put_record_into_cache, with any data.
Store(r) == /\ mem'[r] \in Data
            /\ mem' = [mem EXCEPT ![r] = mem'[r]]
            /\ UNCHANGED disk

\* write_cache_item.
WriteBack(r) == /\ disk' = [disk EXCEPT ![r] = mem[r]]
                /\ UNCHANGED mem

\* write_cache_item when write(2) is cut short.
Tear(r) == /\ disk' = [disk EXCEPT ![r] = Torn]
           /\ UNCHANGED mem

\* The process ends and the next one starts.
Restart == /\ mem' = disk
           /\ UNCHANGED disk

Next == \/ \E r \in Recs : Store(r) \/ WriteBack(r) \/ Tear(r)
        \/ Restart

Spec == Init /\ [][Next]_vars
=============================================================================
