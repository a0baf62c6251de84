------------------------------- MODULE KeyBox -------------------------------
(***************************************************************************)
(* A keybox file shared by gpg processes: kbx/keybox-update.c,             *)
(* kbx/keybox-search.c, kbx/keybox-init.c and the callers in g10/keydb.c.  *)
(*                                                                         *)
(* A file is replaced by a copy: the copy is written to a temporary file,  *)
(* the file is renamed to the backup and the temporary file to the file.   *)
(* Only a deletion writes into the file itself.  All this is meant to      *)
(* happen under a lock (module LockService), which dies with its process;  *)
(* but keybox_lock does nothing while the name of the file is missing, be  *)
(* it asked to take the lock or to give it back.  Searches do without it.  *)
(*                                                                         *)
(* A blob is found by its offset.  The result of a search is an offset in  *)
(* the file that was open; a write opens the file by its name again.       *)
(* Behaviours end with a write whose outcome depends on the bytes: where   *)
(* no blob begins, to a temporary file that another process is writing,    *)
(* or behind a header that is not there; and with an insertion into a file *)
(* whose name goes away after the test for it.                             *)
(*                                                                         *)
(* A process has one handle at a time.  The key block of a key is a set of *)
(* signatures.  Legacy keyrings, ephemeral blobs and the caches of search  *)
(* results are left out.                                                   *)
(***************************************************************************)
EXTENDS Integers, FiniteSets

CONSTANTS
  Procs,
  Keys,
  Sigs,
  Nodes,      \* inodes; bound, large enough for all names and open files
  First,      \* contents of the file that exists at the beginning
  None,
  MaxOps,     \* bound: operations
  MaxCrashes  \* bound: how often a process is killed

Size(sigs) == 1 + Cardinality(sigs)

\* live: not flagged as deleted.
Blob == [off : Nat, key : Keys, sigs : SUBSET Sigs, live : BOOLEAN]
File == [blobs : SUBSET Blob, end : Nat]

\* The blobs of a file lie one behind the other.
Laid(f) ==
  /\ \A b \in f.blobs : b.off >= 1 /\ b.off + Size(b.sigs) <= f.end
  /\ \A b, c \in f.blobs : \/ b = c
                            \/ b.off + Size(b.sigs) <= c.off
                            \/ c.off + Size(c.sigs) <= b.off

\* A key has at most one live blob.
Single(f) == \A b, c \in f.blobs :
               b.live /\ c.live /\ b.key = c.key => b = c

ASSUME NodesAssumption == Nodes \subseteq Nat \ {0}
ASSUME NoneAssumption == None \notin Procs \cup Keys
ASSUME BoundsAssumption == MaxOps \in Nat /\ MaxCrashes \in Nat
ASSUME FirstAssumption == First \in File /\ Laid(First) /\ Single(First)
ASSUME SigsAssumption == IsFiniteSet(Sigs)

VARIABLES
  main, bak, tmp,  \* the nodes with the three names, 0 if there is none
  data,            \* contents of the nodes
  whole,           \* the nodes that are not partly written
  owner,           \* who has the lock
  pr,              \* the processes
  stale,           \* history: a place of a replaced file was used
  loose,           \* history: a lock call did nothing, and what it was to
                   \* protect was done
  garbled,         \* something was written whose outcome is unknown
  ops, crashes

names == <<main, bak, tmp>>
files == <<names, data, whole>>
hist == <<stale, loose, garbled>>
vars == <<files, owner, pr, hist, ops, crashes>>

Pcs == {"start", "access", "create", "test", "header", "opened", "failed",
        "keyring", "idle", "wait", "search", "locate", "store", "edit",
        "held", "again", "delete", "flag", "copy", "open", "tmp",
        "copying", "backup", "replace", "unlock", "release"}

\* want: what follows the lock call; lock: how the last one went;
\* node: the open file; out: the file being written; off: offset of the
\* blob found, 0 if there is none; new: the key block to write.
Process == [pc : Pcs,
            op : {"none", "compress", "import", "edit", "delete"},
            want : {"none", "search", "again", "copy", "flag"},
            lock : {"none", "asked", "skipped"},
            key : Keys \cup {None}, new : SUBSET Sigs,
            node : Nodes \cup {0}, out : Nodes \cup {0}, off : Nat]

At0(pc) == [pc |-> pc, op |-> "none", want |-> "none", lock |-> "none",
            key |-> None, new |-> {}, node |-> 0, out |-> 0, off |-> 0]

\* A file of length 0, and one with a header only, whose offset is 0.
Void == [blobs |-> {}, end |-> 0]
Empty == [blobs |-> {}, end |-> 1]

Init == /\ main \in {0} \cup {n \in Nodes : \A m \in Nodes : n <= m}
        /\ bak = 0 /\ tmp = 0
        /\ data = [n \in Nodes |-> IF n = main THEN First ELSE Empty]
        /\ whole = Nodes
        /\ owner = None
        /\ pr = [p \in Procs |-> At0("start")]
        /\ stale = FALSE /\ loose = FALSE /\ garbled = FALSE
        /\ ops = 0 /\ crashes = 0

-----------------------------------------------------------------------------
At(p, pc) == pr[p].pc = pc /\ ~garbled
Goto(p, pc) == pr' = [pr EXCEPT ![p].pc = pc]
Reset(p, pc) == pr' = [pr EXCEPT ![p] = At0(pc)]

\* An inode that has no name and is not open.
Free(n) == /\ n \notin {main, bak, tmp}
           /\ \A p \in Procs : pr[p].node # n /\ pr[p].out # n
Fresh(n) == Free(n) /\ \A m \in Nodes : Free(m) => n <= m

\* fopen for writing of the name that node old has, if any: the node that
\* has it afterwards is truncated.
Truncated(old, n) == /\ IF old # 0 THEN n = old ELSE Fresh(n)
                     /\ data' = [data EXCEPT ![n] = Void]
                     /\ whole' = whole \ {n}
                     /\ garbled' = \E q \in Procs : pr[q].out = n

\* The blob of a key that a search finds: the first one that is live.
Found(f, k, b) == /\ b \in f.blobs /\ b.key = k /\ b.live
                  /\ \A c \in f.blobs : c.key = k /\ c.live => b.off <= c.off

Has(f, k) == \E b \in f.blobs : b.key = k /\ b.live

\* A header is written first.
WithHeader(f) == IF f.end = 0 THEN Empty ELSE f

\* A blob is appended.
Inserted(f, k, s) ==
  [blobs |-> f.blobs \cup {[off |-> f.end, key |-> k, sigs |-> s,
                            live |-> TRUE]},
   end |-> f.end + Size(s)]

\* The blob that is read, or skipped, next: the first live one from an
\* offset on.
NextBlob(f, off, b) == /\ b \in f.blobs /\ b.live /\ b.off >= off
                       /\ \A c \in f.blobs :
                            c.live /\ c.off >= off => b.off <= c.off

-----------------------------------------------------------------------------
(***************************************************************************)
(* keybox_lock                                                             *)
(***************************************************************************)
\* Bug: it does not matter whether the lock was got.
LockFailsIgnored(p) ==
  /\ At(p, "wait") /\ owner # p
  /\ Goto(p, pr[p].want)
  /\ UNCHANGED <<files, owner, hist, ops, crashes>>

\* The test for the name: the call is over, without the lock, if it is
\* missing.
Ask(p, r, want) ==
  pr' = [pr EXCEPT ![p] =
           [r EXCEPT !.pc = IF main = 0 THEN want ELSE "wait",
                     !.want = want,
                     !.lock = IF main = 0 THEN "skipped" ELSE "asked"]]

\* dotlock_take, unless the process has the lock.
LockTake(p) ==
  /\ At(p, "wait") /\ owner \in {None, p}
  /\ owner' = p
  /\ Goto(p, pr[p].want)
  /\ UNCHANGED <<files, hist, ops, crashes>>

\* It fails: at once for a compression if another process has the lock, for
\* the others after an error only.
LockFails(p) ==
  /\ At(p, "wait") /\ owner # p
  /\ IF pr[p].op = "edit" THEN Goto(p, "edit") ELSE Reset(p, "idle")
  /\ UNCHANGED <<files, owner, hist, ops, crashes>>

\* The lock is given back, if the name is there.
Unlocked(p) == owner' = IF owner = p /\ main # 0 THEN None ELSE owner

-----------------------------------------------------------------------------
(***************************************************************************)
(* A process begins: keydb_add_resource                                    *)
(***************************************************************************)
\* rt_from_file: an empty file is taken for a legacy keyring.
Look(p) ==
  /\ At(p, "start")
  /\ Goto(p, IF main # 0 /\ data[main].end = 0 THEN "keyring" ELSE "access")
  /\ UNCHANGED <<files, owner, hist, ops, crashes>>

\* maybe_create_keyring_or_box, the quick test.
Access(p) ==
  /\ At(p, "access")
  /\ Goto(p, IF main # 0 THEN "opened" ELSE "create")
  /\ UNCHANGED <<files, owner, hist, ops, crashes>>

\* Its own lock, which is always taken.
CreateLock(p) ==
  /\ At(p, "create") /\ owner = None
  /\ owner' = p
  /\ Goto(p, "test")
  /\ UNCHANGED <<files, hist, ops, crashes>>

\* Bug: the backup and the temporary file are not looked for.
InRenameNever == FALSE

\* The file is missing because of an update that did not come to its end.
InRename == bak # 0 /\ tmp # 0

\* The real test; an empty file is created, or that fails.
CreateTest(p) ==
  /\ At(p, "test")
  /\ \/ /\ main = 0 /\ ~InRename
        /\ \E n \in Nodes : main' = n /\ Truncated(0, n)
        /\ Goto(p, "header")
        /\ UNCHANGED <<bak, tmp, owner, stale, loose>>
     \/ /\ main = 0
        /\ owner' = None /\ Goto(p, "failed")
        /\ UNCHANGED <<files, hist>>
     \/ /\ main # 0
        /\ owner' = None /\ Goto(p, "opened")
        /\ UNCHANGED <<files, hist>>
  /\ UNCHANGED <<ops, crashes>>

\* The header is written to the file of that name, or that fails.
CreateHeader(p) ==
  /\ At(p, "header")
  /\ owner' = None
  /\ \/ /\ \E n \in Nodes : /\ IF main # 0 THEN n = main ELSE Fresh(n)
                            /\ main' = n
                            /\ data' = [data EXCEPT ![n] = Empty]
                            /\ whole' = whole \cup {n}
        /\ Goto(p, "opened")
     \/ UNCHANGED <<main, data, whole>> /\ Goto(p, "failed")
  /\ UNCHANGED <<bak, tmp, hist, ops, crashes>>

\* The lock is tried for a compression.
Compress(p) ==
  /\ At(p, "opened")
  /\ Ask(p, [pr[p] EXCEPT !.op = "compress"], "copy")
  /\ UNCHANGED <<files, owner, hist, ops, crashes>>

\* keybox_compress writes the live blobs to a new file, one after the other.
CompressNext(p) ==
  /\ At(p, "copying") /\ pr[p].op = "compress"
  /\ \E b \in data[pr[p].node].blobs :
       /\ NextBlob(data[pr[p].node], pr[p].off, b)
       /\ data' = [data EXCEPT ![pr[p].out] =
                     Inserted(WithHeader(@), b.key, b.sigs)]
       /\ pr' = [pr EXCEPT ![p].off = b.off + 1]
  /\ UNCHANGED <<names, whole, owner, hist, ops, crashes>>

\* If blobs were left out the new file replaces the old one.
CompressEnd(p) ==
  LET f == data[pr[p].node]
  IN  /\ At(p, "copying") /\ pr[p].op = "compress"
      /\ \A b \in f.blobs : b.live => b.off < pr[p].off
      /\ \E b \in f.blobs : ~b.live
      /\ data' = [data EXCEPT ![pr[p].out] = WithHeader(@)]
      /\ whole' = whole \cup {pr[p].out}
      /\ pr' = [pr EXCEPT ![p].pc = "backup", ![p].out = 0]
      /\ UNCHANGED <<names, owner, hist, ops, crashes>>

\* If not, or after an error, it is removed.
CompressRemove(p) ==
  /\ At(p, "copying") /\ pr[p].op = "compress"
  /\ tmp' = 0
  /\ pr' = [pr EXCEPT ![p].pc = "release", ![p].out = 0]
  /\ UNCHANGED <<main, bak, data, whole, owner, hist, ops, crashes>>

-----------------------------------------------------------------------------
(***************************************************************************)
(* Searches and what follows them                                          *)
(***************************************************************************)
Begins(p) == At(p, "idle") /\ ops < MaxOps /\ ops' = ops + 1

\* Bug: the search comes first.
ImportUnlocked(p, k, s) ==
  /\ Begins(p)
  /\ pr' = [pr EXCEPT ![p] = [At0("search") EXCEPT !.op = "import",
                                                   !.key = k, !.new = s]]
  /\ UNCHANGED <<files, owner, hist, crashes>>

\* An import: get_keyblock_byfprint_fast with the lock taken first.
Import(p, k, s) ==
  /\ Begins(p)
  /\ Ask(p, [At0("idle") EXCEPT !.op = "import", !.key = k, !.new = s],
         "search")
  /\ UNCHANGED <<files, owner, hist, crashes>>

\* An edit or a deletion: keydb_new and keydb_search.
Open(p, op, k) ==
  /\ Begins(p)
  /\ pr' = [pr EXCEPT ![p] = [At0("search") EXCEPT !.op = op, !.key = k]]
  /\ UNCHANGED <<files, owner, hist, crashes>>

\* The file cannot be opened, between two renames.  An import takes that for
\* a key that it does not have.
SearchFails(p) ==
  /\ At(p, "search") /\ main = 0
  /\ IF pr[p].op = "import" THEN Goto(p, "locate") ELSE Reset(p, "idle")
  /\ UNCHANGED <<files, owner, hist, ops, crashes>>

SearchFinds(p) ==
  /\ At(p, "search") /\ main # 0
  /\ \E b \in data[main].blobs :
       /\ Found(data[main], pr[p].key, b)
       /\ pr' = [pr EXCEPT ![p].node = main, ![p].off = b.off,
                           ![p].new = @ \cup b.sigs,
                           ![p].pc = CASE pr[p].op = "edit" -> "edit"
                                       [] pr[p].op = "delete" -> "delete"
                                       [] pr[p].op = "import" ->
                                            IF pr[p].new \subseteq b.sigs
                                            THEN "release" ELSE "store"]
  /\ loose' = (loose \/ pr[p].lock = "skipped")
  /\ UNCHANGED <<files, owner, stale, garbled, ops, crashes>>

\* An import goes on with an insertion.
SearchEnds(p) ==
  /\ At(p, "search") /\ main # 0 /\ ~Has(data[main], pr[p].key)
  /\ IF pr[p].op = "import"
     THEN pr' = [pr EXCEPT ![p].node = main, ![p].pc = "locate"]
     ELSE Reset(p, "idle")
  /\ loose' = (loose \/ pr[p].lock = "skipped")
  /\ UNCHANGED <<files, owner, stale, garbled, ops, crashes>>

\* keydb_locate_writable.
Locate(p) ==
  /\ At(p, "locate")
  /\ Goto(p, IF main = 0 THEN "release" ELSE "store")
  /\ loose' = (loose \/ (main # 0 /\ pr[p].node = 0))
  /\ UNCHANGED <<files, owner, stale, garbled, ops, crashes>>

\* The lock call of keydb_update_keyblock and keydb_insert_keyblock, of an
\* import and of an edit, and that of keydb_delete_keyblock.
Store(p) ==
  /\ \/ /\ At(p, "store")
        /\ Ask(p, pr[p], IF pr[p].off = 0 THEN "copy" ELSE "again")
     \/ /\ pr[p].pc \in {"edit", "held"} /\ ~garbled
        /\ Ask(p, pr[p], "again")
     \/ At(p, "delete") /\ Ask(p, pr[p], "flag")
  /\ UNCHANGED <<files, owner, hist, ops, crashes>>

\* A key is shown only, or the user quits.
Quit(p) ==
  /\ pr[p].pc \in {"edit", "held", "delete"} /\ ~garbled
  /\ IF pr[p].pc = "held" THEN Goto(p, "release") ELSE Reset(p, "idle")
  /\ UNCHANGED <<files, owner, hist, ops, crashes>>

\* keydb_update_keyblock searches for the key again, in the file that is
\* open, or opens it.
Again(p) == IF pr[p].node # 0 THEN pr[p].node ELSE main

AgainFinds(p) ==
  /\ At(p, "again") /\ Again(p) # 0
  /\ \E b \in data[Again(p)].blobs, s \in SUBSET Sigs :
       /\ Found(data[Again(p)], pr[p].key, b)
       /\ pr[p].op = "import" => s = pr[p].new
       /\ pr' = [pr EXCEPT ![p].node = Again(p), ![p].off = b.off,
                           ![p].new = s, ![p].pc = "copy"]
  /\ UNCHANGED <<files, owner, hist, ops, crashes>>

\* It returns with the lock if the key is not there any more; the user is
\* back in the menu.
AgainFails(p) ==
  /\ At(p, "again")
  /\ Again(p) # 0 => ~Has(data[Again(p)], pr[p].key)
  /\ Goto(p, IF pr[p].op = "edit" THEN "held" ELSE "release")
  /\ UNCHANGED <<files, owner, hist, ops, crashes>>

\* keybox_delete: the blob is flagged in the file that has the name now, or
\* that fails.
Flagged(f, off) ==
  [f EXCEPT !.blobs = {IF b.off = off THEN [b EXCEPT !.live = FALSE] ELSE b
                         : b \in f.blobs}]

Begin(f, off) == \E b \in f.blobs : b.off = off

Delete(p) ==
  /\ At(p, "flag")
  /\ Goto(p, "release")
  /\ \/ UNCHANGED <<data, hist>>
     \/ /\ main # 0
        /\ data' = [data EXCEPT ![main] = Flagged(@, pr[p].off)]
        /\ garbled' = ~Begin(data[main], pr[p].off)
        /\ stale' = (stale \/ pr[p].node # main)
        /\ loose' = (loose \/ pr[p].lock = "skipped")
  /\ UNCHANGED <<names, whole, owner, ops, crashes>>

-----------------------------------------------------------------------------
(***************************************************************************)
(* blob_filecopy, keybox_compress and rename_tmp_file                      *)
(***************************************************************************)
\* After an error the user of an edit is back in the menu, without the lock.
Fails(p) == pr' = [pr EXCEPT ![p].pc = IF pr[p].op = "edit" THEN "unlock"
                                       ELSE "release",
                             ![p].out = 0]

\* The test for the name.
CopyAccess(p) ==
  /\ At(p, "copy")
  /\ IF main = 0 THEN Fails(p) ELSE Goto(p, "open")
  /\ loose' = (loose \/ (main # 0 /\ pr[p].lock = "skipped"))
  /\ UNCHANGED <<files, owner, stale, garbled, ops, crashes>>

\* fopen.  If the name has gone since, it fails; but an insertion then makes
\* a new file with the blob alone, and the behaviour ends.
CopyOpen(p) ==
  /\ At(p, "open")
  /\ \/ /\ main # 0
        /\ pr' = [pr EXCEPT ![p].node = main, ![p].pc = "tmp"]
        /\ stale' = (stale \/ (pr[p].off # 0 /\ pr[p].node # main))
        /\ UNCHANGED garbled
     \/ /\ main = 0
        /\ Fails(p)
        /\ garbled' = (pr[p].op = "import" /\ pr[p].off = 0)
        /\ UNCHANGED stale
  /\ UNCHANGED <<files, owner, loose, ops, crashes>>

\* create_tmp_file: an older temporary file is truncated.
CopyTmp(p) ==
  /\ At(p, "tmp")
  /\ \E n \in Nodes : /\ Truncated(tmp, n)
                      /\ tmp' = n
                      /\ pr' = [pr EXCEPT ![p].out = n, ![p].pc = "copying"]
  /\ UNCHANGED <<main, bak, owner, stale, loose, ops, crashes>>

\* It cannot be created, or a compression is not needed yet.
CopyNot(p) ==
  /\ At(p, "tmp")
  /\ Fails(p)
  /\ UNCHANGED <<files, owner, hist, ops, crashes>>

\* Bug: the old blob is not skipped.
UpdatedKeepsOld(f, off, old, k, s) ==
  [blobs |-> {b \in f.blobs : b.off < off}
               \cup {[off |-> off, key |-> k, sigs |-> s, live |-> TRUE]}
               \cup {[b EXCEPT !.off = @ + Size(s)] :
                       b \in {c \in f.blobs : c.off >= off}},
   end |-> f.end + Size(s)]

\* Bug: the rest is not copied.
UpdatedNoRest(f, off, old, k, s) ==
  [blobs |-> {b \in f.blobs : b.off < off}
               \cup {[off |-> off, key |-> k, sigs |-> s, live |-> TRUE]},
   end |-> off + Size(s)]

\* The blobs behind the old one move.
Updated(f, off, old, k, s) ==
  LET shift == off + Size(s) - (old.off + Size(old.sigs))
  IN  [blobs |-> {b \in f.blobs : b.off < off}
                   \cup {[off |-> off, key |-> k, sigs |-> s, live |-> TRUE]}
                   \cup {[b EXCEPT !.off = @ + shift] :
                           b \in {c \in f.blobs : c.off > old.off}},
       end |-> f.end + shift]

\* The copy is written and both files are closed.
Copied(p, f) == /\ data' = [data EXCEPT ![pr[p].out] = f]
                /\ whole' = whole \cup {pr[p].out}
                /\ pr' = [pr EXCEPT ![p].pc = "backup", ![p].out = 0]

CopyInsert(p) ==
  LET f == data[pr[p].node]
  IN  /\ At(p, "copying") /\ pr[p].op # "compress" /\ pr[p].off = 0
      /\ Copied(p, Inserted(WithHeader(f), pr[p].key, pr[p].new))
      /\ garbled' = (f.end = 0)
      /\ UNCHANGED <<names, owner, stale, loose, ops, crashes>>

CopyUpdate(p) ==
  LET f == data[pr[p].node]
      off == pr[p].off
  IN  /\ At(p, "copying") /\ pr[p].op # "compress" /\ off # 0
      /\ \E old \in f.blobs :
           /\ NextBlob(f, off, old)
           /\ Copied(p, Updated(f, off, old, pr[p].key, pr[p].new))
      /\ garbled' = ~Begin(f, off)
      /\ UNCHANGED <<names, owner, stale, loose, ops, crashes>>

\* Bug: an error does not end it.
CopyFailsNot(p) ==
  /\ At(p, "copying") /\ pr[p].op # "compress"
  /\ pr' = [pr EXCEPT ![p].pc = "backup", ![p].out = 0]
  /\ UNCHANGED <<files, owner, hist, ops, crashes>>

\* An error; the temporary file stays.
CopyFails(p) ==
  /\ At(p, "copying") /\ pr[p].op # "compress"
  /\ Fails(p)
  /\ UNCHANGED <<files, owner, hist, ops, crashes>>

\* The renames, either of which may fail.
Backup(p) ==
  /\ At(p, "backup")
  /\ \/ main # 0 /\ bak' = main /\ main' = 0 /\ Goto(p, "replace")
     \/ UNCHANGED <<bak, main>> /\ Fails(p)
  /\ UNCHANGED <<tmp, data, whole, owner, hist, ops, crashes>>

Replace(p) ==
  /\ At(p, "replace")
  /\ \/ tmp # 0 /\ main' = tmp /\ tmp' = 0 /\ Goto(p, "release")
     \/ UNCHANGED <<main, tmp>> /\ Fails(p)
  /\ UNCHANGED <<bak, data, whole, owner, hist, ops, crashes>>

\* unlock_all of an edit that failed; the file was closed.
Unlock(p) ==
  /\ At(p, "unlock")
  /\ Unlocked(p)
  /\ pr' = [pr EXCEPT ![p].pc = "edit", ![p].node = 0, ![p].off = 0]
  /\ UNCHANGED <<files, hist, ops, crashes>>

\* Bug: the lock stays.
ReleaseKeeps(p) ==
  /\ At(p, "release")
  /\ Reset(p, "idle")
  /\ UNCHANGED <<files, owner, hist, ops, crashes>>

\* unlock_all and keydb_release.
Release(p) ==
  /\ At(p, "release")
  /\ Unlocked(p)
  /\ Reset(p, "idle")
  /\ UNCHANGED <<files, hist, ops, crashes>>

-----------------------------------------------------------------------------
\* The process ends, and another one begins.  Its lock goes with it.
Exit(p) ==
  /\ pr[p].pc \in {"idle", "failed", "keyring"} /\ ~garbled
  /\ owner' = IF owner = p THEN None ELSE owner
  /\ Reset(p, "start")
  /\ UNCHANGED <<files, hist, ops, crashes>>

\* The process is killed.  Signals are blocked between the renames, but not
\* SIGKILL.
Crash(p) ==
  /\ ~garbled /\ crashes < MaxCrashes
  /\ crashes' = crashes + 1
  /\ owner' = IF owner = p THEN None ELSE owner
  /\ Reset(p, "start")
  /\ UNCHANGED <<files, hist, ops>>

Goes(p) == \/ LockTake(p) \/ LockFails(p)
           \/ Look(p) \/ Access(p) \/ CreateLock(p) \/ CreateTest(p)
           \/ CreateHeader(p) \/ Compress(p)
           \/ CompressNext(p) \/ CompressEnd(p) \/ CompressRemove(p)
           \/ SearchFails(p) \/ SearchFinds(p) \/ SearchEnds(p)
           \/ Locate(p) \/ AgainFinds(p) \/ AgainFails(p) \/ Delete(p)
           \/ CopyAccess(p) \/ CopyOpen(p)
           \/ CopyTmp(p) \/ CopyNot(p) \/ CopyInsert(p) \/ CopyUpdate(p)
           \/ CopyFails(p) \/ Backup(p) \/ Replace(p) \/ Unlock(p)
           \/ Release(p)

Next == \E p \in Procs :
          \/ Goes(p) \/ Store(p) \/ Quit(p) \/ Exit(p) \/ Crash(p)
          \/ \E k \in Keys : \E op \in {"edit", "delete"} : Open(p, op, k)
          \/ \E k \in Keys : \E s \in SUBSET Sigs : Import(p, k, s)

Spec == Init /\ [][Next]_vars

-----------------------------------------------------------------------------
\* The variables have their types.
TypeOK == /\ main \in Nodes \cup {0} /\ bak \in Nodes \cup {0}
          /\ tmp \in Nodes \cup {0}
          /\ data \in [Nodes -> File]
          /\ whole \subseteq Nodes
          /\ owner \in Procs \cup {None}
          /\ pr \in [Procs -> Process]
          /\ stale \in BOOLEAN /\ loose \in BOOLEAN /\ garbled \in BOOLEAN
          /\ ops \in Nat /\ crashes \in Nat

\* Unless a lock call did nothing, whoever opens the file finds a complete
\* one, or one that was created and has no key yet; when it is missing after
\* an update was killed or failed, the old and the new one are there.
CrashSafe ==
  ~loose => /\ main # 0 => \/ main \in whole
                           \/ data[main] = Void /\ bak = 0
            /\ main = 0 /\ bak # 0 => {bak, tmp} \subseteq whole

\* Only one process is between the test for the file and the last rename,
\* and it has the lock, unless a lock call did nothing.
LockedPcs == {"open", "tmp", "copying", "backup", "replace"}
OneWriter == ~loose => \A p \in Procs : pr[p].pc \in LockedPcs => owner = p

\* A compression has the lock: "Do a compress run if needed and no other
\* user is currently using the keybox" (g10/keydb.c:737).
CompressAlone ==
  \A p, q \in Procs : /\ p # q /\ pr[p].op = "compress"
                       /\ pr[p].pc \in {"tmp", "copying"}
                       => pr[q].pc \notin LockedPcs

\* The offset that an import found is one of the file it copies: nobody
\* replaces the file between its search and its copy.
Storing == {"locate", "store", "again", "copy", "open", "tmp", "copying",
            "backup"}
ImportCurrent ==
  ~loose => \A p \in Procs : /\ pr[p].op = "import" /\ pr[p].node # 0
                              /\ pr[p].pc \in Storing
                              => pr[p].node = main

\* A key has one blob, as long as no process used a place that is no more
\* and no lock call did nothing.
OneBlobPerKey == main # 0 /\ ~stale /\ ~loose => Single(data[main])

\* The key blocks in a file, and in the file that counts.
View(f) ==
  [k \in Keys |->
     IF Has(f, k) THEN (CHOOSE b \in f.blobs : Found(f, k, b)).sigs ELSE None]

Counts == IF main # 0 THEN data[main]
          ELSE IF bak # 0 THEN data[bak] ELSE Empty

Map == INSTANCE KeyStore WITH store <- View(Counts),
                              spoiled <- stale \/ loose

\* The file is a map that changes one key at a time, or not at all: neither
\* a copy that fails or is cut off, nor a missing file taken for a new
\* keybox, nor the move of the blobs behind a replaced one loses a key.
ImplementsKeyStore == Map!Spec

\* An import keeps every other key, and what its key had, even in a file
\* that others have spoiled.
ImportKeeps ==
  [][\A p \in Procs :
       /\ ~loose
       /\ pr[p].op = "import" /\ pr[p].pc = "replace" /\ main' # main
       => \A k \in Keys :
            LET old == View(data[bak])[k]
                new == View(data[tmp])[k]
            IN  IF k # pr[p].key THEN new = old
                ELSE old # None => old \subseteq new]_vars

\* A process that is between operations, or waits for its user, does not
\* have the lock; it keeps it only while the name is missing, and in the
\* menu after an update that did not find its key.
Outside == {"start", "access", "create", "opened", "failed", "keyring",
            "idle", "edit", "delete"}
LockGivenBack ==
  ~loose => \A p \in Procs : owner = p /\ pr[p].pc \in Outside => main = 0

\* With the lock, an update or a deletion changes the key it is about and no
\* other.
OnlyThatKey ==
  [][\A p \in Procs : \A k \in Keys \ {pr[p].key} :
       ~loose' /\ pr'[p] # pr[p] => View(Counts')[k] = View(Counts)[k]]_vars
=============================================================================
