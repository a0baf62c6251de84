---------------------------- MODULE KeyBoxProofs ----------------------------
(***************************************************************************)
(* The keybox file for any number of processes, keys and signatures: its   *)
(* type invariant, which holds whatever the lock calls do; and as long as  *)
(* none of them did nothing, the rule of the single writer, what a killed  *)
(* update leaves behind, who has the lock, that an import copies the file  *)
(* it searched and loses nothing, that a key has one blob, and that the    *)
(* file implements the map of module KeyStore.                             *)
(***************************************************************************)
EXTENDS KeyBox, FiniteSetTheorems, WellFoundedInduction, TLAPS

\* The blobs of every file lie one behind the other.
AllLaid == garbled \/ \A n \in Nodes : Laid(data[n])

\* The steps of a process outside its operations.
Started == {"start", "access", "create", "test", "header", "opened",
            "failed", "keyring", "idle"}

\* What a process knows of itself.
Matched(r) ==
  /\ IF r.pc \in Started THEN r.op = "none" /\ r.node = 0 /\ r.off = 0
     ELSE r.op # "none"
  /\ r.pc \in {"locate", "store"} => r.op = "import"
  /\ r.pc \in {"edit", "held", "unlock"} => r.op = "edit"
  /\ r.pc \in {"delete", "flag"} => r.op = "delete"
  /\ r.pc = "search" => /\ r.op # "compress" /\ r.node = 0 /\ r.off = 0
                        /\ r.op = "import" \/ r.lock = "none"
  /\ r.pc = "again" => r.op \in {"import", "edit"}
  /\ r.pc \in {"copy", "open", "tmp", "copying", "backup", "replace"} =>
       r.op # "delete"
  /\ r.pc = "wait" =>
       \/ r.want = "search" /\ r.op = "import" /\ r.node = 0 /\ r.off = 0
       \/ r.want = "again" /\ r.op \in {"import", "edit"}
       \/ r.want = "copy" /\ r.op \in {"compress", "import"}
       \/ r.want = "flag" /\ r.op = "delete"
  /\ r.op \notin {"none", "compress"} => r.key \in Keys
  /\ r.op = "import" => r.lock # "none"
  /\ r.pc = "wait" => r.lock = "asked"
  /\ r.pc \in {"again", "copy", "flag"} \cup LockedPcs => r.lock # "none"
  /\ r.pc \in {"tmp", "copying"} => r.node # 0
  /\ r.pc = "copying" <=> r.out # 0
  /\ r.op = "compress" /\ r.pc \in {"wait", "copy", "open", "tmp"} =>
       r.off = 0
  /\ r.pc = "locate" => r.off = 0

\* The part that holds whatever the lock calls do.
Inv == TypeOK /\ AllLaid /\ \A p \in Procs : Matched(pr[p])

\* An import that has searched the file.
Imports(r) == /\ r.op = "import"
              /\ \/ r.pc \in {"store", "again", "copy", "open", "tmp",
                              "copying", "backup"}
                 \/ r.pc = "locate" /\ r.node # 0
                 \/ r.pc = "wait" /\ r.want # "search"

\* Between operations, or about to search without the lock.
Idles(r) == r.pc \in Outside \/ (r.pc = "search" /\ r.lock # "asked")

\* What a process finds at each of its steps.
Fine(p) ==
  LET r == pr[p]
  IN  /\ r.pc \in {"test", "header"} => owner = p
      /\ r.pc \in {"search", "again", "copy", "flag"} /\ r.lock = "asked" =>
           owner = p
      /\ r.pc \in LockedPcs => owner = p
      /\ r.pc = "header" => main # 0 /\ data[main] = Void /\ bak = 0
      /\ r.pc \in {"open", "tmp", "copying", "backup"} => main # 0
      /\ r.pc \in {"tmp", "copying", "backup"} => r.node = main
      /\ r.pc = "copying" => tmp = r.out
      /\ r.pc = "backup" => /\ tmp # 0 /\ tmp \in whole
                            /\ ~garbled => main \in whole
      /\ r.pc = "replace" => /\ main = 0 /\ bak # 0
                             /\ tmp # 0 /\ {tmp, bak} \subseteq whole
      /\ Imports(r) => owner = p /\ r.node = main /\ main # 0
      /\ owner = p /\ Idles(r) => main = 0

\* No inode has two names.
Distinct == /\ main # 0 => main # bak /\ main # tmp
            /\ bak # 0 => bak # tmp

\* Only the temporary file may be cut off, and not while it is needed, or a
\* file that has just been created.
Complete == /\ bak # 0 => bak \in whole
            /\ main # 0 => main \in whole \/ (data[main] = Void /\ bak = 0)
            /\ main = 0 /\ bak # 0 => tmp # 0 /\ tmp \in whole

\* The part that holds as long as all lock calls did what they should.
Guarded == Distinct /\ Complete /\ \A p \in Procs : Fine(p)
Kept == ~loose => Guarded

\* Nobody reads the temporary file.
NotTmp == \A p \in Procs : pr[p].node # 0 => pr[p].node # tmp

\* The blobs of g are those of f that are live and begin before off.
Squeezed(f, g, off) ==
  /\ \A c \in g.blobs :
       c.live /\ \E b \in f.blobs : /\ b.live /\ b.off < off
                                    /\ b.key = c.key /\ b.sigs = c.sigs
  /\ \A b \in f.blobs :
       b.live /\ b.off < off =>
         \E c \in g.blobs : b.key = c.key /\ b.sigs = c.sigs

\* g is f with another key block for k.
Replaces(f, g, k, s) ==
  \A j \in Keys : View(g)[j] = IF j = k THEN s ELSE View(f)[j]

\* The file g that is to replace f.
Ready(r, f, g) ==
  /\ ~stale => Single(g)
  /\ ~stale /\ r.op = "compress" => View(g) = View(f)
  /\ r.op = "import" \/ (~stale /\ r.op = "edit") =>
       Replaces(f, g, r.key, r.new)
  /\ r.op = "import" => LET old == View(f)[r.key]
                        IN  old # None => old \subseteq r.new

\* The blob at the place that was found, in file f.
Place(r, f) == \E b \in f.blobs :
                 /\ b.off = r.off /\ Found(f, r.key, b)
                 /\ r.op = "import" => b.sigs \subseteq r.new

\* An edit that has looked its key up again, and not opened the file yet.
Reopens(r) == /\ r.op = "edit"
              /\ r.pc = "open" \/ (r.pc = "copy" /\ r.lock = "asked")

\* What a process has found, and what it has written.
Work(p) ==
  LET r == pr[p]
      f == data[main]
      h == data[r.node]
  IN  /\ r.op = "delete" /\ r.pc \in {"delete", "wait", "flag"} =>
           /\ r.node # 0
           /\ \E b \in h.blobs : b.off = r.off /\ b.key = r.key
      /\ Imports(r) /\ r.pc # "backup" =>
           IF r.off = 0 THEN ~Has(f, r.key) ELSE Place(r, f)
      /\ Reopens(r) => r.node # 0 /\ r.off # 0 /\ Place(r, h)
      /\ r.op = "edit" /\ r.pc \in {"tmp", "copying"} =>
           r.off # 0 /\ (~stale => Place(r, f))
      /\ r.op = "compress" /\ r.pc = "copying" /\ ~stale =>
           Single(data[tmp]) /\ Squeezed(f, data[tmp], r.off)
      /\ r.pc = "backup" => Ready(r, f, data[tmp])
      /\ r.pc = "replace" => Ready(r, data[bak], data[tmp])

\* What the files hold, as long as all lock calls did what they should.
Works == NotTmp /\ \A p \in Procs : Work(p)
Sound == ~loose => OneBlobPerKey /\ (~garbled => Works)

-----------------------------------------------------------------------------
(***************************************************************************)
(* Files                                                                   *)
(***************************************************************************)
\* A key block takes some room.
LEMMA SizeType == ASSUME NEW s \in SUBSET Sigs
                  PROVE  Size(s) \in Nat /\ Size(s) >= 1
<1>1. IsFiniteSet(s)
  BY SigsAssumption, FS_Subset
<1>2. Cardinality(s) \in Nat
  BY <1>1, FS_CardinalityType
<1> QED
  BY <1>2 DEF Size

\* The empty file is a file.
LEMMA EmptyFile == Empty \in File /\ Laid(Empty)
  BY DEF Empty, File, Laid

\* So is one of length 0.
LEMMA VoidFile == Void \in File /\ Laid(Void)
  BY DEF Void, File, Laid

\* A header is written only where there are no blobs.
LEMMA WithHeaderFile ==
  ASSUME NEW f \in File, Laid(f)
  PROVE  /\ WithHeader(f) \in File /\ Laid(WithHeader(f))
         /\ WithHeader(f).blobs = f.blobs /\ WithHeader(f).end >= 1
<1>1. f.end \in Nat /\ f.blobs \in SUBSET Blob
  BY DEF File
<1>2. \A b \in f.blobs : b.off \in Nat /\ Size(b.sigs) \in Nat
  BY <1>1, SizeType DEF Blob
<1>3. CASE f.end = 0
  <2>1. f.blobs = {}
    BY <1>2, <1>3 DEF Laid
  <2> QED
    BY <1>3, <2>1, EmptyFile DEF WithHeader, Empty
<1>4. CASE f.end # 0
  BY <1>1, <1>4 DEF WithHeader
<1> QED
  BY <1>3, <1>4

\* A blob that is appended lies behind the others.
LEMMA InsertedFile ==
  ASSUME NEW f \in File, Laid(f), f.end >= 1,
         NEW k \in Keys, NEW s \in SUBSET Sigs
  PROVE  Inserted(f, k, s) \in File /\ Laid(Inserted(f, k, s))
<1> DEFINE new == [off |-> f.end, key |-> k, sigs |-> s, live |-> TRUE]
           g == Inserted(f, k, s)
<1>1. f.end \in Nat /\ f.blobs \in SUBSET Blob
  BY DEF File
<1>2. Size(s) \in Nat /\ Size(s) >= 1
  BY SizeType
<1>3. new \in Blob /\ new.off = f.end /\ new.sigs = s
  BY <1>1 DEF Blob
<1>4. g.blobs = f.blobs \cup {new} /\ g.end = f.end + Size(s)
  BY DEF Inserted
<1>5. g \in File
  <2>1. g = [blobs |-> f.blobs \cup {new}, end |-> f.end + Size(s)]
    BY DEF Inserted
  <2> HIDE DEF new, g
  <2>2. f.blobs \cup {new} \in SUBSET Blob /\ f.end + Size(s) \in Nat
    BY <1>1, <1>2, <1>3
  <2> QED
    BY <2>1, <2>2 DEF File
<1>6. \A b \in f.blobs : b.off \in Nat /\ Size(b.sigs) \in Nat
  BY <1>1, SizeType DEF Blob
<1> HIDE DEF new, g
<1>7. Laid(g)
  BY <1>1, <1>2, <1>3, <1>4, <1>6 DEF Laid
<1> QED
  BY <1>5, <1>7 DEF g

\* A flag moves nothing.
LEMMA FlaggedFile ==
  ASSUME NEW f \in File, Laid(f), NEW off \in Nat
  PROVE  Flagged(f, off) \in File /\ Laid(Flagged(f, off))
<1> DEFINE Put(b) == IF b.off = off THEN [b EXCEPT !.live = FALSE] ELSE b
           g == Flagged(f, off)
<1>1. f.end \in Nat /\ f.blobs \in SUBSET Blob
  BY DEF File
<1>2. g.blobs = {Put(b) : b \in f.blobs} /\ g.end = f.end
  BY DEF Flagged, File
<1>3. \A b \in f.blobs : /\ Put(b) \in Blob
                          /\ Put(b).off = b.off
                          /\ Put(b).sigs = b.sigs
  BY <1>1 DEF Blob
<1>4. g \in File
  BY <1>1, <1>2, <1>3 DEF Flagged, File
<1> HIDE DEF Put, g
<1>5. Laid(g)
  BY <1>1, <1>2, <1>3 DEF Laid
<1> QED
  BY <1>4, <1>5 DEF g

\* The blobs behind a replaced one move to where the new one ends.  They
\* still lie one behind the other if a blob began at the offset.
LEMMA UpdatedFile ==
  ASSUME NEW f \in File, Laid(f), NEW off \in Nat, NEW old \in f.blobs,
         NextBlob(f, off, old), NEW k \in Keys, NEW s \in SUBSET Sigs
  PROVE  /\ Updated(f, off, old, k, s) \in File
         /\ Begin(f, off) => Laid(Updated(f, off, old, k, s))
<1> DEFINE new == [off |-> off, key |-> k, sigs |-> s, live |-> TRUE]
           shift == off + Size(s) - (old.off + Size(old.sigs))
           Put(b) == [b EXCEPT !.off = @ + shift]
           rest == {c \in f.blobs : c.off > old.off}
           kept == {b \in f.blobs : b.off < off}
           g == Updated(f, off, old, k, s)
<1>1. f.end \in Nat /\ f.blobs \in SUBSET Blob
  BY DEF File
<1>2. Size(s) \in Nat /\ Size(s) >= 1
  BY SizeType
<1>3. new \in Blob /\ new.off = off /\ new.sigs = s
  BY DEF Blob
<1>4. g.blobs = kept \cup {new} \cup {Put(b) : b \in rest}
      /\ g.end = f.end + shift
  BY DEF Updated
<1>5. \A b \in f.blobs : /\ b.off \in Nat
                          /\ Size(b.sigs) \in Nat /\ Size(b.sigs) >= 1
  BY <1>1, SizeType DEF Blob
<1>6. shift \in Int /\ f.end + shift \in Nat /\ f.end + shift >= off + Size(s)
  BY <1>1, <1>2, <1>5 DEF Laid
<1>7. \A b \in rest : b.off + shift \in Nat /\ b.off + shift >= off + Size(s)
  BY <1>2, <1>5 DEF Laid
<1>8. \A b \in rest : /\ Put(b) \in Blob
                       /\ Put(b).off = b.off + shift
                       /\ Put(b).sigs = b.sigs
  BY <1>1, <1>7 DEF Blob
<1>9. g \in File
  BY <1>1, <1>3, <1>6, <1>8 DEF Updated, File
<1>10. ASSUME Begin(f, off) PROVE Laid(g)
  <2>1. PICK d \in f.blobs : d.off = off
    BY <1>10 DEF Begin
  <2>2. \A b \in kept : b.off + Size(b.sigs) <= off /\ b.off >= 1
    BY <2>1, <1>5 DEF Laid
  <2>3. off >= 1
    BY <2>1 DEF Laid
  <2>4. \A b, c \in rest : \/ b = c
                          \/ b.off + shift + Size(b.sigs) <= c.off + shift
                          \/ c.off + shift + Size(c.sigs) <= b.off + shift
    BY <1>5, <1>6 DEF Laid
  <2>5. \A b \in rest : b.off + shift + Size(b.sigs) <= f.end + shift
    BY <1>1, <1>5, <1>6 DEF Laid
  <2>6. \A b \in kept \cup rest : b \in f.blobs
    OBVIOUS
  <2> HIDE DEF new, shift, Put, rest, kept, g
  <2>7. \A b \in g.blobs : b.off >= 1 /\ b.off + Size(b.sigs) <= g.end
    BY <1>1, <1>2, <1>3, <1>4, <1>5, <1>6, <1>7, <1>8, <2>2, <2>3, <2>5,
       <2>6
  <2>8. ASSUME NEW b \in g.blobs, NEW c \in g.blobs
        PROVE  \/ b = c
               \/ b.off + Size(b.sigs) <= c.off
               \/ c.off + Size(c.sigs) <= b.off
    <3>1. CASE b \in kept /\ c \in kept
      BY <3>1, <2>6 DEF Laid, kept
    <3>2. CASE b \in kept /\ c \notin kept
      BY <3>2, <1>2, <1>3, <1>4, <1>5, <1>6, <1>7, <1>8, <2>2, <2>6
    <3>3. CASE b \notin kept /\ c \in kept
      BY <3>3, <1>2, <1>3, <1>4, <1>5, <1>6, <1>7, <1>8, <2>2, <2>6
    <3>4. CASE b \notin kept /\ c \notin kept
      BY <3>4, <1>2, <1>3, <1>4, <1>5, <1>6, <1>7, <1>8, <2>4, <2>6
    <3> QED
      BY <3>1, <3>2, <3>3, <3>4
  <2> QED
    BY <2>7, <2>8 DEF Laid
<1> QED
  BY <1>9, <1>10 DEF g
(***************************************************************************)
(* The processes                                                           *)
(***************************************************************************)
\* A step of one process.
Moved(p) == /\ pr' \in [Procs -> Process]
            /\ Matched(pr'[p])
            /\ \A q \in Procs \ {p} : pr'[q] = pr[q]

\* A process is a record; its step is one of the above.
LEMMA Fields ==
  ASSUME NEW r \in Process
  PROVE  /\ r.pc \in Pcs
         /\ r.op \in {"none", "compress", "import", "edit", "delete"}
         /\ r.want \in {"none", "search", "again", "copy", "flag"}
         /\ r.lock \in {"none", "asked", "skipped"}
         /\ r.key \in Keys \cup {None} /\ r.new \in SUBSET Sigs
         /\ r.node \in Nodes \cup {0} /\ r.out \in Nodes \cup {0}
         /\ r.off \in Nat
  BY DEF Process

\* The process becomes r.
LEMMA Moves ==
  ASSUME TypeOK, NEW p \in Procs, NEW r \in Process, Matched(r),
         pr' = [pr EXCEPT ![p] = r]
  PROVE  Moved(p) /\ pr'[p] = r
  BY DEF TypeOK, Moved

\* A process begins anew.
LEMMA ResetMoved ==
  ASSUME TypeOK, NEW p \in Procs, NEW pc \in Started, Reset(p, pc)
  PROVE  Moved(p) /\ pr'[p] = At0(pc)
<1>1. At0(pc) \in Process
  BY DEF At0, Process, Pcs, Started
<1>2. Matched(At0(pc))
  BY NodesAssumption DEF At0, Matched, Started, LockedPcs
<1> QED
  BY <1>1, <1>2, Moves DEF Reset

\* What Goto changes.
LEMMA GotoRest ==
  ASSUME TypeOK, NEW p \in Procs, NEW pc \in Pcs, Goto(p, pc)
  PROVE  /\ pr' \in [Procs -> Process]
         /\ \A q \in Procs \ {p} : pr'[q] = pr[q]
         /\ pr'[p].pc = pc /\ pr'[p].op = pr[p].op
         /\ pr'[p].want = pr[p].want /\ pr'[p].lock = pr[p].lock
         /\ pr'[p].key = pr[p].key /\ pr'[p].new = pr[p].new
         /\ pr'[p].node = pr[p].node /\ pr'[p].out = pr[p].out
         /\ pr'[p].off = pr[p].off
<1>1. [pr[p] EXCEPT !.pc = pc] \in Process
  BY DEF TypeOK, Process
<1>2. pr' = [pr EXCEPT ![p] = [pr[p] EXCEPT !.pc = pc]]
  BY DEF Goto, TypeOK
<1> QED
  BY <1>1, <1>2 DEF TypeOK, Process

\* What a failure changes.
LEMMA FailsRest ==
  ASSUME TypeOK, NEW p \in Procs, Fails(p)
  PROVE  /\ pr' \in [Procs -> Process]
         /\ \A q \in Procs \ {p} : pr'[q] = pr[q]
         /\ pr'[p].pc = IF pr[p].op = "edit" THEN "unlock" ELSE "release"
         /\ pr'[p].op = pr[p].op
         /\ pr'[p].want = pr[p].want /\ pr'[p].lock = pr[p].lock
         /\ pr'[p].key = pr[p].key /\ pr'[p].new = pr[p].new
         /\ pr'[p].node = pr[p].node /\ pr'[p].out = 0
         /\ pr'[p].off = pr[p].off
<1> DEFINE pc == IF pr[p].op = "edit" THEN "unlock" ELSE "release"
<1>0. pc \in Pcs
  BY DEF Pcs
<1>2. pr' = [pr EXCEPT ![p] = [pr[p] EXCEPT !.pc = pc, !.out = 0]]
  BY DEF Fails, TypeOK
<1> HIDE DEF pc
<1>1. [pr[p] EXCEPT !.pc = pc, !.out = 0] \in Process
  BY <1>0 DEF TypeOK, Process
<1> QED
  BY <1>1, <1>2 DEF TypeOK, Process, pc

\* What a copy that is complete changes.
Finishes(p, pc) == pr' = [pr EXCEPT ![p].pc = pc, ![p].out = 0]

LEMMA FinishRest ==
  ASSUME TypeOK, NEW p \in Procs, NEW pc \in {"backup", "release"},
         Finishes(p, pc)
  PROVE  /\ pr' \in [Procs -> Process]
         /\ \A q \in Procs \ {p} : pr'[q] = pr[q]
         /\ pr'[p].pc = pc /\ pr'[p].op = pr[p].op
         /\ pr'[p].want = pr[p].want /\ pr'[p].lock = pr[p].lock
         /\ pr'[p].key = pr[p].key /\ pr'[p].new = pr[p].new
         /\ pr'[p].node = pr[p].node /\ pr'[p].out = 0
         /\ pr'[p].off = pr[p].off
<1>0. pc \in Pcs
  BY DEF Pcs
<1>2. pr' = [pr EXCEPT ![p] = [pr[p] EXCEPT !.pc = pc, !.out = 0]]
  BY DEF Finishes, TypeOK
<1>3. pr[p] \in Process
  BY DEF TypeOK
<1>1. [pr[p] EXCEPT !.pc = pc, !.out = 0] \in Process
  BY <1>0, <1>3 DEF Process
<1> QED
  BY <1>1, <1>2 DEF TypeOK, Process

\* What a lock call changes.
LEMMA AskRest ==
  ASSUME TypeOK, NEW p \in Procs, NEW r \in Process,
         NEW want \in {"search", "again", "copy", "flag"}, Ask(p, r, want)
  PROVE  /\ pr' \in [Procs -> Process]
         /\ \A q \in Procs \ {p} : pr'[q] = pr[q]
         /\ pr'[p].pc = IF main = 0 THEN want ELSE "wait"
         /\ pr'[p].lock = IF main = 0 THEN "skipped" ELSE "asked"
         /\ pr'[p].op = r.op /\ pr'[p].want = want
         /\ pr'[p].key = r.key /\ pr'[p].new = r.new
         /\ pr'[p].node = r.node /\ pr'[p].out = r.out
         /\ pr'[p].off = r.off
<1> DEFINE pc == IF main = 0 THEN want ELSE "wait"
           lock == IF main = 0 THEN "skipped" ELSE "asked"
<1>0. pc \in Pcs /\ lock \in {"skipped", "asked"}
  BY DEF Pcs
<1>2. pr' = [pr EXCEPT ![p] = [r EXCEPT !.pc = pc, !.want = want,
                                        !.lock = lock]]
  BY DEF Ask
<1> HIDE DEF pc, lock
<1>1. [r EXCEPT !.pc = pc, !.want = want, !.lock = lock] \in Process
  BY <1>0 DEF Process
<1>3. pr'[p] = [r EXCEPT !.pc = pc, !.want = want, !.lock = lock]
  BY <1>2 DEF TypeOK
<1>4. /\ pr'[p].pc = pc /\ pr'[p].lock = lock
      /\ pr'[p].op = r.op /\ pr'[p].want = want
      /\ pr'[p].key = r.key /\ pr'[p].new = r.new
      /\ pr'[p].node = r.node /\ pr'[p].out = r.out
      /\ pr'[p].off = r.off
  BY <1>3 DEF Process
<1>5. pr' \in [Procs -> Process] /\ \A q \in Procs \ {p} : pr'[q] = pr[q]
  BY <1>1, <1>2 DEF TypeOK
<1> QED
  BY <1>4, <1>5 DEF pc, lock

\* A process goes on.
LEMMA GotoSteps ==
  ASSUME Inv, NEW p \in Procs,
         \/ LockTake(p) \/ Look(p) \/ Access(p) \/ CreateLock(p)
         \/ CreateTest(p) \/ CreateHeader(p) \/ Locate(p) \/ AgainFails(p)
         \/ Delete(p)
  PROVE  Moved(p)
<1> DEFINE r == pr[p]
           s == pr'[p]
<1>0. TypeOK /\ Matched(r) /\ r \in Process
  BY DEF Inv, TypeOK
<1>1. PICK pc \in Pcs :
        /\ Goto(p, pc)
        /\ \/ r.pc = "wait" /\ pc = r.want
           \/ r.pc \in Started /\ pc \in Started
           \/ r.pc = "locate" /\ pc \in {"store", "release"}
           \/ r.pc = "again" /\ r.op = "edit" /\ pc = "held"
           \/ r.pc \in {"again", "flag"} /\ pc = "release"
  <2>1. CASE LockTake(p)
    <3>1. r.pc = "wait" /\ Goto(p, r.want)
      BY <2>1 DEF LockTake, At
    <3>2. r.want \in Pcs
      BY <1>0, <3>1 DEF Matched, Pcs
    <3> QED
      BY <3>1, <3>2
  <2>2. CASE Look(p) \/ Access(p) \/ CreateLock(p)
    BY <2>2 DEF Look, Access, CreateLock, At, Started, Pcs
  <2>3. CASE CreateTest(p) \/ CreateHeader(p)
    BY <2>3 DEF CreateTest, CreateHeader, At, Started, Pcs
  <2>4. CASE Locate(p) \/ AgainFails(p) \/ Delete(p)
    BY <2>4 DEF Locate, AgainFails, Delete, At, Pcs
  <2> QED
    BY <2>1, <2>2, <2>3, <2>4
<1>2. /\ pr' \in [Procs -> Process]
      /\ \A q \in Procs \ {p} : pr'[q] = pr[q]
      /\ s.pc = pc /\ s.op = r.op /\ s.want = r.want /\ s.lock = r.lock
      /\ s.key = r.key /\ s.node = r.node /\ s.out = r.out /\ s.off = r.off
  BY <1>0, <1>1, GotoRest
<1> HIDE DEF r, s
<1>3. Matched(s)
  BY <1>0, <1>1, <1>2 DEF Matched, Started, LockedPcs
<1> QED
  BY <1>2, <1>3 DEF Moved, s

\* A process gives up.
LEMMA ResetSteps ==
  ASSUME Inv, NEW p \in Procs,
         LockFails(p) \/ SearchFails(p) \/ Quit(p) \/ Release(p)
         \/ Exit(p) \/ Crash(p)
  PROVE  Moved(p)
<1> DEFINE r == pr[p]
           s == pr'[p]
<1>0. TypeOK /\ Matched(r) /\ r \in Process
  BY DEF Inv, TypeOK
<1>1. \/ \E pc \in Started : Reset(p, pc)
      \/ r.pc = "wait" /\ r.op = "edit" /\ Goto(p, "edit")
      \/ r.pc = "search" /\ r.op = "import" /\ Goto(p, "locate")
      \/ r.pc = "held" /\ Goto(p, "release")
  BY DEF LockFails, SearchFails, Quit, Release, Exit, Crash, At, Started
<1>2. CASE \E pc \in Started : Reset(p, pc)
  BY <1>0, <1>2, ResetMoved
<1>3. ASSUME NEW pc \in {"edit", "locate", "release"}, Goto(p, pc),
             \/ r.pc = "wait" /\ r.op = "edit" /\ pc = "edit"
             \/ r.pc = "search" /\ r.op = "import" /\ pc = "locate"
             \/ r.pc = "held" /\ pc = "release"
      PROVE  Moved(p)
  <2>0. pc \in Pcs
    BY DEF Pcs
  <2>2. /\ pr' \in [Procs -> Process]
        /\ \A q \in Procs \ {p} : pr'[q] = pr[q]
        /\ s.pc = pc /\ s.op = r.op /\ s.want = r.want /\ s.lock = r.lock
        /\ s.key = r.key /\ s.node = r.node /\ s.out = r.out /\ s.off = r.off
    BY <1>0, <1>3, <2>0, GotoRest
  <2> HIDE DEF r, s
  <2>3. Matched(s)
    BY <1>0, <1>3, <2>2 DEF Matched, Started, LockedPcs
  <2> QED
    BY <2>2, <2>3 DEF Moved, s
<1> QED
  BY <1>1, <1>2, <1>3

\* A process asks for the lock.
LEMMA AskSteps ==
  ASSUME Inv, NEW p \in Procs, Compress(p) \/ Store(p)
  PROVE  Moved(p)
<1> DEFINE r == pr[p]
           s == pr'[p]
<1>0. TypeOK /\ Matched(r) /\ r \in Process
  BY DEF Inv, TypeOK
<1>1. ASSUME NEW u \in Process, Ask(p, u, "copy") \/ Ask(p, u, "again")
                                \/ Ask(p, u, "flag"),
             u.pc = r.pc /\ u.key = r.key /\ u.node = r.node
             /\ u.out = r.out /\ u.off = r.off,
             \/ /\ r.pc = "opened" /\ u.op = "compress" /\ Ask(p, u, "copy")
             \/ /\ r.pc = "store" /\ u.op = r.op
                /\ Ask(p, u, "copy") \/ Ask(p, u, "again")
             \/ /\ r.pc \in {"edit", "held"} /\ u.op = r.op
                /\ Ask(p, u, "again")
             \/ r.pc = "delete" /\ u.op = r.op /\ Ask(p, u, "flag")
      PROVE  Moved(p)
  <2>1. PICK want \in {"copy", "again", "flag"} :
          /\ Ask(p, u, want)
          /\ \/ r.pc = "opened" /\ u.op = "compress" /\ want = "copy"
             \/ r.pc = "store" /\ u.op = r.op /\ want \in {"copy", "again"}
             \/ r.pc \in {"edit", "held"} /\ u.op = r.op /\ want = "again"
             \/ r.pc = "delete" /\ u.op = r.op /\ want = "flag"
    BY <1>1
  <2>2. /\ pr' \in [Procs -> Process]
        /\ \A q \in Procs \ {p} : pr'[q] = pr[q]
        /\ s.pc \in {want, "wait"} /\ s.op = u.op /\ s.want = want
        /\ s.lock \in {"skipped", "asked"}
        /\ s.pc = "wait" => s.lock = "asked"
        /\ s.key = r.key /\ s.node = r.node /\ s.out = r.out /\ s.off = r.off
    BY <1>0, <1>1, <2>1, AskRest
  <2> HIDE DEF r, s
  <2>3. Matched(s)
    BY <1>0, <1>1, <2>1, <2>2 DEF Matched, Started, LockedPcs
  <2> QED
    BY <2>2, <2>3 DEF Moved, s
<1>2. CASE Compress(p)
  <2> DEFINE u == [r EXCEPT !.op = "compress"]
  <2>1. u \in Process /\ u.op = "compress"
        /\ u.pc = r.pc /\ u.key = r.key /\ u.node = r.node
        /\ u.out = r.out /\ u.off = r.off
    BY <1>0 DEF Process
  <2>2. Ask(p, u, "copy") /\ r.pc = "opened"
    BY <1>2 DEF Compress, At
  <2> HIDE DEF u
  <2> QED
    BY <1>1, <2>1, <2>2
<1>3. CASE Store(p)
  BY <1>0, <1>1, <1>3 DEF Store, At
<1> QED
  BY <1>2, <1>3

\* A process begins an operation.
LEMMA BeginSteps ==
  ASSUME Inv, NEW p \in Procs, NEW k \in Keys,
         \/ \E s \in SUBSET Sigs : Import(p, k, s)
         \/ \E op \in {"edit", "delete"} : Open(p, op, k)
  PROVE  /\ Moved(p) /\ pr'[p].node = 0 /\ pr'[p].off = 0
         /\ pr'[p].pc \in {"search", "wait"} /\ pr[p].pc = "idle"
         /\ pr'[p].pc = "wait" => pr'[p].want = "search"
         /\ pr'[p].op = "import" \/ pr'[p].lock = "none"
         /\ pr'[p].lock = "asked" => pr'[p].pc = "wait"
         /\ pr'[p].op # "compress"
<1>0. TypeOK
  BY DEF Inv
<1>1. ASSUME NEW s \in SUBSET Sigs, Import(p, k, s)
      PROVE  /\ Moved(p) /\ pr'[p].node = 0 /\ pr'[p].off = 0
             /\ pr'[p].pc \in {"search", "wait"} /\ pr[p].pc = "idle"
             /\ pr'[p].pc = "wait" => pr'[p].want = "search"
             /\ pr'[p].op = "import" /\ pr'[p].op # "compress"
             /\ pr'[p].lock = "asked" => pr'[p].pc = "wait"
  <2> DEFINE u == [At0("idle") EXCEPT !.op = "import", !.key = k, !.new = s]
             v == pr'[p]
  <2>1. /\ u.op = "import" /\ u.key = k /\ u.node = 0 /\ u.out = 0
        /\ u.off = 0
    BY DEF At0
  <2>2. u \in Process
    <3>1. At0("idle") \in Process
      BY DEF At0, Process, Pcs
    <3> QED
      BY <3>1 DEF Process
  <2>3. Ask(p, u, "search") /\ pr[p].pc = "idle"
    BY <1>1 DEF Import, Begins, At
  <2> HIDE DEF u
  <2>4. /\ pr' \in [Procs -> Process]
        /\ \A q \in Procs \ {p} : pr'[q] = pr[q]
        /\ v.pc \in {"search", "wait"} /\ v.op = "import"
        /\ v.want = "search"
        /\ v.lock \in {"skipped", "asked"}
        /\ v.lock = "asked" <=> v.pc = "wait"
        /\ v.key = k /\ v.node = 0 /\ v.out = 0 /\ v.off = 0
    BY <1>0, <2>1, <2>2, <2>3, AskRest
  <2> HIDE DEF v
  <2>5. Matched(v)
    BY <2>4 DEF Matched, Started, LockedPcs
  <2> QED
    BY <2>3, <2>4, <2>5 DEF Moved, v
<1>2. ASSUME NEW op \in {"edit", "delete"}, Open(p, op, k)
      PROVE  /\ Moved(p) /\ pr'[p].node = 0 /\ pr'[p].off = 0
             /\ pr'[p].pc = "search" /\ pr[p].pc = "idle"
             /\ pr'[p].lock = "none" /\ pr'[p].op # "compress"
  <2> DEFINE u == [At0("search") EXCEPT !.op = op, !.key = k]
  <2>1. /\ u.pc = "search" /\ u.op = op /\ u.lock = "none"
        /\ u.key = k /\ u.node = 0 /\ u.out = 0 /\ u.off = 0
    BY DEF At0
  <2>2. pr' = [pr EXCEPT ![p] = u] /\ pr[p].pc = "idle"
    BY <1>2 DEF Open, Begins, At
  <2>3. At0("search") \in Process
    BY DEF At0, Process, Pcs
  <2>4. u \in Process
    BY <2>3 DEF Process
  <2> HIDE DEF u
  <2>5. Matched(u)
    BY <2>1 DEF Matched, Started, LockedPcs
  <2> QED
    BY <1>0, <2>1, <2>2, <2>4, <2>5, Moves
<1> QED
  BY <1>1, <1>2

\* What a search that finds its key changes.
LEMMA SearchFindsRest ==
  ASSUME Inv, NEW p \in Procs, SearchFinds(p)
  PROVE  \E b \in data[main].blobs :
           /\ main \in Nodes /\ b \in Blob
           /\ ~garbled => b.off >= 1
           /\ Found(data[main], pr[p].key, b)
           /\ Moved(p)
           /\ pr'[p].op = pr[p].op /\ pr'[p].lock = pr[p].lock
           /\ pr'[p].key = pr[p].key /\ pr'[p].node = main
           /\ pr'[p].off = b.off /\ pr'[p].new = pr[p].new \cup b.sigs
           /\ pr'[p].pc = CASE pr[p].op = "edit" -> "edit"
                            [] pr[p].op = "delete" -> "delete"
                            [] pr[p].op = "import" ->
                                 IF pr[p].new \subseteq b.sigs
                                 THEN "release" ELSE "store"
<1> DEFINE r == pr[p]
           s == pr'[p]
           Then(b) == CASE r.op = "edit" -> "edit"
                        [] r.op = "delete" -> "delete"
                        [] r.op = "import" ->
                             IF r.new \subseteq b.sigs
                             THEN "release" ELSE "store"
<1>0. TypeOK /\ Matched(r) /\ r \in Process /\ r.pc = "search"
  BY DEF Inv, TypeOK, SearchFinds, At
<1>1. PICK b \in data[main].blobs :
        /\ Found(data[main], r.key, b)
        /\ pr' = [pr EXCEPT ![p].node = main, ![p].off = b.off,
                            ![p].new = @ \cup b.sigs, ![p].pc = Then(b)]
  BY DEF SearchFinds
<1>2. main \in Nodes
  BY <1>0 DEF SearchFinds, TypeOK
<1>3. b \in Blob /\ (~garbled => b.off >= 1)
  BY <1>0, <1>2 DEF Inv, TypeOK, File, AllLaid, Laid
<1>4. r.new \cup b.sigs \in SUBSET Sigs /\ b.off \in Nat
  BY <1>0, <1>3 DEF Blob, Process
<1>a. r.op \in {"import", "edit", "delete"}
  BY <1>0 DEF Matched, Started, Process
<1>5. /\ Then(b) \in {"edit", "delete", "release", "store"}
      /\ Then(b) = "edit" => r.op = "edit"
      /\ Then(b) = "delete" => r.op = "delete"
      /\ Then(b) \in {"release", "store"} => r.op = "import"
  BY <1>a
<1> HIDE DEF Then
<1>6. Then(b) \in Pcs
  BY <1>5 DEF Pcs
<1>7. pr' = [pr EXCEPT ![p] = [r EXCEPT !.node = main, !.off = b.off,
                                        !.new = r.new \cup b.sigs,
                                        !.pc = Then(b)]]
  BY <1>0, <1>1 DEF TypeOK
<1> DEFINE u == [r EXCEPT !.node = main, !.off = b.off,
                          !.new = r.new \cup b.sigs, !.pc = Then(b)]
<1>8. u \in Process
  BY <1>0, <1>2, <1>4, <1>6 DEF Process
<1>9. /\ u.pc = Then(b) /\ u.op = r.op /\ u.want = r.want /\ u.lock = r.lock
      /\ u.key = r.key /\ u.new = r.new \cup b.sigs /\ u.node = main
      /\ u.out = r.out /\ u.off = b.off
  BY <1>0 DEF Process
<1>10. pr' = [pr EXCEPT ![p] = u]
  BY <1>7
<1> HIDE DEF u, r
<1>11. Matched(u)
  BY <1>0, <1>5, <1>9 DEF Matched, Started, LockedPcs
<1>12. Moved(p) /\ pr'[p] = u
  BY <1>0, <1>8, <1>10, <1>11, Moves
<1> QED
  BY <1>1, <1>2, <1>3, <1>9, <1>12 DEF Then, r

\* What one that does not changes.
LEMMA SearchEndsRest ==
  ASSUME Inv, NEW p \in Procs, SearchEnds(p)
  PROVE  /\ Moved(p)
         /\ pr'[p].off = 0
         /\ \/ /\ pr[p].op # "import" /\ pr'[p] = At0("idle")
            \/ /\ pr[p].op = "import" /\ pr'[p].pc = "locate"
               /\ pr'[p].op = pr[p].op /\ pr'[p].lock = pr[p].lock
               /\ pr'[p].key = pr[p].key /\ pr'[p].node = main
<1> DEFINE r == pr[p]
<1>0. TypeOK /\ Matched(r) /\ r \in Process /\ r.pc = "search"
  BY DEF Inv, TypeOK, SearchEnds, At
<1>1. ASSUME r.op # "import" PROVE Moved(p) /\ pr'[p] = At0("idle")
  BY <1>0, <1>1, ResetMoved DEF SearchEnds, Started
<1>2. ASSUME r.op = "import"
      PROVE  /\ Moved(p) /\ pr'[p].off = 0 /\ pr'[p].pc = "locate"
             /\ pr'[p].op = pr[p].op /\ pr'[p].lock = pr[p].lock
             /\ pr'[p].key = pr[p].key /\ pr'[p].node = main
  <2> DEFINE u == [r EXCEPT !.node = main, !.pc = "locate"]
  <2>1. main \in Nodes /\ "locate" \in Pcs
    BY <1>0 DEF SearchEnds, TypeOK, Pcs
  <2>2. u \in Process
    BY <1>0, <2>1 DEF Process
  <2>3. /\ u.pc = "locate" /\ u.op = r.op /\ u.want = r.want
        /\ u.lock = r.lock /\ u.key = r.key /\ u.node = main
        /\ u.out = r.out /\ u.off = r.off
    BY <1>0 DEF Process
  <2>4. pr' = [pr EXCEPT ![p] = u]
    BY <1>0, <1>2 DEF SearchEnds, TypeOK
  <2> HIDE DEF u
  <2>5. Matched(u) /\ u.off = 0
    BY <1>0, <1>2, <2>3 DEF Matched, Started, LockedPcs
  <2> QED
    BY <1>0, <2>2, <2>3, <2>4, <2>5, Moves
<1>3. At0("idle").off = 0
  BY DEF At0
<1> QED
  BY <1>1, <1>2, <1>3

\* An update that finds its key goes on with the copy.
LEMMA AgainFindsRest ==
  ASSUME Inv, NEW p \in Procs, AgainFinds(p)
  PROVE  \E b \in data[Again(p)].blobs :
           /\ Again(p) \in Nodes /\ b \in Blob
           /\ ~garbled => b.off >= 1
           /\ Found(data[Again(p)], pr[p].key, b)
           /\ Moved(p)
           /\ pr'[p].op = pr[p].op /\ pr'[p].lock = pr[p].lock
           /\ pr'[p].key = pr[p].key /\ pr'[p].node = Again(p)
           /\ pr'[p].off = b.off /\ pr'[p].pc = "copy"
           /\ pr[p].op = "import" => pr'[p].new = pr[p].new
<1> DEFINE r == pr[p]
           n == Again(p)
<1>0. TypeOK /\ Matched(r) /\ r \in Process /\ r.pc = "again"
  BY DEF Inv, TypeOK, AgainFinds, At
<1>1. PICK b \in data[n].blobs, x \in SUBSET Sigs :
        /\ Found(data[n], r.key, b)
        /\ r.op = "import" => x = r.new
        /\ pr' = [pr EXCEPT ![p].node = n, ![p].off = b.off,
                            ![p].new = x, ![p].pc = "copy"]
  BY DEF AgainFinds
<1>2. n \in Nodes
  BY <1>0 DEF AgainFinds, Again, TypeOK, Process
<1> HIDE DEF n
<1>3. b \in Blob /\ (~garbled => b.off >= 1)
  BY <1>0, <1>2 DEF Inv, TypeOK, File, AllLaid, Laid
<1>4. b.off \in Nat /\ "copy" \in Pcs
  BY <1>3 DEF Blob, Pcs
<1> DEFINE u == [r EXCEPT !.node = n, !.off = b.off, !.new = x, !.pc = "copy"]
<1>5. u \in Process
  BY <1>0, <1>2, <1>4 DEF Process
<1>6. /\ u.pc = "copy" /\ u.op = r.op /\ u.want = r.want /\ u.lock = r.lock
      /\ u.key = r.key /\ u.new = x /\ u.node = n
      /\ u.out = r.out /\ u.off = b.off
  BY <1>0 DEF Process
<1>7. pr' = [pr EXCEPT ![p] = u]
  BY <1>0, <1>1 DEF TypeOK
<1> HIDE DEF u
<1>8. Matched(u)
  BY <1>0, <1>6 DEF Matched, Started, LockedPcs
<1>9. Moved(p) /\ pr'[p] = u
  BY <1>0, <1>5, <1>7, <1>8, Moves
<1> QED
  BY <1>1, <1>2, <1>3, <1>6, <1>9 DEF n

\* A copy that goes wrong, or is not made.
LEMMA FailsMoved ==
  ASSUME Inv, NEW p \in Procs, Fails(p),
         pr[p].pc \in {"copy", "open", "tmp", "copying", "backup",
                       "replace"}
  PROVE  Moved(p)
<1> DEFINE r == pr[p]
           s == pr'[p]
<1>0. TypeOK /\ Matched(r) /\ r \in Process
  BY DEF Inv, TypeOK
<1>1. /\ pr' \in [Procs -> Process]
      /\ \A q \in Procs \ {p} : pr'[q] = pr[q]
      /\ s.pc = IF r.op = "edit" THEN "unlock" ELSE "release"
      /\ s.op = r.op /\ s.want = r.want /\ s.lock = r.lock
      /\ s.key = r.key /\ s.node = r.node /\ s.out = 0 /\ s.off = r.off
  BY <1>0, FailsRest
<1>2. r.pc \in {"copy", "open", "tmp", "copying", "backup",
                "replace"}
  OBVIOUS
<1> HIDE DEF r, s
<1>3. Matched(s)
  BY <1>0, <1>1, <1>2 DEF Matched, Started, LockedPcs
<1> QED
  BY <1>1, <1>3 DEF Moved, s

\* A copy that goes on.
LEMMA CopySteps ==
  ASSUME Inv, NEW p \in Procs,
         CopyAccess(p) \/ Backup(p) \/ Replace(p) \/ CopyNot(p)
         \/ CopyFails(p)
  PROVE  Moved(p)
<1> DEFINE r == pr[p]
           s == pr'[p]
<1>0. TypeOK /\ Matched(r) /\ r \in Process
  BY DEF Inv, TypeOK
<1>1. \/ /\ Fails(p)
         /\ r.pc \in {"copy", "open", "tmp", "copying", "backup",
                      "replace"}
      \/ r.pc = "copy" /\ Goto(p, "open")
      \/ r.pc = "backup" /\ Goto(p, "replace")
      \/ r.pc = "replace" /\ Goto(p, "release")
  BY DEF CopyAccess, Backup, Replace, CopyNot, CopyFails, At
<1>2. ASSUME NEW pc \in {"open", "replace", "release"}, Goto(p, pc),
             \/ r.pc = "copy" /\ pc = "open"
             \/ r.pc = "backup" /\ pc = "replace"
             \/ r.pc = "replace" /\ pc = "release"
      PROVE  Moved(p)
  <2>0. pc \in Pcs
    BY DEF Pcs
  <2>1. /\ pr' \in [Procs -> Process]
        /\ \A q \in Procs \ {p} : pr'[q] = pr[q]
        /\ s.pc = pc /\ s.op = r.op /\ s.want = r.want /\ s.lock = r.lock
        /\ s.key = r.key /\ s.node = r.node /\ s.out = r.out /\ s.off = r.off
    BY <1>0, <1>2, <2>0, GotoRest
  <2> HIDE DEF r, s
  <2>2. Matched(s)
    BY <1>0, <1>2, <2>1 DEF Matched, Started, LockedPcs
  <2> QED
    BY <2>1, <2>2 DEF Moved, s
<1> QED
  BY <1>1, <1>2, FailsMoved

\* What opening the file changes.
LEMMA CopyOpenRest ==
  ASSUME Inv, NEW p \in Procs, CopyOpen(p)
  PROVE  /\ Moved(p)
         /\ main # 0 => /\ pr'[p].op = pr[p].op /\ pr'[p].lock = pr[p].lock
                        /\ pr'[p].key = pr[p].key /\ pr'[p].node = main
                        /\ pr'[p].off = pr[p].off /\ pr'[p].new = pr[p].new
                        /\ pr'[p].pc = "tmp"
<1> DEFINE r == pr[p]
           s == pr'[p]
<1>0. TypeOK /\ Matched(r) /\ r \in Process /\ r.pc = "open"
  BY DEF Inv, TypeOK, CopyOpen, At
<1>1. CASE main # 0
  <2> DEFINE u == [r EXCEPT !.node = main, !.pc = "tmp"]
  <2>1. main \in Nodes /\ "tmp" \in Pcs
    BY <1>0, <1>1 DEF TypeOK, Pcs
  <2>2. u \in Process
    BY <1>0, <2>1 DEF Process
  <2>3. /\ u.pc = "tmp" /\ u.op = r.op /\ u.want = r.want
        /\ u.lock = r.lock /\ u.key = r.key /\ u.node = main
        /\ u.out = r.out /\ u.off = r.off /\ u.new = r.new
    BY <1>0 DEF Process
  <2>4. pr' = [pr EXCEPT ![p] = u]
    BY <1>0, <1>1 DEF CopyOpen, TypeOK
  <2> HIDE DEF u
  <2>5. Matched(u)
    BY <1>0, <1>1, <2>3 DEF Matched, Started, LockedPcs
  <2> QED
    BY <1>0, <2>2, <2>3, <2>4, <2>5, Moves
<1>2. CASE main = 0
  BY <1>0, <1>2, FailsMoved DEF CopyOpen
<1> QED
  BY <1>1, <1>2

\* What opening a file for writing changes.
Writes(p, n, pc) == pr' = [pr EXCEPT ![p].out = n, ![p].pc = pc]

LEMMA WritesRest ==
  ASSUME Inv, NEW p \in Procs, NEW n \in Nodes,
         Writes(p, n, "copying"), pr[p].pc = "tmp"
  PROVE  /\ Moved(p)
         /\ pr'[p].op = pr[p].op /\ pr'[p].lock = pr[p].lock
         /\ pr'[p].key = pr[p].key /\ pr'[p].node = pr[p].node
         /\ pr'[p].off = pr[p].off /\ pr'[p].new = pr[p].new
         /\ pr'[p].out = n /\ pr'[p].pc = "copying"
<1> DEFINE r == pr[p]
           u == [r EXCEPT !.out = n, !.pc = "copying"]
<1>0. TypeOK /\ Matched(r) /\ r \in Process /\ "copying" \in Pcs /\ n # 0
  BY NodesAssumption DEF Inv, TypeOK, Pcs
<1>1. u \in Process
  BY <1>0 DEF Process
<1>2. /\ u.pc = "copying" /\ u.op = r.op /\ u.want = r.want
      /\ u.lock = r.lock /\ u.key = r.key /\ u.node = r.node
      /\ u.out = n /\ u.off = r.off /\ u.new = r.new
  BY <1>0 DEF Process
<1>3. pr' = [pr EXCEPT ![p] = u]
  BY <1>0 DEF Writes, TypeOK
<1>4. r.pc = "tmp"
  OBVIOUS
<1> HIDE DEF u, r
<1>5. Matched(u)
  BY <1>0, <1>2, <1>4 DEF Matched, Started, LockedPcs
<1> QED
  BY <1>0, <1>1, <1>2, <1>3, <1>5, Moves DEF r

\* A copy that is complete.
LEMMA FinishMoved ==
  ASSUME Inv, NEW p \in Procs, NEW pc \in {"backup", "release"},
         Finishes(p, pc), pr[p].pc = "copying"
  PROVE  Moved(p)
<1> DEFINE r == pr[p]
           s == pr'[p]
<1>0. TypeOK /\ Matched(r) /\ r \in Process
  BY DEF Inv, TypeOK
<1>1. /\ pr' \in [Procs -> Process]
      /\ \A q \in Procs \ {p} : pr'[q] = pr[q]
      /\ s.pc = pc
      /\ s.op = r.op /\ s.want = r.want /\ s.lock = r.lock
      /\ s.key = r.key /\ s.node = r.node /\ s.out = 0 /\ s.off = r.off
  BY <1>0, FinishRest
<1>2. r.pc = "copying"
  OBVIOUS
<1> HIDE DEF r, s
<1>3. Matched(s)
  BY <1>0, <1>1, <1>2 DEF Matched, Started, LockedPcs
<1> QED
  BY <1>1, <1>3 DEF Moved, s

\* What an edit that goes back to its menu changes.
LEMMA UnlockRest ==
  ASSUME Inv, NEW p \in Procs, Unlock(p)
  PROVE  /\ Moved(p) /\ pr'[p].pc = "edit" /\ pr'[p].node = 0
         /\ pr'[p].op = "edit"
<1> DEFINE r == pr[p]
           u == [r EXCEPT !.pc = "edit", !.node = 0, !.off = 0]
<1>0. TypeOK /\ Matched(r) /\ r \in Process /\ "edit" \in Pcs
      /\ r.pc = "unlock"
  BY DEF Inv, TypeOK, Pcs, Unlock, At
<1>1. u \in Process
  BY <1>0 DEF Process
<1>2. /\ u.pc = "edit" /\ u.op = r.op /\ u.want = r.want
      /\ u.lock = r.lock /\ u.key = r.key /\ u.node = 0
      /\ u.out = r.out /\ u.off = 0
  BY <1>0 DEF Process
<1>3. pr' = [pr EXCEPT ![p] = u]
  BY <1>0 DEF Unlock, TypeOK
<1> HIDE DEF u, r
<1>5. Matched(u) /\ r.op = "edit"
  BY <1>0, <1>2 DEF Matched, Started, LockedPcs
<1> QED
  BY <1>0, <1>1, <1>2, <1>3, <1>5, Moves DEF r

\* What copying one more blob changes.
LEMMA CompressNextRest ==
  ASSUME Inv, NEW p \in Procs, CompressNext(p)
  PROVE  \E b \in data[pr[p].node].blobs :
           /\ pr[p].node \in Nodes /\ b \in Blob
           /\ NextBlob(data[pr[p].node], pr[p].off, b)
           /\ data' = [data EXCEPT ![pr[p].out] =
                         Inserted(WithHeader(@), b.key, b.sigs)]
           /\ Moved(p)
           /\ pr'[p].pc = "copying"
           /\ pr'[p].op = pr[p].op /\ pr'[p].lock = pr[p].lock
           /\ pr'[p].node = pr[p].node /\ pr'[p].out = pr[p].out
           /\ pr'[p].off = b.off + 1
<1> DEFINE r == pr[p]
<1>0. /\ TypeOK /\ Matched(r) /\ r \in Process
      /\ r.pc = "copying" /\ r.op = "compress"
  BY DEF Inv, TypeOK, CompressNext, At
<1>1. PICK b \in data[r.node].blobs :
           /\ NextBlob(data[r.node], r.off, b)
           /\ data' = [data EXCEPT ![r.out] =
                         Inserted(WithHeader(@), b.key, b.sigs)]
           /\ pr' = [pr EXCEPT ![p].off = b.off + 1]
  BY DEF CompressNext
<1>2. r.node \in Nodes
  BY <1>0, Fields DEF Matched
<1>3. b \in Blob
  BY <1>0, <1>2 DEF TypeOK, File
<1>4. b.off + 1 \in Nat
  BY <1>3 DEF Blob
<1> DEFINE u == [r EXCEPT !.off = b.off + 1]
<1>5. u \in Process
  BY <1>0, <1>4 DEF Process
<1>6. /\ u.pc = r.pc /\ u.op = r.op /\ u.want = r.want
      /\ u.lock = r.lock /\ u.key = r.key /\ u.node = r.node
      /\ u.out = r.out /\ u.off = b.off + 1
  BY <1>0 DEF Process
<1>7. pr' = [pr EXCEPT ![p] = u]
  BY <1>0, <1>1 DEF TypeOK
<1> HIDE DEF u
<1>8. Matched(u)
  BY <1>0, <1>6 DEF Matched, Started, LockedPcs
<1>9. Moved(p) /\ pr'[p] = u
  BY <1>0, <1>5, <1>7, <1>8, Moves
<1> QED
  BY <1>0, <1>1, <1>2, <1>3, <1>6, <1>9

-----------------------------------------------------------------------------
(***************************************************************************)
(* The types                                                               *)
(***************************************************************************)
\* Where all processes but one stay as they are.
LEMMA MovedAll ==
  ASSUME Inv, NEW p \in Procs, Moved(p)
  PROVE  /\ pr' \in [Procs -> Process]
         /\ \A q \in Procs : Matched(pr'[q])
  BY DEF Inv, Moved

\* A file that is opened for writing is void.
LEMMA TruncatedType ==
  ASSUME TypeOK, AllLaid, ~garbled, NEW old, NEW n \in Nodes,
         Truncated(old, n)
  PROVE  /\ data' \in [Nodes -> File] /\ AllLaid'
         /\ whole' \subseteq Nodes /\ garbled' \in BOOLEAN
         /\ data'[n] = Void
         /\ \A m \in Nodes \ {n} : data'[m] = data[m]
<1>1. data' = [data EXCEPT ![n] = Void] /\ whole' = whole \ {n}
      /\ garbled' \in BOOLEAN
  BY DEF Truncated
<1>2. \A m \in Nodes : data'[m] = IF m = n THEN Void ELSE data[m]
  BY <1>1 DEF TypeOK
<1> QED
  BY <1>1, <1>2, VoidFile DEF TypeOK, AllLaid

\* A file that is changed into a file leaves the others as they are.
LEMMA DataType ==
  ASSUME TypeOK, AllLaid, ~garbled, NEW n \in Nodes, NEW f \in File,
         data' = [data EXCEPT ![n] = f], garbled' \/ Laid(f)
  PROVE  /\ data' \in [Nodes -> File] /\ AllLaid'
         /\ data'[n] = f /\ \A m \in Nodes \ {n} : data'[m] = data[m]
<1>1. \A m \in Nodes : data'[m] = IF m = n THEN f ELSE data[m]
  BY DEF TypeOK
<1> QED
  BY <1>1 DEF TypeOK, AllLaid

\* Init has the types.
LEMMA InitInv == Init => Inv
<1> SUFFICES ASSUME Init PROVE Inv
  OBVIOUS
<1>1. pr \in [Procs -> Process] /\ \A p \in Procs : Matched(pr[p])
  <2>1. At0("start") \in Process
    BY DEF At0, Process, Pcs
  <2>2. Matched(At0("start"))
    BY DEF At0, Matched, Started, LockedPcs
  <2> QED
    BY <2>1, <2>2 DEF Init
<1>2. data \in [Nodes -> File] /\ \A n \in Nodes : Laid(data[n])
  BY EmptyFile, FirstAssumption DEF Init
<1> QED
  BY <1>1, <1>2 DEF Init, Inv, TypeOK, AllLaid

\* A step that leaves the files and the history alone.
LEMMA TypeQuiet ==
  ASSUME Inv, NEW p \in Procs, Moved(p),
         UNCHANGED <<data, whole, garbled>>,
         main' \in Nodes \cup {0}, bak' \in Nodes \cup {0},
         tmp' \in Nodes \cup {0}, owner' \in Procs \cup {None},
         stale' \in BOOLEAN, loose' \in BOOLEAN,
         ops' \in Nat, crashes' \in Nat
  PROVE  Inv'
<1>1. /\ pr' \in [Procs -> Process]
      /\ \A q \in Procs : Matched(pr'[q])
  BY MovedAll
<1> QED
  BY <1>1 DEF Inv, TypeOK, AllLaid

\* A step that changes a file.
LEMMA TypeWrite ==
  ASSUME Inv, NEW p \in Procs, Moved(p),
         data' \in [Nodes -> File], AllLaid', whole' \subseteq Nodes,
         garbled' \in BOOLEAN, stale' \in BOOLEAN, loose' \in BOOLEAN,
         main' \in Nodes \cup {0}, bak' \in Nodes \cup {0},
         tmp' \in Nodes \cup {0}, owner' \in Procs \cup {None},
         ops' \in Nat, crashes' \in Nat
  PROVE  Inv'
<1>1. /\ pr' \in [Procs -> Process]
      /\ \A q \in Procs : Matched(pr'[q])
  BY MovedAll
<1> QED
  BY <1>1 DEF Inv, TypeOK

\* The copies are files.
LEMMA CopiedType ==
  ASSUME Inv, NEW p \in Procs, CopyInsert(p) \/ CopyUpdate(p)
  PROVE  /\ Moved(p) /\ Finishes(p, "backup")
         /\ pr[p].out \in Nodes /\ pr[p].node \in Nodes
         /\ pr[p].pc = "copying" /\ ~garbled
         /\ pr[p].op \in {"import", "edit"} /\ pr[p].key \in Keys
         /\ data' \in [Nodes -> File] /\ AllLaid'
         /\ whole' = whole \cup {pr[p].out} /\ garbled' \in BOOLEAN
         /\ \A m \in Nodes \ {pr[p].out} : data'[m] = data[m]
         /\ CopyInsert(p) => data'[pr[p].out] =
              Inserted(WithHeader(data[pr[p].node]), pr[p].key, pr[p].new)
<1> DEFINE r == pr[p]
           f == data[r.node]
<1>0. /\ TypeOK /\ AllLaid /\ Matched(r) /\ r \in Process
      /\ r.pc = "copying" /\ r.op # "compress" /\ ~garbled
  BY DEF Inv, TypeOK, CopyInsert, CopyUpdate, At
<1>1. r.out \in Nodes /\ r.node \in Nodes
  BY <1>0, Fields DEF Matched
<1>2. /\ r.op \in {"import", "edit"} /\ r.key \in Keys
      /\ r.new \in SUBSET Sigs /\ r.off \in Nat
  BY <1>0, Fields DEF Matched, Started
<1>3. f \in File /\ Laid(f)
  BY <1>0, <1>1 DEF TypeOK, AllLaid
<1>4. ASSUME NEW g, Copied(p, g)
      PROVE  /\ Finishes(p, "backup") /\ data' = [data EXCEPT ![r.out] = g]
             /\ whole' = whole \cup {r.out}
  BY <1>4 DEF Copied, Finishes
<1> HIDE DEF f
<1>5. CASE CopyInsert(p)
  <2> DEFINE g == Inserted(WithHeader(f), r.key, r.new)
  <2>1. Copied(p, g) /\ garbled' \in BOOLEAN
    BY <1>5 DEF CopyInsert, f
  <2>2. g \in File /\ Laid(g)
    BY <1>2, <1>3, WithHeaderFile, InsertedFile
  <2> HIDE DEF g
  <2>3. Moved(p)
    BY <1>0, <1>4, <2>1, FinishMoved
  <2>4. /\ data' \in [Nodes -> File] /\ AllLaid' /\ data'[r.out] = g
        /\ \A m \in Nodes \ {r.out} : data'[m] = data[m]
    BY <1>0, <1>1, <1>4, <2>1, <2>2, DataType
  <2> QED
    BY <1>0, <1>1, <1>2, <1>4, <2>1, <2>3, <2>4 DEF f, g
<1>6. CASE CopyUpdate(p)
  <2>1. PICK old \in f.blobs :
          /\ NextBlob(f, r.off, old)
          /\ Copied(p, Updated(f, r.off, old, r.key, r.new))
    BY <1>6 DEF CopyUpdate, f
  <2> DEFINE g == Updated(f, r.off, old, r.key, r.new)
  <2>2. garbled' = ~Begin(f, r.off)
    BY <1>6 DEF CopyUpdate, f
  <2>3. g \in File /\ (garbled' \/ Laid(g)) /\ Copied(p, g)
    BY <1>2, <1>3, <2>1, <2>2, UpdatedFile
  <2>4. garbled' \in BOOLEAN /\ ~CopyInsert(p)
    BY <1>6, <2>2 DEF CopyInsert, CopyUpdate
  <2> HIDE DEF g
  <2>5. Moved(p)
    BY <1>0, <1>4, <2>3, FinishMoved
  <2>6. /\ data' \in [Nodes -> File] /\ AllLaid'
        /\ \A m \in Nodes \ {r.out} : data'[m] = data[m]
    BY <1>0, <1>1, <1>4, <2>3, DataType
  <2> QED
    BY <1>0, <1>1, <1>2, <1>4, <2>3, <2>4, <2>5, <2>6
<1> QED
  BY <1>5, <1>6

\* A step of a process keeps the types.
LEMMA InvStep == Inv /\ [Next]_vars => Inv'
<1> SUFFICES ASSUME Inv, [Next]_vars PROVE Inv'
  OBVIOUS
<1>0. /\ TypeOK /\ AllLaid
      /\ main \in Nodes \cup {0} /\ bak \in Nodes \cup {0}
      /\ tmp \in Nodes \cup {0} /\ owner \in Procs \cup {None}
      /\ stale \in BOOLEAN /\ loose \in BOOLEAN
      /\ ops \in Nat /\ crashes \in Nat /\ whole \subseteq Nodes
  BY DEF Inv, TypeOK
<1>1. CASE UNCHANGED vars
  BY <1>1 DEF vars, files, names, hist, Inv, TypeOK, AllLaid
<1>2. ASSUME NEW p \in Procs, Moved(p), UNCHANGED files,
             owner' \in Procs \cup {None}, UNCHANGED garbled,
             stale' \in BOOLEAN, loose' \in BOOLEAN,
             ops' \in Nat, crashes' \in Nat
      PROVE  Inv'
  BY <1>0, <1>2, TypeQuiet DEF files, names
<1>3. ASSUME NEW p \in Procs,
             \/ LockTake(p) \/ Look(p) \/ Access(p) \/ CreateLock(p)
             \/ Locate(p) \/ AgainFails(p)
      PROVE  Inv'
  <2>1. Moved(p)
    BY <1>3, GotoSteps
  <2>2. /\ UNCHANGED <<files, stale, garbled, ops, crashes>>
        /\ owner' \in Procs \cup {None} /\ loose' \in BOOLEAN
    BY <1>0, <1>3
       DEF LockTake, Look, Access, CreateLock, Locate, AgainFails, hist
  <2> QED
    BY <1>0, <1>2, <2>1, <2>2
<1>4. ASSUME NEW p \in Procs, CreateTest(p) PROVE Inv'
  <2>1. Moved(p) /\ ~garbled
    BY <1>4, GotoSteps DEF CreateTest, At
  <2>2. ASSUME NEW n \in Nodes, main' = n, Truncated(0, n),
               UNCHANGED <<bak, tmp, owner, stale, loose, ops, crashes>>
        PROVE  Inv'
    BY <1>0, <2>1, <2>2, TruncatedType, TypeWrite
  <2>3. CASE UNCHANGED <<files, hist>>
    BY <1>0, <1>2, <1>4, <2>1, <2>3 DEF CreateTest, hist
  <2> QED
    BY <1>4, <2>2, <2>3 DEF CreateTest
<1>5. ASSUME NEW p \in Procs, CreateHeader(p) PROVE Inv'
  <2>1. /\ Moved(p) /\ ~garbled /\ owner' = None
        /\ UNCHANGED <<bak, tmp, hist, ops, crashes>>
    BY <1>5, GotoSteps DEF CreateHeader, At
  <2>2. ASSUME NEW n \in Nodes, main' = n, data' = [data EXCEPT ![n] = Empty],
               whole' = whole \cup {n}
        PROVE  Inv'
    <3>1. data' \in [Nodes -> File] /\ AllLaid'
      BY <1>0, <2>1, <2>2, EmptyFile, DataType
    <3> QED
      BY <1>0, <2>1, <2>2, <3>1, TypeWrite DEF hist, Inv, TypeOK
  <2>3. CASE UNCHANGED <<main, data, whole>>
    BY <1>0, <2>1, <2>3, TypeQuiet DEF hist
  <2> QED
    BY <1>5, <2>2, <2>3 DEF CreateHeader
<1>6. ASSUME NEW p \in Procs, Compress(p) \/ Store(p) PROVE Inv'
  BY <1>0, <1>2, <1>6, AskSteps DEF Compress, Store, hist
<1>7. ASSUME NEW p \in Procs,
             \/ LockFails(p) \/ SearchFails(p) \/ Quit(p) \/ Release(p)
             \/ Exit(p) \/ Crash(p)
      PROVE  Inv'
  <2>1. Moved(p)
    BY <1>7, ResetSteps
  <2>2. /\ UNCHANGED <<files, hist, ops>>
        /\ owner' \in Procs \cup {None} /\ crashes' \in Nat
    BY <1>0, <1>7
       DEF LockFails, SearchFails, Quit, Release, Exit, Crash, Unlocked
  <2> QED
    BY <1>0, <1>2, <2>1, <2>2 DEF hist
<1>8. ASSUME NEW p \in Procs, Unlock(p) PROVE Inv'
  <2>1. Moved(p)
    BY <1>8, UnlockRest
  <2> QED
    BY <1>0, <1>2, <1>8, <2>1 DEF Unlock, Unlocked, hist
<1>9. ASSUME NEW p \in Procs, NEW k \in Keys,
             \/ \E s \in SUBSET Sigs : Import(p, k, s)
             \/ \E op \in {"edit", "delete"} : Open(p, op, k)
      PROVE  Inv'
  <2>1. Moved(p)
    BY <1>9, BeginSteps
  <2>2. UNCHANGED <<files, owner, hist, crashes>> /\ ops' = ops + 1
    BY <1>9 DEF Import, Open, Begins
  <2> QED
    BY <1>0, <1>2, <2>1, <2>2 DEF hist
<1>10. ASSUME NEW p \in Procs, SearchFinds(p) \/ SearchEnds(p) PROVE Inv'
  <2>1. Moved(p)
    BY <1>10, SearchFindsRest, SearchEndsRest
  <2> QED
    BY <1>0, <1>2, <1>10, <2>1 DEF SearchFinds, SearchEnds
<1>11. ASSUME NEW p \in Procs, AgainFinds(p) PROVE Inv'
  <2>1. Moved(p)
    BY <1>11, AgainFindsRest
  <2> QED
    BY <1>0, <1>2, <1>11, <2>1 DEF AgainFinds, hist
<1>12. ASSUME NEW p \in Procs, Delete(p) PROVE Inv'
  <2>1. Moved(p) /\ ~garbled /\ UNCHANGED <<names, whole, owner, ops, crashes>>
    BY <1>12, GotoSteps DEF Delete, At
  <2>2. CASE UNCHANGED <<data, hist>>
    BY <1>0, <2>1, <2>2, TypeQuiet DEF hist, names
  <2>3. CASE /\ main # 0
             /\ data' = [data EXCEPT ![main] = Flagged(@, pr[p].off)]
             /\ garbled' = ~Begin(data[main], pr[p].off)
             /\ stale' = (stale \/ pr[p].node # main)
             /\ loose' = (loose \/ pr[p].lock = "skipped")
    <3>1. main \in Nodes /\ data[main] \in File /\ Laid(data[main])
      BY <1>0, <2>1, <2>3 DEF TypeOK, AllLaid
    <3>2. pr[p].off \in Nat
      BY <1>0, Fields DEF TypeOK
    <3>3. data' \in [Nodes -> File] /\ AllLaid'
      BY <1>0, <2>1, <2>3, <3>1, <3>2, FlaggedFile, DataType
    <3>4. stale' \in BOOLEAN /\ loose' \in BOOLEAN /\ garbled' \in BOOLEAN
      BY <2>3
    <3> QED
      BY <1>0, <2>1, <3>3, <3>4, TypeWrite DEF names
  <2> QED
    BY <1>12, <2>2, <2>3 DEF Delete
<1>13. ASSUME NEW p \in Procs,
              CopyAccess(p) \/ CopyNot(p) \/ CopyFails(p)
       PROVE  Inv'
  <2>1. Moved(p)
    BY <1>13, CopySteps
  <2> QED
    BY <1>0, <1>2, <1>13, <2>1 DEF CopyAccess, CopyNot, CopyFails, hist
<1>14. ASSUME NEW p \in Procs, CopyOpen(p) PROVE Inv'
  <2>1. Moved(p)
    BY <1>14, CopyOpenRest
  <2>2. CASE main # 0
    BY <1>0, <1>2, <1>14, <2>1, <2>2 DEF CopyOpen
  <2>3. CASE main = 0
    <3>1. UNCHANGED <<files, owner, stale, loose, ops, crashes>>
          /\ garbled' \in BOOLEAN /\ ~garbled
      BY <1>14, <2>3 DEF CopyOpen, At
    <3>2. data' \in [Nodes -> File] /\ AllLaid'
      BY <1>0, <3>1 DEF TypeOK, AllLaid, files
    <3> QED
      BY <1>0, <2>1, <3>1, <3>2, TypeWrite DEF files, names, Inv, TypeOK
  <2> QED
    BY <2>2, <2>3
<1>16. ASSUME NEW p \in Procs, CopyTmp(p) PROVE Inv'
  <2>1. PICK n \in Nodes : /\ Truncated(tmp, n) /\ tmp' = n
                           /\ Writes(p, n, "copying")
    BY <1>16 DEF CopyTmp, Writes
  <2>2. /\ Moved(p) /\ ~garbled
        /\ UNCHANGED <<main, bak, owner, stale, loose, ops, crashes>>
    BY <1>16, <2>1, WritesRest DEF CopyTmp, At
  <2> QED
    BY <1>0, <2>1, <2>2, TruncatedType, TypeWrite
<1>18. ASSUME NEW p \in Procs, CopyInsert(p) \/ CopyUpdate(p) PROVE Inv'
  <2>1. UNCHANGED <<names, owner, stale, loose, ops, crashes>>
    BY <1>18 DEF CopyInsert, CopyUpdate
  <2> QED
    BY <1>0, <1>18, <2>1, CopiedType, TypeWrite DEF names
<1>19. ASSUME NEW p \in Procs, Backup(p) \/ Replace(p) PROVE Inv'
  <2>1. Moved(p)
    BY <1>19, CopySteps
  <2> QED
    BY <1>0, <1>19, <2>1, TypeQuiet DEF Backup, Replace, hist
<1>20. ASSUME NEW p \in Procs, CompressNext(p) PROVE Inv'
  <2>0. /\ pr[p].pc = "copying" /\ ~garbled
        /\ UNCHANGED <<names, whole, owner, hist, ops, crashes>>
        /\ Matched(pr[p]) /\ pr[p] \in Process
    BY <1>0, <1>20 DEF CompressNext, At, Inv, TypeOK
  <2>1. pr[p].out \in Nodes
    BY <2>0, Fields DEF Matched
  <2>2. PICK b \in Blob :
           /\ data' = [data EXCEPT ![pr[p].out] =
                         Inserted(WithHeader(@), b.key, b.sigs)]
           /\ Moved(p)
    BY <1>20, CompressNextRest
  <2>3. b.key \in Keys /\ b.sigs \in SUBSET Sigs
    BY DEF Blob
  <2>4. data[pr[p].out] \in File /\ Laid(data[pr[p].out])
    BY <1>0, <2>0, <2>1 DEF TypeOK, AllLaid
  <2> DEFINE g == Inserted(WithHeader(data[pr[p].out]), b.key, b.sigs)
  <2>5. g \in File /\ Laid(g)
    BY <2>3, <2>4, WithHeaderFile, InsertedFile
  <2>6. data' = [data EXCEPT ![pr[p].out] = g]
    BY <2>2
  <2> HIDE DEF g
  <2>7. data' \in [Nodes -> File] /\ AllLaid'
    BY <1>0, <2>0, <2>1, <2>5, <2>6, DataType
  <2> QED
    BY <1>0, <2>0, <2>2, <2>7, TypeWrite DEF names, hist, Inv, TypeOK
<1>21. ASSUME NEW p \in Procs, CompressEnd(p) PROVE Inv'
  <2>0. /\ pr[p].pc = "copying" /\ ~garbled
        /\ UNCHANGED <<names, owner, hist, ops, crashes>>
        /\ Matched(pr[p]) /\ pr[p] \in Process
        /\ Finishes(p, "backup") /\ whole' = whole \cup {pr[p].out}
    BY <1>0, <1>21 DEF CompressEnd, Finishes, At, Inv, TypeOK
  <2>1. pr[p].out \in Nodes
    BY <2>0, Fields DEF Matched
  <2>2. data[pr[p].out] \in File /\ Laid(data[pr[p].out])
    BY <1>0, <2>0, <2>1 DEF TypeOK, AllLaid
  <2>3. data' = [data EXCEPT ![pr[p].out] = WithHeader(data[pr[p].out])]
    BY <1>21 DEF CompressEnd
  <2>4. data' \in [Nodes -> File] /\ AllLaid'
    BY <1>0, <2>0, <2>1, <2>2, <2>3, WithHeaderFile, DataType
  <2>5. Moved(p)
    BY <2>0, FinishMoved
  <2> QED
    BY <1>0, <2>0, <2>1, <2>4, <2>5, TypeWrite DEF names, hist, Inv, TypeOK
<1>22. ASSUME NEW p \in Procs, CompressRemove(p) PROVE Inv'
  <2>1. Finishes(p, "release") /\ pr[p].pc = "copying"
    BY <1>22 DEF CompressRemove, Finishes, At
  <2>2. Moved(p)
    BY <2>1, FinishMoved
  <2> QED
    BY <1>0, <1>22, <2>2, TypeQuiet DEF CompressRemove, hist
<1> QED
  BY <1>1, <1>3, <1>4, <1>5, <1>6, <1>7, <1>8, <1>9, <1>10, <1>11, <1>12,
     <1>13, <1>14, <1>16, <1>18, <1>19, <1>20, <1>21, <1>22
     DEF Next, Goes

\* It holds in every state of every behaviour.
LEMMA Invariance == Spec => []Inv
<1> QED
  BY InitInv, InvStep, PTL DEF Spec

\* What a lock call did not do cannot be undone, and behaviours end with a
\* write whose outcome is unknown.
LEMMA LooseStep == [Next]_vars => /\ loose => loose'
                                  /\ garbled => UNCHANGED vars
<1> DEFINE Goal == (loose => loose') /\ ~garbled
<1> SUFFICES ASSUME [Next]_vars, ~UNCHANGED vars PROVE Goal
  BY DEF vars, hist
<1>1. ASSUME NEW p \in Procs,
             \/ LockTake(p) \/ LockFails(p) \/ Look(p)
             \/ Access(p) \/ CreateLock(p) \/ CreateTest(p)
      PROVE  Goal
  BY <1>1 DEF LockTake, LockFails, Look, Access, CreateLock, CreateTest,
     hist, At
<1>2. ASSUME NEW p \in Procs,
             \/ CreateHeader(p) \/ Compress(p) \/ CompressNext(p)
             \/ CompressEnd(p) \/ CompressRemove(p)
      PROVE  Goal
  BY <1>2 DEF CreateHeader, Compress, CompressNext, CompressEnd,
     CompressRemove, hist, At
<1>3. ASSUME NEW p \in Procs,
             \/ SearchFinds(p) \/ SearchEnds(p) \/ Locate(p) \/ Delete(p)
             \/ CopyAccess(p)
      PROVE  Goal
  <2>1. /\ ~garbled
        /\ \/ \E x \in BOOLEAN : loose' = (loose \/ x)
           \/ loose' = loose
    BY <1>3, Zenon
       DEF SearchFinds, SearchEnds, Locate, Delete, CopyAccess, At, hist
  <2>2. CASE loose' = loose
    BY <2>1, <2>2
  <2>3. ASSUME NEW x \in BOOLEAN, loose' = (loose \/ x) PROVE Goal
    BY <2>1, <2>3
  <2> QED
    BY <2>1, <2>2, <2>3
<1>4. ASSUME NEW p \in Procs,
             SearchFails(p) \/ AgainFinds(p) \/ AgainFails(p)
      PROVE  Goal
  <2>1. ~garbled
    BY <1>4 DEF SearchFails, AgainFinds, AgainFails, At
  <2>2. UNCHANGED hist
    BY <1>4 DEF SearchFails, AgainFinds, AgainFails
  <2> QED
    BY <2>1, <2>2 DEF hist
<1>5. ASSUME NEW p \in Procs,
             Store(p) \/ Quit(p) \/ Exit(p) \/ Crash(p)
      PROVE  Goal
  BY <1>5 DEF Store, Quit, Exit, Crash, hist, At
<1>6. ASSUME NEW p \in Procs, CopyOpen(p) PROVE Goal
  <2>1. ~garbled
    BY <1>6 DEF CopyOpen, At
  <2>2. UNCHANGED loose
    BY <1>6 DEF CopyOpen
  <2> QED
    BY <2>1, <2>2
<1>7. ASSUME NEW p \in Procs,
             \/ CopyTmp(p) \/ CopyNot(p)
             \/ CopyInsert(p) \/ CopyUpdate(p)
      PROVE  Goal
  BY <1>7 DEF CopyTmp, CopyNot, CopyInsert, CopyUpdate, hist, At
<1>8. ASSUME NEW p \in Procs,
             \/ CopyFails(p) \/ Backup(p) \/ Replace(p)
             \/ Unlock(p) \/ Release(p)
      PROVE  Goal
  BY <1>8 DEF CopyFails, Backup, Replace, Unlock, Release, hist, At
<1>9. ASSUME NEW p \in Procs, NEW k \in Keys, NEW s \in SUBSET Sigs,
             Import(p, k, s)
      PROVE  Goal
  BY <1>9 DEF Import, Begins, hist, At
<1>10. ASSUME NEW p \in Procs, NEW k \in Keys, NEW op \in {"edit", "delete"},
              Open(p, op, k)
       PROVE  Goal
  BY <1>10 DEF Open, Begins, hist, At
<1> QED
  BY <1>1, <1>2, <1>3, <1>4, <1>5, <1>6, <1>7, <1>8, <1>9, <1>10
     DEF Next, Goes

-----------------------------------------------------------------------------
(***************************************************************************)
(* The lock and the names                                                  *)
(***************************************************************************)
\* Who has the lock disturbs nobody.
LEMMA OthersOut ==
  ASSUME Guarded, NEW p \in Procs, owner = p, owner' \in {p, None}, Moved(p),
         Fine(p)'
  PROVE  \A q \in Procs : Fine(q)'
<1>1. ASSUME NEW q \in Procs \ {p} PROVE Fine(q)'
  <2>1. owner # q /\ owner' # q /\ Fine(q)
    BY NoneAssumption DEF Guarded
  <2>2. /\ pr[q].pc \notin {"test", "header"} /\ pr[q].pc \notin LockedPcs
        /\ ~(pr[q].pc \in {"search", "again", "copy", "flag"}
             /\ pr[q].lock = "asked")
        /\ ~Imports(pr[q])
    BY <2>1 DEF Fine
  <2>3. pr'[q] = pr[q]
    BY DEF Moved
  <2> QED
    BY <2>1, <2>2, <2>3 DEF Fine, LockedPcs
<1> QED
  BY <1>1

\* Who leaves the files alone disturbs nobody either, unless it takes the
\* lock from another.
Gives(p) == \/ owner' = owner
            \/ owner \in {p, None} /\ owner' \in {p, None}

LEMMA KeptQuiet ==
  ASSUME Guarded, ~garbled, NEW p \in Procs, Gives(p), Moved(p),
         UNCHANGED <<names, data, whole>>, Fine(p)'
  PROVE  Guarded'
<1>1. ASSUME NEW q \in Procs \ {p} PROVE Fine(q)'
  <2>1. Fine(q) /\ pr'[q] = pr[q]
    BY DEF Guarded, Moved
  <2>2. owner = q <=> owner' = q
    BY NoneAssumption DEF Gives
  <2> QED
    BY <2>1, <2>2 DEF Fine, names
<1>2. \A q \in Procs : Fine(q)'
  BY <1>1
<1>3. Distinct' /\ Complete'
  BY DEF Guarded, Distinct, Complete, names
<1> QED
  BY <1>2, <1>3 DEF Guarded

\* Nothing is asked of a process on its way out of an operation.
Leaving == {"locate", "held", "unlock", "release"}

LEMMA FineLeaving ==
  ASSUME NEW p \in Procs, pr'[p].pc \in Leaving,
         pr'[p].pc = "locate" => pr'[p].node = 0
  PROVE  Fine(p)'
  BY DEF Fine, Leaving, LockedPcs, Imports, Idles, Outside

\* A process that is idle, or waits for its user, does not have the lock
\* unless the name is missing.
LEMMA FineIdle ==
  ASSUME NEW p \in Procs,
         pr'[p].pc \in (Started \ {"test", "header"}) \cup {"edit", "delete"},
         owner' = p => main' = 0
  PROVE  Fine(p)'
  BY DEF Fine, Started, LockedPcs, Imports, Idles

\* The same after a failure.
LEMMA FineFails ==
  ASSUME Inv, NEW p \in Procs, Fails(p)
  PROVE  Fine(p)'
<1>1. pr'[p].pc \in Leaving /\ pr'[p].pc # "locate"
  BY FailsRest DEF Inv, Leaving
<1> QED
  BY <1>1, FineLeaving

\* A lock call.
LEMMA KeptAsks ==
  ASSUME Inv, Guarded, NEW p \in Procs, Compress(p) \/ Store(p)
  PROVE  Guarded'
<1> DEFINE r == pr[p]
           s == pr'[p]
<1>0. TypeOK /\ Matched(r) /\ r \in Process /\ Fine(p)
  BY DEF Inv, TypeOK, Guarded
<1>1. /\ Moved(p) /\ ~garbled /\ Gives(p)
      /\ UNCHANGED <<names, data, whole, owner>>
  BY AskSteps DEF Compress, Store, At, files, Gives
<1>2. Matched(s)
  BY <1>1 DEF Moved
<1>3. PICK u \in Process, want \in {"copy", "again", "flag"} :
        /\ Ask(p, u, want) /\ u.node = r.node
        /\ u.op = "import" => r.pc = "store"
  <2>1. CASE Compress(p)
    <3> DEFINE u == [r EXCEPT !.op = "compress"]
    <3>1. u \in Process /\ u.op = "compress" /\ u.node = r.node
      BY <1>0 DEF Process
    <3>2. Ask(p, u, "copy")
      BY <2>1 DEF Compress
    <3> HIDE DEF u
    <3> QED
      BY <3>1, <3>2
  <2>2. CASE Store(p)
    BY <1>0, <2>2 DEF Store, At, Matched
  <2> QED
    BY <2>1, <2>2
<1>4. /\ s.pc = IF main = 0 THEN want ELSE "wait"
      /\ s.lock = IF main = 0 THEN "skipped" ELSE "asked"
      /\ s.op = u.op /\ s.want = want /\ s.node = r.node
  BY <1>0, <1>3, AskRest
<1>5. ASSUME Imports(s) PROVE owner = p /\ r.node = main /\ main # 0
  <2>1. r.pc = "store"
    BY <1>3, <1>4, <1>5 DEF Imports
  <2>2. r.op = "import"
    BY <1>0, <2>1 DEF Matched
  <2> QED
    BY <1>0, <2>1, <2>2 DEF Fine, Imports
<1> HIDE DEF r, s
<1>6. Fine(p)'
  BY <1>1, <1>3, <1>4, <1>5
     DEF Fine, LockedPcs, Idles, Outside, names, s
<1> QED
  BY <1>1, <1>6, KeptQuiet

\* A lock that is taken, or not.
LEMMA KeptLocks ==
  ASSUME Inv, Guarded, NEW p \in Procs,
         LockTake(p) \/ LockFails(p) \/ CreateLock(p)
  PROVE  Guarded'
<1> DEFINE r == pr[p]
           s == pr'[p]
<1>0. TypeOK /\ Matched(r) /\ r \in Process /\ Fine(p)
  BY DEF Inv, TypeOK, Guarded
<1>1. /\ Moved(p) /\ ~garbled
      /\ UNCHANGED <<names, data, whole>>
  BY GotoSteps, ResetSteps DEF LockTake, LockFails, CreateLock, At, files
<1>2. Gives(p)
  BY DEF LockTake, LockFails, CreateLock, Gives
<1>3. CASE LockTake(p)
  <2>0. r.want \in Pcs
    BY <1>0, <1>3 DEF LockTake, At, Matched, Pcs
  <2>1. /\ s.pc = r.want /\ s.op = r.op /\ s.lock = r.lock
        /\ s.node = r.node
    BY <1>0, <1>3, <2>0, GotoRest DEF LockTake
  <2>2. owner' = p /\ r.pc = "wait"
    BY <1>3 DEF LockTake, At
  <2>3. r.want \in {"search", "again", "copy", "flag"} /\ r.lock = "asked"
    BY <1>0, <2>2 DEF Matched
  <2>4. r.op = "import" /\ r.want # "search" => r.node = main /\ main # 0
    BY <1>0, <2>2 DEF Fine, Imports
  <2> HIDE DEF r, s
  <2>5. Fine(p)'
    BY <1>1, <2>1, <2>2, <2>3, <2>4
       DEF Fine, LockedPcs, Imports, Idles, Outside, names, s
  <2> QED
    BY <1>1, <1>2, <2>5, KeptQuiet
<1>4. CASE LockFails(p)
  <2>1. owner' # p
    BY <1>4 DEF LockFails
  <2>2. s.pc \in {"idle", "edit"}
    <3>1. CASE Goto(p, "edit")
      BY <1>0, <3>1, GotoRest DEF Pcs
    <3>2. CASE Reset(p, "idle")
      BY <1>0, <3>2, ResetMoved DEF Started, At0
    <3> QED
      BY <1>4, <3>1, <3>2 DEF LockFails
  <2>3. Fine(p)'
    BY <2>1, <2>2, FineIdle DEF Started
  <2> QED
    BY <1>1, <1>2, <2>3, KeptQuiet
<1>5. CASE CreateLock(p)
  <2>1. owner' = p /\ r.pc = "create"
    BY <1>5 DEF CreateLock, At
  <2>2. s.pc = "test"
    BY <1>0, <1>5, GotoRest DEF CreateLock, Pcs
  <2> HIDE DEF r, s
  <2>3. Fine(p)'
    BY <2>1, <2>2 DEF Fine, LockedPcs, Imports, Idles, Outside, s
  <2> QED
    BY <1>1, <1>2, <2>3, KeptQuiet
<1> QED
  BY <1>3, <1>4, <1>5

\* The beginning of a process.
LEMMA KeptCreates ==
  ASSUME Inv, Guarded, NEW p \in Procs,
         Look(p) \/ Access(p) \/ CreateTest(p) \/ CreateHeader(p)
  PROVE  Guarded'
<1> DEFINE r == pr[p]
           s == pr'[p]
<1>0. TypeOK /\ Matched(r) /\ r \in Process /\ Fine(p)
  BY DEF Inv, TypeOK, Guarded
<1>1. Moved(p) /\ ~garbled
  BY GotoSteps DEF Look, Access, CreateTest, CreateHeader, At
<1>2. CASE Look(p) \/ Access(p)
  <2>1. /\ UNCHANGED <<names, data, whole, owner>> /\ Gives(p)
        /\ r.pc \in {"start", "access"}
    BY <1>2 DEF Look, Access, At, files, Gives
  <2>2. PICK pc \in {"keyring", "access", "opened", "create"} : Goto(p, pc)
    BY <1>2 DEF Look, Access
  <2>3. s.pc = pc
    BY <1>0, <2>2, GotoRest DEF Pcs
  <2>4. owner' = p => main' = 0
    BY <1>0, <2>1 DEF Fine, Idles, Outside, names
  <2>5. Fine(p)'
    BY <2>3, <2>4, FineIdle DEF Started
  <2> QED
    BY <1>1, <2>1, <2>5, KeptQuiet
<1>3. CASE CreateTest(p)
  <2>1. owner = p /\ r.pc = "test"
    BY <1>0, <1>3 DEF CreateTest, At, Fine
  <2>2. ASSUME owner' = None, NEW pc \in {"failed", "opened"}, Goto(p, pc),
               UNCHANGED files
        PROVE  Guarded'
    <3>1. s.pc = pc
      BY <1>0, <2>2, GotoRest DEF Pcs
    <3>2. Fine(p)'
      BY <2>2, <3>1, FineIdle, NoneAssumption DEF Started
    <3> QED
      BY <1>1, <2>1, <2>2, <3>2, KeptQuiet DEF Gives, files
  <2>3. ASSUME main = 0, ~InRename, NEW n \in Nodes, main' = n,
               Truncated(0, n), Goto(p, "header"), UNCHANGED <<bak, tmp, owner>>
        PROVE  Guarded'
    <3>1. Fresh(n) /\ whole' = whole \ {n}
      BY <2>3 DEF Truncated
    <3>2. data'[n] = Void
      BY <1>0, <1>1, <2>3, TruncatedType DEF Inv
    <3>3. n # 0 /\ n # bak /\ n # tmp
      BY <3>1, NodesAssumption DEF Fresh, Free
    <3>4. bak = 0
      BY <2>3 DEF InRename, Guarded, Complete
    <3>5. s.pc = "header"
      BY <1>0, <2>3, GotoRest DEF Pcs
    <3>6. Distinct' /\ Complete'
      BY <2>3, <3>1, <3>2, <3>3, <3>4 DEF Guarded, Distinct, Complete
    <3> HIDE DEF s
    <3>7. Fine(p)'
      BY <2>1, <2>3, <3>2, <3>3, <3>4, <3>5
         DEF Fine, LockedPcs, Imports, Idles, Outside, s
    <3> QED
      BY <1>1, <2>1, <2>3, <3>6, <3>7, OthersOut DEF Guarded
  <2> QED
    BY <1>3, <2>2, <2>3 DEF CreateTest
<1>4. CASE CreateHeader(p)
  <2>1. /\ owner = p /\ main # 0 /\ bak = 0 /\ owner' = None
        /\ UNCHANGED <<bak, tmp>>
    BY <1>0, <1>4 DEF CreateHeader, At, Fine
  <2>2. PICK pc \in {"failed", "opened"} : Goto(p, pc)
    BY <1>4 DEF CreateHeader
  <2>3. s.pc = pc
    BY <1>0, <2>2, GotoRest DEF Pcs
  <2>4. Fine(p)'
    BY <2>1, <2>3, FineIdle, NoneAssumption DEF Started
  <2>5. Distinct' /\ Complete'
    BY <1>4, <2>1 DEF CreateHeader, Guarded, Distinct, Complete
  <2> QED
    BY <1>1, <2>1, <2>4, <2>5, OthersOut DEF Guarded
<1> QED
  BY <1>2, <1>3, <1>4

\* The beginning of an operation.
LEMMA KeptBegins ==
  ASSUME Inv, Guarded, NEW p \in Procs, NEW k \in Keys,
         \/ \E s \in SUBSET Sigs : Import(p, k, s)
         \/ \E op \in {"edit", "delete"} : Open(p, op, k)
  PROVE  Guarded'
<1> DEFINE s == pr'[p]
<1>1. /\ ~garbled /\ UNCHANGED <<names, data, whole, owner>> /\ Gives(p)
  BY DEF Import, Open, Begins, At, files, Gives
<1>2. /\ Moved(p) /\ s.pc \in {"search", "wait"}
      /\ s.pc = "wait" => s.want = "search"
      /\ s.lock = "asked" => s.pc = "wait"
      /\ pr[p].pc = "idle"
  BY BeginSteps
<1>3. owner = p => main = 0
  BY <1>2 DEF Guarded, Fine, Idles, Outside
<1> HIDE DEF s
<1>4. Fine(p)'
  BY <1>1, <1>2, <1>3
     DEF Fine, LockedPcs, Imports, Idles, Outside, names, s
<1> QED
  BY <1>1, <1>2, <1>4, KeptQuiet

\* A search.
LEMMA KeptSearches ==
  ASSUME Inv, Guarded, NEW p \in Procs, ~loose',
         SearchFails(p) \/ SearchFinds(p) \/ SearchEnds(p) \/ Locate(p)
  PROVE  Guarded'
<1> DEFINE r == pr[p]
           s == pr'[p]
<1>0. TypeOK /\ Matched(r) /\ r \in Process /\ Fine(p)
  BY DEF Inv, TypeOK, Guarded
<1>1. ~garbled /\ UNCHANGED <<names, data, whole, owner>> /\ Gives(p)
  BY DEF SearchFails, SearchFinds, SearchEnds, Locate, At, files, Gives
<1>2. CASE SearchFails(p)
  <2>1. main = 0 /\ r.pc = "search" /\ r.node = 0
    BY <1>0, <1>2 DEF SearchFails, At, Matched
  <2>2. CASE Goto(p, "locate")
    <3>1. s.pc = "locate" /\ s.node = 0
      BY <1>0, <2>1, <2>2, GotoRest DEF Pcs
    <3>2. Fine(p)'
      BY <3>1, FineLeaving DEF Leaving
    <3> QED
      BY <1>1, <1>2, <3>2, ResetSteps, KeptQuiet
  <2>3. CASE Reset(p, "idle")
    <3>1. s.pc = "idle"
      BY <1>0, <2>3, ResetMoved DEF Started, At0
    <3>2. Fine(p)'
      BY <1>1, <2>1, <3>1, FineIdle DEF Started, names
    <3> QED
      BY <1>1, <1>2, <3>2, ResetSteps, KeptQuiet
  <2> QED
    BY <1>2, <2>2, <2>3 DEF SearchFails
<1>3. ASSUME SearchFinds(p) \/ SearchEnds(p)
      PROVE  /\ main # 0 /\ r.op = "import" => owner = p
             /\ r.op # "import" => owner # p
  <2>1. main # 0 /\ r.pc = "search" /\ r.lock # "skipped"
    BY <1>3 DEF SearchFinds, SearchEnds, At
  <2>2. r.lock = "asked" => owner = p
    BY <1>0, <2>1 DEF Fine
  <2>3. r.lock # "asked" => owner # p
    BY <1>0, <2>1 DEF Fine, Idles
  <2>4. (r.op = "import" => r.lock = "asked")
        /\ (r.op # "import" => r.lock # "asked")
    BY <1>0, <2>1, Fields DEF Matched
  <2> QED
    BY <2>2, <2>3, <2>4
<1>4. CASE SearchFinds(p)
  <2>1. /\ Moved(p) /\ s.op = r.op /\ s.node = main /\ main # 0
        /\ s.pc \in {"edit", "delete", "release", "store"}
        /\ r.op # "import" => s.pc \in {"edit", "delete"}
        /\ r.op = "import" => s.pc \in {"release", "store"}
    <3>1. r.op \in {"import", "edit", "delete"} /\ main # 0
      BY <1>0, <1>4, Fields DEF SearchFinds, At, Matched, Started
    <3> QED
      BY <1>4, <3>1, SearchFindsRest
  <2>2. CASE r.op = "import"
    <3>1. owner' = p /\ main' = main
      BY <1>1, <1>3, <1>4, <2>1, <2>2 DEF names
    <3> HIDE DEF r, s
    <3>2. Fine(p)'
      BY <2>1, <2>2, <3>1 DEF Fine, LockedPcs, Imports, Idles, Outside, s
    <3> QED
      BY <1>1, <2>1, <3>2, KeptQuiet
  <2>3. CASE r.op # "import"
    <3>1. Fine(p)'
      BY <1>1, <1>3, <1>4, <2>1, <2>3, FineIdle
    <3> QED
      BY <1>1, <2>1, <3>1, KeptQuiet
  <2> QED
    BY <2>2, <2>3
<1>5. CASE SearchEnds(p)
  <2>1. Moved(p) /\ main # 0
    BY <1>5, SearchEndsRest DEF SearchEnds
  <2>2. CASE r.op = "import"
    <3>1. owner' = p /\ main' = main
      BY <1>1, <1>3, <1>5, <2>1, <2>2 DEF names
    <3>2. s.op = "import" /\ s.pc = "locate" /\ s.node = main
      BY <1>5, <2>2, SearchEndsRest
    <3> HIDE DEF r, s
    <3>3. Fine(p)'
      BY <2>1, <3>1, <3>2 DEF Fine, LockedPcs, Imports, Idles, Outside, s
    <3> QED
      BY <1>1, <2>1, <3>3, KeptQuiet
  <2>3. CASE r.op # "import"
    <3>1. s.pc = "idle"
      BY <1>5, <2>3, SearchEndsRest DEF At0
    <3>2. Fine(p)'
      BY <1>1, <1>3, <1>5, <2>3, <3>1, FineIdle DEF Started
    <3> QED
      BY <1>1, <2>1, <3>2, KeptQuiet
  <2> QED
    BY <2>2, <2>3
<1>6. CASE Locate(p)
  <2>0. Moved(p) /\ r.pc = "locate" /\ r.op = "import"
    BY <1>0, <1>6, GotoSteps DEF Locate, At, Matched
  <2>1. CASE main = 0
    <3>1. s.pc = "release"
      BY <1>0, <1>6, <2>1, GotoRest DEF Locate, Pcs
    <3>2. Fine(p)'
      BY <3>1, FineLeaving DEF Leaving
    <3> QED
      BY <1>1, <2>0, <3>2, KeptQuiet
  <2>2. CASE main # 0
    <3>1. r.node # 0
      BY <1>6, <2>2 DEF Locate
    <3>2. owner = p /\ r.node = main
      BY <1>0, <2>0, <3>1 DEF Fine, Imports
    <3>3. s.pc = "store" /\ s.node = r.node /\ s.op = r.op
      BY <1>0, <1>6, <2>2, GotoRest DEF Locate, Pcs
    <3> HIDE DEF r, s
    <3>4. Fine(p)'
      BY <1>1, <2>0, <2>2, <3>2, <3>3
         DEF Fine, LockedPcs, Imports, Idles, Outside, names, s
    <3> QED
      BY <1>1, <2>0, <3>4, KeptQuiet
  <2> QED
    BY <2>1, <2>2
<1> QED
  BY <1>2, <1>4, <1>5, <1>6


\* The steps that leave the files alone.
LEMMA KeptEnds ==
  ASSUME Inv, Guarded, NEW p \in Procs,
         \/ Quit(p) \/ Unlock(p) \/ Release(p) \/ Exit(p) \/ Crash(p)
         \/ AgainFails(p)
  PROVE  Guarded'
<1> DEFINE r == pr[p]
           s == pr'[p]
<1>0. TypeOK /\ Matched(r) /\ r \in Process /\ Fine(p)
  BY DEF Inv, TypeOK, Guarded
<1>1. Moved(p)
  BY ResetSteps, UnlockRest, GotoSteps
<1>2. ~garbled /\ UNCHANGED <<names, data, whole>>
  BY DEF Quit, Unlock, Release, Exit, Crash, AgainFails, At, files
<1>3. Gives(p)
  BY DEF Quit, Unlock, Release, Exit, Crash, AgainFails, Unlocked, Gives
<1>4. Fine(p)'
  <2>1. ASSUME NEW pc \in {"idle", "start"}, Reset(p, pc),
               owner' = p => main' = 0
        PROVE  Fine(p)'
    <3>1. s.pc = pc
      BY <1>0, <2>1, ResetMoved DEF Started, At0
    <3> QED
      BY <2>1, <3>1, FineIdle DEF Started
  <2>2. ASSUME NEW pc \in {"held", "release"}, Goto(p, pc) PROVE Fine(p)'
    <3>1. s.pc = pc
      BY <1>0, <2>2, GotoRest DEF Pcs
    <3> QED
      BY <3>1, FineLeaving DEF Leaving
  <2>3. CASE Quit(p)
    <3>1. CASE r.pc = "held"
      BY <2>2, <2>3, <3>1 DEF Quit
    <3>2. CASE r.pc # "held"
      <4>1. r.pc \in {"edit", "delete"} /\ Reset(p, "idle") /\ owner' = owner
        BY <2>3, <3>2 DEF Quit
      <4>2. owner' = p => main' = 0
        BY <1>0, <1>2, <4>1 DEF Fine, Idles, Outside, names
      <4> QED
        BY <2>1, <4>1, <4>2
    <3> QED
      BY <3>1, <3>2
  <2>4. CASE Unlock(p)
    <3>1. s.pc = "edit" /\ (owner' = p => main' = 0)
      BY <1>2, <2>4, UnlockRest, NoneAssumption DEF Unlock, Unlocked, names
    <3> QED
      BY <3>1, FineIdle
  <2>5. CASE Release(p)
    <3>1. Reset(p, "idle") /\ (owner' = p => main' = 0)
      BY <1>2, <2>5, NoneAssumption DEF Release, Unlocked, names
    <3> QED
      BY <2>1, <3>1
  <2>6. CASE Exit(p) \/ Crash(p)
    <3>1. Reset(p, "start") /\ owner' # p
      BY <2>6, NoneAssumption DEF Exit, Crash
    <3> QED
      BY <2>1, <3>1
  <2>7. CASE AgainFails(p)
    BY <2>2, <2>7 DEF AgainFails
  <2> QED
    BY <2>3, <2>4, <2>5, <2>6, <2>7
<1> QED
  BY <1>1, <1>2, <1>3, <1>4, KeptQuiet

\* A deletion.
LEMMA KeptDeletes ==
  ASSUME Inv, Guarded, NEW p \in Procs, ~loose', Delete(p)
  PROVE  Guarded'
<1> DEFINE r == pr[p]
           s == pr'[p]
<1>0. /\ TypeOK /\ Matched(r) /\ r \in Process /\ Fine(p)
      /\ r.pc = "flag" /\ ~garbled
  BY DEF Inv, TypeOK, Guarded, Delete, At
<1>1. Moved(p)
  BY GotoSteps
<1>2. UNCHANGED <<names, whole, owner>> /\ Goto(p, "release") /\ Gives(p)
  BY DEF Delete, Gives
<1>3. s.pc = "release"
  BY <1>0, <1>2, GotoRest DEF Pcs
<1>4. Fine(p)'
  BY <1>3, FineLeaving DEF Leaving
<1>5. CASE UNCHANGED data
  BY <1>0, <1>1, <1>2, <1>4, <1>5, KeptQuiet
<1>6. CASE /\ main # 0
           /\ data' = [data EXCEPT ![main] = Flagged(@, pr[p].off)]
           /\ loose' = (loose \/ pr[p].lock = "skipped")
  <2>1. owner = p
    <3>1. r.lock # "skipped" /\ r.lock # "none"
      BY <1>0, <1>6 DEF Matched
    <3> QED
      BY <1>0, <3>1, Fields DEF Fine
  <2>2. main \in Nodes
    BY <1>0, <1>6 DEF TypeOK
  <2>3. data'[main] = Flagged(data[main], r.off)
    BY <1>0, <1>6, <2>2 DEF TypeOK
  <2>4. data[main] = Void => data'[main] = Void
    BY <2>3 DEF Flagged, Void
  <2>5. Distinct' /\ Complete'
    BY <1>2, <1>6, <2>4 DEF Guarded, Distinct, Complete, names
  <2> QED
    BY <1>1, <1>2, <1>4, <2>1, <2>5, OthersOut DEF Guarded
<1> QED
  BY <1>5, <1>6 DEF Delete

\* A copy until the file is open.
LEMMA KeptOpens ==
  ASSUME Inv, Guarded, NEW p \in Procs, ~loose',
         AgainFinds(p) \/ CopyAccess(p) \/ CopyOpen(p)
  PROVE  Guarded'
<1> DEFINE r == pr[p]
           s == pr'[p]
<1>0. TypeOK /\ Matched(r) /\ r \in Process /\ Fine(p)
  BY DEF Inv, TypeOK, Guarded
<1>1. ~garbled /\ UNCHANGED <<names, data, whole, owner>> /\ Gives(p)
  BY DEF AgainFinds, CopyAccess, CopyOpen, At, files, Gives
<1>2. CASE AgainFinds(p)
  <2>1. r.pc = "again" /\ (r.lock = "asked" => owner = p)
    BY <1>0, <1>2 DEF AgainFinds, At, Fine
  <2>2. r.op = "import" => owner = p /\ r.node = main /\ main # 0
    BY <1>0, <2>1 DEF Fine, Imports
  <2>3. /\ Moved(p) /\ s.pc = "copy" /\ s.lock = r.lock /\ s.op = r.op
        /\ s.node = IF r.node # 0 THEN r.node ELSE main
    BY <1>2, AgainFindsRest DEF Again
  <2> HIDE DEF r, s
  <2>4. Fine(p)'
    BY <1>1, <2>1, <2>2, <2>3
       DEF Fine, LockedPcs, Imports, Idles, Outside, names, s
  <2> QED
    BY <1>1, <2>3, <2>4, KeptQuiet
<1>3. CASE CopyAccess(p)
  <2>0. Moved(p) /\ r.pc = "copy"
    BY <1>3, CopySteps DEF CopyAccess, At
  <2>1. CASE main = 0
    <3>1. Fine(p)'
      BY <1>3, <2>1, FineFails DEF CopyAccess
    <3> QED
      BY <1>1, <2>0, <3>1, KeptQuiet
  <2>2. CASE main # 0
    <3>1. r.lock # "skipped" /\ r.lock # "none"
      BY <1>0, <1>3, <2>0, <2>2 DEF CopyAccess, Matched
    <3>2. owner = p
      BY <1>0, <2>0, <3>1, Fields DEF Fine
    <3>3. s.pc = "open" /\ s.op = r.op /\ s.node = r.node
      BY <1>0, <1>3, <2>2, GotoRest DEF CopyAccess, Pcs
    <3>4. r.op = "import" => r.node = main
      BY <1>0, <2>0 DEF Fine, Imports
    <3> HIDE DEF r, s
    <3>5. Fine(p)'
      BY <1>1, <2>2, <3>2, <3>3, <3>4
         DEF Fine, LockedPcs, Imports, Idles, Outside, names, s
    <3> QED
      BY <1>1, <2>0, <3>5, KeptQuiet
  <2> QED
    BY <2>1, <2>2
<1>4. CASE CopyOpen(p)
  <2>1. main # 0 /\ owner = p
    BY <1>0, <1>4 DEF CopyOpen, At, Fine, LockedPcs
  <2>2. Moved(p) /\ s.pc = "tmp" /\ s.node = main /\ s.op = r.op
    BY <1>4, <2>1, CopyOpenRest
  <2> HIDE DEF r, s
  <2>3. Fine(p)'
    BY <1>1, <2>1, <2>2
       DEF Fine, LockedPcs, Imports, Idles, Outside, names, s
  <2> QED
    BY <1>1, <2>2, <2>3, KeptQuiet
<1> QED
  BY <1>2, <1>3, <1>4

\* The temporary file is another one than those with the other names.
LEMMA KeptTmp ==
  ASSUME Inv, Guarded, NEW p \in Procs, CopyTmp(p)
  PROVE  Guarded'
<1> DEFINE r == pr[p]
           s == pr'[p]
<1>0. /\ TypeOK /\ AllLaid /\ Matched(r) /\ r \in Process /\ Fine(p)
      /\ r.pc = "tmp" /\ ~garbled
  BY DEF Inv, TypeOK, Guarded, CopyTmp, At
<1>1. /\ owner = p /\ main # 0 /\ r.node = main
      /\ UNCHANGED <<main, bak, owner>>
  BY <1>0 DEF CopyTmp, Fine, LockedPcs
<1>2. PICK n \in Nodes : /\ Truncated(tmp, n) /\ tmp' = n
                         /\ Writes(p, n, "copying")
  BY DEF CopyTmp, Writes
<1>3. n # main /\ n # bak /\ n # 0
  BY <1>1, <1>2, NodesAssumption
     DEF Truncated, Fresh, Free, Guarded, Distinct
<1>4. /\ whole' = whole \ {n}
      /\ \A m \in Nodes \ {n} : data'[m] = data[m]
  BY <1>0, <1>2, TruncatedType DEF Truncated
<1>5. main \in Nodes
  BY <1>0, <1>1 DEF TypeOK
<1>6. /\ Moved(p) /\ s.pc = "copying" /\ s.node = main /\ s.out = n
      /\ s.op = r.op
  BY <1>0, <1>1, <1>2, WritesRest
<1>7. Distinct' /\ Complete'
  BY <1>1, <1>2, <1>3, <1>4, <1>5 DEF Guarded, Distinct, Complete
<1> HIDE DEF r, s
<1>8. Fine(p)'
  BY <1>1, <1>2, <1>6 DEF Fine, LockedPcs, Imports, Idles, Outside, s
<1> QED
  BY <1>1, <1>6, <1>7, <1>8, OthersOut DEF Guarded

\* The new file is written.
LEMMA KeptCopies ==
  ASSUME Inv, Guarded, NEW p \in Procs, CopyInsert(p) \/ CopyUpdate(p)
  PROVE  Guarded'
<1> DEFINE r == pr[p]
           s == pr'[p]
<1>0. TypeOK /\ Fine(p)
  BY DEF Inv, Guarded
<1>1. /\ Moved(p) /\ Finishes(p, "backup") /\ r.out \in Nodes
      /\ r.pc = "copying" /\ whole' = whole \cup {r.out}
      /\ \A m \in Nodes \ {r.out} : data'[m] = data[m]
  BY CopiedType
<1>2. UNCHANGED <<names, owner>>
  BY DEF CopyInsert, CopyUpdate
<1>3. /\ owner = p /\ main # 0 /\ r.node = main /\ tmp = r.out
      /\ tmp # 0 /\ main # tmp
  BY <1>0, <1>1, NodesAssumption DEF Fine, LockedPcs, Guarded, Distinct
<1>4. /\ s.pc = "backup" /\ s.op = r.op /\ s.node = r.node
  BY <1>0, <1>1, FinishRest
<1>5. ~garbled' => main \in whole
  <2>1. data[main] = Void => garbled'
    <3> SUFFICES ASSUME data[main] = Void PROVE garbled'
      OBVIOUS
    <3>1. data[r.node].end = 0 /\ data[r.node].blobs = {}
      BY <1>3 DEF Void
    <3>2. ~CopyUpdate(p)
      BY <3>1 DEF CopyUpdate
    <3>3. garbled' = (data[r.node].end = 0)
      BY <3>2 DEF CopyInsert
    <3> QED
      BY <3>1, <3>3
  <2> QED
    BY <1>3, <2>1 DEF Guarded, Complete
<1>6. main \in Nodes
  BY <1>0, <1>3 DEF TypeOK
<1>7. Distinct' /\ Complete'
  BY <1>1, <1>2, <1>3, <1>6 DEF Guarded, Distinct, Complete, names
<1> HIDE DEF r, s
<1>8. Fine(p)'
  BY <1>1, <1>2, <1>3, <1>4, <1>5
     DEF Fine, LockedPcs, Imports, Idles, Outside, names, s
<1> QED
  BY <1>1, <1>2, <1>3, <1>7, <1>8, OthersOut DEF Guarded

\* A compression writes its file, or removes it.
LEMMA KeptCompresses ==
  ASSUME Inv, Guarded, NEW p \in Procs,
         CompressNext(p) \/ CompressEnd(p) \/ CompressRemove(p)
  PROVE  Guarded'
<1> DEFINE r == pr[p]
           s == pr'[p]
<1>0. /\ TypeOK /\ Fine(p) /\ Matched(r) /\ r \in Process
      /\ r.pc = "copying" /\ r.op = "compress" /\ ~garbled
  BY DEF Inv, TypeOK, Guarded, CompressNext, CompressEnd, CompressRemove, At
<1>1. /\ owner = p /\ main # 0 /\ r.node = main /\ tmp = r.out
      /\ tmp # 0 /\ main # tmp /\ main \in Nodes
  BY <1>0, NodesAssumption
     DEF Fine, LockedPcs, Guarded, Distinct, Matched, TypeOK
<1>2. CASE CompressNext(p)
  <2>1. UNCHANGED <<names, whole, owner>>
    BY <1>2 DEF CompressNext
  <2>2. /\ Moved(p) /\ s.pc = "copying" /\ s.op = r.op /\ s.node = r.node
        /\ s.out = r.out
    BY <1>2, CompressNextRest
  <2>3. data'[main] = data[main]
    BY <1>0, <1>1, <1>2 DEF CompressNext, TypeOK
  <2>4. Distinct' /\ Complete'
    BY <1>1, <2>1, <2>3 DEF Guarded, Distinct, Complete, names
  <2>5. r.op = "compress"
    BY <1>0
  <2> HIDE DEF r, s
  <2>6. Fine(p)'
    BY <1>1, <2>1, <2>2, <2>5
       DEF Fine, LockedPcs, Imports, Idles, Outside, names, s
  <2> QED
    BY <1>1, <2>1, <2>2, <2>4, <2>6, OthersOut DEF Guarded
<1>3. CASE CompressEnd(p)
  <2>1. /\ UNCHANGED <<names, owner>> /\ whole' = whole \cup {r.out}
        /\ Finishes(p, "backup")
    BY <1>3 DEF CompressEnd, Finishes
  <2>2. /\ Moved(p) /\ s.pc = "backup" /\ s.op = r.op /\ s.node = r.node
    BY <1>0, <2>1, FinishMoved, FinishRest
  <2>3. data'[main] = data[main]
    BY <1>0, <1>1, <1>3 DEF CompressEnd, TypeOK
  <2>4. Distinct' /\ Complete'
    BY <1>1, <2>1, <2>3 DEF Guarded, Distinct, Complete, names
  <2>5. main \in whole
    <3>1. data[main] # Void
      BY <1>1, <1>3 DEF CompressEnd, Void
    <3> QED
      BY <1>1, <3>1 DEF Guarded, Complete
  <2>7. r.op = "compress" /\ main \in whole' /\ tmp \in whole'
    BY <1>0, <1>1, <2>1, <2>5
  <2> HIDE DEF r, s
  <2>6. Fine(p)'
    BY <1>1, <2>1, <2>2, <2>7
       DEF Fine, LockedPcs, Imports, Idles, Outside, names, s
  <2> QED
    BY <1>1, <2>1, <2>2, <2>4, <2>6, OthersOut DEF Guarded
<1>4. CASE CompressRemove(p)
  <2>1. /\ UNCHANGED <<main, bak, data, whole, owner>> /\ tmp' = 0
        /\ Finishes(p, "release")
    BY <1>4 DEF CompressRemove, Finishes
  <2>2. Moved(p) /\ s.pc = "release"
    BY <1>0, <2>1, FinishMoved, FinishRest
  <2>3. Fine(p)'
    BY <2>2, FineLeaving DEF Leaving
  <2>4. Distinct' /\ Complete'
    BY <1>1, <2>1 DEF Guarded, Distinct, Complete
  <2> QED
    BY <1>1, <2>1, <2>2, <2>3, <2>4, OthersOut DEF Guarded
<1> QED
  BY <1>2, <1>3, <1>4

\* A copy that goes wrong.
LEMMA KeptFails ==
  ASSUME Inv, Guarded, NEW p \in Procs, ~garbled, Fails(p), Moved(p),
         UNCHANGED <<names, data, whole, owner>>
  PROVE  Guarded'
<1>1. Fine(p)' /\ Gives(p)
  BY FineFails DEF Gives
<1> QED
  BY <1>1, KeptQuiet

\* The renames.
LEMMA KeptRenames ==
  ASSUME Inv, Guarded, NEW p \in Procs,
         Backup(p) \/ Replace(p) \/ CopyNot(p) \/ CopyFails(p)
  PROVE  Guarded'
<1> DEFINE r == pr[p]
           s == pr'[p]
<1>0. TypeOK /\ Fine(p) /\ Moved(p) /\ ~garbled
  BY CopySteps DEF Inv, Guarded, Backup, Replace, CopyNot, CopyFails, At
<1>1. UNCHANGED <<data, whole, owner>>
  BY DEF Backup, Replace, CopyNot, CopyFails, files
<1>2. CASE Fails(p) /\ UNCHANGED names
  BY <1>0, <1>1, <1>2, KeptFails
<1>3. CASE Backup(p) /\ ~(Fails(p) /\ UNCHANGED names)
  <2>1. /\ main # 0 /\ bak' = main /\ main' = 0 /\ tmp' = tmp
        /\ Goto(p, "replace") /\ r.pc = "backup"
    BY <1>3 DEF Backup, names, At
  <2>2. /\ owner = p /\ tmp # 0 /\ tmp \in whole /\ main \in whole
        /\ main # tmp
    BY <1>0, <2>1 DEF Fine, LockedPcs, Guarded, Distinct
  <2>3. s.pc = "replace"
    BY <1>0, <2>1, GotoRest DEF Pcs
  <2>4. Distinct' /\ Complete'
    BY <1>1, <2>1, <2>2 DEF Distinct, Complete
  <2> HIDE DEF r, s
  <2>5. Fine(p)'
    BY <1>1, <2>1, <2>2, <2>3
       DEF Fine, LockedPcs, Imports, Idles, Outside, s
  <2> QED
    BY <1>0, <1>1, <2>2, <2>4, <2>5, OthersOut DEF Guarded
<1>4. CASE Replace(p) /\ ~(Fails(p) /\ UNCHANGED names)
  <2>1. /\ tmp # 0 /\ main' = tmp /\ tmp' = 0 /\ bak' = bak
        /\ Goto(p, "release") /\ r.pc = "replace"
    BY <1>4 DEF Replace, names, At
  <2>2. owner = p /\ {tmp, bak} \subseteq whole /\ bak # 0
    BY <1>0, <2>1 DEF Fine, LockedPcs
  <2>3. s.pc = "release"
    BY <1>0, <2>1, GotoRest DEF Pcs
  <2>4. Distinct' /\ Complete'
    BY <1>1, <2>1, <2>2 DEF Guarded, Distinct, Complete
  <2>5. Fine(p)'
    BY <2>3, FineLeaving DEF Leaving
  <2> QED
    BY <1>0, <1>1, <2>2, <2>4, <2>5, OthersOut DEF Guarded
<1>5. CASE CopyNot(p) \/ CopyFails(p)
  BY <1>2, <1>5 DEF CopyNot, CopyFails, files
<1> QED
  BY <1>2, <1>3, <1>4, <1>5

\* Init has no history.
LEMMA InitKept == Init => Kept
<1> SUFFICES ASSUME Init PROVE Guarded
  BY DEF Kept
<1>1. Distinct /\ Complete
  BY DEF Init, Distinct, Complete
<1>2. ASSUME NEW p \in Procs PROVE Fine(p)
  <2>1. pr[p].pc = "start" /\ owner = None
    BY DEF Init, At0
  <2> QED
    BY <2>1, NoneAssumption
       DEF Fine, LockedPcs, Imports, Idles, Outside
<1> QED
  BY <1>1, <1>2 DEF Guarded

\* As long as all lock calls do what they should, the lock and the names are
\* as they should be.
LEMMA KeptStep == Inv /\ Kept /\ [Next]_vars => Kept'
<1> SUFFICES ASSUME Inv, Kept, [Next]_vars, ~loose' PROVE Guarded'
  BY DEF Kept
<1>0. Guarded
  BY LooseStep DEF Kept
<1>1. CASE UNCHANGED vars
  BY <1>0, <1>1
     DEF vars, files, names, hist, Guarded, Distinct, Complete, Fine
<1>2. ASSUME NEW p \in Procs, Goes(p) PROVE Guarded'
  BY <1>0, <1>2, KeptAsks, KeptLocks, KeptCreates, KeptSearches, KeptEnds,
     KeptDeletes, KeptOpens, KeptTmp, KeptCopies, KeptCompresses,
     KeptRenames
     DEF Goes
<1>3. ASSUME NEW p \in Procs, Store(p) \/ Quit(p) \/ Exit(p) \/ Crash(p)
      PROVE  Guarded'
  BY <1>0, <1>3, KeptAsks, KeptEnds
<1>4. ASSUME NEW p \in Procs, NEW k \in Keys,
             \/ \E s \in SUBSET Sigs : Import(p, k, s)
             \/ \E op \in {"edit", "delete"} : Open(p, op, k)
      PROVE  Guarded'
  BY <1>0, <1>4, KeptBegins
<1> QED
  BY <1>1, <1>2, <1>3, <1>4 DEF Next

\* So they stay.
LEMMA KeptHolds == Spec => []Kept
<1> QED
  BY InitKept, KeptStep, Invariance, PTL DEF Spec

-----------------------------------------------------------------------------
\* Every variable has its type whatever the lock calls do: no file gets two
\* blobs in one place from a write that counts.
THEOREM Types == Spec => []TypeOK
<1>1. Inv => TypeOK
  BY DEF Inv
<1> QED
  BY <1>1, Invariance, PTL

\* The rule of the single writer: from the test of blob_filecopy for the
\* file to the last rename of rename_tmp_file a process has the lock, unless
\* a lock call did nothing.
THEOREM Writer == Spec => []OneWriter
<1>1. Kept => OneWriter
  BY DEF Kept, Guarded, Fine, OneWriter
<1> QED
  BY <1>1, KeptHolds, PTL

\* A process killed at any of its steps leaves a complete file, or both the
\* old and the new one.
THEOREM Crashes == Spec => []CrashSafe
<1>1. Kept => CrashSafe
  BY DEF Kept, Guarded, Complete, CrashSafe
<1> QED
  BY <1>1, KeptHolds, PTL

\* Nobody replaces the file between the search of an import and its copy.
THEOREM Current == Spec => []ImportCurrent
<1>1. Inv /\ Kept => ImportCurrent
  <2> SUFFICES ASSUME Inv, Guarded, NEW p \in Procs,
                      pr[p].op = "import", pr[p].node # 0,
                      pr[p].pc \in Storing
               PROVE  pr[p].node = main
    BY DEF Kept, ImportCurrent
  <2>1. Imports(pr[p])
    BY DEF Imports, Storing
  <2> QED
    BY <2>1 DEF Guarded, Fine
<1> QED
  BY <1>1, KeptHolds, Invariance, PTL

\* The lock is given back: between operations nobody has it, unless the name
\* of the file is missing.
THEOREM LockBack == Spec => []LockGivenBack
<1>1. Kept => LockGivenBack
  BY DEF Kept, Guarded, Fine, Idles, LockGivenBack
<1> QED
  BY <1>1, KeptHolds, PTL
-----------------------------------------------------------------------------
(***************************************************************************)
(* What a search finds in a file                                           *)
(***************************************************************************)
\* A key that has a live blob has a first one.
LEMMA FirstOne ==
  ASSUME NEW f \in File, NEW k, Has(f, k)
  PROVE  \E b \in f.blobs : Found(f, k, b)
<1> DEFINE T == {b.off : b \in {c \in f.blobs : c.key = k /\ c.live}}
           R == OpToRel(<, Nat)
<1>1. \A b \in f.blobs : b.off \in Nat
  BY DEF File, Blob
<1>2. T \subseteq Nat /\ T # {}
  BY <1>1 DEF Has
<1>3. IsWellFoundedOn(R, Nat)
  BY NatLessThanWellFounded
<1>4. \A x, y \in Nat : y < x => <<y, x>> \in R
  BY DEF OpToRel
<1> HIDE DEF R, T
<1>5. PICK x \in T : \A y \in T : ~(<<y, x>> \in R)
  BY <1>2, <1>3, WFMin, Zenon
<1>6. ASSUME NEW y \in T PROVE x <= y
  <2>1. x \in Nat /\ y \in Nat /\ ~(y < x)
    BY <1>2, <1>4, <1>5, <1>6
  <2> QED
    BY <2>1
<1> QED
  BY <1>5, <1>6 DEF T, Found

\* No two blobs of a file begin at the same place.
LEMMA SamePlace ==
  ASSUME NEW f \in File, Laid(f), NEW b \in f.blobs, NEW c \in f.blobs,
         b.off = c.off
  PROVE  b = c
<1>1. \A d \in f.blobs : /\ d.off \in Nat
                          /\ Size(d.sigs) \in Nat /\ Size(d.sigs) >= 1
  BY SizeType DEF File, Blob
<1> QED
  BY <1>1 DEF Laid

\* The key block of a key is that of the blob that is found.
LEMMA ViewFound ==
  ASSUME NEW f \in File, Laid(f), NEW k \in Keys, NEW b \in f.blobs,
         Found(f, k, b)
  PROVE  View(f)[k] = b.sigs
<1>1. Has(f, k)
  BY DEF Found, Has
<1>2. ASSUME NEW c \in f.blobs, Found(f, k, c) PROVE c = b
  <2>1. b.off \in Nat /\ c.off \in Nat
    BY DEF File, Blob
  <2>2. b.off <= c.off /\ c.off <= b.off
    BY <1>2 DEF Found
  <2> QED
    BY <2>1, <2>2, SamePlace
<1>3. (CHOOSE c \in f.blobs : Found(f, k, c)) = b
  BY <1>2
<1> QED
  BY <1>1, <1>3 DEF View

\* A key without a live blob has none.
LEMMA ViewNone ==
  ASSUME NEW f, NEW k \in Keys, ~Has(f, k)
  PROVE  View(f)[k] = None
  BY DEF View

\* A file holds a key block, or none, for every key.
LEMMA ViewType ==
  ASSUME NEW f \in File
  PROVE  View(f) \in [Keys -> (SUBSET Sigs) \cup {None}]
<1>1. ASSUME NEW k \in Keys, Has(f, k)
      PROVE  (CHOOSE b \in f.blobs : Found(f, k, b)).sigs \in SUBSET Sigs
  <2>1. (CHOOSE b \in f.blobs : Found(f, k, b)) \in f.blobs
    BY <1>1, FirstOne
  <2> QED
    BY <2>1 DEF File, Blob
<1> QED
  BY <1>1 DEF View

\* Files in which the same is found hold the same key block.
LEMMA SameFound ==
  ASSUME NEW f \in File, Laid(f), NEW g \in File, Laid(g), NEW k \in Keys,
         \A b \in f.blobs : Found(f, k, b) =>
           \E c \in g.blobs : Found(g, k, c) /\ c.sigs = b.sigs,
         Has(g, k) => Has(f, k)
  PROVE  View(g)[k] = View(f)[k]
<1>1. CASE Has(f, k)
  <2>1. PICK b \in f.blobs : Found(f, k, b)
    BY <1>1, FirstOne
  <2>2. PICK c \in g.blobs : Found(g, k, c) /\ c.sigs = b.sigs
    BY <2>1
  <2> QED
    BY <2>1, <2>2, ViewFound
<1>2. CASE ~Has(f, k)
  BY <1>2, ViewNone
<1> QED
  BY <1>1, <1>2

\* The search for a key that has one live blob at most finds that one.
LEMMA SingleFound ==
  ASSUME NEW f \in File, Single(f), NEW b \in f.blobs, b.live
  PROVE  Found(f, b.key, b)
<1>1. b.off \in Nat
  BY DEF File, Blob
<1> QED
  BY <1>1 DEF Single, Found

-----------------------------------------------------------------------------
(***************************************************************************)
(* What the writers make of a file                                         *)
(***************************************************************************)
\* An insertion adds a key that is not there.
LEMMA InsertedView ==
  ASSUME NEW f \in File, Laid(f), NEW k \in Keys, NEW s \in SUBSET Sigs,
         f.end >= 1, ~Has(f, k)
  PROVE  /\ Replaces(f, Inserted(f, k, s), k, s)
         /\ Single(f) => Single(Inserted(f, k, s))
<1> DEFINE new == [off |-> f.end, key |-> k, sigs |-> s, live |-> TRUE]
           g == Inserted(f, k, s)
<1>1. g \in File /\ Laid(g)
  BY InsertedFile
<1>2. g.blobs = f.blobs \cup {new}
  BY DEF Inserted
<1>3. new.key = k /\ new.live /\ new.sigs = s /\ new.off = f.end
  OBVIOUS
<1>4. f.end \in Nat /\ \A b \in f.blobs : b.off \in Nat
  BY DEF File, Blob
<1>5. \A b \in f.blobs : b.key = k => ~b.live
  BY DEF Has
<1> HIDE DEF g, new
<1>6. Found(g, k, new)
  BY <1>2, <1>3, <1>4, <1>5 DEF Found
<1>7. View(g)[k] = s
  BY <1>1, <1>2, <1>3, <1>6, ViewFound
<1>8. ASSUME NEW j \in Keys, j # k PROVE View(g)[j] = View(f)[j]
  <2>1. \A b \in f.blobs : Found(f, j, b) => b \in g.blobs /\ Found(g, j, b)
    BY <1>2, <1>3, <1>8 DEF Found
  <2>2. Has(g, j) => Has(f, j)
    BY <1>2, <1>3, <1>8 DEF Has
  <2> QED
    BY <1>1, <2>1, <2>2, SameFound
<1>9. Single(f) => Single(g)
  BY <1>2, <1>3, <1>5 DEF Single
<1> QED
  BY <1>7, <1>8, <1>9 DEF Replaces, g

\* An update in the right place replaces the first blob of its key; the
\* blobs behind it stay in their order.
LEMMA UpdatedView ==
  ASSUME NEW f \in File, Laid(f), NEW k \in Keys, NEW s \in SUBSET Sigs,
         NEW old \in f.blobs, Found(f, k, old)
  PROVE  /\ Replaces(f, Updated(f, old.off, old, k, s), k, s)
         /\ Single(f) => Single(Updated(f, old.off, old, k, s))
<1> DEFINE off == old.off
           new == [off |-> off, key |-> k, sigs |-> s, live |-> TRUE]
           shift == off + Size(s) - (old.off + Size(old.sigs))
           Put(b) == [b EXCEPT !.off = @ + shift]
           rest == {c \in f.blobs : c.off > old.off}
           kept == {b \in f.blobs : b.off < off}
           g == Updated(f, off, old, k, s)
<1>1. f.blobs \in SUBSET Blob /\ off \in Nat
  BY DEF File, Blob
<1>2. Size(s) \in Nat /\ Size(s) >= 1
  BY SizeType
<1>3. \A b \in f.blobs : /\ b.off \in Nat
                          /\ Size(b.sigs) \in Nat /\ Size(b.sigs) >= 1
  BY <1>1, SizeType DEF Blob
<1>4. g \in File /\ Laid(g)
  <2>1. NextBlob(f, off, old)
    BY <1>1, <1>3 DEF NextBlob, Found
  <2>2. Begin(f, off)
    BY DEF Begin
  <2> QED
    BY <1>1, <2>1, <2>2, UpdatedFile
<1>5. g.blobs = kept \cup {new} \cup {Put(b) : b \in rest}
  BY DEF Updated
<1>6. new.key = k /\ new.live /\ new.sigs = s /\ new.off = off
  OBVIOUS
<1>7. shift \in Int
  BY <1>1, <1>2, <1>3
<1>8. \A b \in rest : /\ Put(b).off = b.off + shift
                       /\ Put(b).key = b.key /\ Put(b).live = b.live
                       /\ Put(b).sigs = b.sigs
  BY <1>1 DEF Blob
<1>9. \A b \in rest : b.off + shift > off
  BY <1>1, <1>2, <1>3 DEF Laid
<1>10. \A b \in f.blobs : b = old \/ b \in kept \/ b \in rest
  <2>1. ASSUME NEW b \in f.blobs, b \notin kept, b \notin rest PROVE b = old
    <3>1. b.off = old.off
      BY <1>1, <1>3, <2>1
    <3> QED
      BY <3>1, SamePlace
  <2> QED
    BY <2>1
<1>11. /\ \A b \in kept : b \in f.blobs /\ b.off < off
       /\ \A b \in rest : b \in f.blobs /\ b.off > off
  OBVIOUS
<1>12. old.key = k /\ old.live
       /\ \A b \in f.blobs : b.key = k /\ b.live => off <= b.off
  BY DEF Found
<1> HIDE DEF off, new, shift, Put, rest, kept, g
<1>13. Found(g, k, new)
  <2>1. ASSUME NEW c \in g.blobs, c.key = k, c.live PROVE new.off <= c.off
    <3>1. CASE c \in kept
      BY <3>1, <2>1, <1>1, <1>3, <1>11, <1>12
    <3>2. CASE c = new
      BY <3>2, <1>1, <1>6
    <3>3. ASSUME NEW b \in rest, c = Put(b) PROVE new.off <= c.off
      BY <3>3, <1>1, <1>3, <1>6, <1>7, <1>8, <1>9, <1>11
    <3> QED
      BY <1>5, <3>1, <3>2, <3>3
  <2> QED
    BY <1>5, <1>6, <2>1 DEF Found
<1>14. View(g)[k] = s
  BY <1>4, <1>5, <1>6, <1>13, ViewFound
<1>15. ASSUME NEW j \in Keys, j # k PROVE View(g)[j] = View(f)[j]
  <2>1. ASSUME NEW b \in f.blobs, Found(f, j, b)
        PROVE  \E c \in g.blobs : Found(g, j, c) /\ c.sigs = b.sigs
    <3>0. /\ b.key = j /\ b.live
          /\ \A c \in f.blobs : c.key = j /\ c.live => b.off <= c.off
      BY <2>1 DEF Found
    <3>1. CASE b \in kept
      <4>1. ASSUME NEW c \in g.blobs, c.key = j, c.live PROVE b.off <= c.off
        <5>1. CASE c \in kept
          BY <5>1, <4>1, <3>0, <1>11
        <5>2. ASSUME NEW d \in rest, c = Put(d) PROVE b.off <= c.off
          BY <5>2, <3>1, <1>1, <1>3, <1>7, <1>8, <1>9, <1>11
        <5> QED
          BY <1>5, <1>6, <1>15, <4>1, <5>1, <5>2
      <4> QED
        BY <1>5, <3>0, <3>1, <4>1 DEF Found
    <3>2. CASE b \in rest
      <4>1. ASSUME NEW c \in g.blobs, c.key = j, c.live
            PROVE  Put(b).off <= c.off
        <5>1. CASE c \in kept
          BY <5>1, <4>1, <3>0, <3>2, <1>1, <1>3, <1>11
        <5>2. ASSUME NEW d \in rest, c = Put(d) PROVE Put(b).off <= c.off
          <6>1. b.off <= d.off
            BY <5>2, <4>1, <3>0, <1>8, <1>11
          <6> QED
            BY <6>1, <5>2, <3>2, <1>3, <1>7, <1>8, <1>11
        <5> QED
          BY <1>5, <1>6, <1>15, <4>1, <5>1, <5>2
      <4>2. Put(b) \in g.blobs /\ Put(b).key = j /\ Put(b).live
            /\ Put(b).sigs = b.sigs
        BY <1>5, <1>8, <3>0, <3>2
      <4> QED
        BY <4>1, <4>2 DEF Found
    <3> QED
      BY <1>10, <1>12, <1>15, <3>0, <3>1, <3>2
  <2>2. Has(g, j) => Has(f, j)
    BY <1>5, <1>6, <1>8, <1>11, <1>15 DEF Has
  <2> QED
    BY <1>4, <2>1, <2>2, SameFound
<1>16. ASSUME Single(f) PROVE Single(g)
  <2>1. \A b \in f.blobs : b.key = k /\ b.live => b = old
    BY <1>12, <1>16 DEF Single
  <2>2. \A b \in kept \cup rest : b # old
    BY <1>1, <1>3, <1>11 DEF off
  <2>3. \A b \in kept, c \in rest : b # c
    BY <1>1, <1>3, <1>11
  <2>4. ASSUME NEW b \in g.blobs, NEW c \in g.blobs, b.live, c.live,
               b.key = c.key
        PROVE  b = c
    <3>1. CASE b = new \/ c = new
      BY <3>1, <2>1, <2>2, <2>4, <1>5, <1>6, <1>8, <1>11
    <3>2. CASE b # new /\ c # new
      <4>1. CASE b \in kept /\ c \in kept
        BY <4>1, <2>4, <1>11, <1>16 DEF Single
      <4>2. ASSUME b \in kept, NEW d \in rest, c = Put(d) PROVE FALSE
        BY <4>2, <2>3, <2>4, <1>8, <1>11, <1>16 DEF Single
      <4>3. ASSUME c \in kept, NEW d \in rest, b = Put(d) PROVE FALSE
        BY <4>3, <2>3, <2>4, <1>8, <1>11, <1>16 DEF Single
      <4>4. ASSUME NEW d \in rest, b = Put(d), NEW e \in rest, c = Put(e)
            PROVE  b = c
        BY <4>4, <2>4, <1>8, <1>11, <1>16 DEF Single
      <4> QED
        BY <3>2, <1>5, <4>1, <4>2, <4>3, <4>4
    <3> QED
      BY <3>1, <3>2
  <2> QED
    BY <2>4 DEF Single
<1> QED
  BY <1>14, <1>15, <1>16 DEF Replaces, g, off

\* A deletion takes the only live blob of its key away, and no other.
LEMMA FlaggedView ==
  ASSUME NEW f \in File, Laid(f), Single(f), NEW b \in f.blobs,
         b.key \in Keys
  PROVE  /\ Single(Flagged(f, b.off))
         /\ b.live => Replaces(f, Flagged(f, b.off), b.key, None)
         /\ ~b.live => Flagged(f, b.off) = f
<1> DEFINE gone == [b EXCEPT !.live = FALSE]
           g == Flagged(f, b.off)
<1>1. f.blobs \in SUBSET Blob /\ b.off \in Nat /\ f.end \in Nat
  BY DEF File, Blob
<1>2. g.blobs = (f.blobs \ {b}) \cup {gone}
  <2>1. \A c \in f.blobs : c.off = b.off <=> c = b
    BY SamePlace
  <2> QED
    BY <2>1 DEF Flagged, File
<1>3. ~gone.live /\ gone.key = b.key
  BY <1>1 DEF Blob
<1>4. g \in File /\ Laid(g)
  BY <1>1, FlaggedFile
<1>5. ~b.live => gone = b
  BY <1>1 DEF Blob
<1>6. ASSUME ~b.live PROVE g = f
  <2>1. g.blobs = f.blobs
    BY <1>2, <1>5, <1>6
  <2>2. g = [f EXCEPT !.blobs = g.blobs]
    BY <1>4 DEF Flagged, File
  <2> HIDE DEF g
  <2> QED
    BY <2>1, <2>2 DEF File
<1> HIDE DEF gone, g
<1>7. Single(g)
  BY <1>2, <1>3 DEF Single
<1>8. ASSUME b.live PROVE Replaces(f, g, b.key, None)
  <2>1. View(g)[b.key] = None
    BY <1>2, <1>3, <1>8, ViewNone DEF Has, Single
  <2>2. ASSUME NEW j \in Keys, j # b.key PROVE View(g)[j] = View(f)[j]
    <3>1. \A c \in f.blobs :
            Found(f, j, c) => c \in g.blobs /\ Found(g, j, c)
      BY <1>2, <1>3, <2>2 DEF Found
    <3>2. Has(g, j) => Has(f, j)
      BY <1>2, <1>3 DEF Has
    <3> QED
      BY <1>4, <3>1, <3>2, SameFound
  <2> QED
    BY <2>1, <2>2 DEF Replaces
<1> QED
  BY <1>6, <1>7, <1>8 DEF g

\* keybox_compress copies the next live blob: the key of each is new.
LEMMA SqueezedNext ==
  ASSUME NEW f \in File, Laid(f), Single(f), NEW g \in File, Single(g),
         NEW off \in Nat, Squeezed(f, g, off), NEW b \in f.blobs,
         NextBlob(f, off, b)
  PROVE  /\ Single(Inserted(g, b.key, b.sigs))
         /\ Squeezed(f, Inserted(g, b.key, b.sigs), b.off + 1)
<1> DEFINE new == [off |-> g.end, key |-> b.key, sigs |-> b.sigs,
                   live |-> TRUE]
           h == Inserted(g, b.key, b.sigs)
<1>1. h.blobs = g.blobs \cup {new}
  BY DEF Inserted
<1>2. new.key = b.key /\ new.live /\ new.sigs = b.sigs
  OBVIOUS
<1>3. \A c \in f.blobs : c.off \in Nat
  BY DEF File, Blob
<1> HIDE DEF new, h
<1>4. b.live /\ b.off >= off
      /\ \A c \in f.blobs : c.live /\ c.off >= off => b.off <= c.off
  BY DEF NextBlob
<1>5. \A c \in g.blobs : c.key # b.key
  BY <1>3, <1>4 DEF Squeezed, Single
<1>6. Single(h)
  BY <1>1, <1>2, <1>5 DEF Single
<1>7. ASSUME NEW c \in h.blobs
      PROVE  c.live /\ \E d \in f.blobs : /\ d.live /\ d.off < b.off + 1
                                          /\ d.key = c.key /\ d.sigs = c.sigs
  <2>1. CASE c = new
    BY <2>1, <1>2, <1>3, <1>4
  <2>2. CASE c \in g.blobs
    <3>1. c.live
      BY <2>2 DEF Squeezed
    <3>2. PICK d \in f.blobs : /\ d.live /\ d.off < off
                               /\ d.key = c.key /\ d.sigs = c.sigs
      BY <2>2 DEF Squeezed
    <3>3. d.off < b.off + 1
      BY <1>3, <1>4, <3>2
    <3> QED
      BY <3>1, <3>2, <3>3
  <2> QED
    BY <1>1, <2>1, <2>2
<1>8. ASSUME NEW d \in f.blobs, d.live, d.off < b.off + 1
      PROVE  \E c \in h.blobs : d.key = c.key /\ d.sigs = c.sigs
  <2>1. CASE d.off < off
    BY <1>1, <1>8, <2>1 DEF Squeezed
  <2>2. CASE d.off >= off
    <3>1. d.off = b.off
      BY <1>3, <1>4, <1>8, <2>2
    <3>2. d = b
      BY <3>1, SamePlace
    <3> QED
      BY <1>1, <1>2, <3>2
  <2> QED
    BY <1>3, <2>1, <2>2
<1> QED
  BY <1>6, <1>7, <1>8 DEF Squeezed, h

\* When all live blobs are copied, the new file holds what the old one does.
LEMMA SqueezedView ==
  ASSUME NEW f \in File, Laid(f), Single(f), NEW g \in File, Laid(g),
         Single(g), NEW off \in Nat, Squeezed(f, g, off),
         \A b \in f.blobs : b.live => b.off < off
  PROVE  View(g) = View(f)
<1>1. ASSUME NEW k \in Keys PROVE View(g)[k] = View(f)[k]
  <2>1. ASSUME NEW b \in f.blobs, Found(f, k, b)
        PROVE  \E c \in g.blobs : Found(g, k, c) /\ c.sigs = b.sigs
    <3>1. b.live /\ b.key = k
      BY <2>1 DEF Found
    <3>2. PICK c \in g.blobs : c.live /\ b.key = c.key /\ b.sigs = c.sigs
      BY <3>1 DEF Squeezed
    <3> QED
      BY <3>1, <3>2, SingleFound
  <2>2. Has(g, k) => Has(f, k)
    BY DEF Has, Squeezed
  <2> QED
    BY <2>1, <2>2, SameFound
<1> QED
  BY <1>1 DEF View

-----------------------------------------------------------------------------
(***************************************************************************)
(* Each process knows what it works on                                     *)
(***************************************************************************)
\* Nothing is asked of a process between its operations.
LEMMA WorkNone ==
  ASSUME NEW p \in Procs,
         \/ pr'[p].pc \in Started \cup {"search", "edit", "held", "unlock",
                                        "release"}
         \/ pr'[p].pc = "locate" /\ pr'[p].node = 0
  PROVE  Work(p)'
  BY DEF Work, Started, Imports, Reopens

\* Nor of one that failed.
LEMMA WorkFails ==
  ASSUME Inv, NEW p \in Procs, Fails(p)
  PROVE  Work(p)' /\ pr'[p].node = pr[p].node
<1>1. pr'[p].pc \in {"unlock", "release"} /\ pr'[p].node = pr[p].node
  BY FailsRest DEF Inv
<1> QED
  BY <1>1, WorkNone

\* It does not matter to a process what the others think.
LEMMA WorkSame ==
  ASSUME NEW q \in Procs, Work(q), pr'[q] = pr[q], UNCHANGED <<names, data>>,
         stale => stale'
  PROVE  Work(q)'
  BY DEF Work, Ready, names

\* A process that goes on with what it has found.
Follows(r, s) ==
  /\ s.op = r.op /\ s.key = r.key /\ s.new = r.new
  /\ s.node = r.node /\ s.off = r.off
  /\ s.op = "delete" /\ s.pc \in {"delete", "wait", "flag"} =>
       r.pc \in {"delete", "wait", "flag"}
  /\ Imports(s) => Imports(r) /\ r.pc # "backup"
  /\ Reopens(s) => Reopens(r)
  /\ s.pc \notin {"tmp", "copying", "backup", "replace"}

LEMMA WorkFollows ==
  ASSUME NEW p \in Procs, Work(p), Follows(pr[p], pr'[p]),
         UNCHANGED <<names, data, stale>>
  PROVE  Work(p)'
<1> DEFINE r == pr[p]
           s == pr'[p]
<1>1. \A f : Place(r, f) => Place(s, f)
  BY DEF Place, Follows
<1> HIDE DEF r, s
<1>2. Work(p)
  OBVIOUS
<1>3. Follows(r, s)
  BY DEF r, s
<1> QED
  BY <1>1, <1>2, <1>3 DEF Work, Follows, names, r, s

\* The blobs of an open file keep their places and their keys.
Stays(n) == \A b \in data[n].blobs :
              \E c \in data'[n].blobs : c.off = b.off /\ c.key = b.key

\* Who changes files has the lock, and spares the files that are open: the
\* other processes find what they found before.
LEMMA WorkOthers ==
  ASSUME Inv, Guarded, Works, NEW p \in Procs, owner = p, Moved(p),
         \A n \in Nodes : (\E q \in Procs : pr[q].node = n) => Stays(n)
  PROVE  \A q \in Procs \ {p} : Work(q)'
<1> SUFFICES ASSUME NEW q \in Procs \ {p} PROVE Work(q)'
  OBVIOUS
<1> DEFINE r == pr[q]
<1>1. Work(q) /\ Fine(q) /\ pr'[q] = r /\ owner # q
  BY DEF Works, Guarded, Moved
<1>2. r.pc \notin LockedPcs /\ ~Imports(r) /\ ~Reopens(r)
  BY <1>1 DEF Fine, Reopens, LockedPcs
<1>3. r.node # 0 => r.node \in Nodes
  BY Fields DEF Inv, TypeOK
<1>4. ASSUME r.op = "delete", r.pc \in {"delete", "wait", "flag"}
      PROVE  /\ r.node # 0
             /\ \E c \in data'[r.node].blobs : c.off = r.off /\ c.key = r.key
  BY <1>1, <1>3, <1>4 DEF Work, Stays
<1> HIDE DEF r
<1> QED
  BY <1>1, <1>2, <1>4 DEF Work, LockedPcs, r

\* The temporary file that is not replaced, or is removed, is open nowhere.
LEMMA TmpKept ==
  ASSUME Guarded, Works, NEW p \in Procs, Moved(p),
         tmp' \in {tmp, 0}, pr'[p].node \in {pr[p].node, main, 0}
  PROVE  NotTmp'
<1>1. main # 0 => main # tmp
  BY DEF Guarded, Distinct
<1>2. \A q \in Procs : pr[q].node # 0 => pr[q].node # tmp
  BY DEF Works, NotTmp
<1>3. \A q \in Procs \ {p} : pr'[q] = pr[q]
  BY DEF Moved
<1> QED
  BY <1>1, <1>2, <1>3 DEF NotTmp

\* A step that leaves the files alone.
LEMMA SoundQuiet ==
  ASSUME Inv, Guarded, OneBlobPerKey, Works, ~loose, NEW p \in Procs,
         Moved(p), UNCHANGED <<names, data>>, stale => stale',
         pr'[p].node \in {pr[p].node, main, 0}, Work(p)'
  PROVE  OneBlobPerKey' /\ Works'
<1>1. ASSUME NEW q \in Procs \ {p} PROVE Work(q)'
  BY WorkSame DEF Works, Moved
<1>2. NotTmp'
  BY TmpKept DEF names
<1>3. OneBlobPerKey'
  BY DEF OneBlobPerKey, names
<1> QED
  BY <1>1, <1>2, <1>3 DEF Works

\* A step of the writer that changes no file but the temporary one.
LEMMA SoundTmp ==
  ASSUME Inv, Guarded, OneBlobPerKey, Works, ~loose, NEW p \in Procs,
         owner = p, Moved(p), UNCHANGED <<main, stale>>, main # 0,
         NEW n \in Nodes, n # main, tmp' \in {n, 0},
         \A q \in Procs : pr[q].node # n,
         \A m \in Nodes \ {n} : data'[m] = data[m],
         pr'[p].node = pr[p].node, ~garbled' => Work(p)'
  PROVE  OneBlobPerKey' /\ (~garbled' => Works')
<1>1. \A m \in Nodes : (\E q \in Procs : pr[q].node = m) => Stays(m)
  BY DEF Stays
<1>2. \A q \in Procs \ {p} : Work(q)'
  BY <1>1, WorkOthers
<1>3. main \in Nodes /\ data'[main'] = data[main]
  BY DEF Inv, TypeOK
<1>4. OneBlobPerKey'
  BY <1>3 DEF OneBlobPerKey
<1>5. NotTmp'
  BY DEF NotTmp, Moved
<1> QED
  BY <1>2, <1>4, <1>5 DEF Works

\* What a step starts from.
Clean == Inv /\ Guarded /\ OneBlobPerKey /\ Works /\ ~loose

\* A step that begins or ends something, or gives up.
LEMMA SoundEnds ==
  ASSUME Clean, NEW p \in Procs,
         \/ LockFails(p) \/ Look(p) \/ Access(p) \/ CreateLock(p)
         \/ SearchFails(p) \/ AgainFails(p) \/ Quit(p) \/ CopyNot(p)
         \/ CopyFails(p) \/ Unlock(p) \/ Release(p) \/ Exit(p) \/ Crash(p)
  PROVE  OneBlobPerKey' /\ Works'
<1> DEFINE r == pr[p]
           s == pr'[p]
<1>0. /\ Inv /\ Guarded /\ OneBlobPerKey /\ Works /\ ~loose
      /\ TypeOK /\ Matched(r) /\ r \in Process
  BY DEF Clean, Inv, TypeOK
<1>1. Moved(p)
  BY <1>0, GotoSteps, ResetSteps, CopySteps, UnlockRest
<1>2. UNCHANGED <<names, data, stale>>
  BY DEF LockFails, Look, Access, CreateLock, SearchFails, AgainFails, Quit,
     CopyNot, CopyFails, Unlock, Release, Exit, Crash, files, hist
<1>3. Work(p)' /\ s.node \in {r.node, 0}
  <2>1. ASSUME NEW pc \in {"idle", "start"}, Reset(p, pc)
        PROVE  Work(p)' /\ s.node \in {r.node, 0}
    <3>1. s.pc = pc /\ s.node = 0
      BY <1>0, <2>1, ResetMoved DEF Started, At0
    <3> QED
      BY <3>1, WorkNone DEF Started
  <2>2. ASSUME NEW pc \in {"edit", "held", "release", "keyring", "access",
                           "opened", "create", "test"},
               Goto(p, pc)
        PROVE  Work(p)' /\ s.node \in {r.node, 0}
    <3>1. s.pc = pc /\ s.node = r.node
      BY <1>0, <2>2, GotoRest DEF Pcs
    <3> QED
      BY <3>1, WorkNone DEF Started
  <2>3. CASE r.pc = "search" /\ Goto(p, "locate")
    <3>1. s.pc = "locate" /\ s.node = r.node /\ r.node = 0
      BY <1>0, <2>3, GotoRest DEF Pcs, Matched
    <3> QED
      BY <3>1, WorkNone
  <2>4. CASE Fails(p)
    BY <1>0, <2>4, WorkFails
  <2>5. CASE Unlock(p)
    <3>1. s.pc = "edit" /\ s.node = 0
      BY <1>0, <2>5, UnlockRest
    <3> QED
      BY <3>1, WorkNone
  <2>6. CASE LockFails(p) \/ Look(p) \/ Access(p) \/ CreateLock(p)
    BY <2>1, <2>2, <2>6 DEF LockFails, Look, Access, CreateLock
  <2>7. CASE SearchFails(p) \/ AgainFails(p) \/ Quit(p)
    BY <2>1, <2>2, <2>3, <2>7 DEF SearchFails, AgainFails, Quit, At
  <2>8. CASE CopyNot(p) \/ CopyFails(p)
    BY <2>4, <2>8 DEF CopyNot, CopyFails
  <2>9. CASE Release(p) \/ Exit(p) \/ Crash(p)
    BY <2>1, <2>9 DEF Release, Exit, Crash
  <2> QED
    BY <2>5, <2>6, <2>7, <2>8, <2>9
<1> QED
  BY <1>0, <1>1, <1>2, <1>3, SoundQuiet

\* A step that takes a process on with what it has found.
LEMMA SoundFollows ==
  ASSUME Clean, NEW p \in Procs, Moved(p), UNCHANGED <<names, data, stale>>,
         Follows(pr[p], pr'[p])
  PROVE  OneBlobPerKey' /\ Works'
<1>1. Work(p)'
  BY WorkFollows DEF Clean, Works
<1>2. pr'[p].node = pr[p].node
  BY DEF Follows
<1> QED
  BY <1>1, <1>2, SoundQuiet DEF Clean

\* The lock calls.
LEMMA SoundLocks ==
  ASSUME Clean, NEW p \in Procs,
         Compress(p) \/ Store(p) \/ LockTake(p)
  PROVE  OneBlobPerKey' /\ Works'
<1> DEFINE r == pr[p]
           s == pr'[p]
<1>0. /\ Inv /\ TypeOK /\ Matched(r) /\ r \in Process /\ Fine(p)
  BY DEF Clean, Inv, TypeOK, Guarded
<1>1. Moved(p) /\ UNCHANGED <<names, data, stale>>
  BY <1>0, AskSteps, GotoSteps DEF Compress, Store, LockTake, files, hist
<1>2. CASE Compress(p)
  <2> DEFINE u == [r EXCEPT !.op = "compress"]
  <2>1. /\ u \in Process /\ u.op = "compress" /\ u.node = r.node
    BY <1>0 DEF Process
  <2>2. Ask(p, u, "copy")
    BY <1>2 DEF Compress
  <2> HIDE DEF u
  <2>3. s.op = "compress" /\ s.pc \in {"copy", "wait"} /\ s.node = r.node
    BY <1>0, <2>1, <2>2, AskRest
  <2>4. Work(p)'
    BY <2>3 DEF Work, Imports, Reopens
  <2> QED
    BY <1>1, <2>3, <2>4, SoundQuiet DEF Clean
<1>3. CASE Store(p)
  <2>1. PICK want \in {"copy", "again", "flag"} :
          /\ Ask(p, r, want)
          /\ \/ r.pc = "store"
             \/ r.pc \in {"edit", "held"} /\ want = "again"
             \/ r.pc = "delete" /\ want = "flag"
    BY <1>3 DEF Store, At
  <2>2. /\ s.pc \in {want, "wait"} /\ s.want = want
        /\ s.op = r.op /\ s.key = r.key /\ s.new = r.new
        /\ s.node = r.node /\ s.off = r.off
    BY <1>0, <2>1, AskRest
  <2>3. /\ r.pc = "store" => r.op = "import"
        /\ r.pc \in {"edit", "held"} => r.op = "edit"
        /\ r.pc = "delete" => r.op = "delete"
    BY <1>0 DEF Matched
  <2> HIDE DEF r, s
  <2>4. Follows(r, s)
    BY <2>1, <2>2, <2>3 DEF Follows, Imports, Reopens
  <2> QED
    BY <1>1, <2>4, SoundFollows DEF r, s
<1>4. CASE LockTake(p)
  <2>1. r.pc = "wait" /\ Goto(p, r.want)
    BY <1>4 DEF LockTake, At
  <2>2. /\ \/ r.want = "search" /\ r.op = "import"
           \/ r.want = "again" /\ r.op \in {"import", "edit"}
           \/ r.want = "copy" /\ r.op \in {"compress", "import"}
           \/ r.want = "flag" /\ r.op = "delete"
        /\ r.want \in Pcs
    BY <1>0, <2>1 DEF Matched, Pcs
  <2>3. /\ s.pc = r.want /\ s.op = r.op /\ s.key = r.key /\ s.new = r.new
        /\ s.node = r.node /\ s.off = r.off
    BY <1>0, <2>1, <2>2, GotoRest
  <2> HIDE DEF r, s
  <2>4. Follows(r, s)
    BY <2>1, <2>2, <2>3 DEF Follows, Imports, Reopens
  <2> QED
    BY <1>1, <2>4, SoundFollows DEF r, s
<1> QED
  BY <1>2, <1>3, <1>4

\* A keybox is created only where there is none.
LEMMA SoundCreates ==
  ASSUME Clean, NEW p \in Procs, CreateTest(p) \/ CreateHeader(p)
  PROVE  OneBlobPerKey' /\ Works'
<1> DEFINE r == pr[p]
           s == pr'[p]
<1>0. /\ Inv /\ Guarded /\ OneBlobPerKey /\ Works /\ ~loose
      /\ TypeOK /\ AllLaid /\ r \in Process /\ Fine(p)
  BY DEF Clean, Inv, TypeOK, Guarded
<1>1. /\ Moved(p) /\ ~garbled /\ owner = p /\ UNCHANGED <<bak, tmp, stale>>
  BY <1>0, GotoSteps DEF CreateTest, CreateHeader, At, files, names, hist, Fine
<1>2. PICK pc \in {"header", "failed", "opened"} : Goto(p, pc)
  BY DEF CreateTest, CreateHeader
<1>3. s.pc = pc /\ s.node = r.node
  BY <1>0, <1>2, GotoRest DEF Pcs
<1>4. Work(p)'
  BY <1>3, WorkNone DEF Started
<1>5. CASE UNCHANGED <<names, data>>
  BY <1>0, <1>1, <1>3, <1>4, <1>5, SoundQuiet
\* The new file is open nowhere, or holds nothing.
<1>6. ASSUME NEW n \in Nodes, main' = n, data'[n].blobs = {},
             \A m \in Nodes \ {n} : data'[m] = data[m],
             (\A q \in Procs : pr[q].node # n) \/ data[n].blobs = {}
      PROVE  OneBlobPerKey' /\ Works'
  <2>1. \A m \in Nodes : (\E q \in Procs : pr[q].node = m) => Stays(m)
    BY <1>6 DEF Stays
  <2>2. \A q \in Procs \ {p} : Work(q)'
    BY <1>0, <1>1, <2>1, WorkOthers
  <2>3. NotTmp'
    BY <1>0, <1>1, <1>3, TmpKept
  <2>4. OneBlobPerKey'
    BY <1>6 DEF OneBlobPerKey, Single
  <2> QED
    BY <1>4, <2>2, <2>3, <2>4 DEF Works
<1>7. CASE CreateTest(p) /\ ~UNCHANGED <<names, data>>
  <2>1. PICK n \in Nodes : main' = n /\ Truncated(0, n)
    BY <1>7 DEF CreateTest, files
  <2>2. data'[n] = Void /\ \A m \in Nodes \ {n} : data'[m] = data[m]
    BY <1>0, <1>1, <2>1, TruncatedType
  <2>3. \A q \in Procs : pr[q].node # n
    BY <2>1 DEF Truncated, Fresh, Free
  <2> QED
    BY <1>6, <2>1, <2>2, <2>3 DEF Void
<1>8. CASE CreateHeader(p) /\ ~UNCHANGED <<names, data>>
  <2>1. main # 0 /\ data[main] = Void /\ main \in Nodes
    BY <1>0, <1>8 DEF CreateHeader, At, Fine, TypeOK
  <2>2. main' = main /\ data' = [data EXCEPT ![main] = Empty]
    BY <1>1, <1>8, <2>1 DEF CreateHeader, names
  <2>3. data'[main] = Empty /\ \A m \in Nodes \ {main} : data'[m] = data[m]
    BY <1>0, <2>1, <2>2 DEF TypeOK
  <2> QED
    BY <1>6, <2>1, <2>2, <2>3 DEF Void, Empty
<1> QED
  BY <1>5, <1>7, <1>8

\* An operation begins.
LEMMA SoundBegins ==
  ASSUME Clean, NEW p \in Procs, NEW k \in Keys,
         \/ \E s \in SUBSET Sigs : Import(p, k, s)
         \/ \E op \in {"edit", "delete"} : Open(p, op, k)
  PROVE  OneBlobPerKey' /\ Works'
<1> DEFINE s == pr'[p]
<1>1. /\ Moved(p) /\ s.node = 0 /\ s.pc \in {"search", "wait"}
      /\ s.pc = "wait" => s.want = "search"
  BY BeginSteps DEF Clean
<1>2. UNCHANGED <<names, data, stale>>
  BY DEF Import, Open, files, hist
<1>3. Matched(s)
  BY <1>1 DEF Moved
<1>4. s.pc = "wait" => s.op = "import"
  BY <1>1, <1>3 DEF Matched
<1> HIDE DEF s
<1>5. Work(p)'
  BY <1>1, <1>4 DEF Work, Imports, Reopens, s
<1> QED
  BY <1>1, <1>2, <1>5, SoundQuiet DEF Clean, s

\* A search remembers the place of the blob in the file it has opened.
LEMMA SoundSearches ==
  ASSUME Clean, NEW p \in Procs, ~loose',
         SearchFinds(p) \/ SearchEnds(p) \/ Locate(p)
  PROVE  OneBlobPerKey' /\ Works'
<1> DEFINE r == pr[p]
           s == pr'[p]
           f == data[main]
<1>0. /\ Inv /\ TypeOK /\ Matched(r) /\ r \in Process
  BY DEF Clean, Inv, TypeOK
<1>1. ~garbled /\ UNCHANGED <<names, data, stale>>
  BY DEF SearchFinds, SearchEnds, Locate, At, files
<1>2. CASE SearchFinds(p)
  <2>0. main # 0 /\ r.pc = "search"
    BY <1>2 DEF SearchFinds, At
  <2>1. PICK b \in f.blobs :
           /\ b.off >= 1 /\ b \in Blob
           /\ Found(f, r.key, b)
           /\ Moved(p)
           /\ s.op = r.op /\ s.key = r.key /\ s.node = main
           /\ s.off = b.off /\ s.new = r.new \cup b.sigs
           /\ s.pc = CASE r.op = "edit" -> "edit"
                       [] r.op = "delete" -> "delete"
                       [] r.op = "import" ->
                            IF r.new \subseteq b.sigs
                            THEN "release" ELSE "store"
    BY <1>0, <1>1, <1>2, SearchFindsRest
  <2>2. r.op \in {"import", "edit", "delete"}
    BY <1>0, <2>0, Fields DEF Matched, Started
  <2>3. s.pc \in {"edit", "delete", "release", "store"}
    BY <2>1, <2>2
  <2>4. b.key = r.key /\ b.off # 0
    BY <2>1 DEF Found, Blob
  <2>5. Place(s, f)
    BY <2>1 DEF Place
  <2>6. /\ f = data'[main'] /\ main' = main /\ f = data'[s.node]
    BY <1>1, <2>1 DEF names
  <2> HIDE DEF r, s, f
  <2>7. Work(p)'
    BY <2>0, <2>1, <2>3, <2>4, <2>5, <2>6
       DEF Work, Imports, Reopens, s
  <2> QED
    BY <1>1, <2>1, <2>7, SoundQuiet DEF Clean, s
<1>3. CASE SearchEnds(p)
  <2>1. Moved(p) /\ s.off = 0 /\ ~Has(f, r.key) /\ main # 0
    BY <1>0, <1>3, SearchEndsRest DEF SearchEnds
  <2>2. CASE s = At0("idle")
    <3>1. s.pc = "idle" /\ s.node = 0
      BY <2>2 DEF At0
    <3>2. Work(p)'
      BY <3>1, WorkNone DEF Started
    <3> QED
      BY <1>1, <2>1, <3>1, <3>2, SoundQuiet DEF Clean
  <2>3. CASE s.pc = "locate" /\ s.key = r.key /\ s.node = main
    <3>1. f = data'[main']
      BY <1>1 DEF names
    <3> HIDE DEF r, s, f
    <3>2. Work(p)'
      BY <2>1, <2>3, <3>1 DEF Work, Imports, Reopens, s
    <3> QED
      BY <1>1, <2>1, <2>3, <3>2, SoundQuiet DEF Clean, s
  <2> QED
    BY <1>0, <1>3, <2>2, <2>3, SearchEndsRest
<1>4. CASE Locate(p)
  <2>0. Moved(p) /\ r.pc = "locate" /\ r.op = "import"
    BY <1>0, <1>4, GotoSteps DEF Locate, At, Matched
  <2>1. CASE main = 0
    <3>1. s.pc = "release" /\ s.node = r.node
      BY <1>0, <1>4, <2>1, GotoRest DEF Locate, Pcs
    <3>2. Work(p)'
      BY <3>1, WorkNone DEF Started
    <3> QED
      BY <1>1, <2>0, <3>1, <3>2, SoundQuiet DEF Clean
  <2>2. CASE main # 0 /\ r.node # 0
    <3>1. /\ s.pc = "store" /\ s.op = r.op /\ s.key = r.key /\ s.new = r.new
          /\ s.node = r.node /\ s.off = r.off
      BY <1>0, <1>4, <2>2, GotoRest DEF Locate, Pcs
    <3> HIDE DEF r, s
    <3>2. Follows(r, s)
      BY <2>0, <2>2, <3>1 DEF Follows, Imports, Reopens
    <3> QED
      BY <1>1, <2>0, <3>2, SoundFollows DEF r, s
  <2>3. CASE main # 0 /\ r.node = 0
    <3>1. s.pc = "store" /\ s.node = 0 /\ s.op = "import" /\ loose'
      BY <1>0, <1>4, <2>0, <2>3, GotoRest DEF Locate, Pcs
    <3> QED
      BY <3>1
  <2> QED
    BY <2>1, <2>2, <2>3
<1> QED
  BY <1>2, <1>3, <1>4

\* An update looks its key up again, in the file that it has open; an import
\* finds the same blob again.
LEMMA SoundAgain ==
  ASSUME Clean, NEW p \in Procs, AgainFinds(p)
  PROVE  OneBlobPerKey' /\ Works'
<1> DEFINE r == pr[p]
           s == pr'[p]
           n == Again(p)
           f == data[n]
<1>0. /\ Inv /\ TypeOK /\ AllLaid /\ Matched(r) /\ r \in Process /\ Fine(p)
      /\ Work(p)
  BY DEF Clean, Inv, TypeOK, Guarded, Works
<1>1. ~garbled /\ UNCHANGED <<names, data, stale>> /\ r.pc = "again"
  BY DEF AgainFinds, At, files, hist
<1>2. PICK b \in f.blobs :
        /\ n \in Nodes /\ b \in Blob /\ b.off >= 1
        /\ Found(f, r.key, b)
        /\ Moved(p)
        /\ s.op = r.op /\ s.lock = r.lock /\ s.key = r.key /\ s.node = n
        /\ s.off = b.off /\ s.pc = "copy"
        /\ r.op = "import" => s.new = r.new
  BY <1>0, <1>1, AgainFindsRest
<1>3. f \in File /\ Laid(f) /\ n # 0 /\ b.off # 0
  BY <1>0, <1>1, <1>2, NodesAssumption DEF TypeOK, AllLaid, Blob
<1>4. n \in {r.node, main}
  BY DEF Again
<1>5. ASSUME r.op = "import" PROVE n = main /\ Place(s, f)
  <2>1. Imports(r) /\ r.node = main /\ main # 0
    BY <1>0, <1>1, <1>5 DEF Imports, Fine
  <2>2. n = main
    BY <1>4, <2>1
  <2>3. Has(f, r.key)
    BY <1>2 DEF Has, Found
  <2>4. PICK c \in f.blobs : Found(f, r.key, c) /\ c.sigs \subseteq r.new
    BY <1>0, <1>1, <1>5, <2>1, <2>2, <2>3 DEF Work, Place
  <2>5. b.off <= c.off /\ c.off <= b.off /\ b.off \in Nat /\ c.off \in Nat
    BY <1>2, <1>3, <2>4 DEF Found, File, Blob
  <2> HIDE DEF f
  <2>6. b = c
    BY <1>2, <1>3, <2>4, <2>5, SamePlace
  <2> QED
    BY <1>2, <1>5, <2>2, <2>4, <2>6 DEF Place
<1>6. ASSUME r.op = "edit" PROVE Place(s, f)
  BY <1>2, <1>6 DEF Place
<1>7. f = data'[s.node] /\ main' = main /\ r.op \in {"import", "edit"}
  BY <1>0, <1>1, <1>2 DEF names, Matched
<1> HIDE DEF r, s, n, f
<1>8. Work(p)'
  BY <1>1, <1>2, <1>3, <1>5, <1>6, <1>7 DEF Work, Imports, Reopens, s
<1> QED
  BY <1>1, <1>2, <1>4, <1>8, SoundQuiet DEF Clean, r, s

\* A flag changes no place and no key.
LEMMA FlaggedStays ==
  ASSUME NEW f \in File, NEW off
  PROVE  \A b \in f.blobs :
           \E c \in Flagged(f, off).blobs : c.off = b.off /\ c.key = b.key
<1>1. ASSUME NEW b \in f.blobs
      PROVE  \E c \in Flagged(f, off).blobs : c.off = b.off /\ c.key = b.key
  <2>1. b \in Blob
    BY DEF File
  <2>2. (IF b.off = off THEN [b EXCEPT !.live = FALSE] ELSE b)
          \in Flagged(f, off).blobs
    BY DEF Flagged, File
  <2> QED
    BY <2>1, <2>2 DEF Blob
<1> QED
  BY <1>1

\* A deletion, in the file that it looked at, flags the blob of its key.
LEMMA SoundDeletes ==
  ASSUME Clean, NEW p \in Procs, ~loose', Delete(p)
  PROVE  OneBlobPerKey' /\ Works'
<1> DEFINE r == pr[p]
           s == pr'[p]
           f == data[main]
<1>0. /\ Inv /\ Guarded /\ OneBlobPerKey /\ Works /\ ~loose
      /\ TypeOK /\ AllLaid /\ Matched(r) /\ r \in Process /\ Fine(p)
      /\ Work(p) /\ r.pc = "flag" /\ ~garbled
  BY DEF Clean, Inv, TypeOK, Guarded, Works, Delete, At
<1>1. Moved(p) /\ UNCHANGED names /\ Goto(p, "release")
  BY <1>0, GotoSteps DEF Delete
<1>2. s.pc = "release" /\ s.node = r.node
  BY <1>0, <1>1, GotoRest DEF Pcs
<1>3. Work(p)'
  BY <1>2, WorkNone
<1>4. CASE UNCHANGED <<data, hist>>
  BY <1>0, <1>1, <1>2, <1>3, <1>4, SoundQuiet DEF hist
<1>5. ASSUME main # 0, data' = [data EXCEPT ![main] = Flagged(@, r.off)],
             stale' = (stale \/ r.node # main),
             loose' = (loose \/ r.lock = "skipped")
      PROVE  OneBlobPerKey' /\ Works'
  <2>1. r.lock # "skipped" /\ r.lock # "none" /\ r.op = "delete"
    BY <1>0, <1>5 DEF Matched
  <2>2. owner = p
    BY <1>0, <2>1, Fields DEF Fine
  <2>3. main \in Nodes /\ f \in File /\ Laid(f)
    BY <1>0, <1>5 DEF TypeOK, AllLaid
  <2>4. /\ data'[main] = Flagged(f, r.off)
        /\ \A m \in Nodes \ {main} : data'[m] = data[m]
    BY <1>0, <1>5, <2>3 DEF TypeOK
  <2>5. Stays(main)
    BY <2>3, <2>4, FlaggedStays DEF Stays
  <2>6. \A m \in Nodes : Stays(m)
    BY <2>4, <2>5 DEF Stays
  <2>7. \A q \in Procs \ {p} : Work(q)'
    BY <1>0, <1>1, <2>2, <2>6, WorkOthers
  <2>8. NotTmp'
    BY <1>0, <1>1, <1>2, TmpKept DEF names
  <2>9. ASSUME ~stale' PROVE Single(data'[main])
    <3>1. ~stale /\ r.node = main
      BY <1>5, <2>9
    <3>2. Single(f)
      BY <1>0, <1>5, <3>1 DEF OneBlobPerKey
    <3>3. PICK b \in f.blobs : b.off = r.off
      BY <1>0, <2>1, <3>1 DEF Work
    <3>4. b.key \in Keys
      BY <2>3 DEF File, Blob
    <3> HIDE DEF f
    <3> QED
      BY <2>3, <2>4, <3>2, <3>3, <3>4, FlaggedView
  <2>10. OneBlobPerKey'
    BY <1>1, <2>9 DEF OneBlobPerKey, names
  <2> QED
    BY <1>3, <2>7, <2>8, <2>10 DEF Works
<1> QED
  BY <1>4, <1>5 DEF Delete

\* A copy until the file is open.  If it is not the one in which the place
\* was found, this is noted.
LEMMA SoundOpens ==
  ASSUME Clean, NEW p \in Procs, ~loose', CopyAccess(p) \/ CopyOpen(p)
  PROVE  OneBlobPerKey' /\ Works'
<1> DEFINE r == pr[p]
           s == pr'[p]
           f == data[main]
<1>0. /\ Inv /\ TypeOK /\ Matched(r) /\ r \in Process /\ Fine(p) /\ Work(p)
  BY DEF Clean, Inv, TypeOK, Guarded, Works
<1>1. UNCHANGED <<names, data>>
  BY DEF CopyAccess, CopyOpen, files
<1>2. CASE CopyAccess(p)
  <2>0. Moved(p) /\ r.pc = "copy" /\ UNCHANGED stale
    BY <1>0, <1>2, CopySteps DEF CopyAccess, At
  <2>1. CASE main = 0
    <3>1. Work(p)' /\ s.node = r.node
      BY <1>0, <1>2, <2>1, WorkFails DEF CopyAccess
    <3> QED
      BY <1>1, <2>0, <3>1, SoundQuiet DEF Clean
  <2>2. CASE main # 0
    <3>1. r.lock # "skipped" /\ r.lock # "none"
      BY <1>0, <1>2, <2>0, <2>2 DEF CopyAccess, Matched
    <3>2. r.lock = "asked"
      BY <1>0, <3>1, Fields
    <3>3. /\ s.pc = "open" /\ s.op = r.op /\ s.key = r.key /\ s.new = r.new
          /\ s.node = r.node /\ s.off = r.off
      BY <1>0, <1>2, <2>2, GotoRest DEF CopyAccess, Pcs
    <3> HIDE DEF r, s
    <3>4. Follows(r, s)
      BY <2>0, <3>2, <3>3 DEF Follows, Imports, Reopens
    <3> QED
      BY <1>1, <2>0, <3>4, SoundFollows DEF r, s
  <2> QED
    BY <2>1, <2>2
<1>3. CASE CopyOpen(p)
  <2>1. r.pc = "open" /\ main # 0
    BY <1>0, <1>3 DEF CopyOpen, At, Fine
  <2>2. stale' = (stale \/ (r.off # 0 /\ r.node # main))
    BY <1>3, <2>1 DEF CopyOpen
  <2>3. /\ Moved(p) /\ s.op = r.op /\ s.key = r.key /\ s.node = main
        /\ s.off = r.off /\ s.new = r.new /\ s.pc = "tmp"
    BY <1>0, <1>3, <2>1, CopyOpenRest
  <2>4. \A g : Place(r, g) => Place(s, g)
    BY <2>3 DEF Place
  <2>5. ASSUME Imports(s)
        PROVE  IF r.off = 0 THEN ~Has(f, r.key) ELSE Place(r, f)
    <3>1. Imports(r)
      BY <2>1, <2>3, <2>5 DEF Imports
    <3> QED
      BY <1>0, <2>1, <3>1 DEF Work
  <2>6. ASSUME s.op = "edit"
        PROVE  r.off # 0 /\ (~stale' => Place(r, f))
    <3>1. r.off # 0 /\ Place(r, data[r.node])
      BY <1>0, <2>1, <2>3, <2>6 DEF Work, Reopens
    <3> QED
      BY <2>2, <3>1
  <2>7. f = data'[main']
    BY <1>1 DEF names
  <2>8. stale => stale'
    BY <2>2
  <2> HIDE DEF r, s, f
  <2>9. Work(p)'
    BY <2>3, <2>4, <2>5, <2>6, <2>7 DEF Work, Imports, Reopens, s
  <2> QED
    BY <1>1, <2>3, <2>8, <2>9, SoundQuiet DEF Clean, s
<1> QED
  BY <1>2, <1>3

\* A writer that has a temporary file is the only one.
LEMMA Writing ==
  ASSUME Clean, NEW p \in Procs, At(p, "copying")
  PROVE  /\ owner = p /\ main \in Nodes /\ main # 0
         /\ tmp \in Nodes /\ main # tmp /\ pr[p].node = main
         /\ pr[p].out = tmp /\ Work(p) /\ ~garbled
         /\ data[main] \in File /\ Laid(data[main])
         /\ ~stale => Single(data[main])
         /\ data[tmp] \in File /\ Laid(data[tmp])
         /\ \A q \in Procs : pr[q].node # tmp
<1>0. /\ TypeOK /\ AllLaid /\ Matched(pr[p]) /\ pr[p] \in Process /\ Fine(p)
      /\ Work(p) /\ pr[p].pc = "copying" /\ ~garbled
  BY DEF Clean, Inv, TypeOK, Guarded, Works, At
<1>1. owner = p /\ main # 0 /\ pr[p].node = main /\ pr[p].out = tmp
  BY <1>0 DEF Fine, LockedPcs
<1>2. tmp # 0
  BY <1>0, <1>1 DEF Matched
<1>3. main \in Nodes /\ tmp \in Nodes /\ main # tmp
  BY <1>0, <1>1, <1>2 DEF TypeOK, Clean, Guarded, Distinct
<1>4. /\ data[main] \in File /\ Laid(data[main])
      /\ data[tmp] \in File /\ Laid(data[tmp])
  BY <1>0, <1>3 DEF TypeOK, AllLaid
<1>5. ~stale => Single(data[main])
  BY <1>1 DEF Clean, OneBlobPerKey
<1>6. \A q \in Procs : pr[q].node # tmp
  BY <1>2 DEF Clean, Works, NotTmp
<1> QED
  BY <1>0, <1>1, <1>3, <1>4, <1>5, <1>6

\* A copy begins with a void temporary file.
LEMMA SoundMakes ==
  ASSUME Clean, NEW p \in Procs, CopyTmp(p)
  PROVE  OneBlobPerKey' /\ (~garbled' => Works')
<1> DEFINE r == pr[p]
           s == pr'[p]
           f == data[main]
<1>0. /\ Inv /\ Guarded /\ OneBlobPerKey /\ Works /\ ~loose
      /\ TypeOK /\ AllLaid /\ Matched(r) /\ r \in Process /\ Fine(p)
      /\ Work(p) /\ r.pc = "tmp" /\ ~garbled
  BY DEF Clean, Inv, TypeOK, Guarded, Works, CopyTmp, At
<1>1. /\ owner = p /\ main # 0 /\ r.node = main /\ UNCHANGED <<main, stale>>
      /\ main \in Nodes
  BY <1>0 DEF CopyTmp, Fine, LockedPcs, TypeOK
<1>2. PICK n \in Nodes : /\ Truncated(tmp, n) /\ tmp' = n
                         /\ Writes(p, n, "copying")
  BY DEF CopyTmp, Writes
<1>3. n # main /\ \A q \in Procs : pr[q].node # n
  BY <1>0, <1>1, <1>2, NodesAssumption
     DEF Truncated, Fresh, Free, Guarded, Distinct, Works, NotTmp
<1>4. data'[n] = Void /\ \A m \in Nodes \ {n} : data'[m] = data[m]
  BY <1>0, <1>2, TruncatedType
<1>5. /\ Moved(p) /\ s.pc = "copying" /\ s.op = r.op /\ s.key = r.key
      /\ s.node = r.node /\ s.off = r.off /\ s.new = r.new
  BY <1>0, <1>2, WritesRest
<1>6. \A g : Place(r, g) => Place(s, g)
  BY <1>5 DEF Place
<1>7. ASSUME Imports(s)
      PROVE  IF r.off = 0 THEN ~Has(f, r.key) ELSE Place(r, f)
  <2>1. Imports(r)
    BY <1>0, <1>5, <1>7 DEF Imports
  <2> QED
    BY <1>0, <2>1 DEF Work
<1>8. r.op = "edit" => r.off # 0 /\ (~stale => Place(r, f))
  BY <1>0 DEF Work
<1>9. r.op = "compress" => Single(Void) /\ Squeezed(f, Void, r.off)
  <2>1. r.op = "compress" => r.off = 0
    BY <1>0 DEF Matched
  <2>2. \A b \in f.blobs : b.off \in Nat
    BY <1>0, <1>1 DEF TypeOK, File, Blob
  <2> QED
    BY <2>1, <2>2 DEF Single, Squeezed, Void
<1>10. data'[main'] = f /\ data'[tmp'] = Void
  BY <1>1, <1>2, <1>3, <1>4
<1> HIDE DEF r, s, f
<1>11. Work(p)'
  BY <1>1, <1>5, <1>6, <1>7, <1>8, <1>9, <1>10
     DEF Work, Imports, Reopens, s
<1> QED
  BY <1>0, <1>1, <1>2, <1>3, <1>4, <1>5, <1>11, SoundTmp DEF r, s

\* keybox_compress copies one more blob, or gives up.
LEMMA SoundCompresses ==
  ASSUME Clean, NEW p \in Procs, CompressNext(p) \/ CompressRemove(p)
  PROVE  OneBlobPerKey' /\ Works'
<1> DEFINE r == pr[p]
           s == pr'[p]
           f == data[main]
           g == data[tmp]
<1>0. /\ Inv /\ Guarded /\ OneBlobPerKey /\ Works /\ ~loose
      /\ TypeOK /\ At(p, "copying") /\ r.op = "compress" /\ r.pc = "copying"
      /\ r \in Process
  BY DEF Clean, Inv, TypeOK, CompressNext, CompressRemove, At
<1>1. /\ owner = p /\ main \in Nodes /\ main # 0
      /\ tmp \in Nodes /\ main # tmp /\ r.node = main
      /\ r.out = tmp /\ Work(p) /\ ~garbled
      /\ f \in File /\ Laid(f) /\ (~stale => Single(f))
      /\ g \in File /\ Laid(g)
      /\ \A q \in Procs : pr[q].node # tmp
  BY <1>0, Writing
<1>2. CASE CompressNext(p)
  <2>1. UNCHANGED <<main, tmp, stale, garbled>>
    BY <1>2 DEF CompressNext, names, hist
  <2>2. PICK b \in f.blobs :
          /\ b \in Blob /\ NextBlob(f, r.off, b)
          /\ data' = [data EXCEPT ![tmp] =
                        Inserted(WithHeader(@), b.key, b.sigs)]
          /\ Moved(p) /\ s.pc = "copying" /\ s.op = r.op
          /\ s.node = r.node /\ s.off = b.off + 1
    BY <1>0, <1>1, <1>2, CompressNextRest
  <2>3. /\ data'[tmp] = Inserted(WithHeader(g), b.key, b.sigs)
        /\ \A m \in Nodes \ {tmp} : data'[m] = data[m]
    BY <1>0, <1>1, <2>2 DEF TypeOK
  <2> DEFINE h == WithHeader(g)
             i == Inserted(h, b.key, b.sigs)
  <2>4. h \in File /\ h.blobs = g.blobs
    BY <1>1, WithHeaderFile
  <2>5. ASSUME ~stale PROVE Single(i) /\ Squeezed(f, i, b.off + 1)
    <3>1. Single(g) /\ Squeezed(f, g, r.off) /\ Single(f)
      BY <1>0, <1>1, <2>5 DEF Work
    <3> HIDE DEF h, g
    <3>2. Single(h) /\ Squeezed(f, h, r.off)
      BY <2>4, <3>1 DEF Single, Squeezed
    <3>3. r.off \in Nat
      BY <1>0, Fields
    <3> HIDE DEF f
    <3> QED
      BY <1>1, <2>2, <2>4, <3>1, <3>2, <3>3, SqueezedNext
  <2>6. data'[main'] = f /\ data'[tmp'] = i
    BY <1>1, <2>1, <2>3
  <2>7. s.op = "compress" /\ s.pc = "copying" /\ s.off = b.off + 1
    BY <1>0, <2>2
  <2> HIDE DEF r, s, f, g, h, i
  <2>8. Work(p)'
    BY <2>1, <2>5, <2>6, <2>7 DEF Work, Imports, Reopens, s
  <2> QED
    BY <1>0, <1>1, <2>1, <2>2, <2>3, <2>8, SoundTmp DEF r, s
<1>3. CASE CompressRemove(p)
  <2>1. /\ UNCHANGED <<main, data, stale, garbled>> /\ tmp' = 0
        /\ Finishes(p, "release")
    BY <1>3 DEF CompressRemove, Finishes, hist
  <2>2. Moved(p) /\ s.pc = "release" /\ s.node = r.node
    BY <1>0, <2>1, FinishMoved, FinishRest
  <2>3. Work(p)'
    BY <2>2, WorkNone
  <2> QED
    BY <1>0, <1>1, <2>1, <2>2, <2>3, SoundTmp
<1> QED
  BY <1>2, <1>3

\* A file that is complete waits for its name.
LEMMA SoundFinishes ==
  ASSUME Clean, NEW p \in Procs, At(p, "copying"), Finishes(p, "backup"),
         UNCHANGED <<main, tmp, stale>>,
         \A m \in Nodes \ {tmp} : data'[m] = data[m],
         ~garbled' => Ready(pr[p], data[main], data'[tmp])
  PROVE  OneBlobPerKey' /\ (~garbled' => Works')
<1> DEFINE r == pr[p]
           s == pr'[p]
<1>0. /\ Inv /\ Guarded /\ OneBlobPerKey /\ Works /\ ~loose
      /\ TypeOK /\ r.pc = "copying"
  BY DEF Clean, Inv, At
<1>1. /\ owner = p /\ main \in Nodes /\ main # 0
      /\ tmp \in Nodes /\ main # tmp
      /\ \A q \in Procs : pr[q].node # tmp
  BY Writing
<1>2. Moved(p)
  BY <1>0, FinishMoved
<1>3. /\ s.pc = "backup" /\ s.op = r.op /\ s.key = r.key /\ s.new = r.new
      /\ s.node = r.node
  BY <1>0, FinishRest
<1>4. ASSUME ~garbled' PROVE Work(p)'
  <2>1. Ready(r, data[main], data'[tmp])
    BY <1>4
  <2>2. data'[main'] = data[main] /\ tmp' = tmp
    BY <1>1
  <2> HIDE DEF r, s
  <2>3. Ready(pr[p], data[main], data[tmp])'
    BY <1>3, <2>1, <2>2 DEF Ready, s
  <2> QED
    BY <1>3, <2>3 DEF Work, Imports, Reopens, s
<1> QED
  BY <1>0, <1>1, <1>2, <1>3, <1>4, SoundTmp

\* keybox_compress has copied every live blob.
LEMMA SoundCompressed ==
  ASSUME Clean, NEW p \in Procs, CompressEnd(p)
  PROVE  OneBlobPerKey' /\ (~garbled' => Works')
<1> DEFINE r == pr[p]
           f == data[main]
           g == data[tmp]
           h == WithHeader(g)
<1>0. /\ At(p, "copying") /\ r.op = "compress" /\ r.pc = "copying"
      /\ Finishes(p, "backup") /\ UNCHANGED <<main, tmp, stale>>
      /\ TypeOK /\ r \in Process
  BY DEF CompressEnd, At, Finishes, names, hist, Clean, Inv, TypeOK
<1>1. /\ main \in Nodes /\ tmp \in Nodes /\ main # tmp /\ r.node = main
      /\ r.out = tmp /\ Work(p)
      /\ f \in File /\ Laid(f) /\ (~stale => Single(f))
      /\ g \in File /\ Laid(g)
  BY <1>0, Writing
<1>2. /\ \A b \in f.blobs : b.live => b.off < r.off
      /\ data' = [data EXCEPT ![tmp] = WithHeader(@)]
  BY <1>1 DEF CompressEnd
<1>3. data'[tmp] = h /\ \A m \in Nodes \ {tmp} : data'[m] = data[m]
  BY <1>0, <1>1, <1>2 DEF TypeOK
<1>4. h \in File /\ Laid(h) /\ h.blobs = g.blobs
  BY <1>1, WithHeaderFile
<1>5. ASSUME ~stale PROVE Single(h) /\ View(h) = View(f)
  <2>1. Single(g) /\ Squeezed(f, g, r.off) /\ Single(f)
    BY <1>0, <1>1, <1>5 DEF Work
  <2> HIDE DEF h, g
  <2>2. Single(h) /\ Squeezed(f, h, r.off)
    BY <1>4, <2>1 DEF Single, Squeezed
  <2>3. r.off \in Nat
    BY <1>0, Fields
  <2> HIDE DEF f
  <2> QED
    BY <1>1, <1>2, <1>4, <2>1, <2>2, <2>3, SqueezedView
<1> HIDE DEF f, h, r
<1>6. Ready(r, f, h)
  BY <1>0, <1>5 DEF Ready
<1> QED
  BY <1>0, <1>3, <1>6, SoundFinishes DEF r, f

\* An insertion appends a key that is not there.
LEMMA SoundInserts ==
  ASSUME Clean, NEW p \in Procs, CopyInsert(p)
  PROVE  OneBlobPerKey' /\ (~garbled' => Works')
<1> DEFINE r == pr[p]
           f == data[main]
           g == Inserted(f, r.key, r.new)
<1>0. /\ At(p, "copying") /\ r.off = 0 /\ r.pc = "copying"
      /\ UNCHANGED <<main, tmp, stale>> /\ Inv /\ r \in Process
      /\ garbled' = (data[r.node].end = 0)
  BY DEF CopyInsert, At, names, Clean, Inv, TypeOK
<1>1. /\ main \in Nodes /\ tmp \in Nodes /\ r.node = main
      /\ r.out = tmp /\ Work(p) /\ Fine(p)
      /\ f \in File /\ Laid(f) /\ (~stale => Single(f))
  BY <1>0, Writing DEF Clean, Guarded
<1>2. /\ Finishes(p, "backup") /\ r.op \in {"import", "edit"}
      /\ r.key \in Keys
      /\ \A m \in Nodes \ {tmp} : data'[m] = data[m]
      /\ data'[tmp] = Inserted(WithHeader(f), r.key, r.new)
  BY <1>0, <1>1, CopiedType
<1>3. r.op = "import"
  BY <1>0, <1>1, <1>2 DEF Work
<1>4. ~Has(f, r.key)
  <2>1. Imports(r)
    BY <1>0, <1>3 DEF Imports
  <2> QED
    BY <1>0, <1>1, <2>1 DEF Work
<1>5. r.new \in SUBSET Sigs
  BY <1>0, Fields
<1>6. ASSUME ~garbled' PROVE Ready(r, f, data'[tmp])
  <2>1. f.end # 0
    BY <1>0, <1>1, <1>6
  <2>2. f.end \in Nat /\ WithHeader(f) = f
    BY <1>1, <2>1 DEF File, WithHeader
  <2>3. f.end >= 1 /\ data'[tmp] = g
    BY <1>2, <2>1, <2>2
  <2> HIDE DEF f
  <2>4. Replaces(f, g, r.key, r.new) /\ (Single(f) => Single(g))
    BY <1>1, <1>2, <1>4, <1>5, <2>3, InsertedView
  <2>5. View(f)[r.key] = None
    BY <1>2, <1>4, ViewNone
  <2> HIDE DEF g, r
  <2> QED
    BY <1>1, <1>3, <2>3, <2>4, <2>5 DEF Ready
<1> QED
  BY <1>0, <1>1, <1>2, <1>6, SoundFinishes

\* An update that uses a place of the file it copies replaces the blob it
\* has found.
LEMMA SoundUpdates ==
  ASSUME Clean, NEW p \in Procs, CopyUpdate(p)
  PROVE  OneBlobPerKey' /\ (~garbled' => Works')
<1> DEFINE r == pr[p]
           f == data[main]
<1>0. /\ At(p, "copying") /\ r.off # 0 /\ r.pc = "copying"
      /\ UNCHANGED <<main, tmp, stale>> /\ Inv /\ r \in Process /\ TypeOK
  BY DEF CopyUpdate, At, names, Clean, Inv, TypeOK
<1>1. /\ main \in Nodes /\ tmp \in Nodes /\ r.node = main
      /\ r.out = tmp /\ Work(p)
      /\ f \in File /\ Laid(f) /\ (~stale => Single(f))
  BY <1>0, Writing
<1>2. /\ Finishes(p, "backup") /\ r.op \in {"import", "edit"}
      /\ r.key \in Keys
      /\ \A m \in Nodes \ {tmp} : data'[m] = data[m]
  BY <1>0, <1>1, CopiedType
<1>3. PICK old \in f.blobs :
        /\ NextBlob(f, r.off, old)
        /\ Copied(p, Updated(f, r.off, old, r.key, r.new))
  BY <1>1 DEF CopyUpdate
<1> DEFINE g == Updated(f, r.off, old, r.key, r.new)
<1>4. data'[tmp] = g
  BY <1>0, <1>1, <1>3 DEF Copied, TypeOK
<1>5. r.new \in SUBSET Sigs
  BY <1>0, Fields
<1>6. r.op = "import" \/ ~stale => Place(r, f)
  <2>1. r.op = "import" => Imports(r)
    BY <1>0 DEF Imports
  <2> QED
    BY <1>0, <1>1, <1>2, <2>1 DEF Work
<1>7. ASSUME Place(r, f)
      PROVE  /\ old.off = r.off /\ Found(f, r.key, old)
             /\ r.op = "import" => old.sigs \subseteq r.new
  <2>1. PICK b \in f.blobs :
          /\ b.off = r.off /\ Found(f, r.key, b)
          /\ r.op = "import" => b.sigs \subseteq r.new
    BY <1>7 DEF Place
  <2>2. b.off \in Nat /\ old.off \in Nat
    BY <1>1 DEF File, Blob
  <2>3. old.off = b.off
    BY <1>3, <2>1, <2>2 DEF NextBlob, Found
  <2>4. old = b
    BY <1>1, <2>3, SamePlace
  <2> QED
    BY <2>1, <2>4
<1> HIDE DEF f
<1>8. ASSUME Place(r, f)
      PROVE  /\ Replaces(f, g, r.key, r.new)
             /\ Single(f) => Single(g)
             /\ View(f)[r.key] = old.sigs
  BY <1>1, <1>2, <1>5, <1>7, <1>8, UpdatedView, ViewFound
<1> HIDE DEF g, r
<1>9. Ready(r, f, g)
  BY <1>1, <1>2, <1>6, <1>7, <1>8 DEF Ready
<1> QED
  BY <1>0, <1>2, <1>4, <1>9, SoundFinishes DEF f, r

\* The renames.
LEMMA SoundRenames ==
  ASSUME Clean, NEW p \in Procs, Backup(p) \/ Replace(p)
  PROVE  OneBlobPerKey' /\ Works'
<1> DEFINE r == pr[p]
           s == pr'[p]
<1>0. /\ Inv /\ Guarded /\ OneBlobPerKey /\ Works /\ ~loose
      /\ TypeOK /\ Fine(p) /\ Work(p)
  BY DEF Clean, Inv, Guarded, Works
<1>1. /\ Moved(p) /\ UNCHANGED <<data, stale>>
      /\ r.pc \in {"backup", "replace"}
  BY <1>0, CopySteps DEF Backup, Replace, hist, At
<1>2. CASE Fails(p) /\ UNCHANGED names
  BY <1>0, <1>1, <1>2, WorkFails, SoundQuiet
<1>3. owner = p
  BY <1>0, <1>1 DEF Fine, LockedPcs
<1>4. \A q \in Procs \ {p} : Work(q)'
  <2>1. \A m \in Nodes : Stays(m)
    BY <1>1 DEF Stays
  <2> QED
    BY <1>0, <1>1, <1>3, <2>1, WorkOthers
<1>5. CASE Backup(p) /\ ~(Fails(p) /\ UNCHANGED names)
  <2>1. /\ bak' = main /\ main' = 0 /\ tmp' = tmp
        /\ Goto(p, "replace") /\ r.pc = "backup"
    BY <1>5 DEF Backup, names, At
  <2>2. /\ s.pc = "replace" /\ s.op = r.op /\ s.key = r.key
        /\ s.new = r.new /\ s.node = r.node
    BY <1>0, <2>1, GotoRest DEF Pcs
  <2>3. Ready(r, data[main], data[tmp])
    BY <1>0, <2>1 DEF Work
  <2>4. NotTmp'
    BY <1>0, <1>1, <2>1, <2>2, TmpKept
  <2> HIDE DEF r, s
  <2>5. Ready(pr[p], data[bak], data[tmp])'
    BY <1>1, <2>1, <2>2, <2>3 DEF Ready, s
  <2>6. Work(p)'
    BY <2>2, <2>5 DEF Work, Imports, Reopens, s
  <2>7. OneBlobPerKey'
    BY <2>1 DEF OneBlobPerKey
  <2> QED
    BY <1>4, <2>4, <2>6, <2>7 DEF Works
<1>6. CASE Replace(p) /\ ~(Fails(p) /\ UNCHANGED names)
  <2>1. /\ main' = tmp /\ tmp' = 0
        /\ Goto(p, "release") /\ r.pc = "replace"
    BY <1>6 DEF Replace, names, At
  <2>2. s.pc = "release" /\ s.node = r.node
    BY <1>0, <2>1, GotoRest DEF Pcs
  <2>3. ~stale => Single(data[tmp])
    BY <1>0, <2>1 DEF Work, Ready
  <2>4. NotTmp'
    BY <2>1 DEF NotTmp
  <2>5. Work(p)'
    BY <2>2, WorkNone
  <2>6. OneBlobPerKey'
    BY <1>1, <2>1, <2>3 DEF OneBlobPerKey
  <2> QED
    BY <1>4, <2>4, <2>5, <2>6 DEF Works
<1> QED
  BY <1>2, <1>5, <1>6

\* Every step keeps it.
LEMMA SoundStep == Inv /\ Kept /\ Sound /\ [Next]_vars => Sound'
<1> SUFFICES ASSUME Inv, Kept, Sound, [Next]_vars, ~loose'
             PROVE  OneBlobPerKey' /\ (~garbled' => Works')
  BY DEF Sound
<1>0. /\ ~loose /\ Guarded /\ OneBlobPerKey
      /\ garbled => UNCHANGED vars
      /\ ~garbled => Clean
  BY LooseStep DEF Kept, Sound, Clean
<1>1. CASE UNCHANGED vars
  <2>1. OneBlobPerKey'
    BY <1>0, <1>1 DEF OneBlobPerKey, vars, files, names, hist
  <2>2. ASSUME ~garbled' PROVE Works'
    <3>1. Works
      BY <1>0, <1>1, <2>2 DEF Clean, vars, hist
    <3>2. \A q \in Procs : Work(q)'
      BY <1>1, <3>1, WorkSame DEF Works, vars, files, hist
    <3>3. NotTmp'
      BY <1>1, <3>1 DEF Works, NotTmp, vars, files, names
    <3> QED
      BY <3>2, <3>3 DEF Works
  <2> QED
    BY <2>1, <2>2
<1>2. CASE ~UNCHANGED vars
  <2>0. Clean
    BY <1>0, <1>2
  <2>1. ASSUME NEW p \in Procs, Goes(p)
        PROVE  OneBlobPerKey' /\ (~garbled' => Works')
    BY <2>0, <2>1, SoundEnds, SoundLocks, SoundCreates, SoundSearches,
       SoundAgain, SoundDeletes, SoundOpens, SoundMakes,
       SoundCompresses, SoundCompressed, SoundInserts, SoundUpdates,
       SoundRenames
       DEF Goes, Clean
  <2>2. ASSUME NEW p \in Procs, Store(p) \/ Quit(p) \/ Exit(p) \/ Crash(p)
        PROVE  OneBlobPerKey' /\ Works'
    BY <2>0, <2>2, SoundLocks, SoundEnds
  <2>3. ASSUME NEW p \in Procs, NEW k \in Keys,
               \/ \E s \in SUBSET Sigs : Import(p, k, s)
               \/ \E op \in {"edit", "delete"} : Open(p, op, k)
        PROVE  OneBlobPerKey' /\ Works'
    BY <2>0, <2>3, SoundBegins
  <2> QED
    BY <1>2, <2>1, <2>2, <2>3 DEF Next
<1> QED
  BY <1>1, <1>2

\* The first file is sound.
LEMMA InitSound == Init => Sound
<1> SUFFICES ASSUME Init PROVE OneBlobPerKey /\ Works
  BY DEF Sound
<1>1. \A p \in Procs : pr[p].pc = "start" /\ pr[p].node = 0
  BY DEF Init, At0
<1>2. \A p \in Procs : Work(p)
  BY <1>1 DEF Work, Imports, Reopens
<1>3. NotTmp
  BY <1>1 DEF NotTmp
<1>4. OneBlobPerKey
  BY FirstAssumption DEF Init, OneBlobPerKey
<1> QED
  BY <1>2, <1>3, <1>4 DEF Works

\* It holds in every state of every behaviour.
LEMMA SoundHolds == Spec => []Sound
<1> QED
  BY Invariance, KeptHolds, InitSound, SoundStep, PTL DEF Spec

-----------------------------------------------------------------------------
(***************************************************************************)
(* The map that the file is                                                *)
(***************************************************************************)
\* The file that counts is a file.
LEMMA CountsType == Inv => Counts \in File
<1> SUFFICES ASSUME Inv PROVE Counts \in File
  OBVIOUS
<1>1. main # 0 => data[main] \in File
  BY DEF Inv, TypeOK
<1>2. bak # 0 => data[bak] \in File
  BY DEF Inv, TypeOK
<1> QED
  BY <1>1, <1>2, EmptyFile DEF Counts

\* A step that makes a file with the same contents count is none of the map.
LEMMA StoreEqual ==
  ASSUME View(Counts') = View(Counts), UNCHANGED <<stale, loose>>
  PROVE  [Map!Next]_(Map!vars)
<1>1. (stale \/ loose)' = (stale \/ loose)
  OBVIOUS
<1> QED
  BY <1>1 DEF Map!vars

\* Neither is one that leaves the file that counts alone.
LEMMA StoreSame ==
  ASSUME UNCHANGED <<Counts, stale, loose>>
  PROVE  [Map!Next]_(Map!vars)
<1>1. View(Counts') = View(Counts)
  OBVIOUS
<1> HIDE DEF Counts
<1> QED
  BY <1>1, StoreEqual

\* A step that changes one key.
LEMMA StoreChange ==
  ASSUME ~stale, ~loose, UNCHANGED <<stale, loose>>, NEW k \in Keys,
         NEW s \in (SUBSET Sigs) \cup {None}, Replaces(Counts, Counts', k, s)
  PROVE  [Map!Next]_(Map!vars)
<1>0. \A f : View(f) = [j \in Keys |-> View(f)[j]]
  BY DEF View
<1>1. View(Counts') = [View(Counts) EXCEPT ![k] = s]
  BY <1>0 DEF Replaces
<1>2. ~(stale \/ loose) /\ UNCHANGED (stale \/ loose)
  OBVIOUS
<1> HIDE DEF Counts
<1>3. CASE s \in SUBSET Sigs
  BY <1>1, <1>2, <1>3 DEF Map!Next, Map!Write
<1>4. CASE s = None
  BY <1>1, <1>2, <1>4 DEF Map!Next, Map!Remove
<1> QED
  BY <1>3, <1>4

\* Nothing is promised once a place of a replaced file was used, or a lock
\* call did nothing.
LEMMA StoreSpoil ==
  ASSUME Inv', stale' \/ loose'
  PROVE  [Map!Next]_(Map!vars)
<1>1. (Counts \in File)'
  BY CountsType, PTL
<1>2. View(Counts') \in [Keys -> (SUBSET Sigs) \cup {None}]
  BY <1>1, ViewType
<1>3. (stale \/ loose)' = TRUE
  BY DEF Inv, TypeOK
<1> HIDE DEF Counts
<1> QED
  BY <1>2, <1>3 DEF Map!Next, Map!Spoil, Map!Stores

\* The steps that leave the files alone.
LEMMA StoreQuiet ==
  ASSUME Inv, Inv', [Next]_vars, UNCHANGED <<names, data>>,
         stale => stale'
  PROVE  [Map!Next]_(Map!vars)
<1>1. loose => loose'
  BY LooseStep
<1>2. CASE stale' \/ loose'
  BY <1>2, StoreSpoil
<1>3. CASE ~stale' /\ ~loose'
  <2>1. UNCHANGED <<stale, loose>>
    BY <1>1, <1>3 DEF Inv, TypeOK
  <2>2. UNCHANGED Counts
    BY DEF Counts, names
  <2> QED
    BY <2>1, <2>2, StoreSame
<1> QED
  BY <1>2, <1>3

\* A file is created where nothing counts, or gets its header.
LEMMA StoreCreates ==
  ASSUME Clean, Inv', NEW p \in Procs, CreateTest(p) \/ CreateHeader(p),
         ~UNCHANGED <<names, data>>
  PROVE  [Map!Next]_(Map!vars)
<1>0. /\ TypeOK /\ AllLaid /\ ~garbled /\ Fine(p) /\ UNCHANGED <<stale, loose>>
  BY DEF Clean, Inv, Guarded, CreateTest, CreateHeader, At, hist
<1> DEFINE Nothing(f) == \A k \in Keys : ~Has(f, k)
<1>1. Nothing(Void) /\ Nothing(Empty)
  BY DEF Has, Void, Empty
<1>2. ASSUME NEW f, Nothing(f) PROVE View(f) = [k \in Keys |-> None]
  BY <1>2 DEF View
<1>3. CASE CreateTest(p)
  <2>1. /\ main = 0 /\ ~InRename
        /\ \E n \in Nodes : main' = n /\ Truncated(0, n)
    BY <1>3 DEF CreateTest, files
  <2>2. PICK n \in Nodes : main' = n /\ Truncated(0, n)
    BY <2>1
  <2>3. bak = 0
    BY <2>1 DEF InRename, Clean, Guarded, Complete
  <2>4. Counts = Empty /\ Counts' = Void
    <3>1. data'[n] = Void
      BY <1>0, <2>2, TruncatedType
    <3> QED
      BY <2>1, <2>2, <2>3, <3>1, NodesAssumption DEF Counts
  <2> HIDE DEF Nothing
  <2> QED
    BY <1>0, <1>1, <1>2, <2>4, StoreEqual
<1>4. CASE CreateHeader(p)
  <2>1. main # 0 /\ data[main] = Void /\ main \in Nodes
    BY <1>0, <1>4 DEF CreateHeader, At, Fine, TypeOK
  <2>2. UNCHANGED <<bak, tmp>>
    BY <1>4 DEF CreateHeader
  <2>3. main' = main /\ data' = [data EXCEPT ![main] = Empty]
    BY <1>4, <2>1, <2>2 DEF CreateHeader, names
  <2>4. Counts = Void /\ Counts' = Empty
    BY <1>0, <2>1, <2>3 DEF Counts, TypeOK
  <2> HIDE DEF Nothing
  <2> QED
    BY <1>0, <1>1, <1>2, <2>4, StoreEqual
<1> QED
  BY <1>3, <1>4

\* The temporary file does not count.
LEMMA StoreWrites ==
  ASSUME Clean, Inv', NEW p \in Procs,
         \/ CopyTmp(p) \/ CompressNext(p) \/ CompressEnd(p)
         \/ CompressRemove(p) \/ CopyInsert(p) \/ CopyUpdate(p)
  PROVE  [Map!Next]_(Map!vars)
<1>0. /\ Inv /\ TypeOK /\ AllLaid
      /\ UNCHANGED <<main, bak, stale, loose>> /\ ~garbled
  BY DEF Clean, Inv, CopyTmp, CompressNext, CompressEnd, CompressRemove,
     CopyInsert, CopyUpdate, names, hist, At
<1>1. main # 0 /\ data'[main] = data[main]
  <2>1. CASE CopyTmp(p)
    <3>1. Fine(p) /\ pr[p].pc = "tmp"
      BY <2>1 DEF Clean, Guarded, CopyTmp, At
    <3>2. main # 0 /\ main \in Nodes
      BY <1>0, <3>1 DEF Fine, TypeOK
    <3>3. PICK n \in Nodes : Truncated(tmp, n)
      BY <2>1 DEF CopyTmp
    <3>4. n # main
      BY <3>2, <3>3 DEF Truncated, Fresh, Free, Clean, Guarded, Distinct
    <3> QED
      BY <1>0, <3>2, <3>3, <3>4, TruncatedType
  <2>2. CASE ~CopyTmp(p)
    <3>1. At(p, "copying")
      BY <2>2 DEF CompressNext, CompressEnd, CompressRemove, CopyInsert,
         CopyUpdate
    <3>2. /\ main \in Nodes /\ main # 0 /\ tmp \in Nodes /\ main # tmp
          /\ pr[p].out = tmp
      BY <3>1, Writing
    <3>3. CASE CopyInsert(p) \/ CopyUpdate(p)
      BY <1>0, <3>2, <3>3, CopiedType
    <3>4. CASE CompressNext(p) \/ CompressEnd(p) \/ CompressRemove(p)
      BY <1>0, <3>2, <3>4
         DEF CompressNext, CompressEnd, CompressRemove, TypeOK
    <3> QED
      BY <2>2, <3>3, <3>4
  <2> QED
    BY <2>1, <2>2
<1>2. UNCHANGED Counts
  BY <1>0, <1>1 DEF Counts
<1> QED
  BY <1>0, <1>2, StoreSame

\* The first rename changes nothing: what had the name is the backup, which
\* counts.  The second one makes the new file count.
LEMMA StoreRenames ==
  ASSUME Clean, Inv', NEW p \in Procs, Backup(p) \/ Replace(p)
  PROVE  [Map!Next]_(Map!vars)
<1> DEFINE r == pr[p]
<1>0. /\ Inv /\ TypeOK /\ Fine(p) /\ Work(p) /\ ~loose /\ r \in Process
      /\ Matched(r) /\ UNCHANGED <<data, stale, loose>>
  BY DEF Clean, Inv, TypeOK, Guarded, Works, Backup, Replace, hist
<1>1. CASE UNCHANGED main
  <2>1. UNCHANGED Counts
    BY <1>0, <1>1 DEF Counts, Backup, Replace
  <2> QED
    BY <1>0, <2>1, StoreSame
<1>2. CASE Backup(p) /\ main' # main
  <2>1. main # 0 /\ bak' = main /\ main' = 0
    BY <1>2 DEF Backup
  <2>2. UNCHANGED Counts
    BY <1>0, <2>1 DEF Counts
  <2> QED
    BY <1>0, <2>2, StoreSame
<1>3. CASE Replace(p) /\ main' # main
  <2>1. r.pc = "replace" /\ main' = tmp
    BY <1>3 DEF Replace, At
  <2>2. /\ main = 0 /\ bak # 0 /\ tmp # 0
        /\ Ready(r, data[bak], data[tmp])
    BY <1>0, <2>1 DEF Fine, Work
  <2>3. Counts = data[bak] /\ Counts' = data[tmp]
    BY <1>0, <2>1, <2>2 DEF Counts
  <2>4. CASE stale
    BY <1>0, <2>4, StoreSpoil
  <2>5. CASE ~stale /\ r.op = "compress"
    <3>1. View(data[tmp]) = View(data[bak])
      BY <2>2, <2>5 DEF Ready
    <3> QED
      BY <1>0, <2>3, <3>1, StoreEqual
  <2>6. CASE ~stale /\ r.op # "compress"
    <3>1. r.op \in {"import", "edit"} /\ r.key \in Keys
      BY <1>0, <2>1, <2>6, Fields DEF Matched, Started
    <3>2. r.new \in SUBSET Sigs
      BY <1>0, Fields
    <3>3. Replaces(data[bak], data[tmp], r.key, r.new)
      BY <2>2, <2>6, <3>1 DEF Ready
    <3> HIDE DEF r
    <3> QED
      BY <1>0, <2>3, <2>6, <3>1, <3>2, <3>3, StoreChange
  <2> QED
    BY <2>4, <2>5, <2>6
<1> QED
  BY <1>1, <1>2, <1>3

\* A deletion takes its key away.
LEMMA StoreDeletes ==
  ASSUME Clean, Inv', NEW p \in Procs, Delete(p), ~UNCHANGED <<data, hist>>
  PROVE  [Map!Next]_(Map!vars)
<1> DEFINE r == pr[p]
           f == data[main]
<1>0. /\ Inv /\ TypeOK /\ AllLaid /\ Work(p) /\ ~loose /\ ~garbled
      /\ r.pc = "flag" /\ Matched(r) /\ OneBlobPerKey
  BY DEF Clean, Inv, Works, Delete, At
<1>1. /\ main # 0 /\ UNCHANGED names
      /\ data' = [data EXCEPT ![main] = Flagged(@, r.off)]
      /\ stale' = (stale \/ r.node # main)
  BY DEF Delete
<1>2. CASE stale' \/ loose'
  BY <1>2, StoreSpoil
<1>3. CASE ~stale' /\ ~loose'
  <2>1. ~stale /\ r.node = main /\ UNCHANGED <<stale, loose>>
    BY <1>0, <1>1, <1>3 DEF Inv, TypeOK
  <2>2. main \in Nodes /\ f \in File /\ Laid(f) /\ Single(f)
    BY <1>0, <1>1, <2>1 DEF TypeOK, AllLaid, OneBlobPerKey
  <2>3. PICK b \in f.blobs : b.off = r.off
    BY <1>0, <2>1 DEF Work, Matched
  <2>4. Counts = f /\ Counts' = Flagged(f, b.off)
    BY <1>0, <1>1, <2>2, <2>3 DEF Counts, names, TypeOK
  <2>5. b.key \in Keys /\ b.live \in BOOLEAN
    BY <2>2 DEF File, Blob
  <2> HIDE DEF f
  <2>6. CASE b.live
    <3>1. Replaces(f, Flagged(f, b.off), b.key, None)
      BY <2>2, <2>5, <2>6, FlaggedView
    <3> QED
      BY <1>0, <2>1, <2>4, <2>5, <3>1, StoreChange
  <2>7. CASE ~b.live
    <3>1. Flagged(f, b.off) = f
      BY <2>2, <2>5, <2>7, FlaggedView
    <3> QED
      BY <2>1, <2>4, <3>1, StoreSame
  <2> QED
    BY <2>5, <2>6, <2>7
<1> QED
  BY <1>2, <1>3

\* Every step changes one key of the map, or none, until one is spoilt.
LEMMA StoreStep ==
  Inv /\ Inv' /\ Kept /\ Sound /\ [Next]_vars => [Map!Next]_(Map!vars)
<1> SUFFICES ASSUME Inv, Inv', Kept, Sound, [Next]_vars
             PROVE  [Map!Next]_(Map!vars)
  OBVIOUS
<1> DEFINE Goal == [Map!Next]_(Map!vars)
<1>0. /\ loose => loose'
      /\ garbled => UNCHANGED vars
  BY LooseStep
<1>1. CASE loose
  BY <1>0, <1>1, StoreSpoil
<1>2. CASE UNCHANGED vars
  BY <1>2, StoreQuiet DEF vars, files, hist
<1>3. CASE ~loose /\ ~UNCHANGED vars
  <2>0. Clean
    BY <1>0, <1>3 DEF Kept, Sound, Clean
  <2>1. ASSUME UNCHANGED <<names, data>>, stale => stale' PROVE Goal
    BY <2>1, StoreQuiet
  <2> HIDE DEF Goal
  <2>2. ASSUME NEW p \in Procs,
               \/ LockTake(p) \/ LockFails(p) \/ Look(p) \/ Access(p)
               \/ CreateLock(p) \/ Compress(p) \/ SearchFails(p)
               \/ SearchFinds(p) \/ SearchEnds(p) \/ Locate(p)
        PROVE  Goal
    BY <2>1, <2>2
       DEF LockTake, LockFails, Look, Access, CreateLock, Compress,
           SearchFails, SearchFinds, SearchEnds, Locate, files, hist
  <2>3. ASSUME NEW p \in Procs,
               \/ AgainFinds(p) \/ AgainFails(p) \/ CopyAccess(p)
               \/ CopyNot(p) \/ CopyFails(p) \/ Unlock(p) \/ Release(p)
               \/ Store(p) \/ Quit(p) \/ Exit(p) \/ Crash(p)
        PROVE  Goal
    BY <2>1, <2>3
       DEF AgainFinds, AgainFails, CopyAccess, CopyNot, CopyFails, Unlock,
           Release, Store, Quit, Exit, Crash, files, hist
  <2>4. ASSUME NEW p \in Procs, CopyOpen(p) PROVE Goal
    <3>1. UNCHANGED <<names, data>>
      BY <2>4 DEF CopyOpen, files
    <3>2. CASE UNCHANGED stale
      BY <2>1, <3>1, <3>2
    <3>3. ASSUME NEW x \in BOOLEAN, stale' = (stale \/ x) PROVE Goal
      BY <2>1, <3>1, <3>3
    <3> QED
      BY <2>4, <3>2, <3>3, Zenon DEF CopyOpen
  <2>5. ASSUME NEW p \in Procs, CreateTest(p) \/ CreateHeader(p) PROVE Goal
    <3>1. UNCHANGED stale
      BY <2>5 DEF CreateTest, CreateHeader, hist
    <3> QED
      BY <2>0, <2>1, <2>5, <3>1, StoreCreates DEF Goal
  <2>6. ASSUME NEW p \in Procs,
               \/ CopyTmp(p) \/ CompressNext(p) \/ CompressEnd(p)
               \/ CompressRemove(p) \/ CopyInsert(p) \/ CopyUpdate(p)
               \/ Backup(p) \/ Replace(p)
        PROVE  Goal
    BY <2>0, <2>6, StoreWrites, StoreRenames DEF Goal
  <2>7. ASSUME NEW p \in Procs, Delete(p) PROVE Goal
    <3>1. CASE UNCHANGED <<data, hist>>
      BY <2>1, <2>7, <3>1 DEF Delete, hist
    <3> QED
      BY <2>0, <2>7, <3>1, StoreDeletes DEF Goal
  <2>8. ASSUME NEW p \in Procs, NEW k \in Keys,
               \/ \E op \in {"edit", "delete"} : Open(p, op, k)
               \/ \E s \in SUBSET Sigs : Import(p, k, s)
        PROVE  Goal
    BY <2>1, <2>8 DEF Open, Import, files, hist
  <2>9. ASSUME NEW p \in Procs, Goes(p) PROVE Goal
    BY <2>2, <2>3, <2>4, <2>5, <2>6, <2>7, <2>9 DEF Goes
  <2>10. Goal
    BY <1>3, <2>3, <2>8, <2>9 DEF Next
  <2> QED
    BY <2>10 DEF Goal
<1> QED
  BY <1>1, <1>2, <1>3

-----------------------------------------------------------------------------
\* As long as no place of a replaced file was used and no lock call did
\* nothing, a key has one blob: two imports of the same key do not both
\* insert it, and keybox_compress copies a blob once.
THEOREM OneBlob == Spec => []OneBlobPerKey
<1>1. Sound => OneBlobPerKey
  BY DEF Sound, OneBlobPerKey
<1> QED
  BY <1>1, SoundHolds, PTL

\* The file that rename_tmp_file puts in place of the one an import searched
\* has all its keys, and what the imported key had: an import never makes use
\* of a place that is no more, so this holds of spoilt files too.
THEOREM ImportsKeep == Spec => ImportKeeps
<1>1. ASSUME Sound, ~loose, ~garbled, NEW p \in Procs, pr[p].op = "import",
             pr[p].pc = "replace", NEW k \in Keys
      PROVE  LET old == View(data[bak])[k]
                 new == View(data[tmp])[k]
             IN  IF k # pr[p].key THEN new = old
                 ELSE old # None => old \subseteq new
  <2>1. Ready(pr[p], data[bak], data[tmp])
    BY <1>1 DEF Sound, Works, Work
  <2> QED
    BY <1>1, <2>1 DEF Ready, Replaces
<1>2. Inv /\ Sound /\ [Next]_vars =>
        [\A p \in Procs :
           /\ ~loose
           /\ pr[p].op = "import" /\ pr[p].pc = "replace" /\ main' # main
           => \A k \in Keys :
               LET old == View(data[bak])[k]
                   new == View(data[tmp])[k]
               IN  IF k # pr[p].key THEN new = old
                   ELSE old # None => old \subseteq new]_vars
  <2>1. Inv /\ [Next]_vars /\ garbled => UNCHANGED vars
    BY LooseStep
  <2> QED
    BY <1>1, <2>1
<1> QED
  BY <1>2, Invariance, SoundHolds, PTL DEF Spec, ImportKeeps

\* kbx/keybox-update.c implements the map of module KeyStore: the file that
\* counts changes one key at a time or not at all, whoever is killed between
\* the renames, until a place of a replaced file is used or a lock call does
\* nothing.
THEOREM KeyStoreImplemented == Spec => ImplementsKeyStore
<1>1. Init => Map!Init
  <2> SUFFICES ASSUME Init PROVE Map!Init
    OBVIOUS
  <2>1. Inv /\ ~stale /\ ~loose
    BY InitInv DEF Init
  <2>2. View(Counts) \in [Keys -> (SUBSET Sigs) \cup {None}]
    BY <2>1, CountsType, ViewType
  <2>3. (stale \/ loose) = FALSE
    BY <2>1
  <2> HIDE DEF Counts
  <2> QED
    BY <2>2, <2>3 DEF Map!Init, Map!Stores
<1> QED
  BY <1>1, StoreStep, Invariance, KeptHolds, SoundHolds, PTL
     DEF Spec, ImplementsKeyStore, Map!Spec
=============================================================================
