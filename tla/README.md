# GnuPG: TLA+ models, checks and proofs

This directory holds TLA+ specifications of those parts of GnuPG whose
correctness depends on the order in which processes, threads and failures
interleave, the TLC configurations that check them on small instances, and
TLAPS proofs of the properties that matter most for instances of any size.
Every definition is a translation of C code; `PROJECT.json` (`map`) names the
lines.

Contents: 1 the system; 2 the modules; 3 DotLock; 4 AgentCache; 5 CallDaemon;
6 CallPinentry; 7 the trust database; 8 the key box; 9 ScdApp; 10 what the runs
show; 11 what is proved; 12 findings; 13 limits; 14 plan.

## 1. The system

GnuPG is a set of programs that share files and talk to daemons.

| Part | State | Operations | Interacts with | Hard behaviour |
|---|---|---|---|---|
| `common/dotlock.c` | lock file on disk, `h->locked` per handle | create, take, release, destroy, exit handler | every program that writes key rings, the trust database or sockets | contention, stale files of dead processes, NFS nodes, half-written files, crashes, retry with growing intervals |
| `agent/cache.c` | list of slots with time stamps, `last_stored_cache_key` | put, get, clear, flush, housekeeping, store hit | `findkey.c`, `command.c`, `call-scd.c`, timer, `call-daemon.c` | two lifetimes per slot, slots that outlive data, thread switches in `xfree` |
| `agent/call-daemon.c` | primary context, reuse flag, socket name, one context per connection | start, unlock, reset, kill, watcher thread | connections, scdaemon, PIN cache | death of the daemon at any time, lock-free shortcuts, failures half-way |
| `agent/call-pinentry.c` | the one pinentry, `entry_lock`, recursion counter | ask, confirm, popup, reset | user, `findkey.c`, client sockets | timed lock, recursion, client that goes away |
| `agent/gpg-agent.c` | active connections, shutdown flags | accept, handle, signals, timer | all of the agent | shutdown against new connections, self-check of the socket |
| `agent/findkey.c`, `genkey.c`, `protect.c` | key files | read, write, delete keys | cache, pinentry | replacement of a file |
| `agent/trustlist.c` | table of trusted keys | lookup, mark, reload | connections | reload against readers |
| `common/asshelp.c` | -- | start and connect to the daemons | DotLock | two clients start a daemon at once |
| `g10/keydb.c`, `kbx/keybox-*.c`, `g10/keyring.c` | key ring and key box files, the open file and offset of a handle | create, compress, search, import, update, delete | DotLock | copy, two renames and crash; offsets of a replaced file |
| `g10/tdbio.c`, `trustdb.c` | record cache, lock count, hash table, free list | read, write, allocate, sync, update, validate, reset | DotLock | cache at its limit, crash in a flush, nested locks |
| `g10/tofu.c` | SQLite database | register, policy, batch | `gpgsql.c` | nested batches, yield to other processes |
| `scd/app.c`, `scd/command.c` | card contexts, reference counts, locks, sessions, the locked session | select, use, switch, reset, lock, watch, removal | card readers, connections, the main loop | removal during use, lock order, lost wake-up |
| `dirmngr/` | host table, CRL cache, work queue | fetch, mark hosts dead, expire | network | time-outs, shared tables |
| `kbx/keyboxd` | key and blob cache | search | gpg | cache limit, stale entries |
| `sm/`, `g13/`, `tools/` | -- | S/MIME, disk encryption, utilities | DotLock, agent | mostly sequential |

What makes the modelled parts correct:

* DotLock: at most one process thinks it holds the lock; who holds it owns the
  file that says so; no file is left behind; waiting ends.
* AgentCache: a lookup returns what was stored last by the same class of
  connection, and never after its lifetime, however often it was used.
* CallDaemon: there is one scdaemon, each of its contexts has one user, nobody
  uses a released one or that of a dead daemon, and a dead daemon is noticed.
* CallPinentry: one connection at a time uses the pinentry, however its uses
  nest, and gives it back with the last of them; a popup that is stopped ends.
* Trust database: the cache is invisible but for what a crash takes back; an
  update that returned is on disk; a process that ends outside of a flush leaves
  a hash table, lists and a free list that fit together.
* Key box: the file is a map from keys to key blocks that changes one key at a
  time, as a whole or not at all, whatever process is killed when; imports lose
  nothing; the lock comes back. This holds as far as the lock is really taken,
  which `keybox_lock` does not always do (section 8).
* ScdApp: a reference count is the number of users; every session hears of the
  removal of its card and does not go on with another one unasked; no command
  hangs.

The agent's threads are nPth threads: they are not preempted and switch only
where the code blocks. Comments in `cache.c` (555-561) explain that releasing
memory is such a place because `gcry_free` takes a lock; `gpg-agent.c:1076`
makes it Libassuan's `free` too. The models switch threads exactly there.

## 2. The modules

| Module | Role |
|---|---|
| `LockService` | abstract: a lock with one holder, as `dotlock.c` promises it to processes and `call-pinentry.c` to connections |
| `DotLock` | `common/dotlock.c`, POSIX half |
| `MCDotLock` | instances of it |
| `DotLockProofs` | invariants and refinement, proved |
| `AgentCache`, `MCAgentCache`, `AgentCacheProofs` | `agent/cache.c` |
| `CallDaemon`, `MCCallDaemon`, `CallDaemonProofs` | `agent/call-daemon.c` |
| `CallPinentry`, `MCCallPinentry`, `CallPinentryProofs` | `agent/call-pinentry.c` |
| `RecordStore` | abstract: numbered records with a copy on disk that lags behind |
| `TdbCache`, `TdbCacheProofs` | the record cache and the lock count of `g10/tdbio.c` |
| `TrustDb`, `MCTrustDb`, `TrustDbProofs` | the records of `g10/tdbio.c` and the updates of `g10/trustdb.c`, on top of `TdbCache` |
| `KeyStore` | abstract: a map from keys to key blocks |
| `KeyBox`, `MCKeyBox`, `KeyBoxProofs` | `kbx/keybox-update.c`, `keybox-search.c` and their callers in `g10/keydb.c` |
| `ScdApp`, `MCScdApp`, `ScdAppProofs` | `scd/app.c`, `scd/command.c`, the main loop of `scd/scdaemon.c` |

`TrustDb` extends `TdbCache`, and each of its steps is a step of the cache or
leaves it alone (proved: `UsesCache`), so that what is proved of the cache holds
in it. The lock that
`TdbCache` counts and `KeyBox` has an owner for is that of `LockService`, which
`DotLock` implements.

An operator whose comment starts with "Bug:" is a deliberately wrong variant of
the definition that follows it. `PROJECT.json` (`mutants`) pairs each property
with one such variant that violates it, so that no property holds by accident.

## 3. DotLock

`owner`, `linked` and `text` are the lock file: who created it, whether it is
still the file of that process's current handle (`st_nlink == 2` of its
temporary file, or an open O_EXCL descriptor), and how much has been written.
`pc` is the place of a process in `dotlock_take_unix` or
`dotlock_release_unix`; `timeout`, `wtime`, `lastpid` and `seen` (the C variable
`pid`) are the locals of the former.  `raced` is history.

Each system call on the shared file is one step:

| Action | Code |
|---|---|
| `Create`, `Disabled`, `UseOExcl` | `dotlock_create`, the test for hard links |
| `Take` | `dotlock_take` up to the first attempt |
| `TryLink`, `StatTemp`, `StatFails` | `link`, `stat` and its failure |
| `TryOpen`, `OpenFails`, `WritePid`, `WriteNode`, `WriteFails` | `open(O_EXCL)` and the writes |
| `ReadLockfile`, `ReadFails`, `Probe`, `Steal` | `read_lockfile`, `kill (pid, 0)`, `unlink` |
| `Backoff`, `GiveUp` | the sleep; `EACCES` |
| `Release`, `ReleaseUnlink`, `ReleaseFails` | `dotlock_release` |
| `Destroy`, `Exit` | `dotlock_destroy`, the `atexit` handler |
| `Crash`, `Reuse` | the kernel |

Abstractions. The two writes after the pid line (node name, newline) and the
`close` are one step: `read_lockfile` treats any text shorter than the whole
like a foreign node. Opening and reading the lock file is one step: the text of
an open file changes only while its creator writes it, and the pid line is one
write. A process has one handle; `maybe_deadlock`, which only words a message,
is left out. `EINTR` loops are part of their call. `Failing` names the system
calls that may fail.

`LockService` has a set of holders and the flag `broken`. The refinement maps
them to the locked handles and to `raced`.

## 4. AgentCache

`thecache` is a set of records; the list order is the field `seq`, larger for
newer slots. Every operation runs under `cache_lock` and is one step at one time
of the clock, and starts with `Housekept`, the three passes of `housekeeping`.
The exception is `agent_get_cache (NULL)`: it copies `last_stored_cache_key`
(`GetLast`), may give way while housekeeping frees data, and compares later
(`GetLastSearch`); `StoreHit` does not take the lock and frees the string. A
freed string may compare equal to any key. `served` is the answer of the last
step, `latest` the last change callers made to each key.

`Puts`, `Gets` and `Clears` are the combinations of key, restriction and mode in
which the cache is stored to, looked up and deleted from: key grips by
`findkey.c` (NORMAL, SSH) and `PRESET_PASSPHRASE` (ANY), cache ids of
`GET_PASSPHRASE` (USER), nonces, `PUT_SECRET` (DATA) and card PINs, which are
stored without a connection (restriction -1). `KeysApart` is an assumption on
the use, which the code does not enforce: what is stored or looked up as a cache
id of USER mode or as a nonce is not also stored as a key grip, and no other use
of the key of a PIN has another restriction. It says nothing of the modes of
deletes, because `gpg-preset-passphrase --forget` sends `CLEAR_PASSPHRASE` for a
key grip, which deletes in USER mode (`preset-passphrase.c:191`,
`command.c:1888`). `MCAgentCache` assumes it of the calls it enumerates, that
delete among them, and two theorems depend on it.

`latest` records what callers last stored for a key and a restriction, in which
mode and when. A delete counts if its mode matches that of the stored value as
`agent_put_cache` compares modes (`Reaches`): `--forget` of a passphrase that
the agent stored in NORMAL mode does not, and `ServedIsLatest` does not claim
that it is gone (section 12). The time is what `ServedIsFresh` measures the
maximum lifetime from, so that a hit that renewed `created` would violate it.

The encryption of values is abstracted to a success or a failure of `new_data`
and of the decryption (`Outcomes`).

## 5. CallDaemon

`ctx`, `in_use`, `invalid`, `listed` are the `daemon_local_s` structures;
`primary`, `reusable`, `socket` the `daemon_global_s`; `open` the contexts that
are not released, `peer` the daemon at their other end. Contexts and daemons are
numbered as they are made. `caught` and `late` are history: connections that
came upon a context while the watcher released it, and contexts that
`daemon_start` stored after the watcher had passed. `ContextsValid` and
`IdleContextCurrent` leave these two cases out, which do happen (section 12).

A critical section under `start_daemon_lock` is one step, except that of
`wait_child_thread`: its `assuan_release` may switch threads, so the loop is
`WaitChild` (lock), then per connection `ReapMark`, or `ReapRelease` and
`ReapClear`, then `ReapDone` (unlock). Without the lock run `StartFast` (the
first lines of `daemon_start`), `StartFinish` (the store of the new context
after the unlock, a step of its own if `abs_homedir` has to be freed) and
`KillDaemon`. `StartFails`, `StartUnwatched` and `StartUnconnected` are the
error paths of `daemon_start`. The order in which the loop visits the
connections is left open. `daemon_start` of a connection whose context is in
use is refused by the code (288-292) and never happens, as a connection has one
thread and ends each use with `daemon_unlock`.

`KillDaemon` is one step that ends the daemon. In the code `agent_kill_daemon`
sends KILLSCD over the primary context and waits for the answer, without the lock
and possibly while the connection that uses this context talks over it or the
watcher releases it (`call-daemon.c:595`). What such a meeting of two
transactions does to the Assuan connection is not modelled.

## 6. CallPinentry

`holder` is the owner of `entry_lock`, `entry_ctx` and `popup_tid` name the
connection whose context and whose popup the globals of that name are, `thread`
is the popup's thread and the flag `popup_finished`, `active` is
`ctrl->pinentry_active`. `pc` and `why` say what a connection does and what for;
a confirmation that the callback of a dialog asks for is `why = "check"` on top
of the dialog.

| Action | Code |
|---|---|
| `Open`, `Close` | a new `ctrl`; the end of the handlers, with `agent_reset_query` (`MustReset`) but for ssh |
| `Call`, `CheckCallback` | the recursive way through `start_pinentry`, or the wait for the lock |
| `Locked`, `LockTimeout` | `npth_mutex_timedlock` |
| `LaunchFails`, `FlushFails`, `NewFails` | the error paths of `start_pinentry`, which differ in what they give back |
| `Finish` | the end of a dialog, with `unlock_pinentry` |
| `PopupStart`, `PopupFails`, `PopupEnds` | `agent_popup_message_start` and its thread |
| `PopupStop` (in `Dismiss` and `Close`), `PopupJoined` | `agent_popup_message_stop` up to and from `npth_join` |
| `CardLost` | scdaemon dies and does not dismiss its popup |

`lost` is history. It is set by the steps at which the code loses track of the
lock, and only there: the two error paths of `start_pinentry` that keep it
(`FlushFails`, `NewFails`), a popup that replaces another (`PopupStart`), a stop
that hits the popup of another connection (`PopupStop`), and a connection that
ends with a use (`Close`). What holds afterwards is not claimed.

The dialogs (`agent_askpin`, `agent_get_passphrase`, `agent_get_confirmation`,
`agent_clear_passphrase`) take and release the pinentry in the same way and are
one. A launch that fails is one step; a connection whose launch is under way is
at "talk", like one in a dialog. The refinement of `LockService` maps the holders
to the connections with a positive count.

## 7. The trust database

`TdbCache` is the cache of one process. `file` is what is on disk, `cacheList`
the linked list (newest entry last), `cacheEntries`, `cacheIsDirty` and
`isLocked` the counters and flags of the same names, `section` says that
`tdbio_set_dbname` or `get_trusthashrec` holds the lock around several calls,
`call` is the loop of `tdbio_sync` or of a `put_record_into_cache` that has to
make room, `written` is history. Every `write(2)` is a step, so a process may
end between any two of them; it may fail, or write a part.

| Action | Code |
|---|---|
| `PutHit`, `PutSame` | the record is in the cache |
| `PutReuse`, `PutNew` | an unused entry; a new one below the limit |
| `PutDiscard` | a third of the clean entries is dropped |
| `PutFlush`, `FlushWrite`, `FlushDone` | a fifth of the dirty entries is written, under the lock, and given up |
| `SyncStart`, `SyncWrite`, `SyncDone` | `tdbio_sync` |
| `WriteFails` | `write_cache_item` fails; the callers return at once, with the lock |
| `SectionBegin`, `SectionEnd` | `take_write_lock` and `release_write_lock` of a caller |
| `Restart` | the process ends, which releases the lock; the next one starts with an empty cache |

`MAX_CACHE_ENTRIES_HARD` plays no part: transactions are switched off in the
source.

`TrustDb` computes an update at once from what the process reads (it reads
through its own cache, and nobody else writes to that), as the list `todo` of
the records it writes, the numbers it reserves and the syncs it makes, and then
carries it out one by one. Modelled are the creation of the database and of the
hash table, `tdb_update_ownertrust`, `tdb_clear_ownertrusts`, `update_validity`,
`reset_trust_records` and the end of `validate_keys`, with `upd_hashtable`,
`lookup_hashtable` and `tdbio_new_recnum` below them. `partial` says that
records were written since the last complete sync, `torn` that a process ended
then, `done` is what returned updates have set.

After a process ended inside a flush the code promises little: entries are
written newest first, the hash table before the records it refers to, and a
later process may find a record of the wrong type and give up
(`GPG_ERR_TRUSTDB`), or a `firstfree` that is not free (`log_fatal`). What is
left then is `DiskPointersExist`. `DiskSound`, `UpdatesDurable` and
`OthersUntouched` are about databases to which that has not happened (`~torn`).

The lists in the file (hash lists, lists of validities, the free list) are
followed by `Chain`, which stops after as many records as there are. A ring, if
an interrupted flush could leave one, would keep `gpg` busy until it is killed;
here the update ends with an error, which writes as little.
An item of a hash list that can't be read counts as not found (`Lookup`), where
`lookup_hashtable` returns the read error (`tdbio.c:1354`, 1383) and the
operation fails; only an interrupted flush leaves such an item.
`reset_trust_records` stops at the first record it can't read (`ToReset`), and
`tdbio_new_recnum` asserts that it never returns 0 (`Alloc`).

Abstractions. The 26 records of the hash table are one, and a fingerprint is
looked up by its first byte: that is all a table of one level has. A record is
a TLA+ record and not 40 bytes. Of the version record the fields are kept that
change. `update_min_ownertrust` has the shape of `tdb_update_ownertrust` and is
left out, as is `tdbio_delete_record`, which nothing calls. Processes follow
each other: two at a time would read and write records without a common lock,
and nothing holds for them.

## 8. The key box

`main`, `bak` and `tmp` are the inodes that have the three names (0 for none),
`data` their contents, `whole` those that are completely written. A blob has an
offset, a size that depends on its key block, and the flag that deletion
clears. `pr[p]` is a process: where it is, what it does, the inode it has open
and the one it writes, and the offset it found. `owner` has the lock.

| Action | Code |
|---|---|
| `Ask`, `LockTake`, `LockFails`, `Unlocked` | `keybox_lock`: the test for the name, then `dotlock_take` or `dotlock_release` |
| `Look`, `Access`, `CreateLock`, `CreateTest`, `InRename`, `CreateHeader` | `rt_from_file` and `maybe_create_keyring_or_box`: the test without the lock, the test under it, which also looks for the files of an update that is being renamed, the empty file, its header; each creation may fail |
| `Compress` ... `CompressRemove` | `keydb_add_resource` tries the lock and compresses, blob by blob |
| `Import` | `import_one_real`: lock, search, then insert or merge |
| `Open`, `SearchFinds`, `SearchFails`, `SearchEnds`, `Quit` | the editor and `--delete-key`: a search without the lock |
| `Locate` | `keydb_locate_writable` before an insertion |
| `Store` | the lock calls of `keydb_insert_keyblock`, `keydb_update_keyblock` and `keydb_delete_keyblock` |
| `AgainFinds`, `AgainFails` | the second search of `keydb_update_keyblock`, in the file that is still open; if it fails the editor is back in its menu with the lock ("held") |
| `CopyAccess`, `CopyOpen`, `CopyTmp`, `CopyInsert`, `CopyUpdate`, `CopyFails`, `CopyNot` | `blob_filecopy`, from the test for the name to the closed copy |
| `Backup`, `Replace` | the two renames of `rename_tmp_file`; each may fail |
| `Delete` | `keybox_delete`, in place |
| `Unlock`, `Release`, `Exit`, `Crash` | `unlock_all` of an edit that failed, the release of the handle, the end of a process, a kill at any point |

The lock. `keybox_lock` begins with `if (!keybox_is_writable (kb)) return 0;`
(`keybox-init.c:274`), and that is `access` of the name. Between the two renames
of another process the name is missing, and the call reports success without a
lock (`Ask` sets `lock` to "skipped"). Mostly that does no harm, as what follows
does not find the file either and fails; but if the second rename is done in
between, a search, a copy, a deletion or a compression runs without the lock.
`loose` is history: that has happened. An import whose search failed for the
missing name goes on to insert the key (`Locate`), which counts too. The
properties of the run `keybox_all` are claimed until then; what may happen
afterwards is a compression beside another writer (`keybox_alone`), two writers
of one temporary file, two blobs of a key, and lost changes. The other way
round, when the second rename fails the name is missing, and `keybox_lock` does
not release the lock either: the process has it until it ends or the name is
back (`Unlocked`).

`stale` is history: an offset of a replaced file was used. `KeyStore` promises
nothing after `stale` or `loose`. The refinement maps `store` to the key blocks
of the file, or of the backup while the file has no name.

Behaviours end (`garbled`) with a write whose outcome depends on bytes: at an
offset where no blob begins, to a file that another process has open for
writing, and an insertion into a file without a header. They also end with an
insertion whose file loses its name between the test for it and the `fopen`
(`CopyOpen`), which takes a lock call that did nothing: `blob_filecopy` then
makes a new file with that blob alone, beside a process that is between its
renames.

Abstractions. The tests of `maybe_create_keyring_or_box` for the name, the backup
and the temporary file and the creation of the empty file are one step, under
its lock, which is always taken; a writer that skipped the lock could come
between them. The contents of a copy are written in one step (those of a
compression blob by blob), since a file in between is in no case `whole`. A
process that finds an empty file takes it for a legacy key ring and is not
followed ("keyring"); legacy key rings are not modelled, nor are ephemeral
blobs, the flags of gpgsm, the caches of `keydb.c` and several resources. A
process has one handle at a time.

## 9. ScdApp

`card` are the contexts, `listed` those on the list at `card_top`, `freed` those
that `deallocate_card` released; `listLock` and `cardLock` own the mutexes;
`sess[s]` is `ctrl->card_ctx` and `card_removed`; `lockedSession` is that of
LOCK; `th` is the place of each thread, the card it works on, and the rest of
the loop it is in. Each wait for a mutex and each exchange with a card, a reader
or a client ends a step.

| Action | Code |
|---|---|
| `Use`, `OpStart`, `OpEnd` | every command that works with the current card (READCERT, PKSIGN without a keygrip, ...) |
| `Direct`, `Find`, `Look`, `LookedNext`, `Found`, `Ref`, `Unref` | commands with a keygrip: `app_do_with_keygrip`, `card_ref`, the use, `card_unref` |
| `Select`, `Register`, `ScanEnd`, `ScanFails`, `Pick`, `PickOther`, `PickFails`, `PickForgotten` | `open_card` and `select_application` |
| `Serialno`, `SerialnoApp`, `Switchcard`, `Switch` | SERIALNO, SWITCHCARD |
| `Reset`, `ResetStart`, `ResetSent`, `Slept`, `Restart`, `Bye` | `do_reset`, `card_reset`, RESTART, the end of a session |
| `Lock`, `LockRetry`, `Unlock` | LOCK, with `--wait`, and UNLOCK |
| `Devinfo`, `SendDevinfo`, `SentFirst`, `SentAgain`, `Wait`, `Woken` | DEVINFO `--watch` |
| `Poll`, `Check`, `StillThere`, `Removal` | `scd_update_reader_status_file`, with `send_client_notifications` and `deallocate_card` |
| `Plug`, `Pull` | the user |
| `Touch` | a thread asks for the mutex of a released context (`lock_card`) |

After `Touch` the program has read freed memory and behaviours end. It happens:
a command with a keygrip gets its card without a reference, and a session may
wait for a card's mutex while the main loop releases the card. `leaked` is
history: DEVINFO `--watch` clears `card_ctx` before it passes it to
`card_unref`. `working` is the context a session last worked with.

Abstractions: the order of the list (any card may be first), the applications of
a card and the switch between them, the time a card operation takes, the
shutdown in `scdaemon.c`.

## 10. What the runs show

| Run | Instance | Result |
|---|---|---|
| `dotlock_links` | 3 processes, one node, hard links, failing `stat`, crashes, endless waits, fairness | `ImplementsLockService`, `TakeReturns` hold |
| `dotlock_excl` | 3 processes on two nodes, two with equal pids, O_EXCL, all other failures, crashes, pid reuse, timeouts 0, 250 ms and endless | `HolderOwnsFile`, `BackoffSchedule`, `NoOrphanFile`, `ImplementsLockService` hold |
| `cache_mixed` | a grip stored with NORMAL, SSH and ANY and deleted with USER, a DATA item of a restricted connection under the same string, a PIN, an IGNORE caller, TTL default and endless, failures | `ServedIsFresh`, `OneSlotPerKey`, `ServedIsLatest` hold |
| `daemon_all` | 2 connections, 3 daemons, 5 contexts, all failures, a non-default home directory, fairness | `OneDaemon`, `ContextNotShared`, `ContextsValid`, `IdleContextCurrent`, `DeadDaemonForgotten` hold |
| `pinentry_all` | 3 connections, one of ssh, 2 calls each, all failures, a lost scdaemon, fairness | `CountIsExact`, `ImplementsLockService`, `StopReturns` hold |
| `tdb_all` | 3 keys in one bucket, 1 user id, 9 records, a cache of 3, lists of 2 items, 4 updates, failing writes, 2 processes one after the other | `CacheBounded`, `LockedWhileWriting`, `ReadsLastWritten`, `DiskSound`, `UpdatesDurable`, `DiskPointersExist`, `ImplementsRecordStore`, `OthersUntouched` hold |
| `scd_all` | 2 sessions, a token that is plugged or pulled twice, a serial number that is not there, 2 contexts, 2 commands, fairness | `TypeOK`, `RefsExact`, `ContextListed`, `SameCard`, `LockerLives`, `CommandsReturn`, `RemovalNoticed` hold |
| `keybox_all` | 2 processes, 2 keys, key blocks of two sizes, 2 operations, 1 kill, with and without a file at the start | `CrashSafe`, `OneWriter`, `ImportCurrent`, `OneBlobPerKey`, `LockGivenBack`, `ImplementsKeyStore`, `ImportKeeps` hold |
| `dotlock_race`, `scd_watch`, `keybox_stale`, `keybox_alone` | see section 12 | what a comment or a help text says is violated |

The type invariants are proved (section 11); that of ScdApp is part of a run as
well, since it says that a reference count never gets negative.

Why the bounds are enough. The interesting cases of DotLock need three processes
(one that reads, one that leaves, one that enters); the retry intervals reach 8
s with endless timeouts, and 250 ms makes the last sleep shorter than its
interval. A process that exits or crashes comes back with a new handle. In
`dotlock_excl` a process takes the lock once, so that a new process with the pid
of a dead holder does not itself contend there; this case is covered by the
proofs, which do not bound the takes. The cache instances use lifetimes of zero
or one unit of time, so that a slot can be refreshed, expire by idle time,
expire by age, and be removed within the two ticks of the clock; two values,
which are symmetric, tell a replaced one from the latest; a slot per restriction
and one more cover every order of slots. Two daemons after the first cover death
during start, during use, and while the next is being started; five contexts
allow a primary and a socket context for two of them. Two calls of a connection
cover a popup that outlives its call and a use on top of it; three connections
let one stop the popup of a second while a third waits. Three keys in a bucket
with two places to a list record make the bucket go from one record to a list
and to a second list record; a cache of three entries has to discard and to
flush inside each update of that size. Two commands of two sessions are what it
takes to use a card, have it replaced and use it again; more of them are covered
by the proofs of the safety properties; two contexts are the old and the new one
of a token. Two operations of two key box processes and a compression at the
start of each make an offset stale; six inodes are enough for three names and
the files both have open. `MaxTakes`, `MaxClock`, `MaxSeq`, `MaxCtx`, `MaxGen`,
`MaxCalls`, `MaxOps`, `MaxDeaths`, `MaxCmds`, `MaxPlugs`, `MaxCrashes`, and the
sizes of `Ids` and `Nodes`, are bounds of the model and not of the code.

Deadlock checking is off for DotLock, where all processes may have ended, for
CallDaemon, where the bounds on contexts and daemons stop the model, and for
TrustDb, KeyBox and ScdApp, which stop at their bounds or at a step after which
the code's behaviour is undefined; the agent's cache never stops, and the
connections of CallPinentry can always close and open again.

Fairness. `DotLock!FairSpec` assumes that the kernel schedules a process inside
a call and that a process outside of one ends some day, which releases what it
took. It assumes nothing about crashes, new calls, explicit releases or who wins
a race: that a contender is not overtaken for ever follows from the bound on
takes only, so `TakeReturns` says that no wake-up is missed and no stale file
blocks, not that the lock is fair. `CallDaemon!FairSpec` assumes that the
watcher thread runs once `waitpid` returned and gets the mutex, which others
hold for single steps only. `CallPinentry!FairSpec` assumes that a killed
pinentry ends and that `npth_join` then returns; nothing is assumed of the user,
who may leave a dialog open for ever. Nothing is assumed of key box processes:
the editor may keep the lock in its menu, and no liveness is claimed.
`ScdApp!FairSpec` assumes strong fairness of each session's thread
inside a command and of the main loop: a mutex that is free again and again is
got at last, as the main loop pauses between its turns, and a card operation
ends, because the client answers or goes away. It does not assume that a LOCK is
given back or that a token is plugged in.

## 11. What is proved

TLAPS checks the proofs for every value of the constants that satisfies the
`ASSUME`s: `ProcsAssumption` (pid and node together name one process, timeouts
are -1 or natural), `CacheAssumption` (types of the parameters),
`DaemonAssumption` and `PinentryAssumption` (types), those of `TdbCache` (record
numbers are natural, the limit is not 0), those of `TrustDb` (record numbers
start at 0 without a gap up to a bound that is at least 2, a hash list record
has two places at least, a record is one of the eight kinds), those of `KeyBox`
(signature sets are finite, and the file that exists at the start is laid out
without overlap and has a key once) and `SessionsAssumption` (scdaemon has
finitely many sessions, so that references can be counted). The theorems are
listed in `PROJECT.json`; each rests on an inductive invariant, because none of
the properties is inductive by itself.

* `DotLockProofs`: a step that locks a handle relies on what earlier steps of
  the call left in the file system. `IndInv` adds `HandleState` (a handle is
  locked only between calls or in a release; every call starts with
  `wtime = 0`), `FileState` (with hard links the file is always complete) and
  `WriterOwnsFile` (the writer of an O_EXCL file still writes to the file of
  that name). From it follow `TypeCorrect`, `ScheduleKept`,
  `HoldersOwnTheirFile` and, step by step, the refinement
  `DotLockImplementsLockService`: two holders would both own the one file.
  `FilesNotOrphaned` goes through all ways out of `dotlock_take_unix`; it needs
  in addition only that a file of a handle is that of some process.
* `AgentCacheProofs`: what the search finds went through `Expire` at the same
  time of the clock, or, after a thread switch, at the time `lookup.since`; the
  invariant carries that over the switch, and `Dated` that no slot claims to be
  younger than what callers stored. Results: `CacheTypes`, `CacheServesFresh`.
  `CacheOneSlot` and `CacheServesLatest` hold if `KeysApart` does. Slots are
  looked up by key, restriction and an equality of modes that is no equivalence;
  `KeysApart` makes a put or a get find all slots of its key and restriction and
  no others, while a delete finds such a slot if it reaches its mode
  (`ClearMatches`), and then `Faithful` is kept: one slot each, which is empty or
  has what was stored last.
* `CallDaemonProofs`: `FlagIsTruthful` (while `primary_ctx` is NULL no daemon
  runs or is waited for, and a watcher in its critical section belongs to the
  youngest daemon, which is dead) makes `OneDaemon` inductive; `PendingState`
  ties the local variable of `daemon_start` to its place. Results:
  `DaemonTypes`, `AtMostOneDaemon`, `ContextsNotShared`. `ContextsStayValid` and
  `IdleContexts` are about the loop of `wait_child_thread` that gives way in
  the middle: `Marks` says what the flags of a connection mean at each place of
  it, `Serves` which contexts the loop has still to find, `Watcher` that it
  releases one at a time, and `Valid` puts them together.
* `CallPinentryProofs`: a connection that waits for the lock must have no use,
  and the thread it joins must be that of its own popup. `IndInv` adds
  `WaitersUnused`, which holds lost or not, and per connection what `Tracked`
  says. `OthersKept` reduces each action to the connection that takes it.
  Results: `TypeCorrect`, `CountKept` and the refinement
  `PinentryImplementsLockService`: who takes the free lock finds all counts at
  0.
* `TdbCacheProofs`: `ReadsLastWritten` needs that a record has one entry
  (`Distinct`), that a used entry has what was written last (`Current`), that a
  clean one is on disk (`CleanOnDisk`) and that a record without an entry is on
  disk as written. `FlagKept` and `FlushKept` say when `cache_is_dirty` may be
  off and what a flush under way has left to do, `Counted` that the counters
  agree with the list, `Locked` that a flush has the lock. Results: `CacheTypes`,
  `ReadsLast`, `SyncedOnDisk` (what `tdbio_sync` promises), `Bounded`,
  `LockHeld`, and the refinement `CacheImplements` of `RecordStore`. They are
  about `CacheSpec`, which allows any sequence of calls.
* `TrustDbProofs`: `UsesCache` composes the two: every step of an update is a
  step of the cache, with records that have their types. `PointersExist` holds
  although records are written back in any order and a flush may be cut off
  anywhere, because a number is that of a free record, or is reserved in the
  file, before anything that refers to it is written, even to the cache.
  `Takes(w, e, m)` says that of a list of steps that is still to be done, `PInv`
  of the file, the cache, the record that waits for room and that list. `Sane`
  is the same of an update that is being computed, and there is a lemma for each
  of its parts (`AllocSane`, `UpdHashtableSane`, `SetValiditySane`, ...). Where
  a list is followed, the proof needs what `Chain` returns (`ChainType`): the
  recursive function is shown to exist by a least counterexample, since
  induction theorems can't be used.

  `DiskStaysSound`, `UpdatesStayDurable` and `UpdatesLeaveOthers` are about what
  the lists contain. None of the three properties is inductive: between the
  writes of an update neither the file nor the cache need be a database that
  works, and what is promised is not yet there. The invariant `SInv` says
  instead where the process is going. `Good(v, n, X)` is a database that works,
  stated with the lists themselves in place of the searches (each bucket has a
  list of records, `HashOK`; so has each trust record, `ValOK`; there is one list
  of the free records, `FreeOK`; no key has two trust records, `Unique`), but
  for the records `X` that are not yet in the hash table. `Leads(w, a, n, b, m,
  K)` says that the steps `w` go from the records `a` to `b`, and that each of
  them leaves the ownertrust of every key outside `K` as it is read. `Running`,
  for a database that exists: the steps that remain lead from what is read to a
  good database with the ownertrusts that were promised (`Ahead`), and the file
  is a good one with those that were returned for, unless a flush has begun.
  `Creating`: the file is between two stages of the creation. `Exiting`: a write
  has failed, and nothing follows but the end of the process. The proof has
  three layers: what `Chain` and `Lookup` return for lists that are given
  (`ChainIs`, `LookupIs`) and what is left of a list when one record is written;
  for each function of tdbio.c and trustdb.c (`AllocGood`, `UpdHashtableGood`,
  `SetValidityGood`, ...) that it leads from a good database to a good one; and
  for each action that it keeps `SInv`. That a write in the middle of
  `upd_hashtable` hides no other key, which `OthersUntouched` is about, is shown
  write by write (`HashTable`, `HashPlace`, `HashLinkOn`): each adds places to
  the lists and takes none away.
* `KeyBoxProofs`: `Types` needs `AllLaid`: that the offsets of moved blobs stay
  natural numbers follows only if blobs do not overlap, before and after each
  copy; this part (`Inv`) holds whatever the lock calls did. The others are
  proved as long as `loose` is not set. That such a lock call does no harm until
  then is what the proofs have to show: `Guarded` says for each place of a
  process what it may rely on (`Fine`): from the test for the name on it has the
  lock, or the name was missing and what follows fails. `Complete` says that the
  file and the backup, and between the renames the new file, are completely
  written, `Distinct` that the three names
  are of different files. Results: `Types`, `Writer`, `Crashes`, `Current`,
  `LockBack`. The second part of the invariant, `Sound`, says what a process has
  found (`Work`) and how the file that it has written differs from the one that
  it replaces (`Ready`): by the block of one key, or, after a compression, not at
  all (`Squeezed` for the part that is done). From it follow `OneBlob`,
  `ImportsKeep` and the refinement `KeyStoreImplemented`, in which `Backup`
  changes nothing and `Replace` or the deletion in place is the step of the
  abstract store.
* `ScdAppProofs`: `RefsExact` counts two sets of sessions for each context, those
  that have it as their current card and those that hold it otherwise. An action
  changes one session, so each is reduced to how that session's part of the two
  counts changes. The invariant adds `Cards` (a context is on the list or
  released, never both), `LocalOK` (what threads point to was allocated),
  `MainOK` (only the main loop takes contexts from the list, each once per
  turn: that is why `ContextListed` survives a loop that drops and takes the
  list's lock), `PhaseOK` (who selects a card has none) and `WorkOK` (the
  current card is the one the session worked with, unless it asked for another
  or was told of the removal), on which `SameCard` rests. Results:
  `TypeCorrect`, `CountsExact`, `ContextOnList`, `CardNotReplaced`,
  `LockNotOrphaned`.

Only model-checked: the liveness properties (`TakeReturns`,
`DeadDaemonForgotten`, `StopReturns`, `CommandsReturn`, `RemovalNoticed`), as
fairness is out of the prover's reach. Every invariant, every action property
and every refinement that a passing run checks is also stated by a theorem.
`SInv` itself could not be run by TLC first, since `Ahead` ranges over all
sequences of steps; the three properties that follow from it are checked by
`tdb_all`.

## 12. Findings

Each is a run that TLC must find violated; `PROJECT.json` quotes the comment.

* `dotlock_race` (`MutualExclusion`): the stale-lock check and the `unlink` are
  two steps; two processes can hold the lock without any reuse of a pid.
* `scd_watch` (`WatchEnds`): DEVINFO `--watch` misses a removal that is
  reported between its look at the list and its wait, and waits on with no
  device left.
* `keybox_stale` (`OnlyThatKey`): a delete, or an update, uses the offset of a
  search without the lock in a file that another process has replaced, and hits
  another key.
* `keybox_alone` (`CompressAlone`): a process that starts while another one is
  between its two renames gets no lock from `keybox_lock`, which reports success,
  and compresses the file beside the next writer (`keybox-init.c:274`).

Seen while modelling, without a run:

* DotLock: an endless `dotlock_take` fails if it reads an O_EXCL file before its
  pid was written, and a process killed there leaves a file nobody takes for
  stale (`dotlock.c:567`); `lastpid` is set on the first attempt only, so that
  the interval stays at 50 ms once the owner has changed (1121).
* AgentCache: `gpg-preset-passphrase --forget KEYGRIP` should "flush the
  passphrase for the given cache ID from the cache" (`doc/tools.texi:1252`), but
  sends `CLEAR_PASSPHRASE` without `--mode=normal` (`preset-passphrase.c:191`):
  the agent deletes in USER mode, which does not match what it has itself stored
  for the grip in NORMAL mode (`findkey.c:794`), and goes on to serve it. A
  preset passphrase (ANY) is deleted. If a string is stored both as a key grip
  and as a cache id of USER mode, a delete may empty the newer slot of the other
  mode, and the deleted entry is served again (`cache.c:391`);
  `agent_store_cache_hit` frees the key that a lookup of another thread has
  copied and will compare with (471).
* CallDaemon: a death of the daemon between the unlock and the store in
  `daemon_start` is forgotten (`call-daemon.c:535`, history `late`); the
  lock-free way into `daemon_start` may return a context that the watcher is
  releasing (282, history `caught`); a primary context that waits for reuse is
  not released when the daemon dies (185).
* CallPinentry: a connection whose popup timed out is asked to dismiss it all
  the same, stops the popup of another connection, and that one keeps
  `entry_lock` after its end (`call-pinentry.c:1766`); `fflush` and `assuan_new`
  failing in `start_pinentry` keep it too (348, 391); an error of
  `npth_mutex_timedlock` other than `ETIMEDOUT` is reported as success (321).
* Trust database: `take_write_lock` counts also when the lock is held, and
  `tdbio_sync` releases only if it was free: a process that creates the database
  keeps the write lock until it exits (`tdbio.c:450`). Free places in the
  earlier records of a list are not used again (1109). The repair in
  `get_trusthashrec` writes the version record before the table (998).
* ScdApp: DEVINFO `--watch` loses a reference (`command.c:2210`) and clears the
  removed flag, although a comment says that only SERIALNO and a reset do (216);
  LOCK does not stop a command that is already waiting for the card (221); an
  error of SERIALNO with an application sets the removed flag of all sessions of
  that slot (333); a card found by its keygrip has no reference until `card_ref`.
* Key box: what `keybox_lock` skips concerns imports, updates and deletions as
  well; an import whose search fails between the renames of another process
  inserts the key and may make a second blob of it; after a failed second rename
  the lock is kept. The editor saves what it read without the lock, so that a
  merge in between is lost; an update whose key is gone returns with the lock,
  and the editor is back in its menu with it (`keydb.c:1411`, `keyedit.c:2200`);
  a kill between the creation of the file and its header leaves an empty file,
  which later processes take for a legacy key ring (`keydb.c:444`); after a kill
  between the renames the file has no name until the user gives it one; a search
  at that moment finds no file; the locks of several resources are taken in the
  order of each process's configuration (983).

## 13. Limits

Not modelled: the Windows code; message texts and logging; the contents of keys
and messages; parsing of commands and packets; cryptography. `PROJECT.json`
lists every part with the reason. Most of the source is of these kinds (packet
formats, card protocols, DNS, user dialogs, option parsing), so that the mapped
lines are a small part of it; they are those on which concurrency, crashes and
shared state act.

Of the modelled parts: several handles of one process on one file;
`dotlock_release` from another exit handler after the list of handles was
emptied; changes of the agent's options at run time; a clock that goes
backwards; a failing `waitpid` or mutex, which the code only logs; the PIN-cache
flushes that `call-daemon.c` makes are the action `Flush` of AgentCache, at any
time; the loopback mode of the pinentry; the check of the lock by
`pinentry_active_p`, which changes nothing; two writers of the trust database at
a time; what sections 7 to 9 list.

## 14. Plan

Models, in this order:

1. `PinCache`: composition of CallDaemon and AgentCache, where PINs reach the
   cache as status lines of a daemon; no PIN of a dead daemon is served.
2. `StartDaemon`: `common/asshelp.c` over `LockService`; two clients start one
   agent.
3. `AgentServer`: connections, shutdown and timer of `agent/gpg-agent.c`.
4. `HostTable`, `WorkQueue`: `dirmngr`; `BackendCache`: `kbx/backend-cache.c`.
