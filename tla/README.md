# Verthys: a TLA+ model of the container engine and the application around it

Verthys is a personal data manager. A password-protected container file is kept
by a C engine (`core/`), which a Rust desktop application
(`verthys-tauri/src-tauri`) drives through a worker process
(`verthys-tauri/verthys-worker`); a Vue front end (`verthys-tauri/src`) sits on
top. This directory models the parts where data, a lock or a promise to the user
can be lost: the container, its transactions, its logs and what it does after a
crash; the commands of the application that run at the same time on one worker;
imports, scans and exports; the guard in front of the password; the protection
of the windows against capture.

The models are translated from the sources, not from the documents. Where a
document or a comment promises something the code does not do, section 5 says
so; the behaviour is then outside the properties, or behind a switch that the
run keeps off and names.

## 1. Inventory

### The C engine (`core/src`)

| Component | State it keeps | Operations | What makes it hard | What makes it correct |
|---|---|---|---|---|
| Superblock (`container/superblock`) | three replicas on disk, a copy in memory, an integrity key | quorum commit, quorum read, `VsbTxnV3` begin/commit/rollback | a crash or a failed write between two replicas; rewrites that keep the txid; two readers with different rules | a commit is one step: what an unlock reads changes once, is never older than an acknowledged commit, and some password always opens the container |
| Extent store (`container/extent`) | content-addressed blocks, an index of (hash, offset, size, ref count), a cursor; a snapshot of the index on disk | put with deduplication, get, release, compact, index save and load | the index on disk is older than the blocks; compaction moves blocks in place; entries of freed blocks stay | a committed record's block is where the index says, with its contents; a reference keeps a block alive |
| LSM index (`index/lsm`) | MemTable, its log, SSTables, manifest | put, delete, get, flush, rollback of a txid, rebuild, open (replay) | a log reset by destroying its first header only; flush suppressed during a transaction; replay in file order | the index is a map: a crash loses nothing that was durable and brings nothing back that was removed |
| Transaction log (`transaction/wal`) | two half regions with sequence numbers, groups of records by txid | append, switch of halves, replay, reset | a frame torn by a crash, a stale frame of an earlier round, a group larger than a half | replay delivers exactly the frames of groups that committed and were not confirmed |
| Transaction (`transaction/txn`) | six-phase state, txid, ledger of extent references | begin, write, update, delete, prepare, commit, confirm, rollback, forced abort, recover | five durable structures written in order with a crash between any two; recovery that crashes; an abort that fails | a transaction is atomic and an acknowledged one durable; recovery can be repeated; references are never under-counted |
| Partition table (`container/partition`) | offset, size and cursor of each partition, nonce counters | save, load, grow | saved to a fixed slot, loaded from the slot the superblock names | the table loaded is the one last saved; nonce counters never go back |
| Key rotation (`crypto/rekey`) | alternate partition-table slot, wrapped keys | rotate, mark DEGRADE | two structures that cannot be written at once | every superblock a crash can leave names a complete partition table wrapped under its keys |
| Unlock pipeline (`api/unlock`) | candidates, stage results, worker threads, a deadline | S1 read, S2 derive, S3 verify, S4 partitions, S5 subsystems, S6 preheat | two threads and a total deadline; teardown on failure; a preheat thread that outlives the unlock | no stage uses what a failed stage left; a thread is joined before its state is freed |
| Lifecycle and API (`api/lifecycle`) | context, handles, emergency state | create, unlock, lock, change password, record operations | lock while a preheat runs; emergency during an operation | keys are cleared whatever fails; a session always reaches a state where a transaction can begin |
| Warm cache (`index/warmcache`) | file bound to a txid and a key | load, save, delete | a cache older than the container | a stale cache is never used |
| Security layers (`security`), CNG keys (`crypto/keymanager`, `crypto/cipher`), pepper | key handles, emergency level, probes | import, rotate, clear, detect | callbacks and polling threads | keys live only between unlock and lock |
| Export, import, scan (`api/transfer`, `api/scan`) | iterators over the index | export, import, paged scan | import is a sequence of transactions | an interrupted import leaves whole records |

### The Rust application, the worker and the front end (`verthys-tauri`)

| Component | State it keeps | Operations | What makes it hard | What makes it correct |
|---|---|---|---|---|
| Worker protocol (`worker/actor.rs`, `worker/session.rs`, `verthys-worker/src/runtime`) | request queue, request in flight, `child_alive` | send, deadline, shutdown, kill | answers carry no request id; a worker may hang, die or answer late | every command returns; a worker without a session is stopped |
| Worker and key life cycle (`state/*_lifecycle.rs`, `controller/{worker,key,verthys}_controller.rs`) | life-cycle states, the session, the session guard | init, destroy, unlock, lock, derive, verify, clear, reset | each command acts on shared state after its answer, whatever happened in between | the key counts as unlocked only while the worker has it; a lock is not undone; no state nobody leaves |
| Brute-force guard (`security/brute_force.rs`, `security_commands`, `service/unlock_gate.rs`) | failures, lock, purge, the state file; the cool-down of verifications | check, record failure or success, load, save | attempts at the same time; restart between failure and save; rate limit; clock | a lock or purge in force stays in force, restarts included |
| Photo import (`state/import_writer.rs`, `repository/verthys_wal.rs`, `repository/verthys_chunks.rs`, `controller/verthys_batch_controller.rs`) | import log, snapshot, ledger of chunk owners, session, writer thread | begin, add, chunk, end, force close, forget, collect, reset | three files and the container written one after the other; a writer replaced while it works | a chunk a record owns is never collected; what an import skips is stored; nothing is stored twice |
| Scan pipeline (`state/scan_pipeline.rs`, `controller/scan_controller.rs`, `infrastructure/shared_memory.rs`, `verthys-worker/src/runtime/scan_shm.rs`, `verthys-cache-domain.ts`) | a scan of each kind, a prefetching task, the worker's cursor and shared memory, the cache's largest id | open, next, close, cancel, clear | a page prefetched while its scan is replaced; a failed request after the cursor moved | the cache lacks no readable record below the point the next scan starts from; a scan ends |
| Export to user files (`controller/file_controller.rs`, `state/file_streams.rs`) | stream sessions, staging files, the write mutex | create, append, finalize, abort, whole write, sweep by age | commands that give up after 120 s while their task goes on; a staging name shared by two targets | a target holds its old contents or a whole new file; a failed export leaves nothing behind |
| Capture protection (`controller/privacy_controller.rs`) | mode, token slot with leases, the windows | enable, disable, adopt, reconcile, start-up | two locked sections around system calls that may fail or outlive 30 s | the token fits the mode; only its holder turns the protection off; the windows show the mode |
| Front-end flush service (`cache/domain/verthys-flush-service.ts`) | a promise chain, pending deletions | schedule, flush, delete | flush racing an edit; a timeout that abandons the chain | what the user sees never shows a deleted record again |
| Container files of the application (state file, pointer, file lock), patrols and guards (`security/*`), platform services, user interface | flags, handles, timers | | callbacks | |

### How they interact

In the engine an API call is one transaction. It writes blocks to the extent
store (flushed at once), appends its records to the transaction log (flushed at
once) and its index changes to the MemTable and the LSM log (flushed with the
next flush of the same file), then *prepares* (a record in the log), *commits*
the superblock with the new txid, and only then saves the extent index and the
partition table, appends COMMIT, lets the MemTable be flushed, reads the
superblock back (*confirm*) and resets the log. The superblock's txid decides,
after a crash, whether the group in the log is replayed or discarded.

In the application every command of the front end runs on its own. It passes the
guard when it carries a password, takes its copy of the session, puts its
request into the queue of the worker's actor and waits; the actor writes one
request and reads one line at a time. The answer is applied to the shared
life-cycle states afterwards. Imports go through one writer thread that executes
their commands under the session's lock; scans have a prefetching task that
talks to the same worker; exports hand their file operations to blocking tasks.

## 2. Plan

The order follows what a user would lose first: the container, then what the
application does to it, then what it shows.

| Step | Modules | Abstract specification | State |
|---|---|---|---|
| 1 | `AtomicCell`, `SuperBlock`, `SuperBlockProofs` | one value that is replaced in one step | checked, five theorems, the refinement among them |
| 2 | `ExtentStore`, `ExtentStoreProofs` | (invariants over the index an unlock arrives at) | checked, seven theorems |
| 3 | `RecordStore`, `LsmIndex`, `RecordTxn`, `RecordTxnProofs` | a dictionary whose transactions are one step | checked, six theorems, the refinement among them |
| 4 | `ImportLog`, `ImportSession`, `ImportSessionProofs` | (claims, promises and owners as history) | checked, five theorems |
| 5 | `AppSession`, `AppSessionProofs` | (the worker's own state is what the life cycles promise) | checked, liveness, four theorems |
| 6 | `UnlockGate`, `SecurityProofs` | (the lock and purge last imposed as history) | checked, four theorems |
| 7 | `PrivacyMode`, `SecurityProofs` | | checked, four theorems |
| 8 | `ScanPipeline`, `ScanPipelineProofs` | | checked, liveness, two theorems |
| 9 | `FileStreams`, `FileStreamsProofs` | | checked, three theorems |
| 10 | the flush queue of the front end: promise chain, deletions hidden until flushed, the timeout that abandons the chain | what the user sees never shows a deleted record again | planned |
| 11 | the transaction log with its two halves, the switch and the crash points of a reset, refining the sequence `RecordTxn` uses | the sequence | planned |
| 12 | partition table and key rotation: two slots, the superblock that names one, nonce counters | the table last saved | planned |
| 13 | the unlock's preheat thread against lock and emergency | | planned |

Every safety property a run checks is stated by a theorem of section 6; theorems
about steps 10 to 13 come with their modules.

An `MC...` module beside each component instantiates its constants for the model
checker and defines the symmetry; it adds nothing else.

## 3. The modules and the code

### `AtomicCell` and `SuperBlock`: the three replicas

`AtomicCell` is what the superblock promises: a value that is read as itself and
changes to a proposed value in one step. `SuperBlock` is the code. Its state is
the three slots on disk (`disk`), the `VsbTxnV3` under way (`backup`, `next`,
`okset`, `signer`), the context (`sb`, `key`), and of the transaction log only
the txid of its prepared group (`wal`), because the recovery commits the
superblock once more when it replays a group.

| Action | Code |
|---|---|
| `Open` | the unlock pipeline, stages S1 and S3, and the recovery's commit of the watermark |
| `BeginTxn`, `BeginRewrite`, `BeginChangePassword` | `verthys_txn_v3_commit`, `verthys_rekey_auto_rotate` and the DEGRADE mark, `verthys_v3_change_password` |
| `WriteReplica`, `WriteReplicaFails` | one iteration of `vsb_v3_commit_quorum`: write and fsync of one replica |
| `Succeed`, `Fail` | the count of successes, the verify read, `vsb_txn_v3_commit` or `_rollback` |
| `Confirm` | the quorum read of `verthys_txn_v3_confirm` |
| `Lock`, `Crash`, `CrashTorn` | a clean lock, the death of the process, a power loss in the middle of a frame |

Two readers are modelled because the code has two: `ReadQuorum` is
`vsb_v3_read_quorum` (two replicas with the same contents), `PipelineRead` is what
the unlock does (early candidate by salt, then the greatest txid that two
replicas share, then the first of them). The flatcc frame is abstracted to two
facts: it has a valid structure (`framed`) and it authenticates under one key
(`mac`).

### `ExtentStore`: blocks, counts, compaction

State in memory: the index `idx`, the cursor `next`, the capacity `cap`, the
`ledger` of the transaction. On disk: the index frame with the size in the
superblock (`saved`), the data area (`cells`), the EXTENT records of the group in
the transaction log (`log`, `group`). The record index appears only by its
contract (`recs` for this session, `stable` for the next); `RecordTxn` is the
module that examines that contract.

A block of content `h` occupies `Size[h]` cells, and a cell holds one part of one
block. `Readable` is therefore what decryption and the hash check do: the cells
at the offset hold exactly the parts of that content. Contents of sizes 1 and 2
are what makes a move overlap and a hole too small.

`WriteRecord` is `verthys_txn_v3_write_extent` with everything it calls: the
compaction (`Room`), the growth (`Grown`), the put with deduplication (`Put`) and
the EXTENT record. `WriteRefused`, `DeleteRecord`, `Abort`, `Commit`,
`SaveIndex`, `Confirm`, `Lock`, `Crash`, `Open` and the three steps of the
recovery follow the functions named in their comments. `Replay` is the delivery
of a sealed group's records, one after the other; `Recovered` is the index an
unlock would arrive at now.

### `RecordStore`, `LsmIndex`, `RecordTxn`: records and transactions

`RecordStore` is the promise: a dictionary, operations staged one by one, and a
commit that applies all of them or a drop that applies none.

`LsmIndex` has the index's state and its steps as operators. The log of the index
is a sequence of frames (`frames`) in a region that is overwritten from its
start; nothing in a frame tells one run of the log from another. A reset clears
the header of the first frame (`Severed(frames, 0)`), a rollback clears the
header of the transaction's first frame, and the frames behind stay. Whether
they can be reached again depends on their lengths: the constant `ResidueAligns`
says that frames have equal lengths, so that a new frame ends where an old one
begins, or that this never happens. `Chain` is what a replay decodes, `Newest`
the memtable it builds, which may leave the entries of some transactions out,
`Tables` the newest versions in the tables, `Found` the memtable over them and
`Reads` what of that a get answers: a tombstone hides what lies under it.

`RecordTxn` drives it with the calls of the API. `pc` is the phase of the
transaction; a call that fails goes through `Fail`, `RollbackIndex`,
`RollbackWal`; `RollbackFails` is the retry by `force_abort`; `Lock` and `Close`
are `verthys_v3_lock` and `verthys_lsm_close`; `Unlock` and the `Recover...` actions
are the opening of the index and `verthys_txn_v3_recover` in the order of its steps;
`Compaction` is the background thread. The commit of the superblock is one step
(`Commit`): that it may be is what `RefinesCell` says in `SuperBlock`.

Left out on purpose, because no reachable step has it: the flush that a put would
do on its own (every put runs with the flush suppressed).

### `ImportLog`, `ImportSession`: importing files

`ImportLog` is pure: the lines of `import.wal`, what a replay of snapshot and log
concludes (`Load`), and how that settles the ledger of chunk owners (`Settled`).
`ImportSession` has the three files (`log`, `snap`, `file`), the container
(`metas`, `chunks`), the session in memory and the commands on their way to the
writer thread (`jobs`, `exec`). A command is split where another thread or a
crash can come between: `AppendTake`, `AppendAdd`, `AppendCommit`, `AppendClose`
are the check of the hash, the request to the worker, the COMMITTED line and the
return; `Begin...` are the steps of `import_begin`, `End...` of `import_end`,
`Gc...` of the collection. A writer thread that is silent is replaced while it
executes its command: its job stays in `exec` and finishes under the session lock,
as the code's does. `Crash` keeps the files and the container and loses the rest.

History: `claimed` (owner claims that reached the disk), `collected`, `promised`
(hashes whose line was forced to the disk and not forgotten), `owed` (deleted
records whose hash is still to be forgotten: two calls of the front end), `gap`
(a log was cut whose snapshot was not written) and `excused` (hashes whose outcome was
lost, or whose new record a late tombstone forgot: a `removed` command names a hash and
no session, so that one which waited in a queue until the file had been forgotten and
imported again by a later session forgets the new record). A property names the history
that excuses it, so each excuse can be read.

### `AppSession`: commands, life cycles and the worker

The shared state is the worker's and the key's life cycle, the session and the
guard the last unlock installed; of each worker the process, the queue of its
actor, its standard input and output (`asked`, `answers`) and, inside, whether the
container is open and a key is in memory.
A command is a record in `call` with the place it waits at. `Start` is a
command that takes its copy of the session; `ActorTake`, `ActorWrite`,
`ActorRead`, `ActorEof`, `ActorTimeout`, `ActorShutdown` are the loop of the
actor; `Handle` is the worker; the `...Answered` actions are what each
command does with shared state after its answer, `Init...`, `Destroy...`, `WaitIo`,
`DropSession`, `ResetKey`, `LockEnd` are the steps of starting, stopping and
locking. A worker answers when it likes or never; an answer nobody waits
for stays in the pipe and is read by the next request, as in the code. `Large`
names commands whose request does not fit the pipe of a busy worker: see section 5.

### `UnlockGate`: the guard in front of the password

The definitions that every specification has carry the module's name here (`GateInit`,
`GateNext`, `GateSpec`, `GateTypeOK`), because `SecurityProofs` extends two components.
The guard's fields, its file, the key life cycle's cool-down and a clock (`now`).
A command enters, loads the file if nobody has (`Load`), passes or is refused
(`Gate`), and reports later (`UnlockDenied`, `VerifyGranted`, ...). The front
end's own reports (`FrontFailure`, `FrontSuccess`) go the same way. `Restart` keeps the
file. A time in the past is 0. The clock counts parts of a second (`Second` ticks make
one), because of a lock the file keeps the time it has left in whole seconds
(`SecondsLeft`: `as_secs`, with the clock at the tick of the command or a little past it),
and `Load` counts them from the load on. History: `lockedTill`, `purgeTill` and `since`
say what was imposed whatever the guard remembers; `lockedTill` comes a second earlier with
each restart, the most that the cutting off can cost. `sound` is that no save or load
failed and no command overtook the load.

### `PrivacyMode`: protection of the windows against capture

The mode with its transition or quarantine, the token slot (empty, pending
adoption, active with a lease), and for each window what the system says. A
task of the blocking pool runs `Start...` under the lock, reads, sets and reads
back window after window outside it, rolls back in reverse, and ends
in one of five ways (`Finish...`). `Reap` is any reader of the state that finds a
transition older than 30 s: it declares it stuck, and the task goes on writing. `stray`
is the set of windows last written by such a task or by a step that failed.

### `ScanPipeline`: records on their way to the cache

Loops of the front end (`loop`, one for records and one for summaries), the
application's pipeline of each kind, its prefetching `job`, and the one cursor
and one shared memory of the worker. A page is a set of record numbers with the
name of who asked for it, which stands for the one-time key it is authenticated
with. Record and summary commands are twins in the code; each action stands
for both.

### `FileStreams`: exporting to user files

An export is one record: what its caller was told (`front`), the blocking task
that works for it (`task`), the handle, the chunks written. The table of
sessions, the staging files with their age, the targets and the write mutex are
shared. A command that times out sets `front` and leaves `task` at work. `Ages` is
the passage of 24 h, over a leftover or over the file of an export at work. The sweep of a
new export looks at one name after the other (`Look`: `metadata`, the age) and removes a
name it found old in a step of its own (`RemoveOld`: `remove_file`, whatever has the name by
then); `CreateTemp` is `create_new` after it. No lock is held over the three, so any step
of any export may come between. `Lock` and `Unlock` decide whether an abort is admitted;
`Reload` is the page that forgets its exports, `Crash` the end of the process. History:
`by` is the export that replaced each target last, `swept` the exports whose staging file a
sweep removed and those that lost theirs to one of these.

## 4. The runs

| Run | States | What it asks, what it shows |
|---|---|---|
| `superblock_switch` | 2,560 | all writers, a crash between any two replica writes of a data transaction or of the recovery after it: `RefinesCell`, and exactly one credential opens the container at every instant (`OneCredOpens`) |
| `superblock_faults` | 1,161,443 | all writers with failing writes and verify reads, crashes and a torn frame: the quorum read keeps every acknowledged commit (`ReaderKeepsAck`) and reads the last one back (`AckIsReadBack`) |
| `extent_crash` | 907,670 | no compaction; commits, aborts, two crashes anywhere and a clean lock: `CommittedReadable`, `RefsTrue`, `SampleNeverFails` |
| `extent_compact` | 79,876 | one session, an area of two to three cells compacted again and again: `LiveReadable`, `RefusedOnlyWhenFull` |
| `record_crash` | 450,754 | calls that fail anywhere, locks, lost memtables, compactions, two crashes at any step of a call, a lock or a recovery: `RefinesStore`, `RestartShowsTheSame`, `CallSeesItself`, `IdsAreFresh` |
| `import_crash` | 4,194,562 | one crash and one failed write or lost answer anywhere in imports, deletions and collections: `ClaimedChunksStay`, `SkippedIsStored`, `PromiseKept`, `StoredOnce` |
| `app_session` | 1,208,079 | three commands of any kind, two at a time, two workers that may hang, die or answer late: `KeyStateTrue`, `LockedStaysLocked`, `LifecycleNotStuck` |
| `app_liveness` | 223,263 | the same under fairness, with one command of each way of waiting: `CallsReturn`, `DroppedWorkersDie` |
| `unlock_gate` | 3,354,027 | two attempts at a time, two restarts, a failed save or load: `GuardRemembers`, `PurgeInTime`, `AdmittedOnlyWhenFree` |
| `privacy` | 452,962 | two windows, two tasks, two failing system calls, transitions given up at any moment: `SlotMatchesState`, `WindowsMatchState`, `OffNeedsToken` |
| `scan_pages` | 220,976 | a loop of each kind, three scans, a damaged record, a failed request: `CacheIsComplete`, `ScansEnd` |
| `file_streams` | 4,388,625 | three exports to two targets that share a staging name, sweeps step by step, two failures, timeouts, pauses of a day, locks, reloads or crashes: `TargetIsWhole`, `NoResidue` |

### Bounds

* `superblock_*`: two credentials and two bodies (a rewrite needs a before and an
  after), three transactions for `superblock_switch`. A third version of the
  superblock is what makes a stale replica and an interrupted commit meet; the
  faults run has one failed write more than a single commit tolerates. A container
  whose superblock commit was interrupted twice, with three different replicas,
  opens with no password, which is why `superblock_switch` allows one crash
  between replica writes.
* `extent_*`: contents of sizes 1 and 2 and two or three records. A shared content
  needs two records; a move that overlaps its source needs a size of 2; a hole
  that is too small needs both sizes. Two crashes are needed for a recovery that
  crashes after a call that crashed. `extent_compact` has no crash and no content
  written again after its deletion, because section 5 has both: it shows that
  nothing else goes wrong.
* `record_crash`: two contents, three ids, two transactions of two operations. The
  second transaction takes the txid and the place in the log of a failed first
  one; the second operation is what an incomplete rollback would leave behind;
  `FlushAt` = 2 and `L0Trigger` = 2 make one call fill the memtable and two flushes
  fill level 0. Two crashes: one in a call, one in the recovery of it.
  `MaxFaults` <= 1: from a second failure in a row `force_abort` gives up the exact
  rollback, as its comment says; the model stops before it. There are two levels
  of tables: tombstones are dropped only by a merge into the last of the engine's
  levels, which a small container does not reach. `ResidueAligns` is off, see
  section 5.
* `import_crash`: one hash and three ids. What goes wrong between two files of
  one hash and between one file imported, deleted and imported again is the same
  chain of files and lines; two hashes with shorter logs were checked once.
  Four lines hold an import, its end and the next begin. `CallsOverlap` is off. With
  one command in the queue no tombstone comes late; an instance with two and four ids
  was checked once, and the theorems of section 6 hold for any number.
* `app_session`: two commands at a time are what a race is; the third is the
  one that finds what they left (an answer in the pipe, a replaced worker).
  `app_liveness` has the commands that wait in different ways: for an
  answer, for other calls, for a new worker.
* `unlock_gate`: the thresholds 2 and 3, so that a lock and a purge come from the
  same failures in either order; two ticks to the second, locks of one or two seconds
  (the jitter), a purge of two and a clock to three, so that each ends within the run. The
  second restart is the one that loads what the first left of a lock.
* `privacy`: two windows are a set and a rest that fails; two tasks are one given
  up and its successor; with two faults a set and its roll-back both fail.
* `scan_pages`: pages of two of three or four records: a full page, a short one and
  the empty last one.
* `file_streams`: three exports are a late one, its successor and one on the other
  target, or a leftover and two that sweep it at the same time; the second mishap is
  what has to go wrong besides a pause or a leftover. One chunk: a part is the empty or the
  torn file. Two chunks were checked once (10,244,479 states, no error).

A crash is the death of the process: what was written stays written, in the
order it was written. Only `CrashTorn` (one frame) and the torn line of the import
log model a write cut short.

### Fairness

Two runs assume some. `app_liveness`: the steps of a command in the application
(`CallStep`) and of the actor (`ActorStep`) are weakly fair, because they are tasks of
the runtime, and every deadline is one of these steps; nothing is assumed of
the worker, which may hang for ever. `scan_pages`: the steps of a running loop and
of a prefetching task are weakly fair; every request they make has the actor's
deadline, and an answer is one of their steps. Neither assumes that a user
starts or cancels anything. The other properties are safety properties; a
lock-up a user would notice is stated as one where it can be
(`SampleNeverFails`, `RefusedOnlyWhenFull`, `LifecycleNotStuck`). `CHECK_DEADLOCK` is off
where a run ends when its bounds are used up.

### Mutants

Each property of a run has a mutant in `PROJECT.json`: a variant of a definition,
kept beside it and marked "Variant", that changes it as a plausible slip in the
code would (agreement by txid alone, a replayed record counted once, a group
replayed on PREPARE alone, a tombstone not replayed, a verification applied in any
state of the key, a lock that is not part of what is saved, a lease kept after a
failed transition, a page that stops at a damaged record, a staging file created
over another one's).

## 5. What the code does otherwise than its text says

Each was met while building the models, as a counterexample to a first form of a
property or as the reason of a switch.

* **Superblock.** A rewrite (key rotation) that is acknowledged with replica 0
  failed is lost: the unlock agrees by txid, which a rewrite keeps, and takes the
  first replica with it (`PipelineKeepsAck`). Replicas are overwritten in place; a
  power loss while replica 1 is written leaves new, torn and old, and no two agree
  (`SomeCredOpens`).
* **Extents.** A write compacts the data area and is aborted; the lock does not
  save the index; after a clean lock and unlock a committed record is unreadable
  (`LockKeepsReadable`). A content whose entry has no reference left is written
  again after a compaction; the lookup by hash revives the entry with an
  offset that now holds another block (`Rewrites`). A compaction lowers the cursor
  below a dead entry; the saved index is refused by the check of the next unlock
  (`IndexLoads`).
* **Index.** An import of two records fails and is rolled back; a record of the
  same frame length is added; after a restart the second record of the failed
  import is there, and deletions of a rolled-back call come back in the same
  way (`ResidueAligns`).
* **Import.** A tombstone names a hash, so deleting a duplicate record of the same
  contents takes back the claim of the other one. A torn line makes every later
  load fail. A crash between the cut of the log and its snapshot loses or
  revives hashes (`gap`). The collection checks for an active import and then
  works: an import that begins in between has its chunks collected
  (`CallsOverlap`). A collection that deleted its chunks and did not save
  the ledger never converges, because the worker refuses a batch with a missing
  id as a whole (`NextCollectionConverges`).
* **Commands.** Answers carry no request id: one that comes after its deadline is
  given to the next caller (`AnswerIsOwn`; the comment of `handle_send` says
  otherwise). A large request to a hung worker blocks the actor with no deadline
  (`Large` with `RecordCommands`). `worker_init` while Ready kills the healthy
  worker and leaves the session on it; the recovery count is not reset by a
  success; `verthys_lock` leaves the life cycle Ready; a failed unlock drops
  whichever session is current; a probe for a stored key that fails counts as
  "no key", and deriving one then deletes the record that is there.
* **Guard.** The flag that the file is loaded is set before it is: a second command goes
  past the guard that is still empty, and a save of its own overwrites the file (`sound`). A
  failed save is only logged. The rest of a lock is saved in whole seconds, so that every
  save with a restart after it shortens the lock by up to a second, and the last second of
  a lock is saved as none (`brute_force.rs:418`; `lockedTill` without the second for each
  restart is violated in `unlock_gate`). Failures within the rate limit are not
  counted, and a success within it is dropped as well.
* **Capture protection.** "All or nothing, a failure is rolled back" and "an
  expired task only writes audit records" (the header of the controller) do not hold of
  the windows: a window whose set succeeded and whose read-back failed is not rolled
  back, and a task declared stuck goes on writing, after a reconcile too (`stray`).
* **Scans.** A record added before the first scan raises the largest id, and
  the scan skips what is before it (`EarlyAdds`). A record and a summary scan at the
  same time share one cursor and one shared memory, and pages are lost (`Overlap`). A
  prefetch that outlives its shutdown's wait takes a page of the next scan
  (`SlowShutdown`).
* **Exports.** "At any moment the target is the old complete file or the new one"
  (`file_controller.rs:1557`), the sweep "does not touch fresh leftovers, which may belong to
  a session at work" (`1573`) and `create_new` "rules out two writers of one staging path"
  (`1615`) do not hold of an export whose staging file a sweep removes, and there are two ways
  to that. A running export pauses for 24 h. Or, with no pause, two exports begin over the
  same old leftover: one has judged it old, the other removes it and creates its own, the
  first removes that by name and creates its own. Either way the deprived export goes on to
  rename the other's partial file onto its target and reports success. `TargetIsWhole`
  names these exports (`swept`) and says that nobody else is harmed. A failed sync, a create that timed out, an abort that is
  refused because the vault was locked, a failed removal, a reload and a crash
  leave a staging file, which blocks exports to that target, and to any that shares
  its name, for up to 24 h (`excused`). A finalize that timed out is
  reported as failed and may still replace the target later; a late write of
  a whole file may overwrite a newer one.

The operators named here that no run checks (`PipelineKeepsAck`, `SomeCredOpens`,
`LockKeepsReadable`, `IndexLoads`, `NextCollectionConverges`, `AnswerIsOwn`) stay in the
modules: add one as an INVARIANT to a configuration, or turn the named switch
on, and the model checker shows the behaviour.

## 6. What is proved

A theorem holds for every value of the constants that satisfies the assumptions of
its module. The assumptions type the constants: bounds are naturals, a switch is
Boolean, there is some window, every target has a staging name, the value that stands
for nothing is none of the values it is told from. One does more: `RecordTxn` stops
before a second failure in a row (`MaxFaults <= 1`, see the bounds). A few theorems
need a hypothesis besides, because without it the statement is false. It is then a
definition with a name, and what it excludes is in section 5:

| Hypothesis | Says | Theorems |
|---|---|---|
| `OneInterruption` (`SuperBlockProofs`) | no failing write, at most one crash, in a data transaction or at rest: the setting of `superblock_switch` | `OneOpens`, `Refinement` |
| `NoCompaction` (`ExtentStoreProofs`) | no write finds the data area full and moves blocks: the setting of `extent_crash` | `CommittedIsReadable`, `SampleIsReadable`, `UnmovedIsReadable` |
| `FirstSession`, `~Rewrites` (`ExtentStoreProofs`) | neither a crash nor a lock so far; no content is written again after its last reference was taken: the setting of `extent_compact` | `SeenIsReadable`, `RefusedForRoom` |
| `Cardinality(Hashes) <= MaxEntries` | the index has an entry for every content: a dead entry is never given back, so that an index full of dead ones refuses a write | `RefusedForRoom` |
| `~ResidueAligns` | frames left in the index's log are not reached again | those of `RecordTxnProofs` but `TypeCorrect` |
| `Alone` (`ImportSessionProofs`) | begin, collection and forgetting wait for each other (`~CallsOverlap`) | those of `ImportSessionProofs` but `TypeCorrect` |
| `Alone` (`ScanPipelineProofs`) | one scan at a time, records added before only, a shutdown waits for the prefetch | `NoneMissing` |

The inductive invariants below were also checked by TLC on the run of their component. What a recursive definition computes is proved without induction over data:
a set of counterexamples among the positions of a sequence has a least element
(lemmas `Least`, `LeastAndLargest`, from the well-founded order of finite sets), and the
definition's equation at that position contradicts it.

**`SuperBlockProofs`**, for every set of credentials and bodies:

* `TypeCorrect`: `Spec => []TypeOK`. One step per action; the lemma `BeginType` serves
  the three writers and the recovery, `SlotTypes` the two ways to write a slot.
* `NeverBehindAck`: `Spec => []ReaderKeepsAck`. The property is not inductive: that a
  quorum never shows an old view depends on how many slots still have one.
  `IInv` adds two conjuncts. `FewStale`: at most one slot has a view that is older than
  the acknowledged commit (not in `since`). `Committing`: while a commit runs, every
  slot counted as written has the new view. A commit is acknowledged with two
  written slots (`Committing`), so at most one is older (`FewStale`); every later write
  puts a view into a slot that is in `since`; and two slots that agree cannot both
  be the one older slot (lemma `FewStaleSuffices`, from `TwoMembers` about sets of
  two). Failed writes, retries under the same txid, crashes and torn frames only
  write views that were proposed after the acknowledged one. The theorem is about
  `vsb_v3_read_quorum`; the same statement about the unlock pipeline is false
  (section 5), which is the difference between agreement on contents and
  agreement on a txid.
* `AckReadBack` (`AckIsReadBack`), any number of faults. `SignInv` adds the keys: a
  replica that authenticates does so under the credential of its own view
  (`SignedByItself`), the context holds the key of the view it shows (`Keys`), the slots
  counted as written carry the whole frame (`Complete`), and while no later commit was
  tried two slots carry the acknowledged one (`AckStays`).
* `OneOpens` (`OneCredOpens`) and `Refinement` (`RefinesCell`), under `OneInterruption`.
  `CellInv` says for each phase which of the three slots show what: at rest replicas 1
  and 2 show the context's view and replica 0 may show a transaction that was
  interrupted (`AtRest`); an interrupted transaction that the next unlock reads has its
  group in the log (`ToReplay`); during a commit the slots before `next` show the new
  view and the others the old one (`AtCommit`, `Replaces`). From it `Delivered`, the
  value a reader gets, is the old one until the write that makes the new one the
  majority (`Switched`), and that one step is the step of the abstract cell.

**`ExtentStoreProofs`**, for any contents, sizes, records and limits, and any number of
calls and crashes. What `Width`, `Replay` and `CellsMoved` compute is said once for
sequences of any length (`WidthIs`, `ReplayIs`, `ReplayAppend`, `ReplayKeeps`,
`PackedGrows`, `CellsMovedRead`).

* `StoreTypes` (`TypeOK`). Not inductive alone: a compaction copies cells, so that
  `InArea`, which keeps every block below the largest data area, is proved with it.
* `CountsAreTrue` (`RefsTrue`) has no hypothesis: compaction, contents written again and
  crashes in the middle of a recovery included. `RefsInv` adds which group is in the log
  in which phase (`PhaseOK`), that a content has one entry and what the ledger
  mentions has one (`SlotsOK`), that the ledger is the difference between the records
  the call sees and the committed ones (`LedgerOK`), and the counts of every index that
  a crash can make the current one (`CountsOK`): the one in memory, the saved frame, and
  the frame with the log replayed, at each point of commit and recovery. A replay
  that is repeated after a crash only raises counts, and without a crash there is none
  (`ExactOK`).
* `CommittedIsReadable` (`CommittedReadable`), `SampleIsReadable` (`SampleNeverFails`) and
  `UnmovedIsReadable` (`LiveReadable`, `IndexLoads`), as long as no compaction begins.
  `AreaOK`: a block is written above all that the memory, the saved frame and
  the log refer to (`Intact`). With a compaction before a lock or a crash all three
  are false (section 5).
* `SeenIsReadable` (`LiveReadable`) and `RefusedForRoom` (`RefusedOnlyWhenFull`), in a session
  that compacts. `KeptOK` lays the entries out: those that are live, and those that a
  running deletion may have to give back (`Kept`), follow one another below the cursor
  and can be read. A compaction moves block after block to the sum of the sizes before
  it, never above the next block's place, so that no block is overwritten before it was
  copied (`CellsMovedRead`), and it keeps the order it relies on the next time (`LaidRoom`).
  An abort gives back what was deleted, but no entry that was dead before the call.

**`RecordTxnProofs`**, for any number of records, transactions, operations and crashes,
any thresholds of flush and compaction: `TypeCorrect`; `Recoverable`, the inductive
invariant; `SessionIsDurable` (`RestartShowsTheSame`), `OwnWrites` (`CallSeesItself`),
`FreshIds` (`IdsAreFresh`) and `Refinement` (`RefinesStore`). Two dictionaries carry the
argument: `Session` is what the log, replayed whole over the tables, shows;
`Committed` the same without the entries of the transaction the superblock does not
have. The invariant is

* `LogInv`: such entries are in the log only while their call is under way or
  recovery still has to leave them out, and then exactly behind `base`, where a
  rollback cuts;
* `WalInv`: the log of transactions has one group, the superblock's or the next one, and
  a group whose txid the superblock has was prepared;
* `MemInv`: the memtable is the replay of the index's log, or what recovery made of
  it, or lost after a flush when the tables have everything;
* `RedoInv`: what recovery puts again is in `Committed` already, so that a recovery
  that crashes can be repeated;
* `CallInv`: while a call runs, `Session` is `Committed` with the call's
  operations applied in their order, new ids being new;
* `LidInv`: no id is above the counter ids are taken from.

From the invariant `Committed` changes only with `Commit`, where it becomes `Session`;
every other step, flush, compaction, rollback, crash and each step of the recovery
included, leaves it alone. That is the refinement. The lemmas about `Newest`, `Merged`,
`Chain`, `Applied` and `Redo` say what these compute for sequences of any length.

**`ImportSessionProofs`**, for any number of files, ids, commands, crashes and faults:
`TypeCorrect`; `SkippedStored` (`SkippedIsStored`), `PromisesKept` (`PromiseKept`),
`NeverTwice` (`StoredOnce`) and `ClaimsHold` (`ClaimedChunksStay`). The lemmas about `Load` say
what one more line, a cut or a torn line changes in a replay. The invariants:
`Separate` and `CutLog` (who may run beside whom; while the snapshot is behind, the log is
the skeleton that a cut left); `Hashing`: whatever will be taken for the set of known
hashes - the files, the replay of a begin, the snapshot about to be written, the
session - has all that was promised (`Faithful`) and nothing whose file is
gone (`Backed`), unless the log lost its snapshot (`gap`); `Single`: a hash with a record is
promised or its line is being written, and a writer that adds a record found none; for
the chunks, `OneTie` (a chunk is mentioned for one file only, by record, queue, writer and
log), `NewId`, `Ledgers` (who settles a ledger in memory started from the one on disk),
`Uploads`, and `Claims`: a claimed chunk has not been collected and is no garbage, neither
in the ledger once it is settled from the log (`Held`) nor in the one on disk from the
moment the log may be cut (`Settling`).

**`AppSessionProofs`**, for any number of commands, workers and crashes: `TypeCorrect`,
`NeverStuck` (`LifecycleNotStuck`), `LockStays` (`LockedStaysLocked`) and `UnlockedIsTrue`
(`KeyStateTrue`). `LifeInv`: a life cycle in transition has the command that
ends it, and only one initialises. `LockInv`: a lock about to return has reset the key, and
whoever set it again is an unlock that is running or was issued later. `KeyInv` follows
an answer on its way: while key commands do not cross, a verification that the worker
has confirmed (`Said`) has left the key in its memory. It needs to know whose answer is in the
pipe, which is `InTurn`: a worker that always answered in time has at most one
request or answer on the way, that of the call its actor waits for. The queue part of
`TypeOK` is proved inductive with it: whoever waits for an actor stands in its queue
exactly once.

**`SecurityProofs`** has the theorems about the two guards of the application, which share
no state.

The guard in front of passwords, for all thresholds, times and bounds and any number of
attempts at a time: `GateTypes`, which includes that each counter stays below its
threshold in memory and in the file; `Remembers`, `Purged` and `Admitted` are
`GuardRemembers`, `PurgeInTime` and `AdmittedOnlyWhenFree`. The invariant is `GateTypeOK /\
LoadedFirst /\ MemoryHolds /\ FileHolds`: what was imposed is in memory once it is
loaded (`MemoryHolds`), and in the file before (`FileHolds`), but for the part of a second
that was cut off (`WholeSeconds`, `TimeLeft`) and that the next restart is allowed
(`LeftOut`), so that a restart at any moment finds it; before the load no command is under way, and one at a time
loads (`LoadedFirst`). `Admitted` follows from the invariant and the guard of `Gate`.

The protection of the windows, for any number of windows and tasks: `TypeCorrect`,
`SlotFits` (`SlotMatchesState`), `OffByToken` (`OffNeedsToken`) and `WindowsFit`
(`WindowsMatchState`). `SlotMatchesState` is not inductive: a task that was given up comes
back with a lease. `SlotInv` adds that the current transition's task holds the lease in
the slot (`CurrentOwns`, `LeaseIsOwn`), that numbers of transitions and leases are used
once (`IdsAreUnique`), and that the start-up and a reconcile, which write the mode
without a lease, are alone (`StartUpAlone`, `ReconcileAlone`). `WinInv` follows the
windows of the one task whose writes count: those it has confirmed show its target and the
others what they showed before, which is what its roll-back restores (`Traced`), and a
reconcile's show the mode. A window that a given-up task or a failed step wrote last is
in `stray`, in the property as in the invariant.

**`ScanPipelineProofs`**, for any number of loops, records, pages and failures:
`TypeCorrect`, and under `Alone` `NoneMissing` (`CacheIsComplete`). `Order` is who may touch
the worker's cursor: one loop is active (`Solo`), the application holds no scan that a
loop has taken away (`Taken`), and a prefetch that has yet to move the cursor belongs
to the kind being scanned (`Posted`). `Data` is what is on its way: every record the
cursor has passed is in the cache or on the one page between worker and
front end (`CursorFits`, `PageFits`), so that a page that is merged leaves no hole below its
largest number. It says so only of a loop that still owns its kind and was not
cancelled (`Valid`), and no other one merges.

**`FileStreamsProofs`**, for any number of exports, targets and failures and any
sharing of staging names, pauses and sweeps included: `TypeCorrect`; `ResidueIsExcused`
(`NoResidue`); and `TargetsStayWhole` (`TargetIsWhole`). The invariant is `Core /\ AtWork /\
OnDisk`. `Core` says which combinations of caller, task and handle exist (`Shape`), that a
failed export is excused or its removal is under way (`Excused`), and that an existing
staging file is its creator's (`Owned`); `AtWork` that an export between create and rename
still has its file, or is in `swept`; `OnDisk` that the contents of a target, unless its
export is in `swept`, are whole and will not change with their export. A rename therefore
moves the renamer's own file, with all its chunks, and who takes another's file was
deprived before and passes its mark on. `Lift` and `LiftWhole` reduce a step of one export
to the export it changes and to the files it touches, `SweepStep` does so for the steps of
a sweep; there is one
`...Step` lemma per action. The type invariant is proved and needs no run.

## 7. What is only model-checked

* `CallsReturn`, `DroppedWorkersDie` and `ScansEnd` are liveness under fairness, which the
  prover does not do.
* The statements of section 6 with a hypothesis are false without it; the behaviours the
  hypotheses exclude are described in section 5.

## 8. What is not modelled

`PROJECT.json` lists every component with its status and reason. In short:

* In the engine cryptography is abstracted to "authentic or not"; formats, codecs
  and system calls have no state the properties depend on. Nonce counters, the two slots
  of the partition table, the halves of the transaction log, the preheat thread
  and the warm cache are steps of the plan and hazards listed without a property.
* In the application the flush queue of the front end is planned. The state file and
  pointer of the container, the patrols and guards of `security` (`background_patrol`,
  `session_guard`, `clipboard_guard`, `usb_guard`, preflight) poll the
  operating system and report; they hold no state that a command above depends on.
  Thin command wrappers, user interface and platform services are glue.
* Vendored libraries and their patches, and generated accessors. They are a large
  part of the Rust in the repository, and the engine is C: the share of Rust lines the
  modules stand for says little about either.
