# Verification of Bóveda PyME

TLA+ models of the backup tool in `src/src/boveda`, the TLC configurations that check
them on small instances, and TLAPS proofs of their main properties for every size.
Paths below are relative to `src/src/boveda` unless they begin with `src/`.

## The system

`boveda backup` runs a command, cuts its output into content-defined chunks,
compresses and encrypts them, stores each as an object in an S3 bucket and keeps the
catalogue of snapshots, chunks and links in SQLite. Any number of commands may run at
once on one catalogue; nothing but SQLite's write lock coordinates them.

| part | state it keeps | operations | meets |
|---|---|---|---|
| catalogue (`database.py`) | tables `snapshots`, `chunk_pool`, `snapshot_chunks`; triggers keep `ref_count` and `state` | transactions, each under `BEGIN IMMEDIATE` | every command |
| backup (`cli.py` 154-329) | its snapshot's row | insert RUNNING; per chunk: check/insert the row, upload, insert the link; COMPLETED or FAILED; purge | catalogue, bucket, engine, retention |
| retention (`retention.py`) | marks in the catalogue | unlink expired snapshots; purge in two phases around an S3 call | catalogue, bucket, other backups |
| startup cleanup (`storage.py` 53-68) | - | RUNNING rows become FAILED | catalogue |
| engine (`engine.py`) | queue of one place, event, semaphore, tasks, process with two pipes | read, cut, queue, encrypt, upload | connectors, cutter, `upload_callback` |
| cutter (`fastcdc.py`) | buffer, scan offset, fingerprint | `feed` | engine |
| breaker and router (`circuit_breaker.py`) | one breaker per provider | `call`, `upload_chunk` | providers, outbox |
| outbox (`storage.py` 106-310) | table `outbox_chunks`, files in `staging_dir` | `enqueue_chunk`, `drain_outbox_queue` | providers, other workers |
| keys (`keys.py`, `crypto.py`) | salt and wrapped DEKs in the catalogue | `init`, derive, wrap, rotate | backup, restore |
| restore, verify (`restore.py`, `cli.py`) | output file | take the lock, prompt, read links, fetch, check | catalogue, bucket, keys |
| tickets (`auth.py` 136-179) | an ordered dictionary in memory | `create_ticket`, `consume_ticket` | API's threads and event loop |
| API, alerts, logging, manifest | - | see PROJECT.json | - |

What is hard, and where: several processes between whose transactions others fall
(backup against purge, purge against purge, cleanup against backup); S3 calls made
outside any transaction and retried as a whole; crashes between the phases; four tasks
of one event loop around a bounded queue and two pipes, one of which may fail; upload
outcomes that reach a breaker late; outbox workers that outlive their claim; rotations
of the key between the backups whose keys they re-wrap; a retention rule applied again
and again to what it left. What makes
each part correct is the list of properties below; `hazards` in PROJECT.json names the
lines.

Some parts have no caller in the program yet: `cleanup_in_progress_snapshots`,
`transition_snapshot`, `classify_snapshots`, the breaker, the router and the outbox are
exercised by the tests alone. They are modelled as the functions they are, under the
use their docstrings announce ("al arrancar", drained over and over by workers).

## The modules

| module | models | uses |
|---|---|---|
| `Catalog` | tables as values, triggers and foreign keys as operators on them | - |
| `BackupPurge` | `backup`, the purge, the cleanup, by any number of processes over one catalogue and one bucket | `Catalog`; implements `Archive` |
| `Archive` | abstract: a sealed snapshot offers the same chunks until retention drops it | - |
| `StreamEngine` | `streaming_pipeline`, await by await | implements `Pipeline` |
| `Pipeline` | abstract: chunks stored in order, none after the first failure, a clean return has stored all | - |
| `FastCDC` | the streaming cutter, with a reference chunking of the whole source | - |
| `CircuitBreaker` | breakers of the providers and the router's cascade | - |
| `Outbox` | staged files, table and workers | - |
| `RetentionPolicy` | `classify_snapshots` over any calendar | - |
| `Recovery` | a vault over time: `init`, backups, `rotate-kek`, `restore`, `verify`, retention, objects that decay | `RetentionPolicy` |
| `TicketStore` | tickets between racing requests | - |
| `MCBackupPurge`, `MCCircuitBreaker`, `MCFastCDC`, `MCRecovery` | constants for TLC | |
| `BackupPurgeProofs`, `NoDanglingProofs` | proofs | `BackupPurge` |
| `StreamEngineProofs`, `FastCDCProofs`, `CircuitBreakerProofs`, `OutboxProofs`, `RecoveryProofs`, `TicketStoreProofs` | proofs | the module of that name |

The parts meet through narrow promises, so they are composed by refinement rather than
by one big product: `BackupPurge` takes of the engine that chunks are stored one after
the other and none after a failure (`ChunkError` leads to `shutdown`, which ends like
the source's end), and `Pipeline` states that promise for `StreamEngine` to implement.
`Recovery` takes of `BackupPurge` that links are saved in order and a COMPLETED
snapshot's links stay until retention drops it (`LinksArePrefix`, `LinksSealed`): there
a backup's chunks appear in one step.

### BackupPurge

A process is named by the snapshot it writes. `pc` says where it is: `prepare`,
`upload`, `save` are the three parts of `upload_callback`; `eof` and `shutdown` the two
ways the pipeline returns; `unlink`, `phase1`, `s3_delete`, `revert`, `next` the purge.
A step is one transaction (every session begins with `BEGIN IMMEDIATE`, the "begin"
listener of `get_engine`) or one S3 effect: S3 removes the keys of one call one at a
time (`DeleteObject`). A retry of `delete_objects` may remove a key again that was
already sent. `Faults` chooses which failures may happen: S3 calls, keys S3 keeps,
transactions, the source command, death of a process, the cleanup, and the driver's
refusal of nested transactions.

That last one is how the code behaves as it stands: `_db_check_and_prepare` and
`_save_chunk_ref` issue `BEGIN IMMEDIATE` in a session whose "begin" listener has
already done so. SQLite refuses, every upload fails, and (run `silent_complete`) the
snapshot ends COMPLETED without chunks. The other runs of this module leave that fault
out, to check the design that is left once the second BEGIN goes.

Hashes: `c_hash` covers a header with a random nonce and a ciphertext under a random
DEK, so two payloads never share one (`UniqueHashes`), and the deduplication that
`chunk_pool` is made for does not take place. `core_unique` and the proof of
`NoDangling` take the hashes as the engine makes them; `core_shared` as `chunk_pool`
was designed for, and so leaves `NoDangling` out: with shared hashes a chunk may be
linked again between phase 1 and the S3 call, and the purge deletes it all the same.

`LeakBounded` limits what nobody cleans up: a row in ACTIVE without a link, which no
purge will ever select, is the one chunk some backup is at or stopped at.

### StreamEngine

A step runs from one await to the next. `reader` and `writer` are the places of
`read_source` and `compress_encrypt_upload`; `background_tasks` the `do_upload` tasks.
The unit of pipes, buffers and the queue is a chunk; how many chunks a read yields is
left open between none and all there is to cut. A put or get that races with
`shutdown_event` may or may not have happened. `PipelineEnds` includes what
`asyncio.run` does to the tasks it finds alive.

### FastCDC

Sizes, masks and word width are constants with the order of the real ones. `Feed`
extends the buffer, `Turn` is one turn of the generator's loop. `Chunking` cuts the
whole source with a plain sum over the bytes, each times a power of two, which neither rolls
nor is cut to a width. `ChunkLengths` states the bounds of the two sizes, of which
only the last chunk of a source may miss the lower one.

### CircuitBreaker

Sections under the breaker's lock contain no await: one step each (`Cooled`,
`RecordSuccess`, `RecordFailure`, `RecordCancel`). A call may be cancelled at any moment
(`Cancel`), and a cancelled probe opens the circuit again, so `Recovers` has two
hypotheses: the provider answers for good, and its probes are not cancelled for ever.
Times are ages that stop growing at the limit they are compared with, so no clock has to
be bounded. `InWindow` drops old failures from the front of the deque alone, as the loop does; `OpensOnFailures` says
that a circuit opens only when a whole threshold of failures lies within the window.

### Outbox

`WriteStaged`, `Insert`, `InsertFails` are `enqueue_chunk`; a worker goes from `Claim`
over `ReadStaged`, `Upload`, `Confirm`, `Unlink` to the next row. `rows[w]` is what its
SELECT returned, with the attempts of that moment. `ClaimExpires` makes the 15 minutes
pass, with `SlowWorkers` also while a worker is still at the row. `MaxAttempts` stands
for the literal 10.

### RetentionPolicy and Recovery

`classify_snapshots` is three set operators and their complement. ISO weeks and months
are parameters `WeekOf` and `MonthOf`, any two functions that never go back; the proofs
hold for every calendar.

Every session of the program, reading ones included, begins with `BEGIN IMMEDIATE`, and
holds the lock to its commit or close. So `init`, `rotate-kek` (whose prompts come
before the transaction) and each transaction of a backup are one action, and `restore`
and `verify` are sequences of actions that shut all writers out: `session` is the lock
and what its holder has read so far.

A backup is `StartBackup`, then `CompleteBackup` or `FailBackup`, or `Crash` and another
process's `StartupCleanup`. With its final estado written it is not over: it runs the
purge (`purging`), inside the `try` of the whole command, and ends by `EndBackup`, or by
`GeneralError` when the purge raises, whose handler writes FAILED over the snapshot,
be it COMPLETED or already EXPIRED. `BackupPurge` has the same step in detail, with the
ways to get there; `AccessKept` therefore excepts the handler of a snapshot's own backup
as long as that backup is purging, and nothing else.

`RotateKek` re-wraps the DEKs of COMPLETED and EXPIRED snapshots and replaces the salt.
`RotateInterrupted` is a rotation that stops after some of the rows, because another DEK
does not unwrap or the process dies: `Committed` is what the database keeps of those
rows, nothing, because the one commit comes after the loop and the salt. Its wrong
version commits inside the loop, and `CompletedUnwraps` does not survive it. A KEK is
the pair of passphrase and salt (Argon2id taken as injective), a wrapped DEK the pair of
KEK and DEK (AES-GCM refuses every other key).

`verify --full` asks for the passphrase and compares hashes and sizes, and never tries
the key on the DEK; what it passes is `verified` until an object of it decays. `Decay`
turns an object's bits or removes it at any time, between the chunks of a restore too
(objects of snapshots that are not COMPLETED are left out: nobody reads them again).
`Expire` applies `classify_snapshots`, to all rows or to the COMPLETED ones (its caller
is not written yet), and `Purge` drops what it gave up.

Fault kinds: `rotate_running` (a rotation while a backup runs), `stale_passphrase` (a
scheduled backup that still has the old one), `crash` (of a backup or a rotation),
`purge` (the purge of a backup raises), `cleanup` (of another process), `read` (S3 stays
silent, or the operator gives up).

### TicketStore

`create_ticket` is `ComputeExpiry`, outside the lock, and `Store`, inside; the call of
another thread may fall in between, so the dictionary is not in order of expiry.
`consume_ticket` is `Pop` or `PopNothing` under the lock and `CheckExpiry` after it. The
module is small enough to be proved outright, and has no run of its own.

## Runs

| run | instance | shows |
|---|---|---|
| `core_unique` | 2 snapshots of 2 chunks, hashes unique, all faults but `nested_begin`, `s3_partial` | types; `RefCountExact`, `PurgeableIsUnreferenced`, `NoDangling`, `NoUntrackedObject`, `LinksArePrefix`, `LeakBounded`; `LinksSealed`, `PurgeIsFinal`; refinement of `Archive` |
| `core_shared` | 3 snapshots of 2 chunks, one hash, S3 and database faults | counts and row states when several links, of one and of several snapshots, share a row and backups take rows back from the purge, which with unique hashes never happens |
| `fsm_race` (violation) | 3 snapshots, no fault | two purges of one list: FAILED written over COMPLETED |
| `silent_complete` (violation) | 1 snapshot of 2 chunks | COMPLETED with chunks missing |
| `stream` | 6 chunks, 2 units of stderr, pipes of 1, queue 1, 1 upload | prefix, clean return, the writer stops, the pipeline ends without a failure; refinement of `Pipeline` |
| `hang` (violation) | as `stream` | after a failed upload the pipeline may never end |
| `fastcdc` | every source up to 11 bytes of two values, every split | chunks depend on content alone and have the right lengths; buffer bounded |
| `breaker` | 2 providers, 2 uploads | closed circuits carry no old failures, open on a threshold of recent ones alone, the canary flag stands for a probe, recovery |
| `canaries` (violation) | 1 provider, 2 uploads | two probes in flight in HALF_OPEN |
| `outbox` | 2 chunks, 2 workers, 2 attempts, batches of 2 | nothing lost, PROCESSED is stored, every row is delivered or given up |
| `recovery` | 2 snapshots of 2 chunks, 2 salts, 2 passphrases, 4 instants, 1 damaged object; crashes, purges that raise, cleanup, silent S3 | DEKs unwrap, also after a rotation that stops half-way; a restore writes a prefix of what is linked, what verify passed can be restored, no recent week or month loses its snapshot, nobody loses access to a snapshot whose backup has ended, the lock comes back once the prompt is answered |
| `rotation_running` (violation) | 2 snapshots of 1 chunk | a rotation during a backup: COMPLETED with a DEK nobody can unwrap |

Every property of a passing run has a wrong version of some operator (name beginning
with `Slip`) that makes TLC find it violated; `mutants` in PROJECT.json pairs them.

Why the bounds are enough. Two snapshots of two chunks give two purges, a backup that
is half-way when another's purge runs, and rows that move independently; `BatchSize = 1`
makes the LIMIT cut a batch. Three snapshots on one hash give two links that stay while
others go and a list of two for a purge to be late on. Six chunks exceed what queue, stdout pipe,
reader, writer and upload hold with one chunk each, so the whole chain back to the
process is blocked at times; two units of stderr exceed its pipe. Two values of bytes cut chunks of every length from 4 to the limit of
7, and 11 bytes are two chunks or a limit and a rest. One upload beside the probe is what
the breaker's bookkeeping can be confused by. Two workers overlap on a row in every
order, and two attempts make both a retry and a dead letter. In `recovery` the second
snapshot makes the first one lose its places of week and month, one after the other,
because the two calendars change at different instants (of weeks the last two are kept,
of months one); two salts are one rotation, before which any number may stop half-way, and two chunks with one damaged object let a
restore fail at its second chunk. A second rotation or a third snapshot brings no new
case (`Rewrap` goes row by row) and is covered by the proofs.

Symmetry over snapshots is used in runs whose liveness is not asked for.
`CHECK_DEADLOCK FALSE` is set for the engine, the cutter, the outbox and `Recovery`, which come
to an end (the last one when instants, salts and snapshots are used up); BackupPurge has an explicit `Terminated` step, and the breaker never stops.

### Fairness

`BackupPurge` has none: nothing in it must happen. `StreamEngine`: every task that can
go on does (the event loop), an S3 call ends after at most five attempts (`tenacity`),
a process whose pipes have room goes on to its end. `CircuitBreaker`: calls of uploaders
end, chunks keep coming, time passes; providers come and go as they like, and `Recovers`
states itself what it needs of them and of cancellations. `Outbox`:
workers that live go on, time passes, and the failure handler's transaction, tried again
and again, gets through some time (strong fairness of `RecordFailure`); uploads may fail
for ever. `Crash` leaves one worker alive. `Recovery`: the steps of a restore or verify
that has the lock and is past the prompt go on (S3 answers or is given up after five
attempts). Nothing makes the operator answer the prompt, so `LockReleased` begins after
the answer: at the prompt the lock is held for as long as the operator takes. Nothing
else must happen.

## Proofs

Every safety property that a passing run checks is also a theorem, as are the two
refinements: for any number of processes, chunks, hashes, providers and workers, any
sizes and limits and, unless a bullet says otherwise, any set of faults.

* `BackupPurgeProofs`: `TypeCorrect`, `RefCountsExact`, `PurgeablesUnreferenced`,
  `LeaksAreBounded`.
  The count is inductive only together with the finiteness of the links, the fact that
  no backup has a link at or beyond the chunk it is at (`NothingAhead`, without which
  an insert might add a link that exists and count it twice), and the row states.
  `CountAfterRemoval` and `AfterDeleteExact` carry a bulk DELETE with its triggers.
  `LeaksAreBounded` needs the exact counts: a delete of links never brings a row back to
  ACTIVE with count 0 (`NewRowPrepared`).
* `NoDanglingProofs`: `NoDanglingPointers`, from `UniqueHashes`. The invariant `Safe`
  follows the life of a hash: only the snapshot that owns it can link it
  (`LinksOwned`), a row the purge may claim belongs to a snapshot gone for good
  (`OnlyOrphansClaimed`), a chunk still to be prepared has no row and will be uploaded
  (`FutureRowsAbsent`), and a link is only saved for a stored chunk
  (`SavedIsStored`). `ListedEnded` and `WriterOwns` keep a late purge away from a
  snapshot still being written. Without `UniqueHashes` the property fails.
  `NoObjectUntracked`, from `UniqueHashes` and an S3 that removes every key of a call it
  does not refuse (no `s3_partial`): only phase 2 removes rows, and those of a batch all
  of whose keys were sent (`RowsRemoved`), which no upload can bring back
  (`UploadNotClaimed`); `Tracked` adds `UploadHasRow` and `SentAreGone` to `Safe`.
  `SealedLinksStay`, `PurgesAreFinal` and `LinksFormPrefix` need no hypothesis. The first
  two rest on who may write a row of `snapshots` (`Owned`): its own process while it is at
  it, and then retention, whose lists hold nothing that is being written or can still be
  restored (`ListedSettled`). For the prefix, a backup in progress has linked every chunk
  before the one it is at (`NoGapSoFar`).
  `ArchiveImplemented`, from `UniqueHashes`: `Init` maps to the archive's, and each
  action to a step of it or to a stutter, under the invariants above (`Counted`, `Safe`,
  `Owned`).
* `StreamEngineProofs`: `TypeCorrect` and `CleanReturnStoresAll` for any number of uploads at
  a time; `StoredInOrder` and `PipelineImplemented` from `MaxUploads = 1`, which is
  `MAX_CONCURRENT_UPLOADS` of `constants.py`. `Ordered` counts the chunks from the source
  through pipe, buffer and reader into the queue (`Conserved`), says that the queue holds,
  without a gap, what was put and not yet got (`QueueInOrder`), and what the places of reader
  and writer say about that. `Accounted` adds that, until an upload fails, every chunk numbered
  is stored or on its way (`NoneMissing`), and that the writer ends with no task left
  (`WriterEnd`): a clean return is then complete. `InOrder` adds that the one upload under way is of the last
  chunk numbered, and that after a failure none is started (`OneUpload`). With two uploads
  at a time the order would be lost.
* `FastCDCProofs`: `TypeCorrect`, `BufferStaysBounded`, `ChunksHaveLength` and
  `SplitsDoNotMatter`, for every source, every way of feeding it, every table and all sizes
  in the order of the code's. `Lengths` is the first invariant: a remembered scan never reaches the
  longest chunk, and after the loop at the end of the source nothing is left. `Content` is
  the second: the buffer is what has been fed and not cut, the scan remembered is one
  that would be made of the buffer from its start without a hit (`Remembered`), and the
  chunks handed out followed by the chunking of the rest are the chunking of the source.
  `RolledResumes` carries a scan over a feed, `RolledPrefix` makes a hit in the buffer a hit in
  the source, and `GearIsRolled`, by Horner's rule and `LowBits`, equates the 64-bit
  fingerprint under its mask with the unbounded sum of the reference.
* `CircuitBreakerProofs`: `TypeCorrect`, `ClosedStaysHealthy`, `FlagStandsForProbe`,
  `OpensOnThreshold`, for any number of providers and uploads and any thresholds. `Guarded`
  says of every breaker that a closed one has fewer failures than would open it,
  that a set flag means HALF_OPEN and a probe in flight, and that failures are kept oldest first
  (`OldestFirst`), without which dropping from the front would leave old ones behind.
* `OutboxProofs`: `TypeCorrect`, `NoPayloadLost`, `ProcessedStored`. `Inv` adds that
  rows in memory exist in the table (`RowsExist`), that a worker past the upload is at
  a stored chunk (`AtWork`) and that a row that can be claimed has an attempt left
  (`AttemptsLeft`). It does not say who owns a row, because nobody does; the proof
  needs no such fact, which is why slow workers lose nothing even though one of them may
  remove the file of a row another has set back to PENDING.
* `RecoveryProofs`: `TypeCorrect`, `RestoredIsPrefix`, `PeriodsAreKept` and
  `NobodyLosesAccess` under all faults; `EveryDekUnwraps` and `VerifiedStaysRestorable`
  without `rotate_running` and `stale_passphrase` (`CarefulOperators`). `Rows` relates
  states, timestamps and backups under way; `Keys` adds that a RUNNING snapshot's DEK is
  already wrapped under the present key, which is what a careful rotation preserves and
  the run `rotation_running` loses. `RestoreProgress` says what a restore has written
  and has left, `VerifyProgress` that all a verify has passed over is still good and that
  no backup is writing it. `InterruptedIsNothing` is the atomicity of a rotation.
  `NobodyLosesAccess` is about snapshots whose backup has ended; of the others it says
  that only the handler of their own backup takes them away.
  For the periods, `KeepsWeek` and `KeepsMonth` say that whoever is the keeper of a
  recent period now was so in every earlier one of its life: a period that is recent now
  has been recent since (`RecentBefore`), so no call can have given its keeper up.
* `TicketStoreProofs`: `OneAdmission`, `CapacityBounds`, `LiveTicketsStay`, for every
  capacity but zero (with which the first insertion would pop an empty dictionary).
  `InOrder` bounds a ticket's rank by those behind it; when the store is full that puts
  the ticket that is evicted a whole capacity back.

Assumptions. Besides the types and the order of the constants: `UniqueHashes`,
`MaxUploads = 1` and the two careful habits of `CarefulOperators`, each a hypothesis of the
theorems named above; and `PowersOfTwo` of `FastCDC`, the two equations that define
powers of two up to the largest exponent used, because the provers take `^` for an
unknown function.

Recursive functions. The induction theorems of the library cannot be used by the provers
at hand, so `FastCDCProofs` derives induction up to a number (`UpTo`) from the least
element of a set (`Least`), which follows from the well-foundedness of inclusion of finite
sets. `StepByStep` then gives the functions defined by recursion (`Rolled`, `Gear`).

Model-checked only: liveness, which is out of the provers' reach: `WriterStops` and
`EndsWithoutFailure` of the engine, `Recovers` of the breaker, `Drained` of the outbox,
`LockReleased` of `Recovery`.

## Findings

* A failed upload ends in COMPLETED; as shipped this is every backup (`silent_complete`).
* A failed upload may also hang the pipeline: stdout is no longer read (`hang`).
* Two purges race, and a COMPLETED snapshot turns FAILED (`fsm_race`).
* A key rotation during a backup leaves it COMPLETED under a lost key (`rotation_running`).
* A late answer clears the flag of another call's probe (`canaries`).

Seen while modelling, without a run: `restore` empties the output file before it tries
the key (`cli.py` 143); a FAILED snapshot that is the last of its week takes the week's
place in `classify_snapshots`, and the COMPLETED one before it is given up.

## Not modelled, and the plan

Left out for good: ciphers and signatures (ideal), formats, logging, alerts, the web
pages and read-only queries, packaging. The KMS and Vault providers of `keys.py` are
clients of services outside and used by no command. Data inside a chunk is abstract
everywhere but in `FastCDC`. `compute_merkle_root` is one pure function without a caller
among the commands. The busy timeout of a writer that waits for a long restore is, to
the writer, a failed transaction (fault `db` of `BackupPurge`).

Next, in this order:

1. Proofs: that no bytes of a source are lost or doubled between the chunks, as a corollary
   of `SplitsDoNotMatter`.
2. The watchdog of `connectors.py`, used by the tests alone.
3. `compute_merkle_root`: two lists of one length have different roots (and a list may
   share its root with a longer one by the duplicated last node).
