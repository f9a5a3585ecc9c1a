---------------------------- MODULE BackupPurge ----------------------------
(***************************************************************************)
(* `boveda backup` (cli.py), the purge it ends with (retention.py) and the  *)
(* startup cleanup (storage.py), run by any number of concurrent processes  *)
(* over one catalogue and one bucket.  A process is named by the snapshot   *)
(* it writes.  Each step is one database transaction or one call to S3.     *)
(***************************************************************************)
EXTENDS Catalog

CONSTANTS
    HashOf,     \* HashOf[s][q]: hash of the payload of chunk q of backup s
    BatchSize,  \* batch_size of execute_two_phase_purge
    Faults,     \* the kinds of failure the environment may produce
    NoSnapshot  \* no snapshot is being purged

(***************************************************************************)
(* nested_begin     the driver rejects a BEGIN inside a transaction: both   *)
(*                  transactions of upload_callback issue one               *)
(* s3               a put_object or delete_objects call fails for good      *)
(* s3_partial       delete_objects answers with a list of keys it kept      *)
(* db               a transaction fails (lock timeout, full disk)           *)
(* source           the dumped command exits with an error                  *)
(* crash            a process dies                                         *)
(* startup_cleanup  another process starts and runs the cleanup             *)
(***************************************************************************)
FaultKinds ==
    {"nested_begin", "s3", "s3_partial", "db", "source", "crash", "startup_cleanup"}

ASSUME BackupAssumption ==
    /\ HashOf \in [Snapshots -> [Seqs -> Hashes]]
    /\ BatchSize \in Nat \ {0}
    /\ Faults \subseteq FaultKinds
    /\ NoSnapshot \notin Snapshots

VARIABLES
    snapshots,        \* table snapshots: estado of each row
    chunk_pool,       \* table chunk_pool
    snapshot_chunks,  \* table snapshot_chunks
    s3,               \* the keys of the objects in the bucket
    pc,               \* where each process is
    chunk_seq,        \* the chunk each process is uploading
    expired,          \* the snapshots its purge has still to visit
    victim,           \* the snapshot its purge is visiting
    chunks_to_purge,  \* the batch of its two-phase purge
    keys              \* the keys of the batch not yet sent to S3

tables == <<snapshots, chunk_pool, snapshot_chunks>>
purge  == <<expired, victim, chunks_to_purge, keys>>
vars   == <<tables, s3, pc, chunk_seq, purge>>

Streaming == {"prepare", "upload", "save", "eof", "shutdown"}

Purging == {"purge_query", "unlink", "phase1", "s3_delete", "revert", "next"}

PC == {"idle", "fail", "done", "dead"} \cup Streaming \cup Purging

TypeOK ==
    /\ snapshots \in [Snapshots -> SnapshotState]
    /\ chunk_pool \in [Hashes -> ChunkPool]
    /\ snapshot_chunks \subseteq SnapshotChunk
    /\ s3 \subseteq Hashes
    /\ pc \in [Snapshots -> PC]
    /\ chunk_seq \in [Snapshots -> Seqs]
    /\ expired \in [Snapshots -> SUBSET Snapshots]
    /\ victim \in [Snapshots -> Snapshots \cup {NoSnapshot}]
    /\ chunks_to_purge \in [Snapshots -> SUBSET Hashes]
    /\ keys \in [Snapshots -> SUBSET Hashes]

Init ==
    /\ snapshots = [s \in Snapshots |-> "ABSENT"]
    /\ chunk_pool = [h \in Hashes |-> NoRow]
    /\ snapshot_chunks = {}
    /\ s3 = {}
    /\ pc = [s \in Snapshots |-> "idle"]
    /\ chunk_seq = [s \in Snapshots |-> 0]
    /\ expired = [s \in Snapshots |-> {}]
    /\ victim = [s \in Snapshots |-> NoSnapshot]
    /\ chunks_to_purge = [s \in Snapshots |-> {}]
    /\ keys = [s \in Snapshots |-> {}]

Hash(s) == HashOf[s][chunk_seq[s]]

Go(s, label) == pc' = [pc EXCEPT ![s] = label]

SetEstado(s, estado) == snapshots' = [snapshots EXCEPT ![s] = estado]

-----------------------------------------------------------------------------
(* The backup: cli.backup, up to the final state of its snapshot.           *)

\* cli.backup: the salt is read and the RUNNING row inserted in one transaction.
Start(s) ==
    /\ pc[s] = "idle"
    /\ SetEstado(s, "RUNNING")
    /\ Go(s, "prepare")
    /\ UNCHANGED <<chunk_pool, snapshot_chunks, s3, chunk_seq, purge>>

\* _db_check_and_prepare: insert the row, or take the one that is there back
\* from the purge.  Only a new row or one in PURGING_S3 asks for an upload.
Prepare(s) ==
    LET h == Hash(s)
        row == chunk_pool[h]
    IN  /\ pc[s] = "prepare"
        /\ "nested_begin" \notin Faults
        /\ chunk_pool' = [chunk_pool EXCEPT ![h] =
              IF row.state = "ABSENT" THEN NewRow ELSE [row EXCEPT !.state = "ACTIVE"]]
        /\ Go(s, IF row.state \in {"ABSENT", "PURGING_S3"} THEN "upload" ELSE "save")
        /\ UNCHANGED <<snapshots, snapshot_chunks, s3, chunk_seq, purge>>

Upload(s) ==
    /\ pc[s] = "upload"
    /\ s3' = s3 \cup {Hash(s)}
    /\ Go(s, "save")
    /\ UNCHANGED <<tables, chunk_seq, purge>>

\* _save_chunk_ref: both foreign keys of the link must find their row.
SaveChunkRef(s) ==
    LET link == [snapshot_id |-> s, chunk_seq |-> chunk_seq[s], chunk_hash |-> Hash(s)]
    IN  /\ pc[s] = "save"
        /\ "nested_begin" \notin Faults
        /\ chunk_pool[Hash(s)].state # "ABSENT"
        /\ snapshots[s] # "ABSENT"
        /\ snapshot_chunks' = snapshot_chunks \cup {link}
        /\ chunk_pool' = InsertLink(chunk_pool, link)
        /\ IF chunk_seq[s] + 1 < Chunks
             THEN /\ chunk_seq' = [chunk_seq EXCEPT ![s] = @ + 1]
                  /\ Go(s, "prepare")
             ELSE /\ Go(s, "eof")
                  /\ UNCHANGED chunk_seq
        /\ UNCHANGED <<snapshots, s3, purge>>

\* The chunk that failed is skipped, and the backup goes on with the next one.
SlipChunkError(s) ==
    /\ pc[s] \in {"prepare", "upload"} /\ {"db", "s3"} \subseteq Faults
    /\ chunk_seq[s] + 1 < Chunks
    /\ chunk_seq' = [chunk_seq EXCEPT ![s] = @ + 1]
    /\ Go(s, "prepare")
    /\ UNCHANGED <<tables, s3, purge>>

\* An exception in upload_callback.  do_upload sets shutdown_event, and
\* streaming_pipeline then returns as it does at the end of the source.
ChunkError(s) ==
    /\ \/ pc[s] \in {"prepare", "save"} /\ Faults \cap {"nested_begin", "db"} # {}
       \/ pc[s] = "save" /\ "ABSENT" \in {chunk_pool[Hash(s)].state, snapshots[s]}
       \/ pc[s] = "upload" /\ "s3" \in Faults
    /\ s3' \in {s3} \cup (IF pc[s] = "upload" THEN {s3 \cup {Hash(s)}} ELSE {})
    /\ Go(s, "shutdown")
    /\ UNCHANGED <<tables, chunk_seq, purge>>

\* SubprocessError leaves streaming_pipeline, unless shutdown_event is set; the
\* transaction that records COMPLETED may fail too.  Both reach one handler.
BackupError(s) ==
    /\ \/ pc[s] \in Streaming \ {"shutdown"} /\ "source" \in Faults
       \/ pc[s] \in {"eof", "shutdown"} /\ "db" \in Faults
    /\ Go(s, "fail")
    /\ UNCHANGED <<tables, s3, chunk_seq, purge>>

\* The final state is written while uploads are in flight.
SlipComplete(s) ==
    /\ pc[s] \in Streaming
    /\ snapshots[s] = "RUNNING"
    /\ SetEstado(s, "COMPLETED")
    /\ UNCHANGED <<chunk_pool, snapshot_chunks, s3, pc, chunk_seq, purge>>

Complete(s) ==
    /\ pc[s] \in {"eof", "shutdown"}
    /\ snapshots[s] # "ABSENT"
    /\ SetEstado(s, "COMPLETED")
    /\ Go(s, "purge_query")
    /\ UNCHANGED <<chunk_pool, snapshot_chunks, s3, chunk_seq, purge>>

\* The handler around the pipeline.
Fail(s) ==
    /\ pc[s] = "fail"
    /\ snapshots[s] # "ABSENT"
    /\ SetEstado(s, "FAILED")
    /\ Go(s, "purge_query")
    /\ UNCHANGED <<chunk_pool, snapshot_chunks, s3, chunk_seq, purge>>

-----------------------------------------------------------------------------
(* Retention: purge_expired_snapshots and execute_two_phase_purge.          *)

\* classify_snapshots hands out completed snapshots only, and
\* transition_snapshot moves them; no command of the program calls the two.
Expire(t) ==
    /\ snapshots[t] = "COMPLETED"
    /\ SetEstado(t, "EXPIRED")
    /\ UNCHANGED <<chunk_pool, snapshot_chunks, s3, pc, chunk_seq, purge>>

\* One transaction reads the list and marks its first snapshot.
PurgeQuery(s) ==
    LET found == {t \in Snapshots : snapshots[t] = "EXPIRED"}
    IN  /\ pc[s] = "purge_query"
        /\ \/ /\ found = {}
              /\ Go(s, "done")
              /\ UNCHANGED <<snapshots, expired, victim>>
           \/ \E t \in found :
                /\ SetEstado(t, "PURGING")
                /\ expired' = [expired EXCEPT ![s] = found \ {t}]
                /\ victim' = [victim EXCEPT ![s] = t]
                /\ Go(s, "unlink")
        /\ UNCHANGED <<chunk_pool, snapshot_chunks, s3, chunk_seq, chunks_to_purge, keys>>

\* The next snapshot of the list as it was read: the UPDATE does not look at
\* the present estado.  If the row is gone it raises StaleDataError, and the
\* session is left unable to commit what the handlers write.
PurgeNext(s) ==
    /\ pc[s] = "next"
    /\ \/ /\ expired[s] = {}
          /\ Go(s, "done")
          /\ UNCHANGED <<snapshots, expired, victim>>
       \/ \E t \in expired[s] :
            /\ expired' = [expired EXCEPT ![s] = @ \ {t}]
            /\ victim' = [victim EXCEPT ![s] = t]
            /\ IF snapshots[t] = "ABSENT"
                 THEN Go(s, "done") /\ UNCHANGED snapshots
                 ELSE Go(s, "unlink") /\ SetEstado(t, "PURGING")
    /\ UNCHANGED <<chunk_pool, snapshot_chunks, s3, chunk_seq, chunks_to_purge, keys>>

\* One transaction removes the links, with their triggers, and the snapshot.
Unlink(s) ==
    LET t == victim[s]
        removed == LinksOf(snapshot_chunks, t)
    IN  /\ pc[s] = "unlink"
        /\ snapshots[t] # "ABSENT"
        /\ ~SnapshotDeleteAborts(snapshots[t])
        /\ snapshot_chunks' = snapshot_chunks \ removed
        /\ chunk_pool' = DeleteLinks(chunk_pool, removed)
        /\ SetEstado(t, "ABSENT")
        /\ Go(s, "phase1")
        /\ UNCHANGED <<s3, chunk_seq, purge>>

\* The handler of the purge puts the snapshot back where it came from.
SlipUnlinkError(s) ==
    /\ pc[s] = "unlink" /\ "db" \in Faults
    /\ snapshots[victim[s]] # "ABSENT"
    /\ SetEstado(victim[s], "COMPLETED")
    /\ Go(s, "next")
    /\ UNCHANGED <<chunk_pool, snapshot_chunks, s3, chunk_seq, purge>>

\* The transaction fails or the trigger aborts it: rollback, PURGE_FAILED.
UnlinkError(s) ==
    LET t == victim[s]
    IN  /\ pc[s] = "unlink"
        /\ snapshots[t] # "ABSENT"
        /\ "db" \in Faults \/ SnapshotDeleteAborts(snapshots[t])
        /\ SetEstado(t, "PURGE_FAILED")
        /\ Go(s, "next")
        /\ UNCHANGED <<chunk_pool, snapshot_chunks, s3, chunk_seq, purge>>

\* The handler of backup() around everything: it writes FAILED over the
\* process's own snapshot.  It is reached when the query of the purge fails,
\* when a transaction fails and the handler of the purge fails to record it, and
\* when the row of the victim is gone, which that handler trips over as well.
GeneralError(s) ==
    /\ \/ pc[s] \in {"purge_query", "unlink"} /\ "db" \in Faults
       \/ pc[s] = "unlink" /\ snapshots[victim[s]] = "ABSENT"
    /\ IF snapshots[s] = "ABSENT" THEN UNCHANGED snapshots ELSE SetEstado(s, "FAILED")
    /\ Go(s, "done")
    /\ UNCHANGED <<chunk_pool, snapshot_chunks, s3, chunk_seq, purge>>

\* Phase 1 selects on ref_count alone, as if no backup could be on its way to
\* link a row it has just inserted.
SlipOrphans == {h \in Hashes : chunk_pool[h].state # "ABSENT" /\ chunk_pool[h].ref_count = 0}

Orphans == {h \in Hashes : chunk_pool[h].state = "PENDING_DELETE" /\ chunk_pool[h].ref_count = 0}

\* Phase 1: at most BatchSize orphans, marked in one transaction.
Phase1(s) ==
    /\ pc[s] = "phase1"
    /\ \E batch \in SUBSET Orphans :
        /\ \/ batch = Orphans /\ Cardinality(batch) <= BatchSize
           \/ batch # Orphans /\ Cardinality(batch) = BatchSize
        /\ chunk_pool' = [h \in Hashes |->
              IF h \in batch THEN [chunk_pool[h] EXCEPT !.state = "PURGING_S3"] ELSE chunk_pool[h]]
        /\ chunks_to_purge' = [chunks_to_purge EXCEPT ![s] = batch]
        /\ keys' = [keys EXCEPT ![s] = batch]
        /\ Go(s, IF batch = {} THEN "next" ELSE "s3_delete")
    /\ UNCHANGED <<snapshots, snapshot_chunks, s3, chunk_seq, expired, victim>>

\* delete_objects_s3, outside any transaction.  S3 removes the keys of a call
\* one by one, a retry sends all of them again, and the keys S3 reports as kept
\* are not looked at.
DeleteObject(s, h) ==
    /\ pc[s] = "s3_delete"
    /\ h \in keys[s] \/ ("s3" \in Faults /\ h \in chunks_to_purge[s])
    /\ keys' = [keys EXCEPT ![s] = @ \ {h}]
    /\ \/ s3' = s3 \ {h}
       \/ "s3_partial" \in Faults /\ UNCHANGED s3
    /\ UNCHANGED <<tables, pc, chunk_seq, expired, victim, chunks_to_purge>>

\* The failure is swallowed, and phase 2 goes on as if every key were gone.
SlipDeleteObjectsRaises(s) ==
    /\ pc[s] = "s3_delete" /\ "s3" \in Faults
    /\ keys' = [keys EXCEPT ![s] = {}]
    /\ UNCHANGED <<tables, s3, pc, chunk_seq, expired, victim, chunks_to_purge>>

DeleteObjectsRaises(s) ==
    /\ pc[s] = "s3_delete"
    /\ "s3" \in Faults
    /\ keys' = [keys EXCEPT ![s] = {}]
    /\ Go(s, "revert")
    /\ UNCHANGED <<tables, s3, chunk_seq, expired, victim, chunks_to_purge>>

\* The rows of the batch that the statements of phase 2 still select.
StillPurging(s) == {h \in chunks_to_purge[s] : chunk_pool[h].state = "PURGING_S3"}

EndBatch(s) == chunks_to_purge' = [chunks_to_purge EXCEPT ![s] = {}]

Phase2Confirm(s) ==
    LET rows == {h \in StillPurging(s) : chunk_pool[h].ref_count = 0}
    IN  /\ pc[s] = "s3_delete"
        /\ keys[s] = {}
        /\ \A h \in rows : ~ChunkDeleteAborts(chunk_pool, snapshot_chunks, h)
        /\ chunk_pool' = [h \in Hashes |-> IF h \in rows THEN NoRow ELSE chunk_pool[h]]
        /\ EndBatch(s)
        /\ Go(s, "next")
        /\ UNCHANGED <<snapshots, snapshot_chunks, s3, chunk_seq, expired, victim, keys>>

Phase2Revert(s) ==
    /\ pc[s] = "revert"
    /\ chunk_pool' = [h \in Hashes |->
          IF h \in StillPurging(s)
            THEN [chunk_pool[h] EXCEPT !.state = "PENDING_DELETE"] ELSE chunk_pool[h]]
    /\ EndBatch(s)
    /\ Go(s, "next")
    /\ UNCHANGED <<snapshots, snapshot_chunks, s3, chunk_seq, expired, victim, keys>>

\* A transaction of either phase fails.  The snapshot is gone, so the handler
\* only logs; rows already in PURGING_S3 stay there.
PhaseError(s) ==
    /\ pc[s] \in {"phase1", "revert"} \/ (pc[s] = "s3_delete" /\ keys[s] = {})
    /\ "db" \in Faults
    /\ EndBatch(s)
    /\ Go(s, "next")
    /\ UNCHANGED <<tables, s3, chunk_seq, expired, victim, keys>>

-----------------------------------------------------------------------------
(* The process's end, and the cleanup a new process may run.                *)

Crash(s) ==
    /\ "crash" \in Faults
    /\ pc[s] \notin {"idle", "done", "dead"}
    /\ Go(s, "dead")
    /\ chunks_to_purge' = [chunks_to_purge EXCEPT ![s] = {}]
    /\ keys' = [keys EXCEPT ![s] = {}]
    /\ UNCHANGED <<tables, s3, chunk_seq, expired, victim>>

\* cleanup_in_progress_snapshots: every RUNNING row, whoever is writing it.
StartupCleanup ==
    /\ "startup_cleanup" \in Faults
    /\ \E t \in Snapshots : snapshots[t] = "RUNNING"
    /\ snapshots' = [t \in Snapshots |->
          IF snapshots[t] = "RUNNING" THEN "FAILED" ELSE snapshots[t]]
    /\ UNCHANGED <<chunk_pool, snapshot_chunks, s3, pc, chunk_seq, purge>>

\* Every process ended: no command is left to run.
Terminated ==
    /\ \A s \in Snapshots : pc[s] \in {"done", "dead"}
    /\ UNCHANGED vars

Backup(s) ==
    \/ Start(s) \/ Prepare(s) \/ Upload(s) \/ SaveChunkRef(s) \/ ChunkError(s)
    \/ BackupError(s) \/ Complete(s) \/ Fail(s)

Purge(s) ==
    \/ PurgeQuery(s) \/ PurgeNext(s) \/ Unlink(s) \/ UnlinkError(s) \/ GeneralError(s)
    \/ Phase1(s) \/ (\E h \in Hashes : DeleteObject(s, h)) \/ DeleteObjectsRaises(s)
    \/ Phase2Confirm(s) \/ Phase2Revert(s) \/ PhaseError(s)

Next ==
    \/ \E s \in Snapshots : Backup(s) \/ Purge(s) \/ Crash(s) \/ Expire(s)
    \/ StartupCleanup
    \/ Terminated

Spec == Init /\ [][Next]_vars

-----------------------------------------------------------------------------
(* What the code must keep true.                                           *)

\* The triggers keep ref_count equal to the number of links, over bulk deletes
\* and concurrent backups and purges.
RefCountExact ==
    \A h \in Hashes :
        chunk_pool[h].ref_count = Cardinality(LinksTo(snapshot_chunks, h))

\* A row the purge may take, or has taken, has no reference; a referenced one is
\* ACTIVE.  The purge reads state and ref_count in one transaction and acts in
\* later ones, and a backup may rescue the row in between.
PurgeableIsUnreferenced ==
    \A h \in Hashes :
        chunk_pool[h].state \in {"ABSENT", "PENDING_DELETE", "PURGING_S3"}
            => chunk_pool[h].ref_count = 0

\* No dangling pointer: the object of every linked chunk is in the bucket.
NoDangling == \A l \in snapshot_chunks : l.chunk_hash \in s3

\* Every object in the bucket has its row, without which no later purge can
\* find it.
NoUntrackedObject == \A h \in s3 : chunk_pool[h].state # "ABSENT"

\* Every two payloads have different hashes: the DEK and the nonces of a backup
\* are random, and its snapshot id and chunk_seq are authenticated data.
UniqueHashes ==
    \A s, t \in Snapshots : \A q, r \in Seqs :
        HashOf[s][q] = HashOf[t][r] => s = t /\ q = r

\* The links of a snapshot are the first chunks of its source, without a gap:
\* whatever failed, what can be restored is a prefix of what was dumped.
LinksArePrefix ==
    \A s \in Snapshots : \A l \in LinksOf(snapshot_chunks, s) :
        \A q \in 0 .. l.chunk_seq :
            \E k \in LinksOf(snapshot_chunks, s) : k.chunk_seq = q

\* A row that no link holds and no purge will ever take (ACTIVE, count 0) is the
\* chunk its backup is at or failed at: a failed backup leaks one object at most.
LeakBounded ==
    \A h \in Hashes : chunk_pool[h] = NewRow =>
        \E s \in Snapshots : h = Hash(s) /\ pc[s] \notin {"idle", "prepare", "eof"}

\* The links of a snapshot in COMPLETED or EXPIRED do not change: neither the
\* backup that wrote it nor the purge of another snapshot touches them.
LinksSealed ==
    [][\A s \in Snapshots : snapshots[s] \in {"COMPLETED", "EXPIRED"}
          => LinksOf(snapshot_chunks', s) = LinksOf(snapshot_chunks, s)]_vars

\* VALID_TRANSITIONS of fsm.py, with a row's insertion and its removal.
ValidTransitions ==
    {<<"ABSENT", "RUNNING">>, <<"RUNNING", "COMPLETED">>, <<"RUNNING", "FAILED">>,
     <<"COMPLETED", "EXPIRED">>, <<"EXPIRED", "PURGING">>, <<"PURGING", "PURGE_FAILED">>,
     <<"PURGE_FAILED", "PURGING">>, <<"PURGING", "ABSENT">>}

\* The state machine of fsm.py, which the code declares and its writers of
\* estado do not consult.
FollowsFSM ==
    [][\A s \in Snapshots : snapshots'[s] # snapshots[s]
          => <<snapshots[s], snapshots'[s]>> \in ValidTransitions]_vars

\* A snapshot the retention has claimed is never offered again as restorable:
\* no late writer brings it back to COMPLETED or RUNNING.
PurgeIsFinal ==
    [][\A s \in Snapshots : snapshots[s] \in {"EXPIRED", "PURGING", "PURGE_FAILED"}
          => snapshots'[s] \notin {"COMPLETED", "RUNNING"}]_vars

\* A COMPLETED snapshot holds every chunk its source yielded.
CompletedIsWhole ==
    \A s \in Snapshots : snapshots[s] = "COMPLETED"
        => {l.chunk_seq : l \in LinksOf(snapshot_chunks, s)} = Seqs

-----------------------------------------------------------------------------
(* The abstract archive.                                                   *)

StatusOf(estado) ==
    CASE estado = "ABSENT"    -> "none"
      [] estado = "RUNNING"   -> "open"
      [] estado = "COMPLETED" -> "sealed"
      [] estado = "FAILED"    -> "failed"
      [] OTHER                -> "doomed"

Fetchable(s) == {l.chunk_seq : l \in {k \in LinksOf(snapshot_chunks, s) : k.chunk_hash \in s3}}

Abstract == INSTANCE Archive WITH
    status  <- [s \in Snapshots |-> StatusOf(snapshots[s])],
    content <- [s \in Snapshots |-> Fetchable(s)]

\* Catalogue and bucket together implement the archive: what a restore can
\* fetch of a snapshot changes only as the archive says.
ImplementsArchive == Abstract!Spec
=============================================================================
