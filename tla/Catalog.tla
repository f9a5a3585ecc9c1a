------------------------------ MODULE Catalog ------------------------------
(***************************************************************************)
(* The catalogue of src/boveda/database.py: the tables snapshots,           *)
(* chunk_pool and snapshot_chunks, and what the SQLite triggers and foreign *)
(* keys do to them.  The operators take and return table contents, so the   *)
(* module has no variables; BackupPurge keeps the tables.                   *)
(*                                                                         *)
(* Every session of the program opens its transactions with BEGIN IMMEDIATE *)
(* (the "begin" listener of get_engine), so a transaction is one atomic     *)
(* step of the models that use this module.                                *)
(***************************************************************************)
EXTENDS Integers, FiniteSets

CONSTANTS
    Snapshots,  \* the snapshot ids (one per run of `boveda backup`)
    Chunks,     \* how many chunks the source of a backup yields
    Hashes      \* the chunk hashes: key of chunk_pool and of the bucket

ASSUME CatalogAssumption == Chunks \in Nat \ {0}

Seqs == 0 .. Chunks - 1

(***************************************************************************)
(* "ABSENT" stands for a row that is not in the table.  PENDING, PURGED,    *)
(* CLEANUP and CORRUPT are declared by the program and written by none of   *)
(* its statements.                                                         *)
(***************************************************************************)
SnapshotState ==
    {"ABSENT", "RUNNING", "COMPLETED", "FAILED", "EXPIRED", "PURGING", "PURGE_FAILED"}

ChunkState == {"ABSENT", "ACTIVE", "PENDING_DELETE", "PURGING_S3"}

ChunkPool == [state : ChunkState, ref_count : Nat]

SnapshotChunk == [snapshot_id : Snapshots, chunk_seq : Seqs, chunk_hash : Hashes]

NoRow == [state |-> "ABSENT", ref_count |-> 0]

NewRow == [state |-> "ACTIVE", ref_count |-> 0]

LinksOf(links, s) == {l \in links : l.snapshot_id = s}

LinksTo(links, h) == {l \in links : l.chunk_hash = h}

(***************************************************************************)
(* Operators whose names begin with Slip are wrong versions of the operator *)
(* after them; no specification uses them, and each breaks a property that  *)
(* a run checks (see README.md).                                           *)
(***************************************************************************)

\* The insert counts, and leaves a row the purge has scheduled as it is.
SlipAfterInsert(row) == [row EXCEPT !.ref_count = @ + 1]

(***************************************************************************)
(* trg_snapshot_chunks_after_insert, on the row the new link names.         *)
(***************************************************************************)
AfterInsert(row) == [state |-> "ACTIVE", ref_count |-> row.ref_count + 1]

\* The trigger fires once for the statement, not once for each row.
SlipAfterDeleteOnce(row, n) ==
    [state     |-> IF row.ref_count = 1 THEN "PENDING_DELETE" ELSE row.state,
     ref_count |-> IF row.ref_count > 1 THEN row.ref_count - 1 ELSE 0]

\* The last reference schedules the row and is not taken off the count.
SlipAfterDeleteKeeps(row, n) ==
    [row EXCEPT !.state = IF row.ref_count \in 1 .. n THEN "PENDING_DELETE" ELSE @]

\* The trigger exists twice and has no floor.
SlipAfterDeleteTwice(row, n) == [row EXCEPT !.ref_count = @ - 2 * n]

(***************************************************************************)
(* trg_snapshot_chunks_after_delete, fired once for each of the n links to  *)
(* the row that one DELETE statement removes.  A firing that finds          *)
(* ref_count = 1 schedules the row, and none takes ref_count below 0.       *)
(***************************************************************************)
AfterDelete(row, n) ==
    [state     |-> IF row.ref_count \in 1 .. n THEN "PENDING_DELETE" ELSE row.state,
     ref_count |-> IF row.ref_count > n THEN row.ref_count - n ELSE 0]

(***************************************************************************)
(* trg_snapshots_prevent_unauthorized_delete: when a DELETE aborts.         *)
(***************************************************************************)
SnapshotDeleteAborts(estado) == estado \in {"COMPLETED", "RUNNING"}

(***************************************************************************)
(* trg_chunk_pool_prevent_active_delete, and the foreign key of             *)
(* snapshot_chunks, ON DELETE RESTRICT.                                    *)
(***************************************************************************)
ChunkDeleteAborts(pool, links, h) ==
    \/ pool[h].ref_count > 0
    \/ pool[h].state = "ACTIVE"
    \/ LinksTo(links, h) # {}

(***************************************************************************)
(* The statements the program runs over whole tables.                      *)
(***************************************************************************)
InsertLink(pool, l) == [pool EXCEPT ![l.chunk_hash] = AfterInsert(@)]

\* A DELETE that fires no trigger.
SlipDeleteLinks(pool, removed) == pool

DeleteLinks(pool, removed) ==
    [h \in Hashes |->
        IF LinksTo(removed, h) = {} THEN pool[h]
        ELSE AfterDelete(pool[h], Cardinality(LinksTo(removed, h)))]
=============================================================================
