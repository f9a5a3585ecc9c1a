--------------------------- MODULE MCBackupPurge ---------------------------
(* Small instances of BackupPurge for TLC. *)
EXTENDS BackupPurge, TLC

\* Hashes as the engine makes them: one per snapshot and chunk.
UniqueHash == [s \in Snapshots |-> [q \in Seqs |-> <<s, q>>]]
UniqueHashSet == Snapshots \X Seqs

\* Hashes as chunk_pool was designed for: equal chunks share one.  Every chunk
\* of every backup is the same here, within one snapshot too.
SharedHash == [s \in Snapshots |-> [q \in Seqs |-> "same"]]

\* Every failure but the driver's refusal of nested transactions, which leaves
\* no chunk to reason about, and the partial answers of S3.
AllFaults == {"s3", "db", "source", "crash", "startup_cleanup"}

NoFaults == {}

\* The driver as it is: both transactions of upload_callback fail.
DriverFault == {"nested_begin"}
ChunkAndDbFaults == {"s3", "s3_partial", "db"}

Symmetry == Permutations(Snapshots)
=============================================================================
