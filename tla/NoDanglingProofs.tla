-------------------------- MODULE NoDanglingProofs --------------------------
(***************************************************************************)
(* Proof that the purge leaves no dangling pointer when every payload has    *)
(* its own hash, as the engine's random keys and nonces make it: for any     *)
(* number of concurrent backups and purges, and any failures; that no object *)
(* is left without a row by an S3 that deletes what it is asked to; and, on  *)
(* the same invariants, that catalogue and bucket implement the archive.     *)
(***************************************************************************)
EXTENDS BackupPurgeProofs

\* The processes that may still write the outcome of their snapshot.
Writing == Streaming \cup {"idle", "fail"}

\* While its process writes it, a snapshot is RUNNING, or FAILED by the cleanup
\* of another process.
WriterOwns ==
    \A s \in Snapshots :
        /\ pc[s] = "idle" => snapshots[s] = "ABSENT"
        /\ pc[s] \in Streaming \cup {"fail"} => snapshots[s] \in {"RUNNING", "FAILED"}

\* What a purge has on its list is no longer being written.
ListedEnded ==
    \A p, t \in Snapshots : t \in expired[p] \/ t = victim[p] => pc[t] \notin Writing

\* A link names the hash of its chunk and an existing snapshot.
LinksOwned ==
    \A l \in snapshot_chunks :
        /\ l.chunk_hash = HashOf[l.snapshot_id][l.chunk_seq]
        /\ snapshots[l.snapshot_id] # "ABSENT"

\* The snapshots that could name h are gone for good.
Orphaned(h) ==
    \A s \in Snapshots, q \in Seqs :
        HashOf[s][q] = h => snapshots[s] = "ABSENT" /\ pc[s] \notin Writing

\* The rows the purge may take, and the keys any purge still holds.
Claimed(h) ==
    \/ chunk_pool[h].state \in {"PENDING_DELETE", "PURGING_S3"}
    \/ \E p \in Snapshots : h \in chunks_to_purge[p] \cup keys[p]

OnlyOrphansClaimed == \A h \in Hashes : Claimed(h) => Orphaned(h)

\* No chunk still to be prepared has a row, so each of them will be uploaded.
FutureRowsAbsent ==
    \A s \in Snapshots, q \in Seqs :
        \/ pc[s] \in {"idle", "prepare"} /\ q >= chunk_seq[s]
        \/ pc[s] \in {"upload", "save"} /\ q > chunk_seq[s]
        => chunk_pool[HashOf[s][q]].state = "ABSENT"

\* A link is only saved for a chunk that is in the bucket.
SavedIsStored == \A s \in Snapshots : pc[s] = "save" => Hash(s) \in s3

Safe ==
    /\ WriterOwns
    /\ ListedEnded
    /\ LinksOwned
    /\ OnlyOrphansClaimed
    /\ FutureRowsAbsent
    /\ SavedIsStored
    /\ NoDangling

\* An object is uploaded for a row that is there to stay.
UploadHasRow ==
    \A s \in Snapshots : pc[s] = "upload" => chunk_pool[Hash(s)].state = "ACTIVE"

\* The keys of a batch already sent are out of the bucket before the rows go.
SentAreGone ==
    \A p \in Snapshots : pc[p] = "s3_delete" =>
        \A h \in chunks_to_purge[p] \ keys[p] : h \notin s3

Tracked == UploadHasRow /\ SentAreGone /\ NoUntrackedObject

-----------------------------------------------------------------------------
(* The life of a snapshot and of the process that writes it.               *)

\* A process that has settled its snapshot never writes it again as a backup,
\* and a snapshot whose row went after that stays gone.
LEMMA SettledForGood ==
    ASSUME Typed, [Next]_vars, NEW t \in Snapshots, pc[t] \notin Writing
    PROVE  /\ pc'[t] \notin Writing
           /\ snapshots[t] = "ABSENT" => snapshots'[t] = "ABSENT"
<1> DEFINE Goal == /\ pc'[t] \notin Writing
                   /\ snapshots[t] = "ABSENT" => snapshots'[t] = "ABSENT"
<1>t. pc \in [Snapshots -> PC] /\ snapshots \in [Snapshots -> SnapshotState]
      /\ victim \in [Snapshots -> Snapshots \cup {NoSnapshot}]
  BY DEF Typed, TypeOK
<1> USE <1>t DEF Go, SetEstado, Writing, Streaming
<1>1. ASSUME NEW s \in Snapshots, Backup(s) PROVE Goal
  <2>1. s # t
    BY <1>1 DEF Backup, Start, Prepare, Upload, SaveChunkRef, ChunkError, BackupError,
                Complete, Fail
  <2>2. pc'[t] = pc[t] /\ snapshots'[t] = snapshots[t]
    BY <1>1, <2>1 DEF Backup, Start, Prepare, Upload, SaveChunkRef, ChunkError, BackupError,
                      Complete, Fail, tables
  <2> QED
    BY <2>2
<1>2. ASSUME NEW s \in Snapshots, Purge(s) PROVE Goal
  <2>1. CASE PurgeQuery(s)
    BY <2>1 DEF PurgeQuery
  <2>2. CASE PurgeNext(s)
    BY <2>2 DEF PurgeNext
  <2>3. CASE Unlink(s) \/ UnlinkError(s) \/ GeneralError(s)
    BY <2>3 DEF Unlink, UnlinkError, GeneralError
  <2>4. CASE Phase1(s)
    BY <2>4 DEF Phase1
  <2>5. CASE \E h \in Hashes : DeleteObject(s, h)
    BY <2>5 DEF DeleteObject, tables
  <2>6. CASE DeleteObjectsRaises(s) \/ Phase2Confirm(s) \/ Phase2Revert(s) \/ PhaseError(s)
    BY <2>6 DEF DeleteObjectsRaises, Phase2Confirm, Phase2Revert, PhaseError, tables
  <2> QED
    BY <1>2, <2>1, <2>2, <2>3, <2>4, <2>5, <2>6 DEF Purge
<1>3. ASSUME NEW s \in Snapshots, Crash(s) \/ Expire(s) PROVE Goal
  BY <1>3 DEF Crash, Expire, tables
<1>4. CASE StartupCleanup
  BY <1>4 DEF StartupCleanup
<1>5. CASE UNCHANGED vars
  BY <1>5 DEF vars, tables
<1> QED
  BY <1>1, <1>2, <1>3, <1>4, <1>5 DEF Next, Terminated

\* While a backup writes its snapshot nobody else does, but for the cleanup.
LEMMA WriterOwnsStep ==
    ASSUME Typed, WriterOwns, ListedEnded, [Next]_vars
    PROVE  WriterOwns'
<1>t. /\ pc \in [Snapshots -> PC] /\ snapshots \in [Snapshots -> SnapshotState]
      /\ victim \in [Snapshots -> Snapshots \cup {NoSnapshot}]
      /\ expired \in [Snapshots -> SUBSET Snapshots]
  BY DEF Typed, TypeOK
<1> USE <1>t DEF Go, SetEstado, Streaming, WriterOwns
<1>1. ASSUME NEW s \in Snapshots, Backup(s) PROVE WriterOwns'
  <2>1. CASE Start(s)
    BY <2>1 DEF Start
  <2>2. CASE Prepare(s)
    BY <2>2 DEF Prepare
  <2>3. CASE Upload(s)
    BY <2>3 DEF Upload, tables
  <2>4. CASE SaveChunkRef(s)
    BY <2>4 DEF SaveChunkRef
  <2>5. CASE ChunkError(s) \/ BackupError(s)
    BY <2>5 DEF ChunkError, BackupError, tables
  <2>6. CASE Complete(s) \/ Fail(s)
    BY <2>6 DEF Complete, Fail
  <2> QED
    BY <1>1, <2>1, <2>2, <2>3, <2>4, <2>5, <2>6 DEF Backup
<1>2. ASSUME NEW s \in Snapshots, Purge(s) PROVE WriterOwns'
  <2> USE DEF ListedEnded, Writing
  <2>1. CASE PurgeQuery(s)
    BY <2>1 DEF PurgeQuery
  <2>2. CASE PurgeNext(s)
    BY <2>2 DEF PurgeNext
  <2>3. CASE Unlink(s)
    BY <2>3 DEF Unlink
  <2>4. CASE UnlinkError(s)
    BY <2>4 DEF UnlinkError
  <2>5. CASE GeneralError(s)
    BY <2>5 DEF GeneralError
  <2>6. CASE Phase1(s)
    BY <2>6 DEF Phase1
  <2>7. CASE \E h \in Hashes : DeleteObject(s, h)
    BY <2>7 DEF DeleteObject, tables
  <2>8. CASE DeleteObjectsRaises(s) \/ Phase2Confirm(s) \/ Phase2Revert(s) \/ PhaseError(s)
    BY <2>8 DEF DeleteObjectsRaises, Phase2Confirm, Phase2Revert, PhaseError, tables
  <2> QED
    BY <1>2, <2>1, <2>2, <2>3, <2>4, <2>5, <2>6, <2>7, <2>8 DEF Purge
<1>3. ASSUME NEW s \in Snapshots, Crash(s) \/ Expire(s) PROVE WriterOwns'
  BY <1>3 DEF Crash, Expire, tables
<1>4. CASE StartupCleanup
  BY <1>4 DEF StartupCleanup
<1>5. CASE UNCHANGED vars
  BY <1>5 DEF vars, tables
<1> HIDE DEF WriterOwns
<1> QED
  BY <1>1, <1>2, <1>3, <1>4, <1>5 DEF Next, Terminated

\* Only settled snapshots get on the list of a purge.
LEMMA ListedEndedStep ==
    ASSUME Typed, WriterOwns, ListedEnded, [Next]_vars
    PROVE  ListedEnded'
<1>t. /\ pc \in [Snapshots -> PC] /\ snapshots \in [Snapshots -> SnapshotState]
      /\ victim \in [Snapshots -> Snapshots \cup {NoSnapshot}]
      /\ expired \in [Snapshots -> SUBSET Snapshots]
  BY DEF Typed, TypeOK
<1>1. \A t \in Snapshots : pc[t] \notin Writing => pc'[t] \notin Writing
  BY SettledForGood
<1>2. \A t \in Snapshots : snapshots[t] = "EXPIRED" => pc[t] \notin Writing
  BY DEF WriterOwns, Writing
<1>3. ASSUME NEW p \in Snapshots, NEW t \in Snapshots, t \in expired'[p] \/ t = victim'[p]
      PROVE  \/ t \in expired[p] \/ t = victim[p]
             \/ snapshots[t] = "EXPIRED"
  <2>1. CASE UNCHANGED <<expired, victim>>
    BY <1>3, <2>1
  <2>2. ASSUME NEW s \in Snapshots, PurgeQuery(s)
        PROVE  t \in expired[p] \/ t = victim[p] \/ snapshots[t] = "EXPIRED"
    BY <1>3, <1>t, <2>2 DEF PurgeQuery
  <2>3. ASSUME NEW s \in Snapshots, PurgeNext(s)
        PROVE  t \in expired[p] \/ t = victim[p]
    BY <1>3, <1>t, <2>3 DEF PurgeNext
  <2>4. ASSUME NEW s \in Snapshots, Backup(s) \/ Crash(s) \/ Expire(s)
        PROVE  UNCHANGED <<expired, victim>>
    BY <2>4 DEF Backup, Start, Prepare, Upload, SaveChunkRef, ChunkError, BackupError, Complete,
                Fail, Crash, Expire, purge
  <2>5. ASSUME NEW s \in Snapshots, Purge(s), ~PurgeQuery(s), ~PurgeNext(s)
        PROVE  UNCHANGED <<expired, victim>>
    BY <2>5 DEF Purge, Unlink, UnlinkError, GeneralError, Phase1, DeleteObject,
                DeleteObjectsRaises, Phase2Confirm, Phase2Revert, PhaseError, purge
  <2>6. StartupCleanup \/ UNCHANGED vars => UNCHANGED <<expired, victim>>
    BY DEF StartupCleanup, vars, purge
  <2> QED
    BY <2>1, <2>2, <2>3, <2>4, <2>5, <2>6 DEF Next, Terminated
<1>4. \A p, t \in Snapshots : t \in expired[p] \/ t = victim[p] => pc[t] \notin Writing
  BY DEF ListedEnded
<1> QED
  BY <1>1, <1>2, <1>3, <1>4 DEF ListedEnded

-----------------------------------------------------------------------------
(* Who may name a hash.                                                    *)

\* A snapshot's row is only removed together with its links.
LEMMA LinksOwnedStep ==
    ASSUME Typed, LinksOwned, [Next]_vars
    PROVE  LinksOwned'
<1>t. /\ pc \in [Snapshots -> PC] /\ snapshots \in [Snapshots -> SnapshotState]
      /\ snapshot_chunks \subseteq SnapshotChunk
      /\ victim \in [Snapshots -> Snapshots \cup {NoSnapshot}]
  BY DEF Typed, TypeOK
<1> USE <1>t DEF SetEstado
\* Steps that take no row of a snapshot away.
<1>f. ASSUME UNCHANGED snapshot_chunks,
             \A t \in Snapshots : snapshots[t] # "ABSENT" => snapshots'[t] # "ABSENT"
      PROVE  LinksOwned'
  BY <1>f DEF LinksOwned, SnapshotChunk
<1>1. ASSUME NEW s \in Snapshots, SaveChunkRef(s) PROVE LinksOwned'
  <2> DEFINE link == [snapshot_id |-> s, chunk_seq |-> chunk_seq[s], chunk_hash |-> Hash(s)]
  <2>1. /\ snapshot_chunks' = snapshot_chunks \cup {link}
        /\ snapshots[s] # "ABSENT" /\ UNCHANGED snapshots
    BY <1>1 DEF SaveChunkRef
  <2>2. link.snapshot_id = s /\ link.chunk_hash = HashOf[s][link.chunk_seq]
    BY DEF Hash
  <2> QED
    BY <2>1, <2>2 DEF LinksOwned
<1>2. ASSUME NEW s \in Snapshots, Unlink(s) PROVE LinksOwned'
  <2>1. /\ snapshot_chunks' = snapshot_chunks \ LinksOf(snapshot_chunks, victim[s])
        /\ snapshots' = [snapshots EXCEPT ![victim[s]] = "ABSENT"]
    BY <1>2 DEF Unlink
  <2>2. \A l \in snapshot_chunks' : l \in snapshot_chunks /\ l.snapshot_id # victim[s]
    BY <2>1 DEF LinksOf
  <2> QED
    BY <2>1, <2>2 DEF LinksOwned, SnapshotChunk
<1>3. ASSUME NEW s \in Snapshots, Backup(s), ~SaveChunkRef(s) PROVE LinksOwned'
  BY <1>3, <1>f DEF Backup, Start, Prepare, Upload, ChunkError, BackupError, Complete, Fail, tables
<1>4. ASSUME NEW s \in Snapshots, Purge(s), ~Unlink(s) PROVE LinksOwned'
  <2>1. CASE PurgeQuery(s)
    BY <2>1, <1>f DEF PurgeQuery
  <2>2. CASE PurgeNext(s)
    BY <2>2, <1>f DEF PurgeNext
  <2>3. CASE UnlinkError(s) \/ GeneralError(s)
    BY <2>3, <1>f DEF UnlinkError, GeneralError
  <2>4. CASE Phase1(s)
    BY <2>4, <1>f DEF Phase1
  <2>5. CASE \E h \in Hashes : DeleteObject(s, h)
    BY <2>5, <1>f DEF DeleteObject, tables
  <2>6. CASE DeleteObjectsRaises(s) \/ Phase2Confirm(s) \/ Phase2Revert(s) \/ PhaseError(s)
    BY <2>6, <1>f DEF DeleteObjectsRaises, Phase2Confirm, Phase2Revert, PhaseError, tables
  <2> QED
    BY <1>4, <2>1, <2>2, <2>3, <2>4, <2>5, <2>6 DEF Purge
<1>5. ASSUME NEW s \in Snapshots, Crash(s) \/ Expire(s) PROVE LinksOwned'
  BY <1>5, <1>f DEF Crash, Expire, tables
<1>6. CASE StartupCleanup
  BY <1>6, <1>f DEF StartupCleanup
<1>7. CASE UNCHANGED vars
  BY <1>7, <1>f DEF vars, tables
<1> QED
  BY <1>1, <1>2, <1>3, <1>4, <1>5, <1>6, <1>7 DEF Next, Terminated

\* Once the snapshots that could name h are gone, none of them comes back.
LEMMA OrphanedForGood ==
    ASSUME Typed, [Next]_vars, NEW h, Orphaned(h)
    PROVE  Orphaned(h)'
BY SettledForGood DEF Orphaned

\* The rows and keys a step adds to the purge's are those of the links it
\* removes.
LEMMA NewClaims ==
    ASSUME Typed, [Next]_vars, NEW h \in Hashes, Claimed(h)', ~Claimed(h)
    PROVE  \E s \in Snapshots :
              Unlink(s) /\ LinksTo(LinksOf(snapshot_chunks, victim[s]), h) # {}
<1>t. /\ chunk_pool \in [Hashes -> ChunkPool]
      /\ chunks_to_purge \in [Snapshots -> SUBSET Hashes]
      /\ keys \in [Snapshots -> SUBSET Hashes]
      /\ \A s \in Snapshots : Hash(s) \in Hashes
  BY BackupAssumption DEF Typed, TypeOK, Hash
\* Steps that give the purge no row and no key.
<1>f. /\ chunk_pool'[h].state \in {"PENDING_DELETE", "PURGING_S3"}
            => chunk_pool[h].state \in {"PENDING_DELETE", "PURGING_S3"}
      /\ \A p \in Snapshots :
            chunks_to_purge'[p] \subseteq chunks_to_purge[p] /\ keys'[p] \subseteq keys[p]
      => FALSE
  BY DEF Claimed
<1>1. ASSUME NEW s \in Snapshots, Backup(s) PROVE FALSE
  <2>1. UNCHANGED <<chunks_to_purge, keys>>
    BY <1>1 DEF Backup, Start, Prepare, Upload, SaveChunkRef, ChunkError, BackupError, Complete,
                Fail, purge
  <2>2. CASE Prepare(s)
    <3>1. chunk_pool'[h] = chunk_pool[h] \/ chunk_pool'[h].state = "ACTIVE"
      BY <2>2, <1>t DEF Prepare, NewRow, ChunkPool
    <3> QED
      BY <2>1, <3>1, <1>f
  <2>3. CASE SaveChunkRef(s)
    <3>1. chunk_pool'[h] = chunk_pool[h] \/ chunk_pool'[h].state = "ACTIVE"
      BY <2>3, <1>t DEF SaveChunkRef, InsertLink, AfterInsert
    <3> QED
      BY <2>1, <3>1, <1>f
  <2>4. CASE ~Prepare(s) /\ ~SaveChunkRef(s)
    BY <1>1, <2>1, <2>4, <1>f
       DEF Backup, Start, Upload, ChunkError, BackupError, Complete, Fail, tables
  <2> QED
    BY <2>2, <2>3, <2>4
<1>2. ASSUME NEW s \in Snapshots, Phase1(s) PROVE FALSE
  <2>1. PICK batch \in SUBSET Orphans :
            /\ chunk_pool' = [g \in Hashes |->
                  IF g \in batch THEN [chunk_pool[g] EXCEPT !.state = "PURGING_S3"]
                  ELSE chunk_pool[g]]
            /\ chunks_to_purge' = [chunks_to_purge EXCEPT ![s] = batch]
            /\ keys' = [keys EXCEPT ![s] = batch]
    BY <1>2 DEF Phase1
  <2>2. h \notin batch
    BY <2>1 DEF Orphans, Claimed
  <2> QED
    BY <2>1, <2>2, <1>t DEF Claimed
<1>3. ASSUME NEW s \in Snapshots,
             Phase2Confirm(s) \/ Phase2Revert(s)
      PROVE  FALSE
  <2>1. /\ chunk_pool'[h] = chunk_pool[h] \/ chunk_pool'[h] = NoRow
           \/ chunk_pool[h].state = "PURGING_S3"
        /\ chunks_to_purge' = [chunks_to_purge EXCEPT ![s] = {}]
        /\ UNCHANGED keys
    BY <1>3 DEF Phase2Confirm, Phase2Revert, StillPurging, EndBatch
  <2> QED
    BY <2>1, <1>t, <1>f DEF NoRow
<1>4. ASSUME NEW s \in Snapshots,
             \/ PurgeQuery(s) \/ PurgeNext(s) \/ UnlinkError(s) \/ GeneralError(s)
             \/ (\E g \in Hashes : DeleteObject(s, g)) \/ DeleteObjectsRaises(s)
             \/ PhaseError(s) \/ Crash(s) \/ Expire(s)
      PROVE  FALSE
  <2>1. /\ UNCHANGED chunk_pool
        /\ \A p \in Snapshots :
              chunks_to_purge'[p] \subseteq chunks_to_purge[p] /\ keys'[p] \subseteq keys[p]
    BY <1>4, <1>t
       DEF PurgeQuery, PurgeNext, UnlinkError, GeneralError, DeleteObject, DeleteObjectsRaises,
           PhaseError, Crash, Expire, EndBatch, tables, purge
  <2> QED
    BY <2>1, <1>f
<1>5. ASSUME NEW s \in Snapshots, Unlink(s)
      PROVE  LinksTo(LinksOf(snapshot_chunks, victim[s]), h) # {}
  <2> SUFFICES ASSUME LinksTo(LinksOf(snapshot_chunks, victim[s]), h) = {} PROVE FALSE
    OBVIOUS
  <2>1. chunk_pool'[h] = chunk_pool[h] /\ UNCHANGED <<chunks_to_purge, keys>>
    BY <1>5 DEF Unlink, DeleteLinks, purge
  <2> QED
    BY <2>1, <1>f
<1>6. StartupCleanup \/ UNCHANGED vars => FALSE
  BY <1>f DEF StartupCleanup, vars, tables, purge
<1> QED
  BY <1>1, <1>2, <1>3, <1>4, <1>5, <1>6 DEF Next, Purge, Terminated

\* Whatever the purge may take belonged to snapshots that are gone: the links it
\* lost were the only ones with its hash.
LEMMA OnlyOrphansClaimedStep ==
    ASSUME UniqueHashes, Typed, ListedEnded, LinksOwned, OnlyOrphansClaimed, [Next]_vars
    PROVE  OnlyOrphansClaimed'
<1> SUFFICES ASSUME NEW h \in Hashes, Claimed(h)' PROVE Orphaned(h)'
  BY DEF OnlyOrphansClaimed
<1>1. CASE Claimed(h)
  BY <1>1, OrphanedForGood DEF OnlyOrphansClaimed
<1>2. CASE ~Claimed(h)
  <2>1. PICK s \in Snapshots : Unlink(s) /\ LinksTo(LinksOf(snapshot_chunks, victim[s]), h) # {}
    BY <1>2, NewClaims
  <2>2. PICK l \in snapshot_chunks : l.snapshot_id = victim[s] /\ l.chunk_hash = h
    BY <2>1 DEF LinksTo, LinksOf
  <2>3. /\ victim[s] \in Snapshots /\ l.chunk_seq \in Seqs
        /\ HashOf[victim[s]][l.chunk_seq] = h
    BY <2>2 DEF Typed, TypeOK, SnapshotChunk, LinksOwned
  <2>4. pc[victim[s]] \notin Writing
    BY <2>3 DEF ListedEnded
  <2>5. pc'[victim[s]] \notin Writing /\ snapshots'[victim[s]] = "ABSENT"
    BY <2>1, <2>3, <2>4, SettledForGood DEF Unlink, SetEstado, Typed, TypeOK
  <2> QED
    BY <2>3, <2>5 DEF Orphaned, UniqueHashes
<1> QED
  BY <1>1, <1>2

\* Where a chunk still lies ahead of its backup.
Ahead(s, q) ==
    \/ pc[s] \in {"idle", "prepare"} /\ q >= chunk_seq[s]
    \/ pc[s] \in {"upload", "save"} /\ q > chunk_seq[s]

\* A chunk ahead was ahead before the step, and its row is not the one the step
\* inserts.
LEMMA FutureRowsAbsentStep ==
    ASSUME UniqueHashes, Typed, PurgeableIsUnreferenced, FutureRowsAbsent, [Next]_vars
    PROVE  FutureRowsAbsent'
<1>t. /\ pc \in [Snapshots -> PC] /\ chunk_seq \in [Snapshots -> Seqs]
      /\ chunk_pool \in [Hashes -> ChunkPool]
      /\ \A s \in Snapshots, q \in Seqs : HashOf[s][q] \in Hashes
      /\ \A s \in Snapshots : Hash(s) = HashOf[s][chunk_seq[s]] /\ Hash(s) \in Hashes
      /\ \A q \in Seqs : q \in Int
      /\ \A s \in Snapshots : chunk_seq[s] \in Int
  <2>1. \A q \in Seqs : q \in Int
    BY DEF Seqs
  <2> QED
    BY <2>1, BackupAssumption DEF Typed, TypeOK, Hash
<1>a. FutureRowsAbsent <=> \A s \in Snapshots, q \in Seqs :
          Ahead(s, q) => chunk_pool[HashOf[s][q]].state = "ABSENT"
  BY DEF FutureRowsAbsent, Ahead
<1>b. FutureRowsAbsent' <=> \A s \in Snapshots, q \in Seqs :
          Ahead(s, q)' => chunk_pool'[HashOf[s][q]].state = "ABSENT"
  BY DEF FutureRowsAbsent, Ahead
\* Steps that bring no chunk ahead and no absent row into being.
<1>f. ASSUME \A s \in Snapshots, q \in Seqs : Ahead(s, q)' => Ahead(s, q),
             \A h \in Hashes : chunk_pool[h].state = "ABSENT" => chunk_pool'[h].state = "ABSENT"
      PROVE  FutureRowsAbsent'
  <2> SUFFICES ASSUME NEW s \in Snapshots, NEW q \in Seqs, Ahead(s, q)'
               PROVE  chunk_pool'[HashOf[s][q]].state = "ABSENT"
    BY <1>b
  <2>1. Ahead(s, q)
    BY <1>f
  <2> QED
    BY <1>a, <1>f, <1>t, <2>1
<1> USE DEF Go
<1>1. ASSUME NEW s \in Snapshots, Prepare(s) PROVE FutureRowsAbsent'
  <2>1. /\ pc[s] = "prepare" /\ UNCHANGED chunk_seq
        /\ pc' = [pc EXCEPT ![s] = "upload"] \/ pc' = [pc EXCEPT ![s] = "save"]
        /\ \A h \in Hashes \ {Hash(s)} : chunk_pool'[h] = chunk_pool[h]
    BY <1>1, <1>t DEF Prepare
  <2>2. ASSUME NEW t \in Snapshots, NEW q \in Seqs, Ahead(t, q)'
        PROVE  Ahead(t, q) /\ ~(t = s /\ q = chunk_seq[s])
    BY <2>1, <2>2, <1>t DEF Ahead
  <2>3. ASSUME NEW t \in Snapshots, NEW q \in Seqs, Ahead(t, q)'
        PROVE  HashOf[t][q] \in Hashes \ {Hash(s)}
    BY <2>2, <2>3, <1>t DEF UniqueHashes
  <2> QED
    BY <2>1, <2>2, <2>3, <1>a, <1>b
<1>2. ASSUME NEW s \in Snapshots, SaveChunkRef(s) PROVE FutureRowsAbsent'
  <2>1. /\ pc[s] = "save"
        /\ \/ pc' = [pc EXCEPT ![s] = "prepare"]
              /\ chunk_seq' = [chunk_seq EXCEPT ![s] = chunk_seq[s] + 1]
           \/ pc' = [pc EXCEPT ![s] = "eof"] /\ UNCHANGED chunk_seq
        /\ \A h \in Hashes \ {Hash(s)} : chunk_pool'[h] = chunk_pool[h]
    BY <1>2, <1>t DEF SaveChunkRef, InsertLink
  <2>2. ASSUME NEW t \in Snapshots, NEW q \in Seqs, Ahead(t, q)'
        PROVE  Ahead(t, q) /\ ~(t = s /\ q = chunk_seq[s])
    BY <2>1, <2>2, <1>t DEF Ahead
  <2>3. ASSUME NEW t \in Snapshots, NEW q \in Seqs, Ahead(t, q)'
        PROVE  HashOf[t][q] \in Hashes \ {Hash(s)}
    BY <2>2, <2>3, <1>t DEF UniqueHashes
  <2> QED
    BY <2>1, <2>2, <2>3, <1>a, <1>b
<1>3. ASSUME NEW s \in Snapshots, Backup(s), ~Prepare(s), ~SaveChunkRef(s)
      PROVE  FutureRowsAbsent'
  <2>1. UNCHANGED <<chunk_pool, chunk_seq>>
    BY <1>3 DEF Backup, Start, Upload, ChunkError, BackupError, Complete, Fail, tables
  <2>2. \A t \in Snapshots, q \in Seqs : Ahead(t, q)' => Ahead(t, q)
    BY <1>3, <2>1, <1>t
       DEF Backup, Start, Upload, ChunkError, BackupError, Complete, Fail, Ahead
  <2> QED
    BY <2>1, <2>2, <1>f
\* No other step returns a process to its upload.
<1>g. ASSUME NEW s \in Snapshots, UNCHANGED chunk_seq,
             \/ pc' = pc
             \/ \E label \in PC \ Growing : pc' = [pc EXCEPT ![s] = label]
      PROVE  \A t \in Snapshots, q \in Seqs : Ahead(t, q)' => Ahead(t, q)
  BY <1>g, <1>t DEF Ahead, Growing
<1>4. ASSUME NEW s \in Snapshots, Purge(s) \/ Crash(s) \/ Expire(s)
      PROVE  \A t \in Snapshots, q \in Seqs : Ahead(t, q)' => Ahead(t, q)
  <2> USE DEF PC, Streaming, Purging, Growing
  <2>1. CASE PurgeQuery(s)
    BY <2>1, <1>g DEF PurgeQuery
  <2>2. CASE PurgeNext(s)
    BY <2>2, <1>g DEF PurgeNext
  <2>3. CASE Unlink(s) \/ UnlinkError(s) \/ GeneralError(s)
    BY <2>3, <1>g DEF Unlink, UnlinkError, GeneralError
  <2>4. CASE Phase1(s)
    BY <2>4, <1>g DEF Phase1
  <2>5. CASE \E h \in Hashes : DeleteObject(s, h)
    BY <2>5, <1>g DEF DeleteObject
  <2>6. CASE DeleteObjectsRaises(s) \/ Phase2Confirm(s) \/ Phase2Revert(s) \/ PhaseError(s)
    BY <2>6, <1>g DEF DeleteObjectsRaises, Phase2Confirm, Phase2Revert, PhaseError
  <2>7. CASE Crash(s) \/ Expire(s)
    BY <2>7, <1>g DEF Crash, Expire
  <2> QED
    BY <1>4, <2>1, <2>2, <2>3, <2>4, <2>5, <2>6, <2>7 DEF Purge
<1>5. ASSUME NEW s \in Snapshots, Purge(s) \/ Crash(s) \/ Expire(s)
      PROVE  \A h \in Hashes :
                chunk_pool[h].state = "ABSENT" => chunk_pool'[h].state = "ABSENT"
  <2>1. CASE Unlink(s)
    <3> SUFFICES ASSUME NEW h \in Hashes, chunk_pool[h].state = "ABSENT"
                 PROVE  chunk_pool'[h].state = "ABSENT"
      OBVIOUS
    <3>1. chunk_pool'[h] = chunk_pool[h]
          \/ chunk_pool'[h] = AfterDelete(chunk_pool[h],
                Cardinality(LinksTo(LinksOf(snapshot_chunks, victim[s]), h)))
      BY <2>1 DEF Unlink, DeleteLinks
    <3>2. chunk_pool[h].ref_count = 0
      BY DEF PurgeableIsUnreferenced
    <3>3. Cardinality(LinksTo(LinksOf(snapshot_chunks, victim[s]), h)) \in Nat
      BY FS_Subset, LinksToFinite DEF Typed, FiniteLinks, LinksOf
    <3> QED
      BY <3>1, <3>2, <3>3 DEF AfterDelete
  <2>2. CASE Phase1(s)
    BY <2>2, <1>t DEF Phase1, Orphans
  <2>3. CASE Phase2Confirm(s) \/ Phase2Revert(s)
    BY <2>3, <1>t DEF Phase2Confirm, Phase2Revert, StillPurging, NoRow
  <2>4. CASE ~Unlink(s) /\ ~Phase1(s) /\ ~Phase2Confirm(s) /\ ~Phase2Revert(s)
    BY <1>5, <2>4 DEF Purge, PurgeQuery, PurgeNext, UnlinkError, GeneralError, DeleteObject,
        DeleteObjectsRaises, PhaseError, Crash, Expire, tables
  <2> QED
    BY <2>1, <2>2, <2>3, <2>4
<1>6. CASE StartupCleanup \/ UNCHANGED vars
  BY <1>6, <1>f DEF StartupCleanup, vars, tables, Ahead
<1> QED
  BY <1>1, <1>2, <1>3, <1>4, <1>5, <1>6, <1>f DEF Next, Terminated

-----------------------------------------------------------------------------
(* The bucket.                                                             *)

\* The only key a step removes from the bucket is one a purge holds.
LEMMA Removals ==
    ASSUME Typed, [Next]_vars, NEW h \in s3, h \notin s3'
    PROVE  h \in Hashes /\ Claimed(h)
<1>1. h \in Hashes
  BY DEF Typed, TypeOK
<1>2. ASSUME NEW s \in Snapshots, Backup(s) PROVE FALSE
  BY <1>2 DEF Backup, Start, Prepare, Upload, SaveChunkRef, ChunkError, BackupError, Complete, Fail
<1>3. ASSUME NEW s \in Snapshots, NEW g \in Hashes, DeleteObject(s, g) PROVE Claimed(h)
  BY <1>3 DEF DeleteObject, Claimed
<1>4. ASSUME NEW s \in Snapshots,
             \/ PurgeQuery(s) \/ PurgeNext(s) \/ Unlink(s) \/ UnlinkError(s) \/ GeneralError(s)
             \/ Phase1(s) \/ DeleteObjectsRaises(s) \/ Phase2Confirm(s) \/ Phase2Revert(s)
             \/ PhaseError(s) \/ Crash(s) \/ Expire(s)
      PROVE  FALSE
  BY <1>4
     DEF PurgeQuery, PurgeNext, Unlink, UnlinkError, GeneralError, Phase1, DeleteObjectsRaises,
         Phase2Confirm, Phase2Revert, PhaseError, Crash, Expire
<1>5. StartupCleanup \/ UNCHANGED vars => FALSE
  BY DEF StartupCleanup, vars
<1> QED
  BY <1>1, <1>2, <1>3, <1>4, <1>5 DEF Next, Purge, Terminated

\* A process reaches the saving of a link with its object in the bucket.
LEMMA SavedIsStoredStep ==
    ASSUME Typed, OnlyOrphansClaimed, FutureRowsAbsent, SavedIsStored, [Next]_vars
    PROVE  SavedIsStored'
<1>t. /\ pc \in [Snapshots -> PC] /\ chunk_seq \in [Snapshots -> Seqs]
      /\ \A s \in Snapshots : Hash(s) = HashOf[s][chunk_seq[s]]
      /\ \A s \in Snapshots : chunk_seq[s] >= chunk_seq[s]
  BY DEF Typed, TypeOK, Hash, Seqs
<1>1. ASSUME NEW s \in Snapshots, pc'[s] = "save"
      PROVE  \/ pc[s] = "save" /\ chunk_seq'[s] = chunk_seq[s]
             \/ Upload(s)
             \/ Prepare(s) /\ chunk_pool[Hash(s)].state \notin {"ABSENT", "PURGING_S3"}
  <2>1. ASSUME NEW t \in Snapshots, Backup(t)
        PROVE  \/ pc[s] = "save" /\ chunk_seq'[s] = chunk_seq[s]
               \/ Upload(s)
               \/ Prepare(s) /\ chunk_pool[Hash(s)].state \notin {"ABSENT", "PURGING_S3"}
    <3>1. CASE Prepare(t)
      BY <1>1, <1>t, <3>1 DEF Prepare, Go
    <3>2. CASE Upload(t)
      BY <1>1, <1>t, <3>2 DEF Upload, Go
    <3>3. CASE SaveChunkRef(t)
      BY <1>1, <1>t, <3>3 DEF SaveChunkRef, Go
    <3>4. CASE \/ Start(t) \/ ChunkError(t) \/ BackupError(t) \/ Complete(t) \/ Fail(t)
      BY <1>1, <1>t, <3>4 DEF Start, ChunkError, BackupError, Complete, Fail, Go
    <3> QED
      BY <2>1, <3>1, <3>2, <3>3, <3>4 DEF Backup
  <2>2. ASSUME NEW t \in Snapshots, Purge(t) \/ Crash(t) \/ Expire(t)
        PROVE  pc[s] = "save" /\ chunk_seq'[s] = chunk_seq[s]
    <3>1. CASE Phase1(t)
      BY <1>1, <1>t, <3>1 DEF Phase1, Go
    <3>2. CASE PurgeQuery(t) \/ PurgeNext(t)
      BY <1>1, <1>t, <3>2 DEF PurgeQuery, PurgeNext, Go
    <3>3. CASE ~Phase1(t) /\ ~PurgeQuery(t) /\ ~PurgeNext(t)
      BY <1>1, <1>t, <2>2, <3>3
         DEF Purge, Unlink, UnlinkError, GeneralError, DeleteObject, DeleteObjectsRaises,
             Phase2Confirm, Phase2Revert, PhaseError, Crash, Expire, Go
    <3> QED
      BY <3>1, <3>2, <3>3
  <2>3. StartupCleanup \/ UNCHANGED vars => UNCHANGED <<pc, chunk_seq>>
    BY DEF StartupCleanup, vars
  <2> QED
    BY <1>1, <2>1, <2>2, <2>3 DEF Next, Terminated
<1> SUFFICES ASSUME NEW s \in Snapshots, pc'[s] = "save" PROVE Hash(s)' \in s3'
  BY DEF SavedIsStored
<1>2. CASE pc[s] = "save" /\ chunk_seq'[s] = chunk_seq[s]
  <2>1. Hash(s)' = Hash(s) /\ Hash(s) \in s3
    BY <1>2 DEF Hash, SavedIsStored
  <2>2. ~Orphaned(Hash(s))
    BY <1>2, <1>t DEF Orphaned, Writing, Streaming, Typed, TypeOK
  <2> QED
    BY <2>1, <2>2, Removals DEF OnlyOrphansClaimed
<1>3. CASE Upload(s)
  BY <1>3 DEF Upload, Hash
<1>4. CASE Prepare(s) /\ chunk_pool[Hash(s)].state \notin {"ABSENT", "PURGING_S3"}
  <2>1. pc[s] = "prepare"
    BY <1>4 DEF Prepare
  <2> QED
    BY <1>4, <1>t, <2>1 DEF FutureRowsAbsent
<1> QED
  BY <1>1, <1>2, <1>3, <1>4

\* No step takes the object of a link away, nor links a chunk without object.
LEMMA NoDanglingStep ==
    ASSUME Typed, LinksOwned, OnlyOrphansClaimed, SavedIsStored, NoDangling, [Next]_vars
    PROVE  NoDangling'
<1> SUFFICES ASSUME NEW l \in snapshot_chunks' PROVE l.chunk_hash \in s3'
  BY DEF NoDangling
<1>1. CASE l \in snapshot_chunks
  <2>1. /\ l.snapshot_id \in Snapshots /\ l.chunk_seq \in Seqs
        /\ l.chunk_hash = HashOf[l.snapshot_id][l.chunk_seq]
        /\ snapshots[l.snapshot_id] # "ABSENT"
    BY <1>1 DEF LinksOwned, Typed, TypeOK, SnapshotChunk
  <2>2. ~Orphaned(l.chunk_hash) /\ l.chunk_hash \in s3
    BY <1>1, <2>1 DEF Orphaned, NoDangling
  <2> QED
    BY <2>2, Removals DEF OnlyOrphansClaimed
<1>2. CASE l \notin snapshot_chunks
  <2>1. PICK s \in Snapshots : SaveChunkRef(s)
    <3>1. ASSUME NEW s \in Snapshots, Backup(s), ~SaveChunkRef(s) PROVE FALSE
      BY <1>2, <3>1 DEF Backup, Start, Prepare, Upload, ChunkError, BackupError, Complete, Fail, tables
    <3>2. ASSUME NEW s \in Snapshots, Purge(s) \/ Crash(s) \/ Expire(s) PROVE FALSE
      BY <1>2, <3>2
         DEF Purge, PurgeQuery, PurgeNext, Unlink, UnlinkError, GeneralError, Phase1, DeleteObject,
             DeleteObjectsRaises, Phase2Confirm, Phase2Revert, PhaseError, Crash, Expire, tables
    <3>3. StartupCleanup \/ UNCHANGED vars => FALSE
      BY <1>2 DEF StartupCleanup, vars, tables
    <3> QED
      BY <3>1, <3>2, <3>3 DEF Next, Terminated
  <2>2. l.chunk_hash = Hash(s) /\ pc[s] = "save" /\ UNCHANGED s3
    BY <1>2, <2>1 DEF SaveChunkRef
  <2> QED
    BY <2>2 DEF SavedIsStored
<1> QED
  BY <1>1, <1>2

-----------------------------------------------------------------------------

\* Nothing is written, claimed or stored at first.
LEMMA SafeInit == Init => Safe
<1> SUFFICES ASSUME Init PROVE Safe
  OBVIOUS
<1>1. /\ WriterOwns /\ ListedEnded /\ LinksOwned /\ SavedIsStored /\ NoDangling
  BY BackupAssumption
     DEF Init, WriterOwns, ListedEnded, LinksOwned, SavedIsStored, NoDangling, Streaming
<1>2. OnlyOrphansClaimed
  BY DEF Init, OnlyOrphansClaimed, Claimed, NoRow
<1>3. FutureRowsAbsent
  BY BackupAssumption DEF Init, FutureRowsAbsent, NoRow
<1> QED
  BY <1>1, <1>2, <1>3 DEF Safe

\* Every step keeps the parts of Safe.
LEMMA SafeStep == UniqueHashes /\ Counted /\ Safe /\ [Next]_vars => Safe'
<1> SUFFICES ASSUME UniqueHashes, Counted, Safe, [Next]_vars PROVE Safe'
  OBVIOUS
<1>1. /\ Typed /\ PurgeableIsUnreferenced /\ WriterOwns /\ ListedEnded /\ LinksOwned
      /\ OnlyOrphansClaimed /\ FutureRowsAbsent /\ SavedIsStored /\ NoDangling
  BY DEF Counted, Safe
<1>2. WriterOwns' /\ ListedEnded' /\ LinksOwned'
  BY <1>1, WriterOwnsStep, ListedEndedStep, LinksOwnedStep
<1>3. OnlyOrphansClaimed' /\ FutureRowsAbsent'
  BY <1>1, OnlyOrphansClaimedStep, FutureRowsAbsentStep
<1>4. SavedIsStored' /\ NoDangling'
  BY <1>1, SavedIsStoredStep, NoDanglingStep
<1> QED
  BY <1>2, <1>3, <1>4 DEF Safe

\* Whatever fails and however backups and purges interleave, every link of the
\* catalogue has its object in the bucket, provided no two payloads share a hash.
THEOREM NoDanglingPointers == UniqueHashes => (Spec => []NoDangling)
<1> SUFFICES ASSUME UniqueHashes PROVE Spec => []NoDangling
  OBVIOUS
<1>1. Init => Counted /\ Safe
  BY CountedInit, SafeInit
<1>2. Counted /\ Safe /\ [Next]_vars => (Counted /\ Safe)'
  BY CountedStep, SafeStep
<1>3. Safe => NoDangling
  BY DEF Safe
<1> QED
  BY <1>1, <1>2, <1>3, PTL DEF Spec

-----------------------------------------------------------------------------
(* No object without a row.                                                *)

\* Only the second phase of a purge removes a row, and only one of its batch that
\* is still in PURGING_S3, once all the keys of the batch have been sent.
LEMMA RowsRemoved ==
    ASSUME Typed, [Next]_vars, NEW h \in Hashes,
           chunk_pool[h].state # "ABSENT", chunk_pool'[h].state = "ABSENT"
    PROVE  \E p \in Snapshots :
              pc[p] = "s3_delete" /\ keys[p] = {} /\ h \in StillPurging(p) /\ UNCHANGED s3
<1>t. chunk_pool \in [Hashes -> ChunkPool] /\ chunk_pool[h].state \in ChunkState
  BY DEF Typed, TypeOK, ChunkPool
<1>1. ASSUME NEW s \in Snapshots, Backup(s) PROVE FALSE
  <2>1. CASE Prepare(s)
    BY <1>t, <2>1 DEF Prepare, NewRow, ChunkPool
  <2>2. CASE SaveChunkRef(s)
    BY <1>t, <2>2 DEF SaveChunkRef, InsertLink, AfterInsert, ChunkPool
  <2>3. CASE ~Prepare(s) /\ ~SaveChunkRef(s)
    BY <1>1, <2>3 DEF Backup, Start, Upload, ChunkError, BackupError, Complete, Fail, tables
  <2> QED
    BY <2>1, <2>2, <2>3
<1>2. ASSUME NEW s \in Snapshots, Purge(s), ~Phase2Confirm(s) PROVE FALSE
  <2>1. CASE Unlink(s)
    <3> DEFINE n == Cardinality(LinksTo(LinksOf(snapshot_chunks, victim[s]), h))
    <3>1. \/ chunk_pool'[h] = chunk_pool[h]
          \/ chunk_pool'[h] = AfterDelete(chunk_pool[h], n)
      BY <2>1 DEF Unlink, DeleteLinks
    <3>2. AfterDelete(chunk_pool[h], n).state \in {"PENDING_DELETE", chunk_pool[h].state}
      BY DEF AfterDelete
    <3> QED
      BY <3>1, <3>2
  <2>2. CASE Phase1(s)
    BY <1>t, <2>2 DEF Phase1, ChunkPool
  <2>3. CASE Phase2Revert(s)
    BY <1>t, <2>3 DEF Phase2Revert, ChunkPool
  <2>4. CASE ~Unlink(s) /\ ~Phase1(s) /\ ~Phase2Revert(s)
    BY <1>2, <2>4
       DEF Purge, PurgeQuery, PurgeNext, UnlinkError, GeneralError, DeleteObject,
           DeleteObjectsRaises, PhaseError, tables
  <2> QED
    BY <2>1, <2>2, <2>3, <2>4
<1>3. ASSUME NEW s \in Snapshots, Phase2Confirm(s)
      PROVE  pc[s] = "s3_delete" /\ keys[s] = {} /\ h \in StillPurging(s) /\ UNCHANGED s3
  BY <1>3 DEF Phase2Confirm
<1>4. ASSUME NEW s \in Snapshots, Crash(s) \/ Expire(s) PROVE FALSE
  BY <1>4 DEF Crash, Expire, tables
<1>5. StartupCleanup \/ UNCHANGED vars => FALSE
  BY DEF StartupCleanup, vars, tables
<1> QED
  BY <1>1, <1>2, <1>3, <1>4, <1>5 DEF Next, Purge, Terminated

\* The only key a step adds to the bucket is that of a chunk being uploaded.
LEMMA Additions ==
    ASSUME Typed, [Next]_vars, NEW h \in s3', h \notin s3
    PROVE  \E s \in Snapshots : pc[s] = "upload" /\ h = Hash(s) /\ UNCHANGED tables
<1>1. ASSUME NEW s \in Snapshots, Backup(s)
      PROVE  pc[s] = "upload" /\ h = Hash(s) /\ UNCHANGED tables
  BY <1>1 DEF Backup, Start, Prepare, Upload, SaveChunkRef, ChunkError, BackupError, Complete,
              Fail, tables
<1>2. ASSUME NEW s \in Snapshots, Purge(s) \/ Crash(s) \/ Expire(s) PROVE FALSE
  BY <1>2
     DEF Purge, PurgeQuery, PurgeNext, Unlink, UnlinkError, GeneralError, Phase1, DeleteObject,
         DeleteObjectsRaises, Phase2Confirm, Phase2Revert, PhaseError, Crash, Expire
<1>3. StartupCleanup \/ UNCHANGED vars => FALSE
  BY DEF StartupCleanup, vars
<1> QED
  BY <1>1, <1>2, <1>3 DEF Next, Terminated

\* A key that a purge has sent belongs to nobody who could upload it.
LEMMA UploadNotClaimed ==
    ASSUME Typed, OnlyOrphansClaimed, NEW s \in Snapshots, pc[s] = "upload"
    PROVE  Hash(s) \in Hashes /\ ~Claimed(Hash(s))
<1>1. Hash(s) \in Hashes /\ chunk_seq[s] \in Seqs
  BY BackupAssumption DEF Typed, TypeOK, Hash
<1>2. ~Orphaned(Hash(s))
  BY <1>1 DEF Orphaned, Hash, Writing, Streaming
<1> QED
  BY <1>1, <1>2 DEF OnlyOrphansClaimed

\* An upload is under way only for a row in ACTIVE.
LEMMA UploadHasRowStep ==
    ASSUME Typed, Typed', OnlyOrphansClaimed, OnlyOrphansClaimed', UploadHasRow, [Next]_vars
    PROVE  UploadHasRow'
<1> SUFFICES ASSUME NEW s \in Snapshots, pc'[s] = "upload"
             PROVE  chunk_pool'[Hash(s)'].state = "ACTIVE"
  BY DEF UploadHasRow
<1>t. /\ pc \in [Snapshots -> PC] /\ chunk_seq \in [Snapshots -> Seqs]
      /\ chunk_pool \in [Hashes -> ChunkPool] /\ chunk_pool' \in [Hashes -> ChunkPool]
      /\ HashOf[s][chunk_seq[s]] \in Hashes
  BY BackupAssumption DEF Typed, TypeOK
<1>1. Prepare(s) \/ (pc[s] = "upload" /\ chunk_seq'[s] = chunk_seq[s])
  <2>1. ASSUME NEW t \in Snapshots, Backup(t)
        PROVE  Prepare(s) \/ (pc[s] = "upload" /\ chunk_seq'[s] = chunk_seq[s])
    <3>1. CASE Prepare(t)
      BY <1>t, <3>1 DEF Prepare, Go
    <3>2. CASE SaveChunkRef(t)
      BY <1>t, <3>2 DEF SaveChunkRef, Go
    <3>3. CASE ~Prepare(t) /\ ~SaveChunkRef(t)
      BY <1>t, <2>1, <3>3
         DEF Backup, Start, Upload, ChunkError, BackupError, Complete, Fail, Go
    <3> QED
      BY <3>1, <3>2, <3>3
  <2>2. ASSUME NEW t \in Snapshots, Purge(t) \/ Crash(t) \/ Expire(t)
        PROVE  pc[s] = "upload" /\ chunk_seq'[s] = chunk_seq[s]
    <3>1. CASE Phase1(t)
      BY <1>t, <3>1 DEF Phase1, Go
    <3>2. CASE PurgeQuery(t) \/ PurgeNext(t)
      BY <1>t, <3>2 DEF PurgeQuery, PurgeNext, Go
    <3>3. CASE ~Phase1(t) /\ ~PurgeQuery(t) /\ ~PurgeNext(t)
      BY <1>t, <2>2, <3>3
         DEF Purge, Unlink, UnlinkError, GeneralError, DeleteObject, DeleteObjectsRaises,
             Phase2Confirm, Phase2Revert, PhaseError, Crash, Expire, Go
    <3> QED
      BY <3>1, <3>2, <3>3
  <2>3. StartupCleanup \/ UNCHANGED vars => UNCHANGED <<pc, chunk_seq>>
    BY DEF StartupCleanup, vars
  <2> QED
    BY <2>1, <2>2, <2>3 DEF Next, Terminated
<1>2. CASE Prepare(s)
  BY <1>2, <1>t DEF Prepare, NewRow, Hash, ChunkPool
<1>3. CASE pc[s] = "upload" /\ chunk_seq'[s] = chunk_seq[s]
  <2>1. Hash(s)' = Hash(s) /\ Hash(s) \in Hashes /\ chunk_pool[Hash(s)].state = "ACTIVE"
    BY <1>3, <1>t DEF Hash, UploadHasRow
  <2>2. chunk_pool'[Hash(s)].state # "ABSENT"
    BY <2>1, RowsRemoved DEF StillPurging
  <2>3. ~Claimed(Hash(s))'
    <3>1. Hash(s)' \in Hashes /\ ~Orphaned(Hash(s))'
      BY <2>1, <1>t DEF Orphaned, Hash, Writing, Streaming, Typed, TypeOK
    <3> QED
      BY <3>1 DEF OnlyOrphansClaimed
  <2> QED
    BY <2>1, <2>2, <2>3, <1>t DEF Claimed, ChunkPool, ChunkState
<1> QED
  BY <1>1, <1>2, <1>3

\* What a purge has sent stays out of the bucket until the batch ends: S3 reports
\* no key as kept, and nobody uploads one again.
LEMMA SentAreGoneStep ==
    ASSUME Typed, OnlyOrphansClaimed, SentAreGone, [Next]_vars, "s3_partial" \notin Faults
    PROVE  SentAreGone'
<1> SUFFICES ASSUME NEW p \in Snapshots, pc'[p] = "s3_delete",
                    NEW h \in chunks_to_purge'[p], h \notin keys'[p], h \in s3'
             PROVE  FALSE
  BY DEF SentAreGone
<1>t. /\ pc \in [Snapshots -> PC] /\ keys \in [Snapshots -> SUBSET Hashes]
      /\ chunks_to_purge \in [Snapshots -> SUBSET Hashes]
  BY DEF Typed, TypeOK
<1> DEFINE Kept == /\ pc[p] = "s3_delete"
                   /\ chunks_to_purge'[p] = chunks_to_purge[p]
                   /\ keys'[p] = keys[p]
<1>1. Kept \/ \E g \in Hashes : DeleteObject(p, g)
  <2>1. ASSUME NEW t \in Snapshots, Backup(t) PROVE Kept
    BY <1>t, <2>1 DEF Backup, Start, Prepare, Upload, SaveChunkRef, ChunkError, BackupError,
                      Complete, Fail, Go, purge
  <2>2. ASSUME NEW t \in Snapshots, Purge(t)
        PROVE  Kept \/ \E g \in Hashes : DeleteObject(p, g)
    <3>1. CASE Phase1(t)
      BY <1>t, <3>1 DEF Phase1, Go
    <3>2. CASE PurgeQuery(t) \/ PurgeNext(t)
      BY <1>t, <3>2 DEF PurgeQuery, PurgeNext, Go
    <3>3. CASE \E g \in Hashes : DeleteObject(t, g)
      BY <1>t, <3>3 DEF DeleteObject
    <3>4. CASE Unlink(t) \/ UnlinkError(t) \/ GeneralError(t) \/ DeleteObjectsRaises(t)
      BY <1>t, <3>4 DEF Unlink, UnlinkError, GeneralError, DeleteObjectsRaises, Go, purge
    <3>5. CASE Phase2Confirm(t) \/ Phase2Revert(t) \/ PhaseError(t)
      BY <1>t, <3>5 DEF Phase2Confirm, Phase2Revert, PhaseError, EndBatch, Go
    <3> QED
      BY <2>2, <3>1, <3>2, <3>3, <3>4, <3>5 DEF Purge
  <2>3. ASSUME NEW t \in Snapshots, Crash(t) \/ Expire(t) PROVE Kept
    BY <1>t, <2>3 DEF Crash, Expire, Go, purge
  <2>4. StartupCleanup \/ UNCHANGED vars => Kept
    BY DEF StartupCleanup, vars, purge
  <2> QED
    BY <2>1, <2>2, <2>3, <2>4 DEF Next, Terminated
<1>2. CASE Kept
  <2>1. h \notin s3 /\ Claimed(h)
    BY <1>2, <1>t DEF SentAreGone, Claimed
  <2>2. PICK s \in Snapshots : pc[s] = "upload" /\ h = Hash(s)
    BY <2>1, Additions
  <2> QED
    BY <2>1, <2>2, UploadNotClaimed
<1>3. CASE \E g \in Hashes : DeleteObject(p, g)
  BY <1>3, <1>t DEF DeleteObject, SentAreGone
<1> QED
  BY <1>1, <1>2, <1>3

\* An object keeps its row until it is out of the bucket, and comes with one.
LEMMA NoUntrackedObjectStep ==
    ASSUME Typed, UploadHasRow, SentAreGone, NoUntrackedObject, [Next]_vars
    PROVE  NoUntrackedObject'
<1> SUFFICES ASSUME NEW h \in s3', chunk_pool'[h].state = "ABSENT" PROVE FALSE
  BY DEF NoUntrackedObject
<1>1. CASE h \in s3
  <2>1. h \in Hashes /\ chunk_pool[h].state # "ABSENT"
    BY <1>1 DEF NoUntrackedObject, Typed, TypeOK
  <2>2. PICK p \in Snapshots :
          pc[p] = "s3_delete" /\ keys[p] = {} /\ h \in StillPurging(p) /\ UNCHANGED s3
    BY <2>1, RowsRemoved
  <2> QED
    BY <1>1, <2>2 DEF StillPurging, SentAreGone
<1>2. CASE h \notin s3
  BY <1>2, Additions DEF UploadHasRow, tables
<1> QED
  BY <1>1, <1>2

\* Every object in the bucket has its row, so that a later purge can find it,
\* whatever fails, as long as S3 keeps no key it was asked to delete and no two
\* payloads share a hash.
THEOREM NoObjectUntracked ==
    UniqueHashes /\ "s3_partial" \notin Faults => (Spec => []NoUntrackedObject)
<1> SUFFICES ASSUME UniqueHashes, "s3_partial" \notin Faults
             PROVE  Spec => []NoUntrackedObject
  OBVIOUS
<1>1. Init => Counted /\ Safe /\ Tracked
  <2>1. Init => Tracked
    BY DEF Init, Tracked, UploadHasRow, SentAreGone, NoUntrackedObject
  <2> QED
    BY <2>1, CountedInit, SafeInit
<1>2. Counted /\ Safe /\ Tracked /\ [Next]_vars => (Counted /\ Safe /\ Tracked)'
  <2> SUFFICES ASSUME Counted, Safe, Tracked, [Next]_vars
               PROVE  Counted' /\ Safe' /\ Tracked'
    OBVIOUS
  <2>1. Counted' /\ Safe'
    BY CountedStep, SafeStep
  <2>2. /\ Typed /\ Typed' /\ OnlyOrphansClaimed /\ OnlyOrphansClaimed'
        /\ UploadHasRow /\ SentAreGone /\ NoUntrackedObject
    BY <2>1 DEF Counted, Safe, Tracked
  <2> QED
    BY <2>1, <2>2, UploadHasRowStep, SentAreGoneStep, NoUntrackedObjectStep DEF Tracked
<1>3. Tracked => NoUntrackedObject
  BY DEF Tracked
<1> QED
  BY <1>1, <1>2, <1>3, PTL DEF Spec

-----------------------------------------------------------------------------
(* Retention and the writers of a snapshot, and the archive they implement.  *)

\* A snapshot on the list of a purge is neither being written nor restorable, and
\* the one it is visiting has left EXPIRED too.
ListedSettled ==
    \A p, t \in Snapshots :
        /\ t \in expired[p] => snapshots[t] \notin {"RUNNING", "COMPLETED"}
        /\ t = victim[p] => snapshots[t] \notin {"RUNNING", "COMPLETED", "EXPIRED"}

\* A backup in progress has linked every chunk before the one it is at.
NoGapSoFar ==
    \A s \in Snapshots : pc[s] \in Growing =>
        \A q \in Seqs : q < chunk_seq[s] =>
            \E k \in snapshot_chunks : k.snapshot_id = s /\ k.chunk_seq = q

\* A purge that unlinks has a snapshot to unlink.
VictimNamed == \A p \in Snapshots : pc[p] = "unlink" => victim[p] \in Snapshots

Owned == Typed /\ WriterOwns /\ ListedEnded /\ ListedSettled /\ VictimNamed

\* How a step may change the estado of a snapshot that its process has settled.
LEMMA SettledStays ==
    ASSUME Typed, [Next]_vars, NEW t \in Snapshots, pc[t] \notin Writing
    PROVE  /\ snapshots'[t] \in {"RUNNING", "COMPLETED"} => snapshots'[t] = snapshots[t]
           /\ snapshots'[t] = "EXPIRED" => snapshots[t] \in {"EXPIRED", "COMPLETED"}
<1> DEFINE Goal ==
      /\ snapshots'[t] \in {"RUNNING", "COMPLETED"} => snapshots'[t] = snapshots[t]
      /\ snapshots'[t] = "EXPIRED" => snapshots[t] \in {"EXPIRED", "COMPLETED"}
<1>t. /\ snapshots \in [Snapshots -> SnapshotState]
      /\ victim \in [Snapshots -> Snapshots \cup {NoSnapshot}]
  BY DEF Typed, TypeOK
<1> USE <1>t DEF SetEstado
<1>f. snapshots'[t] = snapshots[t] => Goal
  OBVIOUS
<1>1. ASSUME NEW s \in Snapshots, Backup(s) PROVE Goal
  <2>1. s # t
    BY <1>1 DEF Backup, Start, Prepare, Upload, SaveChunkRef, ChunkError, BackupError,
                Complete, Fail, Writing, Streaming
  <2>2. snapshots'[t] = snapshots[t]
    BY <1>1, <2>1 DEF Backup, Start, Prepare, Upload, SaveChunkRef, ChunkError, BackupError,
                      Complete, Fail, tables
  <2> QED
    BY <2>2
<1>2. ASSUME NEW s \in Snapshots, Purge(s) PROVE Goal
  <2>1. CASE PurgeQuery(s)
    BY <2>1 DEF PurgeQuery
  <2>2. CASE PurgeNext(s)
    BY <2>2 DEF PurgeNext
  <2>3. CASE Unlink(s) \/ UnlinkError(s) \/ GeneralError(s)
    BY <2>3 DEF Unlink, UnlinkError, GeneralError
  <2>4. CASE ~(PurgeQuery(s) \/ PurgeNext(s) \/ Unlink(s) \/ UnlinkError(s) \/ GeneralError(s))
    BY <1>2, <2>4 DEF Purge, Phase1, DeleteObject, DeleteObjectsRaises, Phase2Confirm,
                      Phase2Revert, PhaseError, tables
  <2> QED
    BY <2>1, <2>2, <2>3, <2>4
<1>3. ASSUME NEW s \in Snapshots, Crash(s) \/ Expire(s) PROVE Goal
  BY <1>3 DEF Crash, Expire, tables
<1>4. CASE StartupCleanup
  BY <1>4 DEF StartupCleanup
<1>5. CASE UNCHANGED vars
  BY <1>5 DEF vars, tables
<1> QED
  BY <1>1, <1>2, <1>3, <1>4, <1>5 DEF Next, Terminated

\* Nothing that is listed is settled anew, and only EXPIRED snapshots are listed.
LEMMA ListedSettledStep ==
    ASSUME Typed, WriterOwns, ListedEnded, ListedSettled, [Next]_vars
    PROVE  ListedSettled'
<1>t. /\ snapshots \in [Snapshots -> SnapshotState]
      /\ victim \in [Snapshots -> Snapshots \cup {NoSnapshot}]
      /\ expired \in [Snapshots -> SUBSET Snapshots]
  BY DEF Typed, TypeOK
<1> SUFFICES ASSUME NEW p \in Snapshots, NEW t \in Snapshots
             PROVE  /\ t \in expired'[p] => snapshots'[t] \notin {"RUNNING", "COMPLETED"}
                    /\ t = victim'[p]
                          => snapshots'[t] \notin {"RUNNING", "COMPLETED", "EXPIRED"}
  BY DEF ListedSettled
\* Steps that put nothing on the list of p.
<1>f. ASSUME t \in expired'[p] => t \in expired[p], t = victim'[p] => t = victim[p]
      PROVE  /\ t \in expired'[p] => snapshots'[t] \notin {"RUNNING", "COMPLETED"}
             /\ t = victim'[p] => snapshots'[t] \notin {"RUNNING", "COMPLETED", "EXPIRED"}
  BY <1>f, SettledStays DEF ListedEnded, ListedSettled
<1> USE <1>t DEF SetEstado
<1>1. ASSUME NEW s \in Snapshots, PurgeQuery(s)
      PROVE  /\ t \in expired'[p] => snapshots'[t] \notin {"RUNNING", "COMPLETED"}
             /\ t = victim'[p] => snapshots'[t] \notin {"RUNNING", "COMPLETED", "EXPIRED"}
  <2>1. CASE s = p
    BY <1>1, <1>f, <2>1 DEF PurgeQuery
  <2>2. CASE s # p
    BY <1>1, <1>f, <2>2 DEF PurgeQuery
  <2> QED
    BY <2>1, <2>2
<1>2. ASSUME NEW s \in Snapshots, PurgeNext(s)
      PROVE  /\ t \in expired'[p] => snapshots'[t] \notin {"RUNNING", "COMPLETED"}
             /\ t = victim'[p] => snapshots'[t] \notin {"RUNNING", "COMPLETED", "EXPIRED"}
  <2>1. CASE s = p
    <3>1. t \in expired'[p] => t \in expired[p]
      BY <1>2, <2>1 DEF PurgeNext
    <3>2. t \in expired'[p] => snapshots'[t] \notin {"RUNNING", "COMPLETED"}
      BY <3>1, SettledStays DEF ListedEnded, ListedSettled
    <3>3. t = victim'[p] => \/ t = victim[p]
                            \/ snapshots'[t] \in {"ABSENT", "PURGING"}
      BY <1>2, <2>1 DEF PurgeNext
    <3>4. t = victim'[p] => snapshots'[t] \notin {"RUNNING", "COMPLETED", "EXPIRED"}
      BY <3>3, SettledStays DEF ListedEnded, ListedSettled
    <3> QED
      BY <3>2, <3>4
  <2>2. CASE s # p
    BY <1>2, <1>f, <2>2 DEF PurgeNext
  <2> QED
    BY <2>1, <2>2
<1>3. ASSUME NEW s \in Snapshots, Backup(s) \/ Crash(s) \/ Expire(s)
      PROVE  UNCHANGED <<expired, victim>>
  BY <1>3 DEF Backup, Start, Prepare, Upload, SaveChunkRef, ChunkError, BackupError, Complete,
              Fail, Crash, Expire, purge
<1>4. ASSUME NEW s \in Snapshots, Purge(s), ~PurgeQuery(s), ~PurgeNext(s)
      PROVE  UNCHANGED <<expired, victim>>
  BY <1>4 DEF Purge, Unlink, UnlinkError, GeneralError, Phase1, DeleteObject,
              DeleteObjectsRaises, Phase2Confirm, Phase2Revert, PhaseError, purge
<1>5. StartupCleanup \/ UNCHANGED vars => UNCHANGED <<expired, victim>>
  BY DEF StartupCleanup, vars, purge
<1> QED
  BY <1>1, <1>2, <1>3, <1>4, <1>5, <1>f DEF Next, Terminated

\* The transaction that brings a purge to its unlinking names the snapshot.
LEMMA VictimNamedStep ==
    ASSUME Typed, VictimNamed, [Next]_vars
    PROVE  VictimNamed'
<1>t. /\ pc \in [Snapshots -> PC] /\ expired \in [Snapshots -> SUBSET Snapshots]
      /\ victim \in [Snapshots -> Snapshots \cup {NoSnapshot}]
  BY DEF Typed, TypeOK
<1> USE <1>t DEF VictimNamed, Go
<1>1. ASSUME NEW s \in Snapshots, Backup(s) PROVE VictimNamed'
  BY <1>1 DEF Backup, Start, Prepare, Upload, SaveChunkRef, ChunkError, BackupError, Complete,
              Fail, purge
<1>2. ASSUME NEW s \in Snapshots, Purge(s) PROVE VictimNamed'
  <2>1. CASE PurgeQuery(s)
    BY <2>1 DEF PurgeQuery
  <2>2. CASE PurgeNext(s)
    BY <2>2 DEF PurgeNext
  <2>3. CASE Phase1(s)
    BY <2>3 DEF Phase1
  <2>4. CASE ~(PurgeQuery(s) \/ PurgeNext(s) \/ Phase1(s))
    BY <1>2, <2>4 DEF Purge, Unlink, UnlinkError, GeneralError, DeleteObject,
                      DeleteObjectsRaises, Phase2Confirm, Phase2Revert, PhaseError, purge
  <2> QED
    BY <2>1, <2>2, <2>3, <2>4
<1>3. ASSUME NEW s \in Snapshots, Crash(s) \/ Expire(s) PROVE VictimNamed'
  BY <1>3 DEF Crash, Expire, purge
<1>4. CASE StartupCleanup \/ UNCHANGED vars
  BY <1>4 DEF StartupCleanup, vars, purge
<1> QED
  BY <1>1, <1>2, <1>3, <1>4 DEF Next, Terminated

\* At first no process has anything to purge.
LEMMA OwnedInit == Init => Owned
BY TypedInit, BackupAssumption
   DEF Init, Owned, WriterOwns, ListedEnded, ListedSettled, VictimNamed, Streaming

\* The parts of Owned hold each other up, whoever takes the step.
LEMMA OwnedStep == Owned /\ [Next]_vars => Owned'
<1> SUFFICES ASSUME Owned, [Next]_vars PROVE Owned'
  OBVIOUS
<1>1. Typed /\ WriterOwns /\ ListedEnded /\ ListedSettled /\ VictimNamed
  BY DEF Owned
<1>2. Typed'
  BY <1>1, TypedStep
<1>3. WriterOwns' /\ ListedEnded'
  BY <1>1, WriterOwnsStep, ListedEndedStep
<1>4. ListedSettled'
  BY <1>1, ListedSettledStep
<1>5. VictimNamed'
  BY <1>1, VictimNamedStep
<1> QED
  BY <1>2, <1>3, <1>4, <1>5 DEF Owned

\* Links come one at a time, by the backup that owns the snapshot, and go with the
\* snapshot a purge is visiting.
LEMMA LinksChange ==
    ASSUME Typed, [Next]_vars
    PROVE  \/ UNCHANGED snapshot_chunks
           \/ \E s \in Snapshots : SaveChunkRef(s)
           \/ \E s \in Snapshots : Unlink(s)
<1>1. ASSUME NEW s \in Snapshots, Backup(s)
      PROVE  UNCHANGED snapshot_chunks \/ SaveChunkRef(s)
  BY <1>1 DEF Backup, Start, Prepare, Upload, ChunkError, BackupError, Complete, Fail, tables
<1>2. ASSUME NEW s \in Snapshots, Purge(s) PROVE UNCHANGED snapshot_chunks \/ Unlink(s)
  BY <1>2 DEF Purge, PurgeQuery, PurgeNext, UnlinkError, GeneralError, Phase1, DeleteObject,
              DeleteObjectsRaises, Phase2Confirm, Phase2Revert, PhaseError, tables
<1>3. ASSUME NEW s \in Snapshots, Crash(s) \/ Expire(s) PROVE UNCHANGED snapshot_chunks
  BY <1>3 DEF Crash, Expire, tables
<1>4. StartupCleanup \/ UNCHANGED vars => UNCHANGED snapshot_chunks
  BY DEF StartupCleanup, vars, tables
<1> QED
  BY <1>1, <1>2, <1>3, <1>4 DEF Next, Terminated

\* The links of a snapshot in COMPLETED or EXPIRED stay as they are: no backup adds
\* to it any more, and no purge removes them before it has marked the snapshot.
THEOREM SealedLinksStay == Spec => LinksSealed
<1> DEFINE Kept == \A s \in Snapshots : snapshots[s] \in {"COMPLETED", "EXPIRED"}
                      => LinksOf(snapshot_chunks', s) = LinksOf(snapshot_chunks, s)
<1>1. Owned /\ [Next]_vars => [Kept]_vars
  <2> SUFFICES ASSUME Owned, [Next]_vars,
                      NEW s \in Snapshots, snapshots[s] \in {"COMPLETED", "EXPIRED"}
               PROVE  LinksOf(snapshot_chunks', s) = LinksOf(snapshot_chunks, s)
    OBVIOUS
  <2>t. Typed /\ WriterOwns /\ ListedSettled
    BY DEF Owned
  <2>1. CASE UNCHANGED snapshot_chunks
    BY <2>1
  <2>2. ASSUME NEW u \in Snapshots, SaveChunkRef(u)
        PROVE  LinksOf(snapshot_chunks', s) = LinksOf(snapshot_chunks, s)
    <3>1. u # s
      BY <2>t, <2>2 DEF SaveChunkRef, WriterOwns, Streaming
    <3> QED
      BY <2>2, <3>1 DEF SaveChunkRef, LinksOf
  <2>3. ASSUME NEW u \in Snapshots, Unlink(u)
        PROVE  LinksOf(snapshot_chunks', s) = LinksOf(snapshot_chunks, s)
    <3>1. victim[u] # s
      BY <2>t DEF ListedSettled
    <3> QED
      BY <2>3, <3>1 DEF Unlink, LinksOf
  <2> QED
    BY <2>t, <2>1, <2>2, <2>3, LinksChange
<1> QED
  BY <1>1, OwnedInit, OwnedStep, PTL DEF Spec, LinksSealed

\* What retention has claimed is never offered as restorable again: only the
\* process that writes a snapshot makes it RUNNING or COMPLETED, and it has let go
\* of the snapshot before retention looks at it.
THEOREM PurgesAreFinal == Spec => PurgeIsFinal
<1> DEFINE Final == \A s \in Snapshots :
                      snapshots[s] \in {"EXPIRED", "PURGING", "PURGE_FAILED"}
                          => snapshots'[s] \notin {"COMPLETED", "RUNNING"}
<1>1. Owned /\ [Next]_vars => [Final]_vars
  <2> SUFFICES ASSUME Owned, [Next]_vars,
                      NEW s \in Snapshots,
                      snapshots[s] \in {"EXPIRED", "PURGING", "PURGE_FAILED"}
               PROVE  snapshots'[s] \notin {"COMPLETED", "RUNNING"}
    OBVIOUS
  <2>1. pc[s] \notin Writing
    BY DEF Owned, WriterOwns, Writing
  <2> QED
    BY <2>1, SettledStays DEF Owned
<1> QED
  BY <1>1, OwnedInit, OwnedStep, PTL DEF Spec, PurgeIsFinal

\* A backup goes on to the next chunk only once the one it is at is linked, and a
\* purge takes no link of a backup in progress.
LEMMA NoGapSoFarStep ==
    ASSUME Owned, NoGapSoFar, [Next]_vars
    PROVE  NoGapSoFar'
<1>t. /\ Typed /\ WriterOwns /\ ListedEnded
      /\ pc \in [Snapshots -> PC] /\ chunk_seq \in [Snapshots -> Seqs]
      /\ \A q \in Seqs : q \in Int
      /\ \A s \in Snapshots : chunk_seq[s] \in Int
  BY DEF Owned, Typed, TypeOK, Seqs
\* A process that is to put a chunk away was to before, at the chunk it is at or at
\* the one before.
<1>1. ASSUME NEW s \in Snapshots, pc'[s] \in Growing
      PROVE  /\ pc[s] \in Growing
             /\ \/ chunk_seq'[s] = chunk_seq[s]
                \/ SaveChunkRef(s) /\ chunk_seq'[s] = chunk_seq[s] + 1
  <2> DEFINE Before == /\ pc[s] \in Growing
                       /\ \/ chunk_seq'[s] = chunk_seq[s]
                          \/ SaveChunkRef(s) /\ chunk_seq'[s] = chunk_seq[s] + 1
  <2>1. ASSUME NEW u \in Snapshots, SaveChunkRef(u) PROVE Before
    BY <1>1, <1>t, <2>1 DEF SaveChunkRef, Go, Growing
  <2>2. ASSUME NEW u \in Snapshots, Backup(u), ~SaveChunkRef(u) PROVE Before
    BY <1>1, <1>t, <2>2
       DEF Backup, Start, Prepare, Upload, ChunkError, BackupError, Complete, Fail, Go, Growing
  <2>3. pc[s] \notin Writing => pc'[s] \notin Writing
    BY <1>t, SettledForGood
  <2>4. ASSUME NEW u \in Snapshots, Purge(u) \/ Crash(u) \/ Expire(u)
        PROVE  UNCHANGED chunk_seq
    BY <2>4 DEF Purge, PurgeQuery, PurgeNext, Unlink, UnlinkError, GeneralError, Phase1,
                DeleteObject, DeleteObjectsRaises, Phase2Confirm, Phase2Revert, PhaseError,
                Crash, Expire
  <2>5. ASSUME NEW u \in Snapshots, Purge(u) \/ Crash(u) \/ Expire(u)
        PROVE  pc[s] \in Growing
    <3>1. CASE Phase1(u)
      BY <1>1, <1>t, <3>1 DEF Phase1, Go, Growing
    <3>2. CASE PurgeQuery(u) \/ PurgeNext(u)
      BY <1>1, <1>t, <3>2 DEF PurgeQuery, PurgeNext, Go, Growing
    <3>3. CASE ~Phase1(u) /\ ~PurgeQuery(u) /\ ~PurgeNext(u)
      BY <1>1, <1>t, <2>5, <3>3
         DEF Purge, Unlink, UnlinkError, GeneralError, DeleteObject, DeleteObjectsRaises,
             Phase2Confirm, Phase2Revert, PhaseError, Crash, Expire, Go, Growing
    <3> QED
      BY <3>1, <3>2, <3>3
  <2>6. StartupCleanup \/ UNCHANGED vars => Before
    BY <1>1 DEF StartupCleanup, vars
  <2> QED
    BY <2>1, <2>2, <2>4, <2>5, <2>6 DEF Next, Terminated
\* Its links are all still there.
<1>2. ASSUME NEW s \in Snapshots, pc[s] \in Growing,
             NEW k \in snapshot_chunks, k.snapshot_id = s
      PROVE  k \in snapshot_chunks'
  <2>1. ASSUME NEW u \in Snapshots, Unlink(u) PROVE k \in snapshot_chunks'
    <3>1. victim[u] # s
      BY <1>2, <1>t DEF ListedEnded, Writing, Streaming, Growing
    <3> QED
      BY <1>2, <2>1, <3>1 DEF Unlink, LinksOf
  <2>2. ASSUME NEW u \in Snapshots, SaveChunkRef(u) PROVE k \in snapshot_chunks'
    BY <2>2 DEF SaveChunkRef
  <2> QED
    BY <1>t, <2>1, <2>2, LinksChange
<1> SUFFICES ASSUME NEW s \in Snapshots, pc'[s] \in Growing,
                    NEW q \in Seqs, q < chunk_seq'[s]
             PROVE  \E k \in snapshot_chunks' : k.snapshot_id = s /\ k.chunk_seq = q
  BY DEF NoGapSoFar
<1>3. CASE q < chunk_seq[s]
  <2>1. PICK k \in snapshot_chunks : k.snapshot_id = s /\ k.chunk_seq = q
    BY <1>1, <1>3 DEF NoGapSoFar
  <2> QED
    BY <1>1, <1>2, <2>1
<1>4. CASE ~(q < chunk_seq[s])
  <2>1. SaveChunkRef(s) /\ q = chunk_seq[s]
    BY <1>1, <1>4, <1>t
  <2> QED
    BY <2>1 DEF SaveChunkRef
<1> QED
  BY <1>3, <1>4

\* The links of every snapshot are the first chunks of its source, without a gap,
\* whatever failed and wherever its process stopped.
THEOREM LinksFormPrefix == Spec => []LinksArePrefix
<1> DEFINE Inv == Owned /\ NoGapSoFar /\ LinksArePrefix
<1>1. Init => Inv
  BY OwnedInit, CatalogAssumption
     DEF Init, NoGapSoFar, LinksArePrefix, LinksOf, Seqs
<1>2. Inv /\ [Next]_vars => Inv'
  <2> SUFFICES ASSUME Inv, [Next]_vars PROVE LinksArePrefix'
    BY OwnedStep, NoGapSoFarStep
  <2>t. /\ Typed /\ chunk_seq \in [Snapshots -> Seqs]
        /\ \A l \in snapshot_chunks : l.chunk_seq \in Seqs
    BY DEF Owned, Typed, TypeOK, SnapshotChunk
  <2> SUFFICES ASSUME NEW s \in Snapshots, NEW l \in snapshot_chunks', l.snapshot_id = s,
                      NEW q \in 0 .. l.chunk_seq
               PROVE  \E k \in snapshot_chunks' : k.snapshot_id = s /\ k.chunk_seq = q
    BY DEF LinksArePrefix, LinksOf
  <2>1. CASE l \in snapshot_chunks /\ ~\E u \in Snapshots : Unlink(u)
    <3>1. PICK k \in snapshot_chunks : k.snapshot_id = s /\ k.chunk_seq = q
      BY <2>1 DEF LinksArePrefix, LinksOf
    <3>2. snapshot_chunks \subseteq snapshot_chunks'
      BY <2>t, <2>1, LinksChange DEF SaveChunkRef
    <3> QED
      BY <3>1, <3>2
  <2>2. ASSUME NEW u \in Snapshots, Unlink(u)
        PROVE  \E k \in snapshot_chunks' : k.snapshot_id = s /\ k.chunk_seq = q
    <3>1. /\ snapshot_chunks' = snapshot_chunks \ LinksOf(snapshot_chunks, victim[u])
          /\ l \in snapshot_chunks /\ s # victim[u]
      BY <2>2 DEF Unlink, LinksOf
    <3>2. PICK k \in snapshot_chunks : k.snapshot_id = s /\ k.chunk_seq = q
      BY <3>1 DEF LinksArePrefix, LinksOf
    <3> QED
      BY <3>1, <3>2 DEF LinksOf
  <2>3. CASE l \notin snapshot_chunks
    <3>1. PICK u \in Snapshots : SaveChunkRef(u)
      BY <2>3, <2>t, LinksChange DEF Unlink
    <3>2. /\ s = u /\ l.chunk_seq = chunk_seq[s] /\ pc[s] \in Growing
          /\ snapshot_chunks \subseteq snapshot_chunks'
      BY <2>3, <3>1 DEF SaveChunkRef, Growing
    <3>3. CASE q = chunk_seq[s]
      BY <3>2, <3>3
    <3>4. CASE q # chunk_seq[s]
      <4>1. q \in Seqs /\ q < chunk_seq[s]
        BY <3>2, <3>4, <2>t, CatalogAssumption DEF Seqs
      <4>2. PICK k \in snapshot_chunks : k.snapshot_id = s /\ k.chunk_seq = q
        BY <3>2, <4>1 DEF NoGapSoFar
      <4> QED
        BY <3>2, <4>2
    <3> QED
      BY <3>3, <3>4
  <2> QED
    BY <2>1, <2>2, <2>3
<1> QED
  BY <1>1, <1>2, PTL DEF Spec

-----------------------------------------------------------------------------
(* The archive of module Archive.                                          *)

\* With no dangling pointer, what can be fetched of a snapshot is what it links.
LEMMA FetchableIsLinked ==
    ASSUME NEW links, NEW bucket, \A l \in links : l.chunk_hash \in bucket, NEW s
    PROVE  {l.chunk_seq : l \in {k \in LinksOf(links, s) : k.chunk_hash \in bucket}}
              = {l.chunk_seq : l \in LinksOf(links, s)}
<1>1. {k \in LinksOf(links, s) : k.chunk_hash \in bucket} = LinksOf(links, s)
  BY DEF LinksOf
<1> QED
  BY <1>1

\* The archive starts empty.
LEMMA ArchiveInit == Init => Abstract!Init
BY DEF Init, Abstract!Init, StatusOf, Fetchable, LinksOf

\* Every step of a backup, a purge or a cleanup is one step of the archive, or none.
LEMMA ArchiveStep ==
    ASSUME Owned, Safe, Safe', [Next]_vars
    PROVE  [Abstract!Next]_(Abstract!vars)
<1> DEFINE st == [s \in Snapshots |-> StatusOf(snapshots[s])]
           ct == [s \in Snapshots |-> Fetchable(s)]
           Goal == Abstract!Next \/ UNCHANGED Abstract!vars
<1> SUFFICES Goal
  OBVIOUS
<1>t. /\ Typed /\ WriterOwns /\ ListedEnded /\ ListedSettled /\ VictimNamed /\ LinksOwned
      /\ pc \in [Snapshots -> PC] /\ chunk_seq \in [Snapshots -> Seqs]
      /\ snapshots \in [Snapshots -> SnapshotState]
      /\ expired \in [Snapshots -> SUBSET Snapshots]
      /\ victim \in [Snapshots -> Snapshots \cup {NoSnapshot}]
  BY DEF Owned, Safe, Typed, TypeOK
<1>d. /\ \A s : Fetchable(s) = {l.chunk_seq : l \in LinksOf(snapshot_chunks, s)}
      /\ \A s : Fetchable(s)' = {l.chunk_seq : l \in LinksOf(snapshot_chunks', s)}
  <2>1. NoDangling /\ NoDangling'
    BY DEF Safe
  <2> QED
    BY <2>1, FetchableIsLinked DEF NoDangling, Fetchable
\* The actions of the archive, in the terms of the mapping.
<1>a. ASSUME NEW s \in Snapshots, NEW e, st' = [st EXCEPT ![s] = e], ct' = ct,
             \/ e = "open" /\ st[s] = "none" /\ ct[s] = {}
             \/ e = "sealed" /\ st[s] \in {"open", "failed"}
             \/ e = "failed" /\ st[s] \in {"open", "sealed", "doomed"}
             \/ e = "doomed" /\ st[s] \in {"sealed", "failed"}
      PROVE  Goal
  BY <1>a DEF Abstract!Next, Abstract!Open, Abstract!Seal, Abstract!Fail, Abstract!Doom,
              Abstract!Become
<1>b. ASSUME NEW s \in Snapshots, NEW q \in Seqs, st[s] \in {"open", "failed"}, st' = st,
             ct' = [ct EXCEPT ![s] = ct[s] \cup {q}]
      PROVE  Goal
  BY <1>b DEF Abstract!Next, Abstract!Gather
<1>e. ASSUME NEW s \in Snapshots, st[s] \in {"doomed", "failed"},
             st' = [st EXCEPT ![s] = "none"], ct' = [ct EXCEPT ![s] = {}]
      PROVE  Goal
  BY <1>e DEF Abstract!Next, Abstract!Drop, Abstract!Become
<1>g. ASSUME st' = [s \in Snapshots |-> IF st[s] = "open" THEN "failed" ELSE st[s]], ct' = ct
      PROVE  Goal
  BY <1>g DEF Abstract!Next, Abstract!FailOpen
<1>h. ASSUME st' = st, ct' = ct PROVE Goal
  BY <1>h DEF Abstract!vars
\* The mapping of a changed estado, and of unchanged links.
<1>s. ASSUME NEW t \in Snapshots, NEW e, SetEstado(t, e)
      PROVE  st' = [st EXCEPT ![t] = StatusOf(e)]
  BY <1>s, <1>t DEF SetEstado
<1>u. UNCHANGED snapshots => st' = st
  OBVIOUS
<1>l. UNCHANGED snapshot_chunks => ct' = ct
  BY <1>d
<1>v. \A t \in Snapshots : st[t] = StatusOf(snapshots[t])
  OBVIOUS
<1>w. \A t \in Snapshots : ct[t] = {l.chunk_seq : l \in LinksOf(snapshot_chunks, t)}
  BY <1>d
<1>x. \A t \in Snapshots : ct'[t] = {l.chunk_seq : l \in LinksOf(snapshot_chunks', t)}
  BY <1>d
<1>y. /\ ct = [t \in Snapshots |-> ct[t]] /\ ct' = [t \in Snapshots |-> ct'[t]]
      /\ st = [t \in Snapshots |-> st[t]] /\ st' = [t \in Snapshots |-> st'[t]]
  OBVIOUS
<1> HIDE DEF st, ct, Goal
<1>k. ASSUME NEW t \in Snapshots, NEW e, st' = [st EXCEPT ![t] = e], st[t] = e PROVE st' = st
  BY <1>k, <1>y
<1>1. ASSUME NEW s \in Snapshots, Start(s) PROVE Goal
  <2>1. SetEstado(s, "RUNNING") /\ UNCHANGED snapshot_chunks /\ snapshots[s] = "ABSENT"
    BY <1>1, <1>t DEF Start, WriterOwns
  <2>2. ct[s] = {}
    BY <2>1, <1>t, <1>w DEF LinksOwned, LinksOf
  <2> QED
    BY <2>1, <2>2, <1>a, <1>l, <1>s, <1>v DEF StatusOf
<1>2. ASSUME NEW s \in Snapshots, SaveChunkRef(s) PROVE Goal
  <2> DEFINE link == [snapshot_id |-> s, chunk_seq |-> chunk_seq[s], chunk_hash |-> Hash(s)]
  <2>1. /\ snapshot_chunks' = snapshot_chunks \cup {link} /\ UNCHANGED snapshots
        /\ snapshots[s] \in {"RUNNING", "FAILED"}
    BY <1>2, <1>t DEF SaveChunkRef, WriterOwns, Streaming
  <2>2. LinksOf(snapshot_chunks', s) = LinksOf(snapshot_chunks, s) \cup {link}
    BY <2>1 DEF LinksOf
  <2>3. ASSUME NEW t \in Snapshots, t # s
        PROVE  LinksOf(snapshot_chunks', t) = LinksOf(snapshot_chunks, t)
    BY <2>1, <2>3 DEF LinksOf
  <2>4. ct'[s] = ct[s] \cup {chunk_seq[s]}
    <3>1. {l.chunk_seq : l \in LinksOf(snapshot_chunks, s) \cup {link}}
            = {l.chunk_seq : l \in LinksOf(snapshot_chunks, s)} \cup {link.chunk_seq}
      OBVIOUS
    <3> QED
      BY <2>2, <3>1, <1>w, <1>x
  <2>5. \A t \in Snapshots \ {s} : ct'[t] = ct[t]
    BY <2>3, <1>w, <1>x
  <2>6. ct' = [ct EXCEPT ![s] = ct[s] \cup {chunk_seq[s]}]
    BY <2>4, <2>5, <1>y
  <2> QED
    BY <2>1, <2>6, <1>b, <1>t, <1>u, <1>v DEF StatusOf
<1>3. ASSUME NEW s \in Snapshots, Complete(s) PROVE Goal
  <2>1. /\ SetEstado(s, "COMPLETED") /\ UNCHANGED snapshot_chunks
        /\ snapshots[s] \in {"RUNNING", "FAILED"}
    BY <1>3, <1>t DEF Complete, WriterOwns, Streaming
  <2> QED
    BY <2>1, <1>a, <1>l, <1>s, <1>v DEF StatusOf
<1>4. ASSUME NEW t \in Snapshots, SetEstado(t, "FAILED"), UNCHANGED snapshot_chunks,
             snapshots[t] # "ABSENT"
      PROVE  Goal
  <2>1. st[t] \in {"open", "sealed", "doomed", "failed"}
    BY <1>4, <1>t, <1>v DEF StatusOf, SnapshotState
  <2> QED
    BY <1>4, <2>1, <1>a, <1>h, <1>k, <1>l, <1>s DEF StatusOf
<1>5. ASSUME NEW t \in Snapshots, NEW e \in {"EXPIRED", "PURGING", "PURGE_FAILED"},
             SetEstado(t, e), UNCHANGED snapshot_chunks,
             snapshots[t] \notin {"ABSENT", "RUNNING"}
      PROVE  Goal
  <2>1. st[t] \in {"sealed", "doomed", "failed"} /\ StatusOf(e) = "doomed"
    BY <1>5, <1>t, <1>v DEF StatusOf, SnapshotState
  <2> QED
    BY <1>5, <2>1, <1>a, <1>h, <1>k, <1>l, <1>s
<1>6. ASSUME UNCHANGED <<snapshots, snapshot_chunks>> PROVE Goal
  BY <1>6, <1>h, <1>l, <1>u
<1>7. ASSUME NEW s \in Snapshots, PurgeQuery(s) PROVE Goal
  BY <1>5, <1>6, <1>7 DEF PurgeQuery
<1>8. ASSUME NEW s \in Snapshots, PurgeNext(s) PROVE Goal
  <2>1. CASE UNCHANGED snapshots
    BY <1>6, <1>8, <2>1 DEF PurgeNext
  <2>2. CASE ~UNCHANGED snapshots
    <3>1. PICK t \in expired[s] : SetEstado(t, "PURGING") /\ snapshots[t] # "ABSENT"
      BY <1>8, <2>2 DEF PurgeNext
    <3>2. t \in Snapshots /\ snapshots[t] # "RUNNING" /\ UNCHANGED snapshot_chunks
      BY <1>8, <1>t, <3>1 DEF ListedSettled, PurgeNext
    <3> QED
      BY <1>5, <3>1, <3>2
  <2> QED
    BY <2>1, <2>2
<1>9. ASSUME NEW s \in Snapshots, Unlink(s), victim[s] \in Snapshots PROVE Goal
  <2> DEFINE v == victim[s]
  <2>1. /\ snapshot_chunks' = snapshot_chunks \ LinksOf(snapshot_chunks, v)
        /\ SetEstado(v, "ABSENT")
        /\ snapshots[v] \notin {"ABSENT", "COMPLETED", "RUNNING"}
    BY <1>9 DEF Unlink, SnapshotDeleteAborts
  <2>2. LinksOf(snapshot_chunks', v) = {}
    BY <2>1 DEF LinksOf
  <2>3. ASSUME NEW t \in Snapshots, t # v
        PROVE  LinksOf(snapshot_chunks', t) = LinksOf(snapshot_chunks, t)
    BY <2>1, <2>3 DEF LinksOf
  <2>4. ct'[v] = {}
    BY <2>2, <1>9, <1>x
  <2>5. \A t \in Snapshots \ {v} : ct'[t] = ct[t]
    BY <2>3, <1>w, <1>x
  <2>6. ct' = [ct EXCEPT ![v] = {}]
    BY <2>4, <2>5, <1>y
  <2>7. st[v] \in {"doomed", "failed"} /\ st' = [st EXCEPT ![v] = "none"]
    BY <2>1, <1>9, <1>s, <1>t, <1>v DEF StatusOf, SnapshotState
  <2> HIDE DEF v
  <2> QED
    BY <2>6, <2>7, <1>9, <1>e DEF v
<1>10. ASSUME NEW s \in Snapshots, UnlinkError(s), victim[s] \in Snapshots PROVE Goal
  BY <1>5, <1>10, <1>t DEF UnlinkError, ListedSettled
<1>11. ASSUME NEW s \in Snapshots, GeneralError(s) PROVE Goal
  BY <1>4, <1>6, <1>11 DEF GeneralError
<1>12. ASSUME NEW s \in Snapshots, Backup(s) PROVE Goal
  <2>1. CASE Fail(s)
    BY <1>4, <2>1 DEF Fail
  <2>2. CASE ~(Start(s) \/ SaveChunkRef(s) \/ Complete(s) \/ Fail(s))
    BY <1>6, <1>12, <2>2 DEF Backup, Prepare, Upload, ChunkError, BackupError, tables
  <2> QED
    BY <1>1, <1>2, <1>3, <2>1, <2>2
<1>13. ASSUME NEW s \in Snapshots, Purge(s), pc[s] = "unlink" => victim[s] \in Snapshots
       PROVE  Goal
  <2>1. CASE Unlink(s) \/ UnlinkError(s)
    BY <1>9, <1>10, <1>13, <2>1 DEF Unlink, UnlinkError
  <2>2. CASE ~(PurgeQuery(s) \/ PurgeNext(s) \/ Unlink(s) \/ UnlinkError(s) \/ GeneralError(s))
    BY <1>6, <1>13, <2>2 DEF Purge, Phase1, DeleteObject, DeleteObjectsRaises, Phase2Confirm,
                             Phase2Revert, PhaseError, tables
  <2> QED
    BY <1>7, <1>8, <1>11, <2>1, <2>2
<1>14. ASSUME NEW s \in Snapshots, Crash(s) \/ Expire(s) PROVE Goal
  <2>1. CASE Crash(s)
    BY <1>6, <2>1 DEF Crash, tables
  <2>2. CASE Expire(s)
    BY <1>5, <2>2 DEF Expire
  <2> QED
    BY <1>14, <2>1, <2>2
<1>15. CASE StartupCleanup
  <2>1. /\ UNCHANGED snapshot_chunks
        /\ snapshots' = [t \in Snapshots |->
              IF snapshots[t] = "RUNNING" THEN "FAILED" ELSE snapshots[t]]
    BY <1>15 DEF StartupCleanup
  <2>2. st' = [s \in Snapshots |-> IF st[s] = "open" THEN "failed" ELSE st[s]]
    BY <2>1, <1>t DEF st, StatusOf, SnapshotState
  <2> QED
    BY <2>1, <2>2, <1>g, <1>l
<1>16. CASE UNCHANGED vars
  BY <1>6, <1>16 DEF vars, tables
<1>17. \A s \in Snapshots : pc[s] = "unlink" => victim[s] \in Snapshots
  BY <1>t DEF VictimNamed
<1> QED
  BY <1>12, <1>13, <1>14, <1>15, <1>16, <1>17 DEF Next, Terminated

\* Catalogue and bucket implement the archive, for all faults and interleavings,
\* provided no two payloads share a hash: what can be fetched of a snapshot changes
\* only as module Archive says.
THEOREM ArchiveImplemented == UniqueHashes => (Spec => ImplementsArchive)
<1> SUFFICES ASSUME UniqueHashes PROVE Spec => ImplementsArchive
  OBVIOUS
<1> DEFINE Inv == Counted /\ Safe /\ Owned
<1>1. Init => Inv /\ Abstract!Init
  BY CountedInit, SafeInit, OwnedInit, ArchiveInit
<1>2. Inv /\ [Next]_vars => Inv'
  BY CountedStep, SafeStep, OwnedStep
<1>3. Inv /\ Inv' /\ [Next]_vars => [Abstract!Next]_(Abstract!vars)
  BY ArchiveStep
<1> QED
  BY <1>1, <1>2, <1>3, PTL DEF Spec, ImplementsArchive, Abstract!Spec
=============================================================================
