------------------------- MODULE BackupPurgeProofs -------------------------
(***************************************************************************)
(* Proofs about BackupPurge for any number of snapshots, chunks and hashes,  *)
(* any batch size and any set of faults.                                    *)
(***************************************************************************)
EXTENDS BackupPurge, FiniteSetTheorems, TLAPS

-----------------------------------------------------------------------------
(* Lemmas on the operators of the catalogue.                               *)

\* The links are finitely many: what the counting below rests on.
FiniteLinks == IsFiniteSet(snapshot_chunks)

\* The links to a hash are finitely many, and counted by a natural number.
LEMMA LinksToFinite ==
    ASSUME NEW links, IsFiniteSet(links), NEW h
    PROVE  /\ IsFiniteSet(LinksTo(links, h))
           /\ Cardinality(LinksTo(links, h)) \in Nat
BY FS_Subset, FS_CardinalityType DEF LinksTo

\* trg_snapshot_chunks_after_delete leaves a well-formed row.
LEMMA AfterDeleteType ==
    ASSUME NEW row \in ChunkPool, NEW n \in Nat
    PROVE  AfterDelete(row, n) \in ChunkPool
BY DEF AfterDelete, ChunkPool, ChunkState

\* When the row counts the removed links among its own, the trigger subtracts
\* them, and schedules the row only if none is left.
LEMMA AfterDeleteExact ==
    ASSUME NEW row \in ChunkPool, NEW n \in Nat \ {0}, n <= row.ref_count
    PROVE  /\ AfterDelete(row, n).ref_count = row.ref_count - n
           /\ AfterDelete(row, n).state # row.state => row.ref_count - n = 0
<1> DEFINE r == row.ref_count
<1>1. r \in Nat
  BY DEF ChunkPool
<1>2. (IF r > n THEN r - n ELSE 0) = r - n
  BY <1>1
<1>3. r \in 1 .. n => r - n = 0
  BY <1>1
<1> HIDE DEF r
<1>4. /\ AfterDelete(row, n).ref_count = IF r > n THEN r - n ELSE 0
      /\ AfterDelete(row, n).state = IF r \in 1 .. n THEN "PENDING_DELETE" ELSE row.state
  BY DEF AfterDelete, r
<1> QED
  BY <1>2, <1>3, <1>4 DEF r

\* The triggers of a bulk delete keep the table well-formed.
LEMMA DeleteLinksType ==
    ASSUME NEW pool \in [Hashes -> ChunkPool], NEW removed, IsFiniteSet(removed)
    PROVE  DeleteLinks(pool, removed) \in [Hashes -> ChunkPool]
<1>1. \A h \in Hashes : Cardinality(LinksTo(removed, h)) \in Nat
  BY LinksToFinite
<1>2. \A h \in Hashes : AfterDelete(pool[h], Cardinality(LinksTo(removed, h))) \in ChunkPool
  BY <1>1, AfterDeleteType
<1> QED
  BY <1>2 DEF DeleteLinks

\* Removing some of the links lowers the count of each hash by as many as it
\* loses.
LEMMA CountAfterRemoval ==
    ASSUME NEW links, IsFiniteSet(links), NEW removed \in SUBSET links, NEW h
    PROVE  /\ Cardinality(LinksTo(links \ removed, h))
                = Cardinality(LinksTo(links, h)) - Cardinality(LinksTo(removed, h))
           /\ Cardinality(LinksTo(removed, h)) <= Cardinality(LinksTo(links, h))
           /\ Cardinality(LinksTo(removed, h)) \in Nat
           /\ Cardinality(LinksTo(links, h)) \in Nat
           /\ LinksTo(removed, h) = {} <=> Cardinality(LinksTo(removed, h)) = 0
<1> DEFINE L == LinksTo(links, h)
           R == LinksTo(removed, h)
<1>1. IsFiniteSet(L) /\ IsFiniteSet(R) /\ Cardinality(L) \in Nat /\ Cardinality(R) \in Nat
  BY FS_Subset, LinksToFinite
<1>2. R \in SUBSET L /\ L \cap R = R /\ LinksTo(links \ removed, h) = L \ R
  BY DEF LinksTo
<1>3. Cardinality(L \ R) = Cardinality(L) - Cardinality(L \cap R)
  BY <1>1, FS_Difference
<1>4. Cardinality(R) <= Cardinality(L)
  BY <1>1, <1>2, FS_Subset
<1>5. R = {} <=> Cardinality(R) = 0
  BY <1>1, FS_EmptySet
<1> QED
  BY <1>1, <1>2, <1>3, <1>4, <1>5

\* One more link raises the count of its own hash by one and of no other.
LEMMA CountAfterInsertion ==
    ASSUME NEW links, IsFiniteSet(links), NEW l, l \notin links, NEW h
    PROVE  Cardinality(LinksTo(links \cup {l}, h))
              = Cardinality(LinksTo(links, h)) + (IF l.chunk_hash = h THEN 1 ELSE 0)
<1>1. IsFiniteSet(LinksTo(links, h)) /\ Cardinality(LinksTo(links, h)) \in Nat
  BY LinksToFinite
<1>2. CASE l.chunk_hash = h
  <2>1. LinksTo(links \cup {l}, h) = LinksTo(links, h) \cup {l} /\ l \notin LinksTo(links, h)
    BY <1>2 DEF LinksTo
  <2> QED
    BY <1>1, <1>2, <2>1, FS_AddElement
<1>3. CASE l.chunk_hash # h
  <2>1. LinksTo(links \cup {l}, h) = LinksTo(links, h)
    BY <1>3 DEF LinksTo
  <2> QED
    BY <1>1, <1>3, <2>1
<1> QED
  BY <1>2, <1>3

-----------------------------------------------------------------------------
(* Type correctness.                                                       *)

Typed == TypeOK /\ FiniteLinks

\* The empty catalogue is typed and has no links.
LEMMA TypedInit == Init => Typed
BY CatalogAssumption, FS_EmptySet
   DEF Init, Typed, TypeOK, FiniteLinks, Seqs, SnapshotState, ChunkState, ChunkPool, NoRow, PC

\* Every step of every process keeps the tables and the process states typed,
\* and the links finitely many.
LEMMA TypedStep == Typed /\ [Next]_vars => Typed'
<1> SUFFICES ASSUME Typed, [Next]_vars PROVE Typed'
  OBVIOUS
<1> USE CatalogAssumption, BackupAssumption
<1> USE DEF Typed, TypeOK, FiniteLinks, Go, SetEstado, tables, purge, PC, Streaming, Purging
<1>a. \A s \in Snapshots : Hash(s) \in Hashes
  BY DEF Hash
<1>1. ASSUME NEW s \in Snapshots, Start(s) PROVE Typed'
  BY <1>1 DEF Start, SnapshotState
<1>2. ASSUME NEW s \in Snapshots, Prepare(s) PROVE Typed'
  BY <1>2, <1>a DEF Prepare, ChunkPool, ChunkState, NewRow
<1>3. ASSUME NEW s \in Snapshots, Upload(s) PROVE Typed'
  BY <1>3, <1>a DEF Upload
<1>4. ASSUME NEW s \in Snapshots, SaveChunkRef(s) PROVE Typed'
  <2> DEFINE link == [snapshot_id |-> s, chunk_seq |-> chunk_seq[s], chunk_hash |-> Hash(s)]
  <2>1. /\ snapshot_chunks' = snapshot_chunks \cup {link}
        /\ chunk_pool' = InsertLink(chunk_pool, link)
        /\ UNCHANGED <<snapshots, s3, purge>>
    BY <1>4 DEF SaveChunkRef
  <2>2. link \in SnapshotChunk
    BY <1>a DEF SnapshotChunk
  <2>3. IsFiniteSet(snapshot_chunks') /\ snapshot_chunks' \subseteq SnapshotChunk
    BY <2>1, <2>2, FS_AddElement
  <2>4. chunk_pool' \in [Hashes -> ChunkPool]
    BY <2>1, <1>a DEF InsertLink, AfterInsert, ChunkPool, ChunkState
  <2>5. chunk_seq' \in [Snapshots -> Seqs] /\ pc' \in [Snapshots -> PC]
    <3>1. CASE chunk_seq[s] + 1 < Chunks
      <4> DEFINE n == chunk_seq[s] + 1
      <4>1. n \in Seqs
        BY <3>1 DEF Seqs
      <4>2. chunk_seq' = [chunk_seq EXCEPT ![s] = n] /\ pc' = [pc EXCEPT ![s] = "prepare"]
        BY <1>4, <3>1 DEF SaveChunkRef
      <4> HIDE DEF n
      <4> QED
        BY <4>1, <4>2
    <3>2. CASE ~(chunk_seq[s] + 1 < Chunks)
      BY <1>4, <3>2 DEF SaveChunkRef
    <3> QED
      BY <3>1, <3>2
  <2> QED
    BY <2>1, <2>3, <2>4, <2>5
<1>5. ASSUME NEW s \in Snapshots, ChunkError(s) PROVE Typed'
  BY <1>5, <1>a DEF ChunkError
<1>6. ASSUME NEW s \in Snapshots, BackupError(s) PROVE Typed'
  BY <1>6 DEF BackupError
<1>7. ASSUME NEW s \in Snapshots, Complete(s) PROVE Typed'
  BY <1>7 DEF Complete, SnapshotState
<1>8. ASSUME NEW s \in Snapshots, Fail(s) PROVE Typed'
  BY <1>8 DEF Fail, SnapshotState
<1>9. ASSUME NEW s \in Snapshots, Expire(s) PROVE Typed'
  BY <1>9 DEF Expire, SnapshotState
<1>10. ASSUME NEW s \in Snapshots, PurgeQuery(s) PROVE Typed'
  <2>1. /\ pc' \in [Snapshots -> PC]
        /\ UNCHANGED <<chunk_pool, snapshot_chunks, s3, chunk_seq, chunks_to_purge, keys>>
    BY <1>10 DEF PurgeQuery
  <2>2. CASE UNCHANGED <<snapshots, expired, victim>>
    BY <2>1, <2>2
  <2> DEFINE found == {t \in Snapshots : snapshots[t] = "EXPIRED"}
  <2>3. ASSUME NEW t \in found, SetEstado(t, "PURGING"),
               expired' = [expired EXCEPT ![s] = found \ {t}],
               victim' = [victim EXCEPT ![s] = t]
        PROVE  Typed'
    BY <2>1, <2>3 DEF SnapshotState
  <2> HIDE DEF Typed
  <2> QED
    BY <1>10, <2>2, <2>3 DEF PurgeQuery
<1>11. ASSUME NEW s \in Snapshots, PurgeNext(s) PROVE Typed'
  <2>1. /\ pc' \in [Snapshots -> PC]
        /\ UNCHANGED <<chunk_pool, snapshot_chunks, s3, chunk_seq, chunks_to_purge, keys>>
    BY <1>11 DEF PurgeNext
  <2>2. CASE UNCHANGED <<snapshots, expired, victim>>
    BY <2>1, <2>2
  <2>3. ASSUME NEW t \in Snapshots, SetEstado(t, "PURGING") \/ UNCHANGED snapshots,
               expired' = [expired EXCEPT ![s] = @ \ {t}],
               victim' = [victim EXCEPT ![s] = t]
        PROVE  Typed'
    BY <2>1, <2>3 DEF SnapshotState
  <2> QED
    BY <1>11, <2>2, <2>3 DEF PurgeNext
<1>12. ASSUME NEW s \in Snapshots, Unlink(s) PROVE Typed'
  <2> DEFINE removed == LinksOf(snapshot_chunks, victim[s])
  <2>1. /\ snapshot_chunks' = snapshot_chunks \ removed
        /\ chunk_pool' = DeleteLinks(chunk_pool, removed)
        /\ SetEstado(victim[s], "ABSENT")
        /\ Go(s, "phase1")
        /\ UNCHANGED <<s3, chunk_seq, purge>>
    BY <1>12 DEF Unlink
  <2>2. removed \in SUBSET snapshot_chunks
    BY DEF LinksOf
  <2>3. IsFiniteSet(removed) /\ IsFiniteSet(snapshot_chunks')
    BY <2>1, <2>2, FS_Subset
  <2>4. chunk_pool' \in [Hashes -> ChunkPool]
    BY <2>1, <2>3, DeleteLinksType
  <2>5. snapshots' \in [Snapshots -> SnapshotState]
    BY <2>1 DEF SnapshotState
  <2> QED
    BY <2>1, <2>3, <2>4, <2>5
<1>13. ASSUME NEW s \in Snapshots, UnlinkError(s) PROVE Typed'
  BY <1>13 DEF UnlinkError, SnapshotState
<1>14. ASSUME NEW s \in Snapshots, GeneralError(s) PROVE Typed'
  BY <1>14 DEF GeneralError, SnapshotState
<1>15. ASSUME NEW s \in Snapshots, Phase1(s) PROVE Typed'
  <2>1. PICK batch \in SUBSET Hashes :
            /\ chunk_pool' = [h \in Hashes |->
                  IF h \in batch THEN [chunk_pool[h] EXCEPT !.state = "PURGING_S3"]
                  ELSE chunk_pool[h]]
            /\ chunks_to_purge' = [chunks_to_purge EXCEPT ![s] = batch]
            /\ keys' = [keys EXCEPT ![s] = batch]
            /\ Go(s, IF batch = {} THEN "next" ELSE "s3_delete")
            /\ UNCHANGED <<snapshots, snapshot_chunks, s3, chunk_seq, expired, victim>>
    BY <1>15 DEF Phase1, Orphans
  <2>2. chunk_pool' \in [Hashes -> ChunkPool]
    BY <2>1 DEF ChunkPool, ChunkState
  <2> QED
    BY <2>1, <2>2
<1>16. ASSUME NEW s \in Snapshots, NEW h \in Hashes, DeleteObject(s, h) PROVE Typed'
  BY <1>16 DEF DeleteObject
<1>17. ASSUME NEW s \in Snapshots, DeleteObjectsRaises(s) PROVE Typed'
  BY <1>17 DEF DeleteObjectsRaises
<1>18. ASSUME NEW s \in Snapshots, Phase2Confirm(s) PROVE Typed'
  BY <1>18 DEF Phase2Confirm, EndBatch, NoRow, ChunkPool, ChunkState
<1>19. ASSUME NEW s \in Snapshots, Phase2Revert(s) PROVE Typed'
  BY <1>19 DEF Phase2Revert, EndBatch, ChunkPool, ChunkState
<1>20. ASSUME NEW s \in Snapshots, PhaseError(s) PROVE Typed'
  BY <1>20 DEF PhaseError, EndBatch
<1>21. ASSUME NEW s \in Snapshots, Crash(s) PROVE Typed'
  BY <1>21 DEF Crash
<1>22. CASE StartupCleanup
  BY <1>22 DEF StartupCleanup, SnapshotState
<1>23. CASE UNCHANGED vars
  BY <1>23 DEF vars
<1> QED
  BY <1>1, <1>2, <1>3, <1>4, <1>5, <1>6, <1>7, <1>8, <1>9, <1>10, <1>11, <1>12, <1>13,
     <1>14, <1>15, <1>16, <1>17, <1>18, <1>19, <1>20, <1>21, <1>22, <1>23
     DEF Next, Backup, Purge, Terminated

\* The rows, the bucket and the process states keep their types in every run.
THEOREM TypeCorrect == Spec => []TypeOK
<1>1. Init => Typed
  BY TypedInit
<1>2. Typed /\ [Next]_vars => Typed'
  BY TypedStep
<1>3. Typed => TypeOK
  BY DEF Typed
<1> QED
  BY <1>1, <1>2, <1>3, PTL DEF Spec

-----------------------------------------------------------------------------
(* The reference counts.                                                   *)

Growing == {"idle", "prepare", "upload", "save"}

\* A backup in progress has no link yet for the chunk it is at, nor beyond:
\* the insertion of its next link is the insertion of a new row.
NothingAhead ==
    \A s \in Snapshots : \A l \in snapshot_chunks :
        pc[s] \in Growing /\ l.snapshot_id = s => l.chunk_seq < chunk_seq[s]

\* A backup only links the chunk it is at, and then goes on to the next one.
LEMMA NothingAheadStep == Typed /\ NothingAhead /\ [Next]_vars => NothingAhead'
<1> SUFFICES ASSUME Typed, NothingAhead, [Next]_vars PROVE NothingAhead'
  OBVIOUS
<1> USE DEF Go, Growing, NothingAhead
<1>t. /\ pc \in [Snapshots -> PC] /\ chunk_seq \in [Snapshots -> Seqs]
      /\ \A l \in snapshot_chunks : l.chunk_seq \in Int
      /\ \A s \in Snapshots : chunk_seq[s] \in Int
  BY DEF Typed, TypeOK, SnapshotChunk, Seqs
\* Steps that leave the links and the chunk numbers alone, and take no process
\* back to its upload.
<1>f. ASSUME NEW s \in Snapshots, UNCHANGED <<snapshot_chunks, chunk_seq>>,
             \E label : pc' = [pc EXCEPT ![s] = label]
                        /\ (label \in Growing => pc[s] \in Growing)
      PROVE  NothingAhead'
  BY <1>f, <1>t
<1>1. ASSUME NEW s \in Snapshots, Start(s) PROVE NothingAhead'
  BY <1>1, <1>f DEF Start, purge
<1>2. ASSUME NEW s \in Snapshots, Prepare(s) PROVE NothingAhead'
  BY <1>2, <1>f DEF Prepare, purge
<1>3. ASSUME NEW s \in Snapshots, Upload(s) PROVE NothingAhead'
  BY <1>3, <1>f DEF Upload, tables
<1>4. ASSUME NEW s \in Snapshots, SaveChunkRef(s) PROVE NothingAhead'
  <2> DEFINE link == [snapshot_id |-> s, chunk_seq |-> chunk_seq[s], chunk_hash |-> Hash(s)]
  <2>1. /\ snapshot_chunks' = snapshot_chunks \cup {link}
        /\ pc[s] = "save"
    BY <1>4 DEF SaveChunkRef
  <2>2. ASSUME NEW u \in Snapshots, NEW l \in snapshot_chunks', pc'[u] \in Growing,
               l.snapshot_id = u
        PROVE  l.chunk_seq < chunk_seq'[u]
    <3>1. CASE u = s
      <4>1. pc'[s] # "eof"
        BY <2>2, <3>1
      <4>2. chunk_seq' = [chunk_seq EXCEPT ![s] = chunk_seq[s] + 1]
        BY <1>4, <1>t, <4>1 DEF SaveChunkRef
      <4>3. chunk_seq'[s] = chunk_seq[s] + 1
        BY <4>2, <1>t
      <4>4. l.chunk_seq < chunk_seq[s] \/ l.chunk_seq = chunk_seq[s]
        BY <2>1, <2>2, <3>1
      <4> QED
        BY <4>3, <4>4, <1>t, <3>1, <2>1
    <3>2. CASE u # s
      <4>1. chunk_seq'[u] = chunk_seq[u] /\ pc'[u] = pc[u] /\ l \in snapshot_chunks
        BY <1>4, <1>t, <2>1, <2>2, <3>2 DEF SaveChunkRef
      <4> QED
        BY <2>2, <4>1
    <3> QED
      BY <3>1, <3>2
  <2> QED
    BY <2>2
<1>5. ASSUME NEW s \in Snapshots, ChunkError(s) PROVE NothingAhead'
  BY <1>5, <1>f DEF ChunkError, tables
<1>6. ASSUME NEW s \in Snapshots, BackupError(s) PROVE NothingAhead'
  BY <1>6, <1>f DEF BackupError, tables
<1>7. ASSUME NEW s \in Snapshots, Complete(s) PROVE NothingAhead'
  BY <1>7, <1>f DEF Complete
<1>8. ASSUME NEW s \in Snapshots, Fail(s) PROVE NothingAhead'
  BY <1>8, <1>f DEF Fail
<1>9. ASSUME NEW s \in Snapshots, Expire(s) PROVE NothingAhead'
  BY <1>9 DEF Expire
<1>10. ASSUME NEW s \in Snapshots, PurgeQuery(s) PROVE NothingAhead'
  BY <1>10, <1>f DEF PurgeQuery
<1>11. ASSUME NEW s \in Snapshots, PurgeNext(s) PROVE NothingAhead'
  BY <1>11, <1>f DEF PurgeNext
<1>12. ASSUME NEW s \in Snapshots, Unlink(s) PROVE NothingAhead'
  BY <1>12, <1>t DEF Unlink, LinksOf
<1>13. ASSUME NEW s \in Snapshots, UnlinkError(s) PROVE NothingAhead'
  BY <1>13, <1>f DEF UnlinkError
<1>14. ASSUME NEW s \in Snapshots, GeneralError(s) PROVE NothingAhead'
  BY <1>14, <1>f DEF GeneralError
<1>15. ASSUME NEW s \in Snapshots, Phase1(s) PROVE NothingAhead'
  BY <1>15, <1>f DEF Phase1
<1>16. ASSUME NEW s \in Snapshots, NEW h \in Hashes, DeleteObject(s, h) PROVE NothingAhead'
  BY <1>16 DEF DeleteObject, tables
<1>17. ASSUME NEW s \in Snapshots, DeleteObjectsRaises(s) PROVE NothingAhead'
  BY <1>17, <1>f DEF DeleteObjectsRaises, tables
<1>18. ASSUME NEW s \in Snapshots, Phase2Confirm(s) PROVE NothingAhead'
  BY <1>18, <1>f DEF Phase2Confirm
<1>19. ASSUME NEW s \in Snapshots, Phase2Revert(s) PROVE NothingAhead'
  BY <1>19, <1>f DEF Phase2Revert
<1>20. ASSUME NEW s \in Snapshots, PhaseError(s) PROVE NothingAhead'
  BY <1>20, <1>f DEF PhaseError, tables
<1>21. ASSUME NEW s \in Snapshots, Crash(s) PROVE NothingAhead'
  BY <1>21, <1>f DEF Crash, tables
<1>22. CASE StartupCleanup
  BY <1>22 DEF StartupCleanup
<1>23. CASE UNCHANGED vars
  BY <1>23 DEF vars, tables
<1> HIDE DEF NothingAhead
<1> QED
  BY <1>1, <1>2, <1>3, <1>4, <1>5, <1>6, <1>7, <1>8, <1>9, <1>10, <1>11, <1>12, <1>13,
     <1>14, <1>15, <1>16, <1>17, <1>18, <1>19, <1>20, <1>21, <1>22, <1>23
     DEF Next, Backup, Purge, Terminated

\* The conjunction that is inductive: the exact count needs the links finite
\* and each inserted link new; the purge needs the exact count only to be read
\* beside the state of the row.
Counted == Typed /\ NothingAhead /\ RefCountExact /\ PurgeableIsUnreferenced

\* The empty catalogue counts right.
LEMMA CountedInit == Init => Counted
<1> SUFFICES ASSUME Init PROVE Counted
  OBVIOUS
<1>1. \A h : LinksTo(snapshot_chunks, h) = {}
  BY DEF Init, LinksTo
<1>2. Cardinality({}) = 0
  BY FS_EmptySet
<1> QED
  BY <1>1, <1>2, TypedInit
     DEF Init, Counted, NothingAhead, RefCountExact, PurgeableIsUnreferenced, NoRow

\* No transaction of a backup or a purge, in whatever order they come, makes a
\* count wrong or leaves a referenced row to the purge.
LEMMA CountedStep == Counted /\ [Next]_vars => Counted'
<1> SUFFICES ASSUME Counted, [Next]_vars
             PROVE  RefCountExact' /\ PurgeableIsUnreferenced'
  BY TypedStep, NothingAheadStep DEF Counted
<1> DEFINE Goal == RefCountExact' /\ PurgeableIsUnreferenced'
<1> USE DEF RefCountExact, PurgeableIsUnreferenced
<1>t. /\ pc \in [Snapshots -> PC] /\ chunk_seq \in [Snapshots -> Seqs]
      /\ chunk_pool \in [Hashes -> ChunkPool]
      /\ IsFiniteSet(snapshot_chunks)
      /\ \A s \in Snapshots : Hash(s) \in Hashes
      /\ RefCountExact /\ PurgeableIsUnreferenced /\ NothingAhead
  BY BackupAssumption DEF Counted, Typed, TypeOK, FiniteLinks, Hash
<1>c. \A h \in Hashes : chunk_pool[h].ref_count \in Nat /\ chunk_pool[h].state \in ChunkState
  BY <1>t DEF ChunkPool
\* Steps that leave the two tables alone.
<1>f. ASSUME UNCHANGED <<chunk_pool, snapshot_chunks>> PROVE Goal
  BY <1>f, <1>t
<1>2. ASSUME NEW s \in Snapshots, Prepare(s) PROVE Goal
  <2>1. UNCHANGED snapshot_chunks
    BY <1>2 DEF Prepare
  <2>2. \A h \in Hashes :
            /\ chunk_pool'[h].ref_count = chunk_pool[h].ref_count
            /\ chunk_pool'[h].state # chunk_pool[h].state => chunk_pool'[h].state = "ACTIVE"
    BY <1>2, <1>t, <1>c DEF Prepare, ChunkPool, NewRow
  <2> QED
    BY <1>t, <2>1, <2>2
<1>4. ASSUME NEW s \in Snapshots, SaveChunkRef(s) PROVE Goal
  <2> DEFINE link == [snapshot_id |-> s, chunk_seq |-> chunk_seq[s], chunk_hash |-> Hash(s)]
  <2>1. /\ snapshot_chunks' = snapshot_chunks \cup {link}
        /\ chunk_pool' = [chunk_pool EXCEPT ![Hash(s)] = AfterInsert(chunk_pool[Hash(s)])]
        /\ pc[s] = "save"
    BY <1>4 DEF SaveChunkRef, InsertLink
  <2>2. link \notin snapshot_chunks
    <3>1. chunk_seq[s] \in Int
      BY <1>t DEF Seqs
    <3> QED
      BY <1>t, <2>1, <3>1 DEF NothingAhead, Growing
  <2>3. \A h \in Hashes : Cardinality(LinksTo(snapshot_chunks', h))
            = Cardinality(LinksTo(snapshot_chunks, h)) + (IF Hash(s) = h THEN 1 ELSE 0)
    BY <1>t, <2>1, <2>2, CountAfterInsertion
  <2>4. \A h \in Hashes : chunk_pool'[h].ref_count
            = chunk_pool[h].ref_count + (IF Hash(s) = h THEN 1 ELSE 0)
    BY <1>t, <1>c, <2>1 DEF AfterInsert
  <2>5. RefCountExact'
    BY <2>3, <2>4, <1>t
  <2>6. \A h \in Hashes : chunk_pool'[h] = chunk_pool[h] \/ chunk_pool'[h].state = "ACTIVE"
    BY <1>t, <2>1 DEF AfterInsert
  <2> QED
    BY <2>5, <2>6, <1>t
<1>12. ASSUME NEW s \in Snapshots, Unlink(s) PROVE Goal
  <2> DEFINE removed == LinksOf(snapshot_chunks, victim[s])
             n(h) == Cardinality(LinksTo(removed, h))
  <2>1. /\ snapshot_chunks' = snapshot_chunks \ removed
        /\ chunk_pool' = DeleteLinks(chunk_pool, removed)
        /\ removed \in SUBSET snapshot_chunks
    BY <1>12 DEF Unlink, LinksOf
  <2>2. \A h \in Hashes :
            /\ Cardinality(LinksTo(snapshot_chunks', h))
                  = Cardinality(LinksTo(snapshot_chunks, h)) - n(h)
            /\ n(h) <= Cardinality(LinksTo(snapshot_chunks, h))
            /\ n(h) \in Nat
            /\ LinksTo(removed, h) = {} <=> n(h) = 0
    <3> SUFFICES ASSUME NEW h \in Hashes
                 PROVE  /\ Cardinality(LinksTo(snapshot_chunks \ removed, h))
                              = Cardinality(LinksTo(snapshot_chunks, h)) - n(h)
                        /\ n(h) <= Cardinality(LinksTo(snapshot_chunks, h))
                        /\ n(h) \in Nat
                        /\ LinksTo(removed, h) = {} <=> n(h) = 0
      BY <2>1
    <3>1. removed \in SUBSET snapshot_chunks /\ IsFiniteSet(snapshot_chunks)
      BY <1>t, <2>1
    <3> HIDE DEF removed
    <3> QED
      BY ONLY <3>1, CountAfterRemoval
  <2>3. \A h \in Hashes :
            chunk_pool'[h] = IF n(h) = 0 THEN chunk_pool[h] ELSE AfterDelete(chunk_pool[h], n(h))
    BY <2>1, <2>2 DEF DeleteLinks
  <2> HIDE DEF n
  <2>4. \A h \in Hashes : n(h) <= chunk_pool[h].ref_count
    BY <2>2, <1>t
  <2>5. \A h \in Hashes :
            /\ chunk_pool'[h].ref_count = chunk_pool[h].ref_count - n(h)
            /\ chunk_pool'[h].state # chunk_pool[h].state => chunk_pool[h].ref_count - n(h) = 0
    <3> SUFFICES ASSUME NEW h \in Hashes
                 PROVE  /\ chunk_pool'[h].ref_count = chunk_pool[h].ref_count - n(h)
                        /\ chunk_pool'[h].state # chunk_pool[h].state
                              => chunk_pool[h].ref_count - n(h) = 0
      OBVIOUS
    <3>1. n(h) \in Nat /\ n(h) <= chunk_pool[h].ref_count /\ chunk_pool[h] \in ChunkPool
      BY <2>2, <2>4, <1>t
    <3>2. CASE n(h) = 0
      BY <2>3, <3>1, <3>2, <1>c
    <3>3. CASE n(h) # 0
      BY <2>3, <3>1, <3>3, AfterDeleteExact
    <3> QED
      BY <3>2, <3>3
  <2>6. RefCountExact'
    BY <2>2, <2>5, <1>t
  <2>7. \A h \in Hashes :
            chunk_pool'[h].state # chunk_pool[h].state => chunk_pool'[h].ref_count = 0
    BY <2>5
  <2>8. PurgeableIsUnreferenced'
    BY <2>2, <2>4, <2>5, <2>7, <1>c, <1>t
  <2> QED
    BY <2>6, <2>8
<1>15. ASSUME NEW s \in Snapshots, Phase1(s) PROVE Goal
  <2>1. PICK batch \in SUBSET Orphans :
            chunk_pool' = [h \in Hashes |->
                  IF h \in batch THEN [chunk_pool[h] EXCEPT !.state = "PURGING_S3"]
                  ELSE chunk_pool[h]]
    BY <1>15 DEF Phase1
  <2>2. UNCHANGED snapshot_chunks
    BY <1>15 DEF Phase1
  <2>3. \A h \in Hashes :
            /\ chunk_pool'[h].ref_count = chunk_pool[h].ref_count
            /\ chunk_pool'[h].state # chunk_pool[h].state => chunk_pool[h].ref_count = 0
    BY <1>t, <2>1 DEF Orphans, ChunkPool
  <2> QED
    BY <1>t, <2>2, <2>3
<1>18. ASSUME NEW s \in Snapshots, Phase2Confirm(s) PROVE Goal
  <2>1. UNCHANGED snapshot_chunks
    BY <1>18 DEF Phase2Confirm
  <2>2. \A h \in Hashes :
            \/ chunk_pool'[h] = chunk_pool[h]
            \/ chunk_pool'[h] = NoRow /\ chunk_pool[h].ref_count = 0
    BY <1>18 DEF Phase2Confirm, StillPurging
  <2> QED
    BY <1>t, <2>1, <2>2 DEF NoRow
<1>19. ASSUME NEW s \in Snapshots, Phase2Revert(s) PROVE Goal
  <2>1. UNCHANGED snapshot_chunks
    BY <1>19 DEF Phase2Revert
  <2>2. \A h \in Hashes :
            /\ chunk_pool'[h].ref_count = chunk_pool[h].ref_count
            /\ chunk_pool'[h].state # chunk_pool[h].state => chunk_pool[h].state = "PURGING_S3"
    BY <1>19, <1>t DEF Phase2Revert, StillPurging, ChunkPool
  <2> QED
    BY <1>t, <2>1, <2>2
<1>21. ASSUME NEW s \in Snapshots,
              \/ Start(s) \/ Upload(s) \/ ChunkError(s) \/ BackupError(s) \/ Complete(s)
              \/ Fail(s) \/ Expire(s) \/ PurgeQuery(s) \/ PurgeNext(s) \/ UnlinkError(s)
              \/ GeneralError(s) \/ (\E h \in Hashes : DeleteObject(s, h))
              \/ DeleteObjectsRaises(s) \/ PhaseError(s) \/ Crash(s)
       PROVE  UNCHANGED <<chunk_pool, snapshot_chunks>>
  BY <1>21
     DEF Start, Upload, ChunkError, BackupError, Complete, Fail, Expire, PurgeQuery, PurgeNext,
         UnlinkError, GeneralError, DeleteObject, DeleteObjectsRaises, PhaseError, Crash, tables
<1>22. StartupCleanup \/ UNCHANGED vars => UNCHANGED <<chunk_pool, snapshot_chunks>>
  BY DEF StartupCleanup, vars, tables
<1> HIDE DEF Goal
<1>23. ASSUME NEW s \in Snapshots, Backup(s) PROVE Goal
  BY <1>2, <1>4, <1>f, <1>21, <1>23 DEF Backup
<1>24. ASSUME NEW s \in Snapshots, Purge(s) PROVE Goal
  BY <1>12, <1>15, <1>18, <1>19, <1>f, <1>21, <1>24 DEF Purge
<1>25. ASSUME NEW s \in Snapshots, Crash(s) \/ Expire(s) PROVE Goal
  BY <1>f, <1>21, <1>25
<1>26. [Next]_vars => \/ \E s \in Snapshots : Backup(s) \/ Purge(s) \/ Crash(s) \/ Expire(s)
                      \/ StartupCleanup
                      \/ UNCHANGED vars
  BY DEF Next, Terminated
<1>27. Goal
  BY <1>f, <1>22, <1>23, <1>24, <1>25, <1>26
<1> QED
  BY <1>27 DEF Goal

\* ref_count is the number of links of the row in every reachable state.
THEOREM RefCountsExact == Spec => []RefCountExact
<1>1. Counted => RefCountExact
  BY DEF Counted
<1> QED
  BY <1>1, CountedInit, CountedStep, PTL DEF Spec

\* What the purge may take, or has taken, is referenced by no snapshot.
THEOREM PurgeablesUnreferenced == Spec => []PurgeableIsUnreferenced
<1>1. Counted => PurgeableIsUnreferenced
  BY DEF Counted
<1> QED
  BY <1>1, CountedInit, CountedStep, PTL DEF Spec

-----------------------------------------------------------------------------
(* What failed backups leave behind.                                       *)

\* A process that is at a chunk, or stopped at one.
At(s, h) == h = Hash(s) /\ pc[s] \notin {"idle", "prepare", "eof"}

\* Who is at a chunk leaves it only by linking it.
LEMMA StaysAt ==
    ASSUME Typed, [Next]_vars, NEW h \in Hashes, NEW s \in Snapshots, At(s, h), ~SaveChunkRef(s)
    PROVE  At(s, h)'
<1>t. pc \in [Snapshots -> PC] /\ chunk_seq \in [Snapshots -> Seqs]
  BY DEF Typed, TypeOK
<1> USE <1>t DEF At, Hash, Go
<1>1. ASSUME NEW t \in Snapshots, Backup(t) PROVE At(s, h)'
  BY <1>1 DEF Backup, Start, Prepare, Upload, SaveChunkRef, ChunkError, BackupError, Complete, Fail
<1>2. ASSUME NEW t \in Snapshots, Purge(t) PROVE At(s, h)'
  <2>1. CASE Phase1(t)
    BY <2>1 DEF Phase1
  <2>2. CASE PurgeQuery(t) \/ PurgeNext(t)
    BY <2>2 DEF PurgeQuery, PurgeNext
  <2>3. CASE ~Phase1(t) /\ ~PurgeQuery(t) /\ ~PurgeNext(t)
    BY <1>2, <2>3
       DEF Purge, Unlink, UnlinkError, GeneralError, DeleteObject, DeleteObjectsRaises,
           Phase2Confirm, Phase2Revert, PhaseError
  <2> QED
    BY <2>1, <2>2, <2>3
<1>3. ASSUME NEW t \in Snapshots, Crash(t) \/ Expire(t) PROVE At(s, h)'
  BY <1>3 DEF Crash, Expire
<1>4. CASE StartupCleanup \/ UNCHANGED vars
  BY <1>4 DEF StartupCleanup, vars
<1> QED
  BY <1>1, <1>2, <1>3, <1>4 DEF Next, Terminated

\* A row gets to be ACTIVE without a link by the preparation of a chunk only.
LEMMA NewRowPrepared ==
    ASSUME Typed, [Next]_vars, NEW h \in Hashes, chunk_pool'[h] = NewRow, chunk_pool[h] # NewRow
    PROVE  \E s \in Snapshots : Prepare(s) /\ h = Hash(s)
<1>t. chunk_pool \in [Hashes -> ChunkPool] /\ FiniteLinks
  BY DEF Typed, TypeOK
<1>r. chunk_pool[h] = [state |-> chunk_pool[h].state, ref_count |-> chunk_pool[h].ref_count]
      /\ chunk_pool[h].ref_count \in Nat
  BY <1>t DEF ChunkPool
<1>1. ASSUME NEW s \in Snapshots, Backup(s) PROVE Prepare(s) /\ h = Hash(s)
  <2>1. CASE Prepare(s)
    BY <1>t, <2>1 DEF Prepare
  <2>2. CASE SaveChunkRef(s)
    BY <1>t, <1>r, <2>2 DEF SaveChunkRef, InsertLink, AfterInsert, NewRow
  <2>3. CASE ~Prepare(s) /\ ~SaveChunkRef(s)
    BY <1>1, <2>3 DEF Backup, Start, Upload, ChunkError, BackupError, Complete, Fail, tables
  <2> QED
    BY <2>1, <2>2, <2>3
<1>2. ASSUME NEW s \in Snapshots, Purge(s) PROVE FALSE
  <2>1. CASE Unlink(s)
    <3> DEFINE L == LinksTo(LinksOf(snapshot_chunks, victim[s]), h)
    <3>1. \/ chunk_pool'[h] = chunk_pool[h]
          \/ L # {} /\ chunk_pool'[h] = AfterDelete(chunk_pool[h], Cardinality(L))
      BY <2>1 DEF Unlink, DeleteLinks
    <3>2. IsFiniteSet(L)
      BY <1>t, FS_Subset DEF FiniteLinks, LinksTo, LinksOf
    <3>3. L # {} => Cardinality(L) \in Nat \ {0}
      BY <3>2, FS_CardinalityType, FS_EmptySet
    <3>4. ASSUME NEW n \in Nat \ {0}, AfterDelete(chunk_pool[h], n) = NewRow PROVE FALSE
      BY <1>r, <3>4 DEF AfterDelete, NewRow
    <3> QED
      BY <3>1, <3>3, <3>4
  <2>2. CASE Phase1(s)
    BY <1>t, <2>2 DEF Phase1, NewRow, ChunkPool
  <2>3. CASE Phase2Revert(s)
    BY <1>t, <2>3 DEF Phase2Revert, NewRow, ChunkPool
  <2>4. CASE Phase2Confirm(s)
    BY <1>t, <2>4 DEF Phase2Confirm, NewRow, NoRow
  <2>5. CASE ~Unlink(s) /\ ~Phase1(s) /\ ~Phase2Revert(s) /\ ~Phase2Confirm(s)
    BY <1>2, <2>5
       DEF Purge, PurgeQuery, PurgeNext, UnlinkError, GeneralError, DeleteObject,
           DeleteObjectsRaises, PhaseError, tables
  <2> QED
    BY <2>1, <2>2, <2>3, <2>4, <2>5
<1>3. ASSUME NEW s \in Snapshots, Crash(s) \/ Expire(s) PROVE FALSE
  BY <1>3 DEF Crash, Expire, tables
<1>4. StartupCleanup \/ UNCHANGED vars => FALSE
  BY DEF StartupCleanup, vars, tables
<1> QED
  BY <1>1, <1>2, <1>3, <1>4 DEF Next, Terminated

\* A failed backup leaks one row and object at most, that of the chunk it stopped
\* at: for all faults and interleavings, shared hashes or not.
THEOREM LeaksAreBounded == Spec => []LeakBounded
<1>1. Init => LeakBounded
  BY DEF Init, LeakBounded, NoRow, NewRow
<1>2. ASSUME Typed, LeakBounded, [Next]_vars
      PROVE  LeakBounded'
  <2> SUFFICES ASSUME NEW h \in Hashes, chunk_pool'[h] = NewRow
               PROVE  \E s \in Snapshots : At(s, h)'
    BY DEF LeakBounded, At, NewRow
  <2>1. CASE chunk_pool[h] = NewRow
    <3>1. PICK s \in Snapshots : At(s, h)
      BY <1>2, <2>1 DEF LeakBounded, At
    <3>2. ~SaveChunkRef(s)
      BY <1>2, <2>1, <3>1
         DEF SaveChunkRef, InsertLink, AfterInsert, At, NewRow, Typed, TypeOK
    <3> QED
      BY <1>2, <3>1, <3>2, StaysAt
  <2>2. CASE chunk_pool[h] # NewRow
    <3>1. PICK s \in Snapshots : Prepare(s) /\ h = Hash(s)
      BY <1>2, <2>2, NewRowPrepared
    <3> QED
      BY <1>2, <3>1 DEF Prepare, Go, At, Hash, Typed, TypeOK
  <2> QED
    BY <2>1, <2>2
<1>3. Spec => []Typed
  BY TypedInit, TypedStep, PTL DEF Spec
<1> QED
  BY <1>1, <1>2, <1>3, PTL DEF Spec
=============================================================================
