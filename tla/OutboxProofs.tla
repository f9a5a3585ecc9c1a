---------------------------- MODULE OutboxProofs ----------------------------
(***************************************************************************)
(* The outbox loses no payload: for any number of chunks and workers, with   *)
(* workers that die, fail anywhere and outlive their claims.                *)
(***************************************************************************)
EXTENDS Outbox, TLAPS

\* A row that a claim may take has an attempt left.
AttemptsLeft ==
    \A c \in Chunks :
        row[c].state \in {"ABSENT", "PENDING", "DRAINING"} => row[c].attempts < MaxAttempts

\* The rows a worker has in memory were inserted before, and nothing removes a row.
RowsExist ==
    \A w \in Workers :
        /\ \A r \in rows[w] : row[r.id].state # "ABSENT"
        /\ current[w] # None => row[current[w].id].state # "ABSENT"

\* A worker that is past the row's read is at a row, and one past the upload at a
\* stored chunk.
AtWork ==
    \A w \in Workers :
        /\ pc[w] \in {"upload", "confirm", "unlink", "failed"} => current[w] # None
        /\ pc[w] \in {"confirm", "unlink"} => Chunk(w) \in stored

Inv == TypeOK /\ AttemptsLeft /\ RowsExist /\ AtWork /\ NothingLost /\ ProcessedIsStored

\* The initial tables satisfy the invariant.
LEMMA InitInv == Init => Inv
  BY OutboxAssumption
  DEF Init, Inv, TypeOK, AttemptsLeft, RowsExist, AtWork, NothingLost, ProcessedIsStored,
      OutboxChunkState, Selected

\* What the enqueuing process and time do keeps the invariant.
LEMMA ChunkStep ==
  ASSUME Inv, NEW c \in Chunks,
         WriteStaged(c) \/ Insert(c) \/ InsertFails(c) \/ BackoffOver(c) \/ ClaimExpires(c)
  PROVE  Inv'
  <1> USE OutboxAssumption
      DEF Inv, TypeOK, AttemptsLeft, RowsExist, AtWork, NothingLost, ProcessedIsStored,
          OutboxChunkState, Selected, table, worker, Chunk
  <1>1. CASE WriteStaged(c)
    BY <1>1 DEF WriteStaged
  <1>2. CASE Insert(c)
    BY <1>2 DEF Insert
  <1>3. CASE InsertFails(c)
    BY <1>3 DEF InsertFails
  <1>4. CASE BackoffOver(c)
    BY <1>4 DEF BackoffOver
  <1>5. CASE ClaimExpires(c)
    BY <1>5 DEF ClaimExpires
  <1> QED BY <1>1, <1>2, <1>3, <1>4, <1>5

\* The claim keeps the invariant.
LEMMA ClaimStep ==
  ASSUME Inv, NEW w \in Workers, Claim(w)
  PROVE  Inv'
  <1> USE OutboxAssumption
      DEF Inv, TypeOK, AttemptsLeft, RowsExist, AtWork, NothingLost, ProcessedIsStored,
          OutboxChunkState, Selected, table, worker, Chunk
  <1>1. PICK ids \in SUBSET Eligible \ {{}} :
          /\ row' = [c \in Chunks |->
                IF c \in ids THEN [row[c] EXCEPT !.state = "DRAINING"] ELSE row[c]]
          /\ due' = due \ ids
          /\ stale' = stale \ ids
          /\ rows' = [rows EXCEPT ![w] = {[id |-> c, attempts |-> row[c].attempts] : c \in ids}]
    BY DEF Claim
  <1>2. ids \subseteq Chunks /\ \A c \in ids : row[c].state \in {"PENDING", "DRAINING"}
    BY <1>1 DEF Eligible
  <1>3. pc' = [pc EXCEPT ![w] = "next"] /\ UNCHANGED <<file, stored, current>>
    BY DEF Claim, Go
  <1>4. \A c \in ids : [id |-> c, attempts |-> row[c].attempts] \in Selected
    BY <1>2
  <1>5. TypeOK'
    BY <1>1, <1>2, <1>3, <1>4
  <1>6. (AttemptsLeft /\ NothingLost /\ ProcessedIsStored)'
    BY <1>1, <1>2, <1>3
  <1>7. RowsExist' /\ AtWork'
    BY <1>1, <1>2, <1>3
  <1> QED BY <1>5, <1>6, <1>7

\* Every other step of a worker keeps the invariant.
LEMMA WorkerStep ==
  ASSUME Inv, NEW w \in Workers, Drain(w) \/ Crash(w)
  PROVE  Inv'
  <1> USE OutboxAssumption
      DEF Inv, TypeOK, AttemptsLeft, RowsExist, AtWork, NothingLost, ProcessedIsStored,
          OutboxChunkState, Selected, table, worker, Chunk, Go
  <1>1. CASE Claim(w)
    BY <1>1, ClaimStep
  <1>2. CASE ReadStaged(w)
    BY <1>2 DEF ReadStaged
  <1>3. CASE Return(w) \/ RecordFailureRaises(w) \/ Crash(w)
    BY <1>3 DEF Return, RecordFailureRaises, Crash, Leaves
  <1>4. CASE Upload(w)
    BY <1>4 DEF Upload
  <1>5. CASE UploadFails(w)
    BY <1>5 DEF UploadFails
  <1>6. CASE Confirm(w)
    BY <1>6 DEF Confirm
  <1>7. CASE Unlink(w)
    BY <1>7 DEF Unlink, Advance
  <1>8. CASE StepFails(w)
    BY <1>8 DEF StepFails
  <1>9. CASE RecordFailure(w)
    BY <1>9 DEF RecordFailure, Attempted, NewState, Advance
  <1> QED BY <1>1, <1>2, <1>3, <1>4, <1>5, <1>6, <1>7, <1>8, <1>9 DEF Drain

\* The invariant holds in every reachable state.
THEOREM Invariant == Spec => []Inv
  <1>1. Inv /\ [Next]_vars => Inv'
    <2> SUFFICES ASSUME Inv, [Next]_vars PROVE Inv'
      OBVIOUS
    <2>1. CASE Next
      BY <2>1, ChunkStep, WorkerStep DEF Next
    <2>2. CASE UNCHANGED vars
      BY <2>2 DEF vars, table, worker, Inv, TypeOK, AttemptsLeft, RowsExist, AtWork,
                  NothingLost, ProcessedIsStored, Chunk
    <2> QED BY <2>1, <2>2
  <1> QED BY <1>1, InitInv, PTL DEF Spec

\* The table, the files and the workers keep their types; attempts never exceeds the
\* limit, however often overlapping workers write it back.
THEOREM TypeCorrect == Spec => []TypeOK
  <1>1. Inv => TypeOK
    BY DEF Inv
  <1> QED BY <1>1, Invariant, PTL

\* A queued payload is in its file or at a provider, always.
THEOREM NoPayloadLost == Spec => []NothingLost
  <1>1. Inv => NothingLost
    BY DEF Inv
  <1> QED BY <1>1, Invariant, PTL

\* A row says PROCESSED only of a chunk some provider holds.
THEOREM ProcessedStored == Spec => []ProcessedIsStored
  <1>1. Inv => ProcessedIsStored
    BY DEF Inv
  <1> QED BY <1>1, Invariant, PTL
=============================================================================
