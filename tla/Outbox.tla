------------------------------- MODULE Outbox -------------------------------
(***************************************************************************)
(* The outbox of storage.py: chunks no provider took are staged in a file    *)
(* and queued in the table outbox_chunks, and workers drain the table.  Each *)
(* step is one transaction, one file operation or one upload.               *)
(***************************************************************************)
EXTENDS Integers, FiniteSets

CONSTANTS
    Chunks,
    Workers,       \* the processes that call drain_outbox_queue, over and over
    MaxAttempts,   \* the failure that makes a row DEAD_LETTER
    max_items,
    SlowWorkers,   \* whether a worker may take longer than a claim lasts
    None

ASSUME OutboxAssumption ==
    /\ {MaxAttempts, max_items} \subseteq Nat \ {0}
    /\ SlowWorkers \in BOOLEAN
    /\ None \notin [id : Chunks, attempts : 0 .. MaxAttempts - 1]

VARIABLES
    row,      \* table outbox_chunks: state and attempts
    due,      \* the rows whose next_retry_at is past
    stale,    \* the rows whose updated_at is 15 minutes past, as SQLite computes it
    file,     \* the chunks that have their file in staging_dir
    stored,   \* the chunks a provider holds
    pc,       \* where each worker is
    rows,     \* what its SELECT returned and it has still to go through
    current   \* the one of these it is at

table  == <<row, due, stale>>
worker == <<pc, rows, current>>
vars   == <<table, file, stored, worker>>

OutboxChunkState == {"ABSENT", "PENDING", "DRAINING", "PROCESSED", "DEAD_LETTER"}

\* A row of the SELECT: only rows with an attempt left are ever PENDING or DRAINING.
Selected == [id : Chunks, attempts : 0 .. MaxAttempts - 1]

TypeOK ==
    /\ row \in [Chunks -> [state : OutboxChunkState, attempts : 0 .. MaxAttempts]]
    /\ {due, stale, file, stored} \subseteq SUBSET Chunks
    /\ pc \in [Workers -> {"idle", "next", "upload", "confirm", "unlink", "failed", "dead"}]
    /\ rows \in [Workers -> SUBSET Selected]
    /\ current \in [Workers -> Selected \cup {None}]

Init ==
    /\ row = [c \in Chunks |-> [state |-> "ABSENT", attempts |-> 0]]
    /\ due = {} /\ stale = {} /\ file = {} /\ stored = {}
    /\ pc = [w \in Workers |-> "idle"]
    /\ rows = [w \in Workers |-> {}]
    /\ current = [w \in Workers |-> None]

-----------------------------------------------------------------------------
(* enqueue_chunk.                                                          *)

\* The payload is written and synced first.  A process that dies here leaves a
\* file without a row.
WriteStaged(c) ==
    /\ c \notin file
    /\ row[c].state = "ABSENT"
    /\ file' = file \cup {c}
    /\ UNCHANGED <<table, stored, worker>>

Insert(c) ==
    /\ c \in file
    /\ row[c].state = "ABSENT"
    /\ row' = [row EXCEPT ![c].state = "PENDING"]
    /\ due' = due \cup {c}
    /\ UNCHANGED <<stale, file, stored, worker>>

InsertFails(c) ==
    /\ c \in file
    /\ row[c].state = "ABSENT"
    /\ file' = file \ {c}
    /\ UNCHANGED <<table, stored, worker>>

-----------------------------------------------------------------------------
(* drain_outbox_queue.                                                     *)

Go(w, label) == pc' = [pc EXCEPT ![w] = label]

\* On to the next row of the batch.
Advance(w) ==
    /\ Go(w, "next")
    /\ current' = [current EXCEPT ![w] = None]

\* Rows in DRAINING stay with whoever claimed them.
SlipEligible == {c \in Chunks : row[c].state = "PENDING" /\ c \in due}

Eligible ==
    {c \in Chunks : \/ row[c].state = "PENDING" /\ c \in due
                    \/ row[c].state = "DRAINING" /\ c \in stale}

\* The claim: one transaction selects the rows and marks them.
Claim(w) ==
    /\ pc[w] = "idle"
    /\ \E ids \in SUBSET Eligible \ {{}} :
        /\ Cardinality(ids) <= max_items
        /\ ids = Eligible \/ Cardinality(ids) = max_items
        /\ row' = [c \in Chunks |->
              IF c \in ids THEN [row[c] EXCEPT !.state = "DRAINING"] ELSE row[c]]
        /\ due' = due \ ids
        /\ stale' = stale \ ids
        /\ rows' = [rows EXCEPT ![w] = {[id |-> c, attempts |-> row[c].attempts] : c \in ids}]
    /\ Go(w, "next")
    /\ UNCHANGED <<file, stored, current>>

\* The next row: its file must exist.
ReadStaged(w) ==
    /\ pc[w] = "next"
    /\ \E r \in rows[w] :
        /\ rows' = [rows EXCEPT ![w] = @ \ {r}]
        /\ current' = [current EXCEPT ![w] = r]
        /\ Go(w, IF r.id \in file THEN "upload" ELSE "failed")
    /\ UNCHANGED <<table, file, stored>>

\* The call is over, or the process: what it has in memory goes.
Leaves(w, label) ==
    /\ Go(w, label)
    /\ rows' = [rows EXCEPT ![w] = {}]
    /\ current' = [current EXCEPT ![w] = None]
    /\ UNCHANGED <<table, file, stored>>

Return(w) ==
    /\ pc[w] = "next"
    /\ rows[w] = {}
    /\ Leaves(w, "idle")

Chunk(w) == current[w].id

Upload(w) ==
    /\ pc[w] = "upload"
    /\ stored' = stored \cup {Chunk(w)}
    /\ Go(w, "confirm")
    /\ UNCHANGED <<table, file, rows, current>>

\* The uploader's exception is taken for an answer.
SlipUploadFails(w) ==
    /\ pc[w] = "upload"
    /\ Go(w, "confirm")
    /\ UNCHANGED <<table, file, stored, rows, current>>

\* The provider may have stored what it did not acknowledge.
UploadFails(w) ==
    /\ pc[w] = "upload"
    /\ stored' \in {stored, stored \cup {Chunk(w)}}
    /\ Go(w, "failed")
    /\ UNCHANGED <<table, file, rows, current>>

\* PROCESSED is committed before the file goes.
Confirm(w) ==
    /\ pc[w] = "confirm"
    /\ row' = [row EXCEPT ![Chunk(w)].state = "PROCESSED"]
    /\ stale' = stale \ {Chunk(w)}
    /\ Go(w, "unlink")
    /\ UNCHANGED <<due, file, stored, rows, current>>

Unlink(w) ==
    /\ pc[w] = "unlink"
    /\ file' = file \ {Chunk(w)}
    /\ Advance(w)
    /\ UNCHANGED <<table, stored, rows>>

\* The transaction or the removal of the file raises: the same handler.
StepFails(w) ==
    /\ pc[w] \in {"confirm", "unlink"}
    /\ Go(w, "failed")
    /\ UNCHANGED <<table, file, stored, rows, current>>

\* One attempt too many.
SlipNewState(new_attempts) == IF new_attempts > MaxAttempts THEN "DEAD_LETTER" ELSE "PENDING"

NewState(new_attempts) == IF new_attempts >= MaxAttempts THEN "DEAD_LETTER" ELSE "PENDING"

Attempted(w) ==
    LET new_attempts == current[w].attempts + 1
    IN  [state |-> NewState(new_attempts), attempts |-> new_attempts]

\* A chunk given up is cleared away.
SlipRecordFailure(w) ==
    /\ pc[w] = "failed"
    /\ row' = [row EXCEPT ![Chunk(w)] = Attempted(w)]
    /\ file' = IF row'[Chunk(w)].state = "DEAD_LETTER" THEN file \ {Chunk(w)} ELSE file
    /\ due' = due \ {Chunk(w)}
    /\ stale' = stale \ {Chunk(w)}
    /\ Advance(w)
    /\ UNCHANGED <<stored, rows>>

\* The handler writes what it makes of the attempts it read at the claim.
RecordFailure(w) ==
    /\ pc[w] = "failed"
    /\ row' = [row EXCEPT ![Chunk(w)] = Attempted(w)]
    /\ due' = due \ {Chunk(w)}
    /\ stale' = stale \ {Chunk(w)}
    /\ Advance(w)
    /\ UNCHANGED <<file, stored, rows>>

\* If that raises too the call is over; what it claimed stays in DRAINING.
RecordFailureRaises(w) ==
    /\ pc[w] = "failed"
    /\ Leaves(w, "idle")

\* Some worker is always left.
Crash(w) ==
    /\ pc[w] # "dead"
    /\ \E v \in Workers \ {w} : pc[v] # "dead"
    /\ Leaves(w, "dead")

-----------------------------------------------------------------------------
(* Time.                                                                   *)

Holds(w, c) == c \in {r.id : r \in rows[w] \cup ({current[w]} \ {None})}

BackoffOver(c) ==
    /\ row[c].state = "PENDING" /\ c \notin due
    /\ due' = due \cup {c}
    /\ UNCHANGED <<row, stale, file, stored, worker>>

\* updated_at is never renewed while a worker is at its batch.
ClaimExpires(c) ==
    /\ row[c].state = "DRAINING" /\ c \notin stale
    /\ SlowWorkers \/ \A w \in Workers : ~Holds(w, c)
    /\ stale' = stale \cup {c}
    /\ UNCHANGED <<row, due, file, stored, worker>>

Drain(w) ==
    \/ Claim(w) \/ ReadStaged(w) \/ Return(w) \/ Upload(w) \/ UploadFails(w) \/ Confirm(w)
    \/ Unlink(w) \/ StepFails(w) \/ RecordFailure(w) \/ RecordFailureRaises(w)

Next ==
    \/ \E c \in Chunks :
        WriteStaged(c) \/ Insert(c) \/ InsertFails(c) \/ BackoffOver(c) \/ ClaimExpires(c)
    \/ \E w \in Workers : Drain(w) \/ Crash(w)

\* Workers that live go on, time passes, and the transaction of the handler,
\* tried again and again, gets through some time.
Fairness ==
    /\ \A w \in Workers : WF_vars(Drain(w)) /\ SF_vars(RecordFailure(w))
    /\ \A c \in Chunks : WF_vars(BackoffOver(c)) /\ WF_vars(ClaimExpires(c))

Spec == Init /\ [][Next]_vars /\ Fairness

-----------------------------------------------------------------------------

\* The payload of a queued chunk is never lost: while it is in no file a provider
\* holds it, whatever fails, whoever dies and however slow workers overlap.
NothingLost == \A c \in Chunks : row[c].state # "ABSENT" => c \in file \cup stored

\* A row in PROCESSED is the row of a chunk some provider holds.
ProcessedIsStored == \A c \in Chunks : row[c].state = "PROCESSED" => c \in stored

\* Every queued chunk is delivered or given up, though workers die and leave
\* rows in DRAINING.
Drained ==
    \A c \in Chunks : row[c].state = "PENDING" ~> row[c].state \in {"PROCESSED", "DEAD_LETTER"}
=============================================================================
