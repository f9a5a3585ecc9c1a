------------------------------ MODULE Recovery ------------------------------
(***************************************************************************)
(* What becomes of the snapshots of a vault over time: init, backup,        *)
(* rotate-kek, restore and verify (cli.py, keys.py, restore.py, crypto.py), *)
(* with retention giving snapshots up and the bucket losing objects.        *)
(*                                                                          *)
(* Every session begins with BEGIN IMMEDIATE, reading ones included, and a  *)
(* command ends its transaction at its commit or when it closes.  So init,  *)
(* rotate-kek and the transactions of a backup are one step each; restore   *)
(* and verify go chunk by chunk and shut everybody else out until they      *)
(* close.  How a backup stores its chunks is the business of BackupPurge.   *)
(***************************************************************************)
EXTENDS RetentionPolicy, FiniteSets, Sequences

CONSTANTS
    Snapshots,
    Chunks,       \* the most chunks of a snapshot
    Passphrases,
    MaxSalts,     \* bound on the salts ever generated
    MaxDamage,    \* bound on the objects that decay
    Faults        \* what may go wrong

(***************************************************************************)
(* rotate_running    rotate-kek is run while a backup is under way          *)
(* stale_passphrase  a backup still has the passphrase of before a rotation *)
(* crash             a backup dies, or a rotation does before its commit    *)
(* purge             the purge a backup ends with raises: its query fails,  *)
(*                   or another purge has taken the row it is at            *)
(* cleanup           another process starts and runs the startup cleanup    *)
(* read              S3 does not answer restore or verify, or the operator  *)
(*                   gives up                                               *)
(***************************************************************************)
FaultKinds == {"rotate_running", "stale_passphrase", "crash", "purge", "cleanup", "read"}

ASSUME RecoveryAssumption ==
    /\ Chunks \in Nat
    /\ Passphrases # {}
    /\ MaxSalts \in Nat
    /\ MaxDamage \in Nat
    /\ Faults \subseteq FaultKinds

VARIABLES
    now,            \* the instant
    master_salt,    \* the salt in table configuracion, 0 before init
    passphrase,     \* the passphrase the operators hold to be the vault's
    estado,         \* table snapshots, column by column
    timestamp,      \*   (kept when the row is gone)
    encrypted_dek,
    links,          \* how many chunks are linked to each snapshot
    bucket,         \* the condition of the object of each chunk
    writing,        \* the backups whose snapshot is still to get its final estado
    purging,        \* the backups that have written it and run the purge they end with
    session,        \* the restore or verify under way
    verified        \* what verify --full has passed, and nothing happened to since

catalog == <<estado, timestamp, encrypted_dek, links>>
vars == <<now, master_salt, passphrase, catalog, bucket, writing, purging, session, verified>>

Seqs == 0 .. Chunks - 1

Never == 0

\* derive_kek: Argon2id, taken to be injective.
derive_kek(p, salt) == [passphrase |-> p, salt |-> salt]

Keks == [passphrase : Passphrases, salt : 0 .. MaxSalts]

\* The DEK the chunks are encrypted with, and any other.
Deks == {"own", "other"}

Wrapped == [kek : Keks, dek : Deks]

NoDek == [kek |-> [passphrase |-> "none", salt |-> 0], dek |-> "none"]

\* The object is as it was uploaded, has other bits at the same length, or is
\* not there or not at its length.
Condition == {"good", "rotten", "gone"}

Estados == {"ABSENT", "RUNNING", "COMPLETED", "FAILED", "EXPIRED"}

Commands == {"restore", "verify_quick", "verify_full"}

\* state: at the prompt, reading chunks, or with the outcome, about to close.
\* left: the chunks still to read.  clean: no object of the snapshot decayed
\* while verify --full read it.
Sessions ==
    [command : Commands, snapshot : Snapshots, state : {"prompt", "reading", "ok", "failed"},
     left : SUBSET Seqs, output : Seq(Snapshots \X Seqs), clean : BOOLEAN]

NoSession == [command |-> "none"]

TypeOK ==
    /\ now \in Times
    /\ master_salt \in 0 .. MaxSalts
    /\ passphrase \in Passphrases
    /\ estado \in [Snapshots -> Estados]
    /\ timestamp \in [Snapshots -> Times \cup {Never}]
    /\ encrypted_dek \in [Snapshots -> Wrapped \cup {NoDek}]
    /\ links \in [Snapshots -> 0 .. Chunks]
    /\ bucket \in [Snapshots -> [Seqs -> Condition]]
    /\ writing \subseteq Snapshots
    /\ purging \subseteq Snapshots
    /\ session \in Sessions \cup {NoSession}
    /\ verified \subseteq Snapshots

\* The write lock of the catalogue is taken for as long as a session is open.
Locked == session # NoSession

\* The chunks of a snapshot that have a link.
Linked(s) == 0 .. links[s] - 1

\* unwrap_dek: the tag of the wrapped DEK fits under no other key.
Unwraps(s, kek) == encrypted_dek[s].kek = kek

\* init has stored a salt.
Initialised == master_salt # 0

\* The key that opens the vault.
CurrentKek == derive_kek(passphrase, master_salt)

Init ==
    /\ now = 1
    /\ master_salt = 0
    /\ passphrase = CHOOSE p \in Passphrases : TRUE
    /\ estado = [s \in Snapshots |-> "ABSENT"]
    /\ timestamp = [s \in Snapshots |-> Never]
    /\ encrypted_dek = [s \in Snapshots |-> NoDek]
    /\ links = [s \in Snapshots |-> 0]
    /\ bucket = [s \in Snapshots |-> [q \in Seqs |-> "gone"]]
    /\ writing = {}
    /\ purging = {}
    /\ session = NoSession
    /\ verified = {}

-----------------------------------------------------------------------------
(* init and backup.                                                         *)

\* An initialised vault keeps its salt.
InitVault ==
    /\ ~Locked
    /\ ~Initialised
    /\ MaxSalts > 0
    /\ master_salt' = 1
    /\ UNCHANGED <<now, passphrase, catalog, bucket, writing, purging, session, verified>>

(***************************************************************************)
(* The salt is read, the key derived, the DEK made and wrapped and the row  *)
(* inserted in one transaction.  Nothing checks the passphrase.             *)
(* Timestamps have microseconds: no two are equal.  Ids are random: which   *)
(* of those not yet taken it is makes no difference.                        *)
(***************************************************************************)
StartBackup(s) ==
    /\ ~Locked
    /\ Initialised
    /\ timestamp[s] = Never
    /\ s = CHOOSE r \in Snapshots : timestamp[r] = Never
    /\ \A r \in Snapshots : timestamp[r] # now
    /\ \E p \in Passphrases :
        /\ p = passphrase \/ "stale_passphrase" \in Faults
        /\ encrypted_dek' =
              [encrypted_dek EXCEPT ![s] = [kek |-> derive_kek(p, master_salt), dek |-> "own"]]
    /\ estado' = [estado EXCEPT ![s] = "RUNNING"]
    /\ timestamp' = [timestamp EXCEPT ![s] = now]
    /\ writing' = writing \cup {s}
    /\ UNCHANGED <<now, master_salt, passphrase, links, bucket, purging, session, verified>>

\* The final estado is written, and the purge begins.
GoOnToPurge(s) ==
    /\ writing' = writing \ {s}
    /\ purging' = purging \cup {s}

\* The count goes one too far.
SlipCompleteBackup(s) ==
    /\ ~Locked
    /\ s \in writing
    /\ estado' = [estado EXCEPT ![s] = "COMPLETED"]
    /\ \E n \in 0 .. Chunks :
        /\ links' = [links EXCEPT ![s] = n + 1]
        /\ bucket' = [bucket EXCEPT ![s] = [q \in Seqs |-> IF q < n THEN "good" ELSE "gone"]]
    /\ GoOnToPurge(s)
    /\ UNCHANGED <<now, master_salt, passphrase, timestamp, encrypted_dek, session, verified>>

\* The pipeline has returned: the row is COMPLETED, whatever a cleanup made of
\* it meanwhile, with the chunks that were stored.
CompleteBackup(s) ==
    /\ ~Locked
    /\ s \in writing
    /\ estado' = [estado EXCEPT ![s] = "COMPLETED"]
    /\ \E n \in 0 .. Chunks :
        /\ links' = [links EXCEPT ![s] = n]
        /\ bucket' = [bucket EXCEPT ![s] = [q \in Seqs |-> IF q < n THEN "good" ELSE "gone"]]
    /\ GoOnToPurge(s)
    /\ UNCHANGED <<now, master_salt, passphrase, timestamp, encrypted_dek, session, verified>>

\* The handler of the pipeline.  What a failed backup has stored is never read.
FailBackup(s) ==
    /\ ~Locked
    /\ s \in writing
    /\ estado' = [estado EXCEPT ![s] = "FAILED"]
    /\ GoOnToPurge(s)
    /\ UNCHANGED <<now, master_salt, passphrase, timestamp, encrypted_dek, links, bucket,
                   session, verified>>

\* The purge returns, and the command with it.
EndBackup(s) ==
    /\ ~Locked
    /\ s \in purging
    /\ purging' = purging \ {s}
    /\ UNCHANGED <<now, master_salt, passphrase, catalog, bucket, writing, session, verified>>

\* The purge raises.  It is in the try of the whole command, whose handler
\* writes FAILED over the snapshot, be it COMPLETED or what became of it since.
GeneralError(s) ==
    /\ "purge" \in Faults
    /\ ~Locked
    /\ s \in purging
    /\ estado' = [estado EXCEPT ![s] = IF @ = "ABSENT" THEN "ABSENT" ELSE "FAILED"]
    /\ purging' = purging \ {s}
    /\ UNCHANGED <<now, master_salt, passphrase, timestamp, encrypted_dek, links, bucket,
                   writing, session, verified>>

\* The process dies, and its row stays as it is.
Crash(s) ==
    /\ "crash" \in Faults
    /\ s \in writing \cup purging
    /\ writing' = writing \ {s}
    /\ purging' = purging \ {s}
    /\ UNCHANGED <<now, master_salt, passphrase, catalog, bucket, session, verified>>

\* Every RUNNING row is taken for one a dead process left behind.
StartupCleanup ==
    /\ "cleanup" \in Faults
    /\ ~Locked
    /\ estado' = [s \in Snapshots |-> IF estado[s] = "RUNNING" THEN "FAILED" ELSE estado[s]]
    /\ UNCHANGED <<now, master_salt, passphrase, timestamp, encrypted_dek, links, bucket,
                   writing, purging, session, verified>>

-----------------------------------------------------------------------------
(* rotate-kek.                                                              *)

\* The snapshots a rotation wraps anew.
Rotated == {s \in Snapshots : estado[s] \in {"COMPLETED", "EXPIRED"}}

Rewrap(wrapped, kek) == [kek |-> kek, dek |-> wrapped.dek]

\* The rows of a set, wrapped anew.
Rewrapped(rows, kek) ==
    [s \in Snapshots |-> IF s \in rows THEN Rewrap(encrypted_dek[s], kek) ELSE encrypted_dek[s]]

\* rotate-kek runs in the transaction that has read the old salt.
MayRotate ==
    /\ ~Locked
    /\ Initialised /\ master_salt < MaxSalts
    /\ writing = {} \/ "rotate_running" \in Faults

\* rotate_kek_in_database, to its commit.
RotateKek(old, new) ==
    /\ MayRotate
    /\ \A s \in Rotated : Unwraps(s, derive_kek(old, master_salt))
    /\ encrypted_dek' = Rewrapped(Rotated, derive_kek(new, master_salt + 1))
    /\ master_salt' = master_salt + 1
    /\ passphrase' = new
    /\ UNCHANGED <<now, estado, timestamp, links, bucket, writing, purging, session, verified>>

\* Each row is committed as it is wrapped.
SlipCommitted(done) == done

\* What the database keeps of the rows a rotation has come to before it stops:
\* the one commit is after the loop and the salt, and close() rolls back.
Committed(done) == {}

\* The rotation gets no further than the rows of done: the DEK of another does
\* not unwrap, which raises InvalidTag, or the process dies.
RotateInterrupted(old, new) ==
    /\ MayRotate
    /\ \E done \in SUBSET {s \in Rotated : Unwraps(s, derive_kek(old, master_salt))} :
        /\ "crash" \in Faults \/ \E s \in Rotated : ~Unwraps(s, derive_kek(old, master_salt))
        /\ encrypted_dek' = Rewrapped(Committed(done), derive_kek(new, master_salt + 1))
    /\ UNCHANGED <<now, master_salt, passphrase, estado, timestamp, links, bucket,
                   writing, purging, session, verified>>

-----------------------------------------------------------------------------
(* Time, retention and decay.                                               *)

\* Nothing that an open session lets happen looks at the clock.
Tick ==
    /\ ~Locked
    /\ now < MaxTime
    /\ now' = now + 1
    /\ UNCHANGED <<master_salt, passphrase, catalog, bucket, writing, purging, session, verified>>

\* The caller of classify_snapshots lists all rows or the COMPLETED ones, and
\* marks what it is given back.
Expire ==
    /\ ~Locked
    /\ \E rows \in {{s \in Snapshots : estado[s] # "ABSENT"},
                    {s \in Snapshots : estado[s] = "COMPLETED"}} :
          LET given == classify_snapshots(rows, timestamp, estado, now)
          IN  estado' = [s \in Snapshots |-> IF s \in given THEN "EXPIRED" ELSE estado[s]]
    /\ UNCHANGED <<now, master_salt, passphrase, timestamp, encrypted_dek, links, bucket,
                   writing, purging, session, verified>>

\* The purge of BackupPurge, all its steps in one, at the end of some backup.
Purge(s) ==
    /\ ~Locked
    /\ purging # {}
    /\ estado[s] = "EXPIRED"
    /\ estado' = [estado EXCEPT ![s] = "ABSENT"]
    /\ encrypted_dek' = [encrypted_dek EXCEPT ![s] = NoDek]
    /\ links' = [links EXCEPT ![s] = 0]
    /\ bucket' = [bucket EXCEPT ![s] = [q \in Seqs |-> "gone"]]
    /\ verified' = verified \ {s}
    /\ UNCHANGED <<now, master_salt, passphrase, timestamp, writing, purging, session>>

Damaged ==
    {d \in Snapshots \X Seqs : d[2] \in Linked(d[1]) /\ bucket[d[1]][d[2]] # "good"}

\* An object rots, is cut short or lost, also while it is being read.  Nothing
\* reads those of a snapshot that is not COMPLETED, nor will.
Decay(s, q) ==
    /\ estado[s] = "COMPLETED"
    /\ q \in Linked(s)
    /\ Cardinality(Damaged) < MaxDamage
    /\ \E c \in Condition \ {"good"} : bucket' = [bucket EXCEPT ![s][q] = c]
    /\ verified' = verified \ {s}
    /\ session' = IF Locked /\ session.command = "verify_full" /\ session.snapshot = s
                    THEN [session EXCEPT !.clean = FALSE] ELSE session
    /\ UNCHANGED <<now, master_salt, passphrase, catalog, writing, purging>>

-----------------------------------------------------------------------------
(* restore and verify.                                                      *)

\* The links are read with the row, which must be COMPLETED.
Open(command, s, state) ==
    /\ ~Locked
    /\ estado[s] = "COMPLETED"
    /\ session' = [command |-> command, snapshot |-> s, state |-> state,
                   left |-> Linked(s), output |-> <<>>, clean |-> TRUE]
    /\ UNCHANGED <<now, master_salt, passphrase, catalog, bucket, writing, purging, verified>>

Restore(s) ==
    /\ Initialised
    /\ Open("restore", s, "prompt")

\* A snapshot without chunks is not verified.
Verify(command, s) ==
    /\ Linked(s) # {}
    /\ Open(command, s, IF command = "verify_full" THEN "prompt" ELSE "reading")

\* The command has failed, and reads nothing more.
Failed == [session EXCEPT !.state = "failed", !.left = {}]

\* The session goes on.
Continue(next) ==
    /\ session' = next
    /\ UNCHANGED <<now, master_salt, passphrase, catalog, bucket, writing, purging, verified>>

\* restore tries the key before it reads anything.
RestoreKey(p) ==
    /\ Locked /\ session.command = "restore" /\ session.state = "prompt"
    /\ Continue(IF Unwraps(session.snapshot, derive_kek(p, master_salt))
                  THEN [session EXCEPT !.state = "reading"] ELSE Failed)

\* verify --full derives the key and makes no use of it.
VerifyKey ==
    /\ Locked /\ session.command = "verify_full" /\ session.state = "prompt"
    /\ Continue([session EXCEPT !.state = "reading"])

\* verify --full compares sizes.
SlipPasses(command, condition) == condition \in {"good", "rotten"}

\* HEAD shows the size alone, the SHA-256 of the payload everything.
Passes(command, condition) ==
    \/ condition = "good"
    \/ command = "verify_quick" /\ condition = "rotten"

\* Links come as the query returns them.
SlipNextToRead == session.left

\* restore reads in order of chunk_seq.
NextToRead == {q \in session.left : \A r \in session.left : q <= r}

(***************************************************************************)
(* One turn of the loop of restore_snapshot: fetch, check, decrypt, write.  *)
(* What has passed the SHA-256 is the very payload the backup uploaded, so  *)
(* its header and sequence number are right and it opens under the DEK of   *)
(* the backup.                                                              *)
(***************************************************************************)
RestoreChunk(q) ==
    LET s == session.snapshot
    IN  /\ Locked /\ session.command = "restore" /\ session.state = "reading"
        /\ q \in NextToRead
        /\ Continue(IF Passes("restore", bucket[s][q]) /\ encrypted_dek[s].dek = "own"
              THEN [session EXCEPT !.left = @ \ {q}, !.output = Append(@, <<s, q>>)]
              ELSE Failed)

\* One turn of the loop of verify, which asks for no order.
VerifyChunk(q) ==
    /\ Locked /\ session.command # "restore" /\ session.state = "reading"
    /\ q \in session.left
    /\ Continue(IF Passes(session.command, bucket[session.snapshot][q])
          THEN [session EXCEPT !.left = @ \ {q}] ELSE Failed)

\* The loop is over: the command reports success.
Succeed ==
    /\ Locked /\ session.state = "reading"
    /\ session.left = {}
    /\ session' = [session EXCEPT !.state = "ok"]
    /\ verified' =
          IF session.command = "verify_full" /\ session.clean
            THEN verified \cup {session.snapshot} ELSE verified
    /\ UNCHANGED <<now, master_salt, passphrase, catalog, bucket, writing, purging>>

\* S3 does not answer after five attempts, or the operator interrupts.
GiveUp ==
    /\ "read" \in Faults
    /\ Locked /\ session.state \in {"prompt", "reading"}
    /\ Continue(Failed)

\* A failed command leaves its session to the garbage collector.
SlipClose ==
    /\ Locked /\ session.state = "ok"
    /\ session' = NoSession
    /\ UNCHANGED <<now, master_salt, passphrase, catalog, bucket, writing, purging, verified>>

\* finally: session.close()
Close ==
    /\ Locked /\ session.state \in {"ok", "failed"}
    /\ session' = NoSession
    /\ UNCHANGED <<now, master_salt, passphrase, catalog, bucket, writing, purging, verified>>

-----------------------------------------------------------------------------
Backup(s) ==
    \/ StartBackup(s) \/ CompleteBackup(s) \/ FailBackup(s)
    \/ EndBackup(s) \/ GeneralError(s) \/ Crash(s)

\* The operator answers the prompt.
Answer == VerifyKey \/ \E p \in Passphrases : RestoreKey(p)

\* A restore or verify that is past the prompt goes on.
Read == Succeed \/ Close \/ \E q \in Seqs : RestoreChunk(q) \/ VerifyChunk(q)

Next ==
    \/ InitVault \/ StartupCleanup \/ Tick \/ Expire \/ GiveUp \/ Answer \/ Read
    \/ \E s \in Snapshots : Backup(s) \/ Purge(s)
    \/ \E s \in Snapshots, q \in Seqs : Decay(s, q)
    \/ \E s \in Snapshots : Restore(s) \/ Verify("verify_quick", s) \/ Verify("verify_full", s)
    \/ \E old, new \in Passphrases : RotateKek(old, new) \/ RotateInterrupted(old, new)

Spec == Init /\ [][Next]_vars

\* S3 answers or is given up after five attempts.  Nothing makes the operator
\* answer.
FairSpec == Spec /\ WF_vars(Read)

-----------------------------------------------------------------------------
(* Properties.                                                              *)

\* What a rotation has to unwrap, unwraps under the key of the day, and to the
\* DEK the chunks were encrypted with (rotate_kek_in_database, restore_snapshot):
\* otherwise a COMPLETED snapshot is lost and the next rotation raises.  A rotation
\* that stops at any row keeps it too.
CompletedUnwraps ==
    \A s \in Snapshots : estado[s] \in {"COMPLETED", "EXPIRED"} =>
        encrypted_dek[s] = [kek |-> CurrentKek, dek |-> "own"]

\* Whatever happens to objects, keys and sessions, the file that restore_snapshot
\* writes is a beginning of the chunks that are linked to the snapshot, and all of
\* them when it reports success.  (They may be fewer than the dump had: see
\* CompletedIsWhole of BackupPurge.)
OutputIsPrefix ==
    Locked /\ session.command = "restore" =>
        /\ \A i \in DOMAIN session.output : session.output[i] = <<session.snapshot, i - 1>>
        /\ session.state = "ok" => Len(session.output) = links[session.snapshot]

\* A snapshot that verify --full has passed can be restored until an object of it
\* decays or retention drops it, also by those who rotate the key meanwhile.
VerifiedIsRestorable ==
    \A s \in verified : estado[s] = "COMPLETED" =>
        /\ encrypted_dek[s] = [kek |-> CurrentKek, dek |-> "own"]
        /\ \A q \in Linked(s) : bucket[s][q] = "good"

\* Among all snapshots ever started in its week (month), s is the last (first).
LastOfItsWeek(s) ==
    \A r \in Snapshots :
        timestamp[r] # Never /\ WeekOf[timestamp[r]] = WeekOf[timestamp[s]]
            => timestamp[r] <= timestamp[s]

FirstOfItsMonth(s) ==
    \A r \in Snapshots :
        timestamp[r] # Never /\ MonthOf[timestamp[r]] = MonthOf[timestamp[s]]
            => timestamp[s] <= timestamp[r]

\* However often classify_snapshots is applied and acted upon, with whatever
\* failures, the last snapshot of each recent week and the first of each recent
\* month are never given up.
PeriodsSurvive ==
    \A s \in {s \in Snapshots : timestamp[s] # Never} :
        \/ LastOfItsWeek(s) /\ WeekOf[timestamp[s]] \in Recent(WeekOf, RETENTION_WEEKLY, now)
        \/ FirstOfItsMonth(s) /\ MonthOf[timestamp[s]] \in Recent(MonthOf, RETENTION_MONTHLY, now)
        => estado[s] \notin {"EXPIRED", "ABSENT"}

Restorable(s) ==
    /\ estado[s] = "COMPLETED"
    /\ Unwraps(s, CurrentKek)
    /\ \A q \in Linked(s) : bucket[s][q] = "good"

\* Once the backup that made a snapshot has ended, no command, be it one that fails
\* or is interrupted, takes it away from the operators: only the decay of one of its
\* objects does, and the retention policy past the daily window.  Until then the
\* handler of its own backup may still write FAILED over COMPLETED.
AccessKept ==
    [][\A s \in Snapshots : Restorable(s) =>
          \/ Restorable(s)'
          \/ s \in purging /\ estado'[s] = "FAILED"
          \/ bucket'[s] # bucket[s]
          \/ estado'[s] = "EXPIRED" /\ timestamp[s] < now - RETENTION_DAILY]_vars

\* The write lock that restore and verify hold while they read is given back,
\* however they end.  (At the prompt it is held for as long as the operator takes.)
LockReleased == Locked /\ session.state # "prompt" ~> ~Locked
=============================================================================
