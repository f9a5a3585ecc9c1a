--------------------------- MODULE RecoveryProofs ---------------------------
(* Proofs about Recovery, for any vault, calendar and number of snapshots.   *)
EXTENDS Recovery, TLAPS

\* Everything but the read-only commands' bookkeeping.
vault == <<now, master_salt, passphrase, catalog, bucket, writing, purging>>

\* The steps in which restore and verify go on, and those that begin them.
Reading ==
    \/ GiveUp \/ Answer \/ Read
    \/ \E s \in Snapshots : Restore(s) \/ Verify("verify_quick", s) \/ Verify("verify_full", s)

LEMMA TypeInit == Init => TypeOK
<1> SUFFICES ASSUME Init PROVE TypeOK
    OBVIOUS
<1>1. now \in Times /\ master_salt \in 0 .. MaxSalts
    BY RecoveryAssumption, RetentionAssumption DEF Init, Times
<1>2. passphrase \in Passphrases
    BY RecoveryAssumption DEF Init
<1>3. estado \in [Snapshots -> Estados] /\ encrypted_dek \in [Snapshots -> Wrapped \cup {NoDek}]
    BY DEF Init, Estados
<1>4. timestamp \in [Snapshots -> Times \cup {Never}] /\ links \in [Snapshots -> 0 .. Chunks]
    BY RecoveryAssumption DEF Init
<1>5. bucket \in [Snapshots -> [Seqs -> Condition]]
    BY DEF Init, Condition
<1>6. /\ session \in Sessions \cup {NoSession}
      /\ writing \subseteq Snapshots /\ purging \subseteq Snapshots /\ verified \subseteq Snapshots
    BY DEF Init
<1> QED
    BY <1>1, <1>2, <1>3, <1>4, <1>5, <1>6 DEF TypeOK

\* The links of a snapshot number some of the chunks a snapshot may have.
LEMMA LinkedAreSeqs ==
    ASSUME TypeOK, NEW s \in Snapshots
    PROVE  Linked(s) \subseteq Seqs
<1>1. links[s] \in 0 .. Chunks
    BY DEF TypeOK
<1> QED
    BY <1>1, RecoveryAssumption DEF Linked, Seqs

\* What Argon2id makes of a passphrase and the salt of the day is a KEK.
LEMMA DerivedIsKek ==
    ASSUME NEW p \in Passphrases, NEW salt \in 0 .. MaxSalts
    PROVE  derive_kek(p, salt) \in Keks
    BY DEF derive_kek, Keks

\* An open session, wherever it goes on to.
LEMMA SessionFields ==
    ASSUME TypeOK, Locked
    PROVE  /\ session \in Sessions
           /\ session.snapshot \in Snapshots
           /\ session.left \subseteq Seqs
           /\ session.output \in Seq(Snapshots \X Seqs)
    BY DEF TypeOK, Locked, Sessions

LEMMA ContinueKeepsType ==
    ASSUME TypeOK, Locked, NEW state \in {"prompt", "reading", "ok", "failed"}
    PROVE  [session EXCEPT !.state = state] \in Sessions /\ Failed \in Sessions
    BY SessionFields DEF Sessions, Failed

\* A rotation that stops before its commit leaves everything as it was.
LEMMA InterruptedIsNothing ==
    ASSUME TypeOK, NEW old \in Passphrases, NEW new \in Passphrases, RotateInterrupted(old, new)
    PROVE  UNCHANGED vars
<1>1. encrypted_dek' = [s \in Snapshots |-> encrypted_dek[s]]
    BY DEF RotateInterrupted, Rewrapped, Committed
<1>2. encrypted_dek' = encrypted_dek
    BY <1>1 DEF TypeOK
<1> QED
    BY <1>2 DEF RotateInterrupted, vars, catalog

LEMMA ReadingKeepsType ==
    ASSUME TypeOK, Reading
    PROVE  TypeOK'
<1>1. UNCHANGED vault
    BY DEF Reading, Read, Restore, Verify, Open, RestoreKey, VerifyKey, RestoreChunk, VerifyChunk,
           Succeed, GiveUp, Close, Continue, Answer, vault
<1>2. session' \in Sessions \cup {NoSession} /\ verified' \subseteq Snapshots
  <2>1. ASSUME NEW s \in Snapshots, NEW command \in Commands, NEW state \in {"prompt", "reading"},
               Open(command, s, state)
        PROVE  session' \in Sessions /\ verified' = verified
    BY <2>1, LinkedAreSeqs DEF Open, Sessions
  <2>2. CASE \E s \in Snapshots :
              Restore(s) \/ Verify("verify_quick", s) \/ Verify("verify_full", s)
    BY <2>1, <2>2 DEF Restore, Verify, Commands, TypeOK
  <2>3. CASE GiveUp
    BY <2>3, ContinueKeepsType DEF GiveUp, Continue, TypeOK
  <2>4. CASE \E p \in Passphrases : RestoreKey(p)
    BY <2>4, ContinueKeepsType DEF RestoreKey, Continue, TypeOK
  <2>5. CASE VerifyKey
    BY <2>5, ContinueKeepsType DEF VerifyKey, Continue, TypeOK
  <2>6. CASE \E q \in Seqs : RestoreChunk(q)
    <3> PICK q \in Seqs : RestoreChunk(q)
        BY <2>6
    <3>1. Locked
        BY DEF RestoreChunk
    <3>2. Append(session.output, <<session.snapshot, q>>) \in Seq(Snapshots \X Seqs)
        BY <3>1, SessionFields
    <3>3. [session EXCEPT !.left = @ \ {q}, !.output = Append(@, <<session.snapshot, q>>)]
            \in Sessions
        BY <3>1, <3>2, SessionFields DEF Sessions
    <3> QED
        BY <3>1, <3>3, ContinueKeepsType DEF RestoreChunk, Continue, TypeOK
  <2>7. CASE \E q \in Seqs : VerifyChunk(q)
    <3> PICK q \in Seqs : VerifyChunk(q)
        BY <2>7
    <3>1. [session EXCEPT !.left = @ \ {q}] \in Sessions
        BY SessionFields DEF VerifyChunk, Sessions
    <3> QED
        BY <3>1, ContinueKeepsType DEF VerifyChunk, Continue, TypeOK
  <2>8. CASE Succeed
    BY <2>8, ContinueKeepsType, SessionFields DEF Succeed, TypeOK
  <2>9. CASE Close
    BY <2>9 DEF Close, TypeOK
  <2> QED
    BY <2>2, <2>3, <2>4, <2>5, <2>6, <2>7, <2>8, <2>9 DEF Reading, Read, Answer
<1> QED
    BY <1>1, <1>2 DEF TypeOK, vault, catalog

LEMMA DecayKeepsType ==
    ASSUME TypeOK, NEW s \in Snapshots, NEW q \in Seqs, Decay(s, q)
    PROVE  TypeOK'
<1>1. PICK c \in Condition : bucket' = [bucket EXCEPT ![s][q] = c]
    BY DEF Decay
<1>2. bucket' \in [Snapshots -> [Seqs -> Condition]]
    BY <1>1 DEF TypeOK
<1>3. session' \in Sessions \cup {NoSession}
  <2>1. CASE Locked
    BY <2>1, SessionFields DEF Decay, Sessions
  <2>2. CASE ~Locked
    BY <2>2 DEF Decay, TypeOK
  <2> QED
    BY <2>1, <2>2
<1> QED
    BY <1>2, <1>3 DEF TypeOK, Decay, catalog

LEMMA BackupKeepsType ==
    ASSUME TypeOK, NEW s \in Snapshots, Backup(s)
    PROVE  TypeOK'
<1>1. CASE StartBackup(s)
  <2>1. PICK p \in Passphrases :
          encrypted_dek' = [encrypted_dek EXCEPT
              ![s] = [kek |-> derive_kek(p, master_salt), dek |-> "own"]]
    BY <1>1 DEF StartBackup
  <2>2. [kek |-> derive_kek(p, master_salt), dek |-> "own"] \in Wrapped
    BY DerivedIsKek DEF TypeOK, Wrapped, Deks
  <2>3. encrypted_dek' \in [Snapshots -> Wrapped \cup {NoDek}]
    BY <2>1, <2>2 DEF TypeOK
  <2> QED
    BY <1>1, <2>3 DEF StartBackup, TypeOK, Estados
<1>2. CASE CompleteBackup(s)
  <2>1. PICK n \in 0 .. Chunks :
          /\ links' = [links EXCEPT ![s] = n]
          /\ bucket' = [bucket EXCEPT ![s] = [q \in Seqs |-> IF q < n THEN "good" ELSE "gone"]]
    BY <1>2 DEF CompleteBackup
  <2>2. [q \in Seqs |-> IF q < n THEN "good" ELSE "gone"] \in [Seqs -> Condition]
    BY DEF Condition
  <2>3. bucket' \in [Snapshots -> [Seqs -> Condition]]
    BY <2>1, <2>2 DEF TypeOK
  <2> QED
    BY <1>2, <2>1, <2>3 DEF CompleteBackup, GoOnToPurge, TypeOK, Estados
<1>3. CASE FailBackup(s)
    BY <1>3 DEF FailBackup, GoOnToPurge, TypeOK, Estados
<1>4. CASE Crash(s)
    BY <1>4 DEF Crash, TypeOK, catalog
<1>5. CASE EndBackup(s)
    BY <1>5 DEF EndBackup, TypeOK, catalog
<1>6. CASE GeneralError(s)
    BY <1>6 DEF GeneralError, TypeOK, Estados
<1> QED
    BY <1>1, <1>2, <1>3, <1>4, <1>5, <1>6 DEF Backup

LEMMA RotateKeepsType ==
    ASSUME TypeOK, NEW old \in Passphrases, NEW new \in Passphrases, RotateKek(old, new)
    PROVE  TypeOK'
<1>1. master_salt' = master_salt + 1 /\ master_salt' \in 0 .. MaxSalts
    BY RecoveryAssumption DEF RotateKek, MayRotate, TypeOK
<1>2. derive_kek(new, master_salt + 1) \in Keks
    BY <1>1, DerivedIsKek
<1>3. ASSUME NEW s \in Rotated
      PROVE  Rewrap(encrypted_dek[s], derive_kek(new, master_salt + 1)) \in Wrapped
  <2>1. s \in Snapshots /\ encrypted_dek[s].kek = derive_kek(old, master_salt)
    BY <1>3 DEF RotateKek, MayRotate, Unwraps, Rotated
  <2>2. encrypted_dek[s] # NoDek
    BY <2>1 DEF derive_kek, NoDek, TypeOK, RotateKek, MayRotate, Initialised
  <2>3. encrypted_dek[s] \in Wrapped
    BY <2>1, <2>2 DEF TypeOK
  <2> QED
    BY <1>2, <2>3 DEF Rewrap, Wrapped
<1>4. encrypted_dek' \in [Snapshots -> Wrapped \cup {NoDek}]
    BY <1>3 DEF RotateKek, Rewrapped, TypeOK, Rotated
<1> QED
    BY <1>1, <1>4 DEF RotateKek, MayRotate, TypeOK

LEMMA TypeNext == TypeOK /\ [Next]_vars => TypeOK'
<1> SUFFICES ASSUME TypeOK, [Next]_vars PROVE TypeOK'
    OBVIOUS
<1>1. CASE InitVault
    BY <1>1, RecoveryAssumption DEF InitVault, TypeOK, catalog
<1>2. CASE StartupCleanup
    BY <1>2 DEF StartupCleanup, TypeOK, Estados
<1>3. CASE Tick
    BY <1>3, RetentionAssumption DEF Tick, TypeOK, Times, catalog
<1>4. CASE Expire
  <2>1. estado' \in [Snapshots -> Estados]
    BY <1>4 DEF Expire, TypeOK, Estados
  <2> QED
    BY <1>4, <2>1 DEF Expire, TypeOK
<1>5. CASE Reading
    BY <1>5, ReadingKeepsType
<1>6. ASSUME NEW s \in Snapshots, Backup(s)
      PROVE  TypeOK'
    BY <1>6, BackupKeepsType
<1>7. ASSUME NEW s \in Snapshots, Purge(s)
      PROVE  TypeOK'
  <2>1. bucket' \in [Snapshots -> [Seqs -> Condition]]
    BY <1>7 DEF Purge, TypeOK, Condition
  <2>2. links' \in [Snapshots -> 0 .. Chunks]
    BY <1>7, RecoveryAssumption DEF Purge, TypeOK
  <2> QED
    BY <1>7, <2>1, <2>2 DEF Purge, TypeOK, Estados
<1>8. ASSUME NEW s \in Snapshots, NEW q \in Seqs, Decay(s, q)
      PROVE  TypeOK'
    BY <1>8, DecayKeepsType
<1>9. ASSUME NEW old \in Passphrases, NEW new \in Passphrases, RotateKek(old, new)
      PROVE  TypeOK'
    BY <1>9, RotateKeepsType
<1>10. CASE UNCHANGED vars
    BY <1>10 DEF vars, catalog, TypeOK
<1>11. ASSUME NEW old \in Passphrases, NEW new \in Passphrases, RotateInterrupted(old, new)
      PROVE  TypeOK'
    BY <1>10, <1>11, InterruptedIsNothing
<1> QED
    BY <1>1, <1>2, <1>3, <1>4, <1>5, <1>6, <1>7, <1>8, <1>9, <1>10, <1>11 DEF Next, Reading

\* The tables, the sessions and the bucket keep their types.
THEOREM TypeCorrect == Spec => []TypeOK
<1> QED
    BY TypeInit, TypeNext, PTL DEF Spec

-----------------------------------------------------------------------------
(* Rows: when they were started, and who writes them.                        *)

\* A row that is or was there has the instant of its start, which is its alone.
Started ==
    \A s \in Snapshots :
        /\ estado[s] # "ABSENT" => timestamp[s] # Never
        /\ timestamp[s] <= now
        /\ timestamp[s] # Never => \A r \in Snapshots : timestamp[r] = timestamp[s] => r = s

\* Only what RUNs, or a cleanup has taken for dead, is being written.
WritersOpen == \A s \in writing : estado[s] \in {"RUNNING", "FAILED"}

\* No backup is started before the salt is there.
SaltFirst == Initialised \/ \A s \in Snapshots : timestamp[s] = Never

Rows == TypeOK /\ Started /\ WritersOpen /\ SaltFirst

\* What an action of the reading commands leaves alone.
LEMMA ReadingKeepsVault ==
    ASSUME Reading
    PROVE  UNCHANGED vault
BY DEF Reading, Read, Restore, Verify, Open, RestoreKey, VerifyKey, RestoreChunk, VerifyChunk,
       Succeed, GiveUp, Close, Continue, Answer, vault

\* Retention marks some COMPLETED snapshots and nothing else.
LEMMA ExpireMarks ==
    ASSUME TypeOK, Expire, NEW s \in Snapshots
    PROVE  \/ estado'[s] = estado[s]
           \/ estado[s] = "COMPLETED" /\ estado'[s] = "EXPIRED"
BY DEF Expire, classify_snapshots, TypeOK

LEMMA RowsNext == Rows /\ [Next]_vars => Rows'
<1> SUFFICES ASSUME Rows, [Next]_vars PROVE (Started /\ WritersOpen /\ SaltFirst)'
    BY TypeNext DEF Rows
<1> USE DEF Rows, Started, WritersOpen, SaltFirst, Initialised
<1>1. CASE InitVault
    BY <1>1 DEF InitVault, catalog
<1>2. CASE StartupCleanup
    BY <1>2 DEF StartupCleanup, TypeOK
<1>3. CASE Tick
    BY <1>3 DEF Tick, TypeOK, Times, Never, catalog
<1>4. CASE Expire
  <2>1. writing \subseteq Snapshots
    BY DEF TypeOK
  <2> QED
    BY <1>4, <2>1, ExpireMarks DEF Expire
<1>5. CASE Reading
    BY <1>5, ReadingKeepsVault DEF vault, catalog
<1>6. ASSUME NEW s \in Snapshots, Backup(s)
      PROVE  (Started /\ WritersOpen /\ SaltFirst)'
  <2>1. CASE StartBackup(s)
    <3>1. /\ Initialised
          /\ \A r \in Snapshots : timestamp[r] # now
          /\ estado' = [estado EXCEPT ![s] = "RUNNING"]
          /\ timestamp' = [timestamp EXCEPT ![s] = now]
          /\ writing' = writing \cup {s}
          /\ UNCHANGED <<now, master_salt>>
      BY <2>1 DEF StartBackup
    <3> QED
      BY <3>1 DEF TypeOK, Times, Never
  <2>2. CASE CompleteBackup(s)
    BY <2>2 DEF CompleteBackup, GoOnToPurge, TypeOK
  <2>3. CASE FailBackup(s)
    BY <2>3 DEF FailBackup, GoOnToPurge, TypeOK
  <2>4. CASE Crash(s)
    BY <2>4 DEF Crash, catalog
  <2>5. CASE EndBackup(s)
    BY <2>5 DEF EndBackup, catalog
  <2>6. CASE GeneralError(s)
    BY <2>6 DEF GeneralError, TypeOK
  <2> QED
    BY <1>6, <2>1, <2>2, <2>3, <2>4, <2>5, <2>6 DEF Backup
<1>7. ASSUME NEW s \in Snapshots, Purge(s)
      PROVE  (Started /\ WritersOpen /\ SaltFirst)'
    BY <1>7 DEF Purge, TypeOK
<1>8. ASSUME NEW s \in Snapshots, NEW q \in Seqs, Decay(s, q)
      PROVE  (Started /\ WritersOpen /\ SaltFirst)'
    BY <1>8 DEF Decay, catalog
<1>9. ASSUME NEW old \in Passphrases, NEW new \in Passphrases, RotateKek(old, new)
      PROVE  (Started /\ WritersOpen /\ SaltFirst)'
    BY <1>9 DEF RotateKek, MayRotate, TypeOK
<1>10. CASE UNCHANGED vars
    BY <1>10 DEF vars, catalog
<1>11. ASSUME NEW old \in Passphrases, NEW new \in Passphrases, RotateInterrupted(old, new)
      PROVE  (Started /\ WritersOpen /\ SaltFirst)'
    BY <1>10, <1>11, InterruptedIsNothing DEF Rows
<1> QED
    BY <1>1, <1>2, <1>3, <1>4, <1>5, <1>6, <1>7, <1>8, <1>9, <1>10, <1>11 DEF Next, Reading

LEMMA RowsInit == Init => Rows
BY TypeInit DEF Rows, Init, Started, WritersOpen, SaltFirst, Never

LEMMA RowsAlways == Spec => []Rows
<1> QED
    BY RowsInit, RowsNext, PTL DEF Spec

-----------------------------------------------------------------------------
(* Keys.                                                                     *)

\* Backups know the passphrase of the vault, and rotations wait for them to end.
CarefulOperators == Faults \cap {"rotate_running", "stale_passphrase"} = {}

\* The DEK of the snapshot, under the key of the day.
WrappedNow(s) == encrypted_dek[s] = [kek |-> CurrentKek, dek |-> "own"]

\* CompletedUnwraps holds of what is being written as well.
Keys ==
    \A s \in Snapshots :
        s \in writing \/ estado[s] \in {"COMPLETED", "EXPIRED"} => WrappedNow(s)

LEMMA KeysNext ==
    ASSUME CarefulOperators, Rows, Keys, [Next]_vars
    PROVE  Keys'
<1>0. \A s \in writing : s \in Snapshots /\ timestamp[s] # Never
    BY DEF Rows, Started, WritersOpen, TypeOK
<1> USE DEF Keys, Rows, WrappedNow, CurrentKek, Initialised
<1>1. CASE InitVault
    BY <1>0, <1>1 DEF InitVault, catalog, Started, SaltFirst
<1>2. CASE StartupCleanup
    BY <1>2 DEF StartupCleanup, TypeOK
<1>3. CASE Tick
    BY <1>3 DEF Tick, catalog
<1>4. CASE Expire
    BY <1>4, ExpireMarks DEF Expire
<1>5. CASE Reading
    BY <1>5, ReadingKeepsVault DEF vault, catalog
<1>6. ASSUME NEW s \in Snapshots, Backup(s)
      PROVE  Keys'
  <2>1. CASE StartBackup(s)
    <3>1. encrypted_dek' = [encrypted_dek EXCEPT ![s] = [kek |-> CurrentKek, dek |-> "own"]]
        BY <2>1 DEF StartBackup, CarefulOperators
    <3> QED
        BY <2>1, <3>1 DEF StartBackup, TypeOK
  <2>2. CASE CompleteBackup(s)
    BY <2>2 DEF CompleteBackup, GoOnToPurge, TypeOK
  <2>3. CASE FailBackup(s)
    BY <2>3 DEF FailBackup, GoOnToPurge, TypeOK
  <2>4. CASE Crash(s)
    BY <2>4 DEF Crash, catalog
  <2>5. CASE EndBackup(s)
    BY <2>5 DEF EndBackup, catalog
  <2>6. CASE GeneralError(s)
    BY <2>6 DEF GeneralError, TypeOK
  <2> QED
    BY <1>6, <2>1, <2>2, <2>3, <2>4, <2>5, <2>6 DEF Backup
<1>7. ASSUME NEW s \in Snapshots, Purge(s)
      PROVE  Keys'
    BY <1>7 DEF Purge, TypeOK, WritersOpen
<1>8. ASSUME NEW s \in Snapshots, NEW q \in Seqs, Decay(s, q)
      PROVE  Keys'
    BY <1>8 DEF Decay, catalog
<1>9. ASSUME NEW old \in Passphrases, NEW new \in Passphrases, RotateKek(old, new)
      PROVE  Keys'
  <2>1. writing = {} /\ writing' = {} /\ estado' = estado /\ timestamp' = timestamp
    BY <1>9 DEF RotateKek, MayRotate, CarefulOperators
  <2>2. CurrentKek' = derive_kek(new, master_salt + 1)
    BY <1>9 DEF RotateKek
  <2>3. \A s \in Rotated : encrypted_dek'[s] = [kek |-> CurrentKek', dek |-> "own"]
    BY <1>9, <2>2 DEF RotateKek, Rewrapped, Rotated, Rewrap, TypeOK
  <2>4. Initialised /\ Initialised'
    BY <1>9 DEF RotateKek, MayRotate, TypeOK
  <2> QED
    BY <2>1, <2>3, <2>4 DEF Rotated
<1>10. CASE UNCHANGED vars
    BY <1>10 DEF vars, catalog
<1>11. ASSUME NEW old \in Passphrases, NEW new \in Passphrases, RotateInterrupted(old, new)
      PROVE  Keys'
    BY <1>10, <1>11, InterruptedIsNothing DEF Rows
<1> QED
    BY <1>1, <1>2, <1>3, <1>4, <1>5, <1>6, <1>7, <1>8, <1>9, <1>10, <1>11 DEF Next, Reading

LEMMA KeysInit == Init => Keys
BY DEF Init, Keys

\* As long as backups know the passphrase and rotations wait for them to end, the
\* DEK of every COMPLETED or EXPIRED snapshot unwraps under the key of the day, to
\* the key its chunks were encrypted with.
THEOREM EveryDekUnwraps == CarefulOperators => (Spec => []CompletedUnwraps)
<1> SUFFICES ASSUME CarefulOperators PROVE Spec => []CompletedUnwraps
    OBVIOUS
<1>1. Rows /\ Keys /\ [Next]_vars => Keys'
    BY KeysNext
<1>2. Keys => CompletedUnwraps
    BY DEF Keys, CompletedUnwraps, WrappedNow
<1> QED
    BY <1>1, <1>2, KeysInit, RowsAlways, PTL DEF Spec

-----------------------------------------------------------------------------
(* restore.                                                                  *)

\* The lock keeps everybody out but the reader itself; processes may die, and
\* objects decay.
LEMMA LockExcludes ==
    ASSUME Locked, Next
    PROVE  \/ Reading
           \/ \E s \in Snapshots : Crash(s)
           \/ \E s \in Snapshots, q \in Seqs : Decay(s, q)
BY DEF Next, Reading, Backup, InitVault, StartupCleanup, Tick, Expire, StartBackup, CompleteBackup,
       FailBackup, EndBackup, GeneralError, Purge, RotateKek, RotateInterrupted, MayRotate

\* Nobody opens a session but restore and verify.
LEMMA OnlyReadersOpen ==
    ASSUME ~Locked, [Next]_vars, ~Reading
    PROVE  ~Locked'
BY DEF Next, vars, Reading, Backup, InitVault, StartupCleanup, Tick, Expire, StartBackup,
       CompleteBackup, FailBackup, EndBackup, GeneralError, Crash, Purge, Decay, RotateKek,
       RotateInterrupted, Locked, NoSession

\* How far a restore has come, and what it has still to read.
RestoreProgress ==
    Locked /\ session.command = "restore" =>
        LET n == Len(session.output)
        IN  /\ \A i \in 1 .. n : session.output[i] = <<session.snapshot, i - 1>>
            /\ n <= links[session.snapshot]
            /\ session.state \in {"prompt", "reading"} =>
                  session.left = n .. links[session.snapshot] - 1
            /\ session.state = "ok" => n = links[session.snapshot]

LEMMA RestoreProgressNext ==
    ASSUME TypeOK, RestoreProgress, [Next]_vars
    PROVE  RestoreProgress'
<1> USE DEF RestoreProgress
<1>1. CASE Reading
  <2>0. UNCHANGED vault /\ UNCHANGED links
    BY <1>1, ReadingKeepsVault DEF vault, catalog
  <2>1. CASE \E s \in Snapshots :
              Restore(s) \/ Verify("verify_quick", s) \/ Verify("verify_full", s)
    <3>1. PICK s \in Snapshots, command \in Commands, state \in {"prompt", "reading"} :
            Open(command, s, state)
        BY <2>1 DEF Restore, Verify, Commands
    <3>2. links[s] \in Nat /\ links'[s] = links[s]
        BY <2>0, RecoveryAssumption DEF TypeOK
    <3>3. /\ session'.output = <<>> /\ session'.snapshot = s
          /\ session'.left = 0 .. links[s] - 1 /\ session'.state = state
        BY <3>1 DEF Open, Linked
    <3> QED
        BY <3>2, <3>3
  <2>2. CASE GiveUp
    BY <2>0, <2>2, SessionFields DEF GiveUp, Continue, Failed, Sessions, Locked
  <2>3. CASE \E p \in Passphrases : RestoreKey(p)
    BY <2>0, <2>3, SessionFields DEF RestoreKey, Continue, Failed, Sessions, Locked
  <2>4. CASE VerifyKey
    BY <2>0, <2>4, SessionFields DEF VerifyKey, Continue, Sessions, Locked
  <2>5. CASE \E q \in Seqs : RestoreChunk(q)
    <3> PICK q \in Seqs : RestoreChunk(q)
        BY <2>5
    <3> DEFINE s == session.snapshot
               n == Len(session.output)
    <3>1. /\ session \in Sessions /\ s \in Snapshots /\ Locked
          /\ session.command = "restore" /\ session.state = "reading"
          /\ session.output \in Seq(Snapshots \X Seqs) /\ n \in Nat
        BY SessionFields DEF RestoreChunk
    <3>2. links[s] \in Nat
        BY <3>1, RecoveryAssumption DEF TypeOK
    <3>3. session.left = n .. links[s] - 1 /\ q \in session.left
        BY <3>1 DEF RestoreChunk, NextToRead
    <3>4. q = n
        BY <3>1, <3>2, <3>3 DEF RestoreChunk, NextToRead
    <3>5. CASE session' = [session EXCEPT !.left = @ \ {q}, !.output = Append(@, <<s, q>>)]
      <4>1. /\ session'.output = Append(session.output, <<s, n>>)
            /\ session'.left = session.left \ {n}
            /\ session'.snapshot = s /\ session'.state = "reading"
          BY <3>1, <3>4, <3>5 DEF Sessions
      <4>2. Len(session'.output) = n + 1
          BY <3>1, <4>1
      <4>3. \A i \in 1 .. n + 1 : session'.output[i] = <<s, i - 1>>
          BY <3>1, <4>1
      <4>4. session'.left = n + 1 .. links[s] - 1 /\ n + 1 <= links[s]
          BY <3>1, <3>2, <3>3, <3>4, <4>1
      <4> QED
          BY <2>0, <4>1, <4>2, <4>3, <4>4
    <3>6. CASE session' = Failed
        BY <2>0, <3>1, <3>6 DEF Sessions, Failed
    <3> QED
        BY <3>5, <3>6 DEF RestoreChunk, Continue
  <2>6. CASE \E q \in Seqs : VerifyChunk(q)
    BY <2>0, <2>6, SessionFields DEF VerifyChunk, Continue, Failed, Sessions, Locked
  <2>7. CASE Succeed
    <3>1. session.command = "restore" => Len(session.output) = links[session.snapshot]
      <4> SUFFICES ASSUME session.command = "restore"
                   PROVE  Len(session.output) = links[session.snapshot]
          OBVIOUS
      <4>1. session.output \in Seq(Snapshots \X Seqs) /\ session.snapshot \in Snapshots
          BY <2>7, SessionFields DEF Succeed
      <4>2. links[session.snapshot] \in Nat /\ Len(session.output) \in Nat
          BY <4>1, RecoveryAssumption DEF TypeOK
      <4>3. Len(session.output) .. links[session.snapshot] - 1 = {}
            /\ Len(session.output) <= links[session.snapshot]
          BY <2>7 DEF Succeed
      <4>4. \A a, b \in Nat : a .. b - 1 = {} /\ a <= b => a = b
        <5> SUFFICES ASSUME NEW a \in Nat, NEW b \in Nat, a .. b - 1 = {}, a <= b, a # b
                     PROVE  FALSE
            OBVIOUS
        <5>1. a \in a .. b - 1
            OBVIOUS
        <5> QED
            BY <5>1
      <4> QED
          BY <4>2, <4>3, <4>4
    <3> QED
        BY <2>0, <2>7, <3>1, SessionFields DEF Succeed, Sessions, Locked
  <2>8. CASE Close
    BY <2>8 DEF Close, Locked
  <2> QED
    BY <1>1, <2>1, <2>2, <2>3, <2>4, <2>5, <2>6, <2>7, <2>8 DEF Reading, Read, Answer
<1>2. CASE ~Reading /\ ~Locked
    BY <1>2, OnlyReadersOpen
<1>3. CASE ~Reading /\ Locked
  <2>1. ASSUME NEW s \in Snapshots, Crash(s)
        PROVE  UNCHANGED <<session, links>>
    BY <2>1 DEF Crash, catalog
  <2>2. ASSUME NEW s \in Snapshots, NEW q \in Seqs, Decay(s, q)
        PROVE  session' \in {session, [session EXCEPT !.clean = FALSE]} /\ links' = links
    BY <1>3, <2>2 DEF Decay, catalog
  <2>3. CASE UNCHANGED vars
    BY <2>3 DEF vars, catalog, Locked
  <2> QED
    BY <1>3, <2>1, <2>2, <2>3, LockExcludes, SessionFields DEF Sessions, Locked
<1> QED
    BY <1>1, <1>2, <1>3

\* Whatever decays, whichever key is tried and whoever gives up: the file a restore
\* writes is a beginning of the chunks that are linked to the snapshot, and all of
\* them when it reports success.
THEOREM RestoredIsPrefix == Spec => []OutputIsPrefix
<1>1. Init => RestoreProgress
    BY DEF Init, RestoreProgress, Locked
<1>2. TypeOK /\ RestoreProgress /\ [Next]_vars => RestoreProgress'
    BY RestoreProgressNext
<1>3. TypeOK /\ RestoreProgress => OutputIsPrefix
  <2> SUFFICES ASSUME TypeOK, RestoreProgress, Locked, session.command = "restore"
               PROVE  /\ \A i \in DOMAIN session.output :
                            session.output[i] = <<session.snapshot, i - 1>>
                      /\ session.state = "ok" => Len(session.output) = links[session.snapshot]
      BY DEF OutputIsPrefix
  <2>1. DOMAIN session.output = 1 .. Len(session.output)
      BY SessionFields
  <2> QED
      BY <2>1 DEF RestoreProgress
<1> QED
    BY <1>1, <1>2, <1>3, TypeCorrect, PTL DEF Spec

-----------------------------------------------------------------------------
(* verify --full.                                                            *)

Whole(s) == \A q \in Linked(s) : bucket[s][q] = "good"

\* What is read and what was verified is still a row, and its objects are as verify
\* has seen them.
VerifyProgress ==
    /\ Locked => estado[session.snapshot] = "COMPLETED"
    /\ Locked /\ session.command = "verify_full" /\ session.clean =>
          \A q \in Linked(session.snapshot) \ session.left :
              session.state \in {"prompt", "reading"} => bucket[session.snapshot][q] = "good"
    /\ \A s \in verified :
          s \notin writing /\ estado[s] \in {"COMPLETED", "EXPIRED", "FAILED"} /\ Whole(s)

LEMMA VerifyProgressNext ==
    ASSUME Rows, VerifyProgress, [Next]_vars
    PROVE  VerifyProgress'
<1>0. TypeOK
    BY DEF Rows
<1> USE DEF VerifyProgress, Whole, Linked
<1>1. CASE Reading
  <2>0. UNCHANGED <<estado, links, bucket, writing>>
    BY <1>1, ReadingKeepsVault DEF vault, catalog
  <2>1. CASE \E s \in Snapshots :
              Restore(s) \/ Verify("verify_quick", s) \/ Verify("verify_full", s)
    <3>1. PICK s \in Snapshots, command \in Commands, state \in {"prompt", "reading"} :
            Open(command, s, state)
        BY <2>1 DEF Restore, Verify, Commands
    <3>2. /\ session'.snapshot = s /\ session'.left = Linked(s) /\ estado[s] = "COMPLETED"
          /\ verified' = verified
        BY <3>1 DEF Open
    <3> QED
        BY <2>0, <3>2
  <2>2. CASE GiveUp
    BY <1>0, <2>0, <2>2, SessionFields DEF GiveUp, Continue, Failed, Sessions, Locked
  <2>3. CASE \E p \in Passphrases : RestoreKey(p)
    BY <1>0, <2>0, <2>3, SessionFields DEF RestoreKey, Continue, Failed, Sessions, Locked
  <2>4. CASE VerifyKey
    BY <1>0, <2>0, <2>4, SessionFields DEF VerifyKey, Continue, Sessions, Locked
  <2>5. CASE \E q \in Seqs : RestoreChunk(q)
    <3> PICK q \in Seqs : RestoreChunk(q)
        BY <2>5
    <3>1. session \in Sessions /\ Locked /\ session.command = "restore" /\ verified' = verified
        BY <1>0, SessionFields DEF RestoreChunk, Continue
    <3>2. session'.command = "restore" /\ session'.snapshot = session.snapshot
      <4>1. CASE session' = Failed
        BY <3>1, <4>1 DEF Sessions, Failed
      <4>2. CASE session' = [session EXCEPT
                    !.left = @ \ {q}, !.output = Append(@, <<session.snapshot, q>>)]
        BY <3>1, <4>2 DEF Sessions
      <4> QED
        BY <4>1, <4>2 DEF RestoreChunk, Continue
    <3> QED
        BY <2>0, <3>1, <3>2
  <2>6. CASE \E q \in Seqs : VerifyChunk(q)
    <3> PICK q \in Seqs : VerifyChunk(q)
        BY <2>6
    <3>1. session \in Sessions /\ Locked /\ session.state = "reading" /\ verified' = verified
        BY <1>0, SessionFields DEF VerifyChunk, Continue
    <3>2. CASE session' = Failed
        BY <2>0, <3>1, <3>2 DEF Sessions, Failed
    <3>3. CASE /\ session' = [session EXCEPT !.left = @ \ {q}]
               /\ Passes(session.command, bucket[session.snapshot][q])
      <4>1. /\ session'.left = session.left \ {q} /\ session'.snapshot = session.snapshot
            /\ session'.command = session.command /\ session'.clean = session.clean
          BY <3>1, <3>3 DEF Sessions
      <4>2. session.command = "verify_full" => bucket[session.snapshot][q] = "good"
          BY <3>3 DEF Passes
      <4> QED
          BY <2>0, <3>1, <4>1, <4>2
    <3> QED
        BY <3>2, <3>3 DEF VerifyChunk, Continue
  <2>7. CASE Succeed
    <3>1. estado[session.snapshot] = "COMPLETED" => session.snapshot \notin writing
      BY DEF Rows, WritersOpen
    <3> QED
      BY <1>0, <2>0, <2>7, <3>1, SessionFields DEF Succeed, Sessions, Locked
  <2>8. CASE Close
    BY <2>0, <2>8 DEF Close, Locked
  <2> QED
    BY <1>1, <2>1, <2>2, <2>3, <2>4, <2>5, <2>6, <2>7, <2>8 DEF Reading, Read, Answer
<1>2. ASSUME NEW s \in Snapshots, NEW q \in Seqs, Decay(s, q)
      PROVE  VerifyProgress'
  <2>1. PICK c \in Condition : bucket' = [bucket EXCEPT ![s][q] = c]
    BY <1>2 DEF Decay
  <2>2. \A r \in Snapshots : r # s => bucket'[r] = bucket[r]
    BY <1>0, <2>1 DEF TypeOK
  <2>3. \A r \in verified' : r \in Snapshots /\ r # s /\ r \in verified
    BY <1>0, <1>2 DEF Decay, TypeOK
  <2>4. UNCHANGED <<estado, links, writing>>
    BY <1>2 DEF Decay, catalog
  <2>5. CASE Locked
    BY <1>0, <1>2, <2>2, <2>3, <2>4, <2>5, SessionFields DEF Decay, Sessions, Locked
  <2>6. CASE ~Locked
    BY <1>2, <2>2, <2>3, <2>4, <2>6 DEF Decay, Locked
  <2> QED
    BY <2>5, <2>6
<1>3. ASSUME NEW s \in Snapshots, Crash(s)
      PROVE  VerifyProgress'
    BY <1>3 DEF Crash, catalog, Locked
<1>4. CASE UNCHANGED vars
    BY <1>4 DEF vars, catalog, Locked
<1>5. ASSUME ~Locked, ~Locked'
      PROVE  \/ VerifyProgress'
             \/ Reading \/ (\E s \in Snapshots : Crash(s))
             \/ (\E s \in Snapshots, q \in Seqs : Decay(s, q)) \/ UNCHANGED vars
  <2> SUFFICES ASSUME ~Reading, Next, \A s \in Snapshots : ~Crash(s),
                      \A s \in Snapshots, q \in Seqs : ~Decay(s, q)
               PROVE  VerifyProgress'
      OBVIOUS
  <2> USE <1>0, <1>5
  <2>1. CASE InitVault
    BY <2>1 DEF InitVault, catalog
  <2>2. CASE StartupCleanup
    BY <2>2 DEF StartupCleanup, TypeOK
  <2>3. CASE Tick
    BY <2>3 DEF Tick, catalog
  <2>4. CASE Expire
    <3>1. verified \subseteq Snapshots
      BY DEF TypeOK
    <3> QED
      BY <2>4, <3>1, ExpireMarks DEF Expire
  <2>5. ASSUME NEW s \in Snapshots, StartBackup(s) \/ CompleteBackup(s) \/ FailBackup(s)
        PROVE  VerifyProgress'
    <3>1. s \notin verified /\ verified' = verified
        BY <2>5 DEF StartBackup, CompleteBackup, FailBackup, Rows, Started
    <3>2. \A r \in verified : r \in Snapshots /\ r # s
        BY <3>1 DEF TypeOK
    <3>3. \A r \in verified :
            /\ estado'[r] = estado[r] /\ links'[r] = links[r] /\ bucket'[r] = bucket[r]
            /\ r \in writing' => r \in writing
        BY <2>5, <3>2 DEF StartBackup, CompleteBackup, FailBackup, GoOnToPurge, TypeOK
    <3> QED
        BY <3>1, <3>3
  <2>6. ASSUME NEW s \in Snapshots, Purge(s)
        PROVE  VerifyProgress'
    BY <2>6 DEF Purge, TypeOK
  <2>7. ASSUME NEW old \in Passphrases, NEW new \in Passphrases, RotateKek(old, new)
        PROVE  VerifyProgress'
    BY <2>7 DEF RotateKek
  <2>8. ASSUME NEW s \in Snapshots, EndBackup(s)
        PROVE  VerifyProgress'
    BY <2>8 DEF EndBackup, catalog
  <2>9. ASSUME NEW s \in Snapshots, GeneralError(s)
        PROVE  VerifyProgress'
    BY <2>9 DEF GeneralError, TypeOK
  <2>10. ASSUME NEW old \in Passphrases, NEW new \in Passphrases, RotateInterrupted(old, new)
        PROVE  VerifyProgress'
    BY <2>10, InterruptedIsNothing DEF vars, catalog
  <2> QED
    BY <2>1, <2>2, <2>3, <2>4, <2>5, <2>6, <2>7, <2>8, <2>9, <2>10 DEF Next, Reading, Backup
<1> QED
    BY <1>1, <1>2, <1>3, <1>4, <1>5, LockExcludes, OnlyReadersOpen

\* As long as operators are careful with keys, what verify --full has passed can be
\* restored until one of its objects decays, although verify never tries the DEK.
THEOREM VerifiedStaysRestorable == CarefulOperators => (Spec => []VerifiedIsRestorable)
<1> SUFFICES ASSUME CarefulOperators PROVE Spec => []VerifiedIsRestorable
    OBVIOUS
<1>1. Init => VerifyProgress
    BY DEF Init, VerifyProgress, Locked
<1>2. Rows /\ VerifyProgress /\ [Next]_vars => VerifyProgress'
    BY VerifyProgressNext
<1>3. Rows /\ VerifyProgress /\ CompletedUnwraps => VerifiedIsRestorable
    BY DEF Rows, TypeOK, VerifyProgress, Whole, CompletedUnwraps, VerifiedIsRestorable
<1> QED
    BY <1>1, <1>2, <1>3, RowsAlways, EveryDekUnwraps, PTL DEF Spec

-----------------------------------------------------------------------------
(* Retention.                                                                *)

\* What retention gives up is past the daily window.
LEMMA ExpiredIsOld ==
    ASSUME Rows, Expire, NEW s \in Snapshots, estado'[s] # estado[s]
    PROVE  estado'[s] = "EXPIRED" /\ timestamp[s] < now - RETENTION_DAILY
<1>1. PICK rows \in {{r \in Snapshots : estado[r] # "ABSENT"},
                     {r \in Snapshots : estado[r] = "COMPLETED"}} :
        estado' = [r \in Snapshots |->
            IF r \in classify_snapshots(rows, timestamp, estado, now) THEN "EXPIRED" ELSE estado[r]]
    BY DEF Expire
<1>2. s \in rows \ Daily(rows, timestamp, now) /\ estado'[s] = "EXPIRED"
    BY <1>1 DEF classify_snapshots, Protected
<1>3. timestamp[s] \in Int /\ now \in Int
    BY DEF Rows, TypeOK, Times, Never
<1> QED
    BY <1>2, <1>3, RetentionAssumption DEF Daily

\* Nothing takes a snapshot that can be restored away, once the backup that made it
\* has ended, but decay and retention, and retention only past the daily window: with
\* careless operators too, and with rotations that stop at any row.  While the backup
\* still runs its purge, its own handler may.
THEOREM NobodyLosesAccess == Spec => AccessKept
<1>1. ASSUME Rows, [Next]_vars
      PROVE  [\A s \in Snapshots : Restorable(s) =>
                  \/ Restorable(s)'
                  \/ s \in purging /\ estado'[s] = "FAILED"
                  \/ bucket'[s] # bucket[s]
                  \/ estado'[s] = "EXPIRED" /\ timestamp[s] < now - RETENTION_DAILY]_vars
  <2> SUFFICES ASSUME Next, ~UNCHANGED vars,
                      NEW s \in Snapshots, Restorable(s), bucket'[s] = bucket[s]
               PROVE  \/ Restorable(s)'
                      \/ s \in purging /\ estado'[s] = "FAILED"
                      \/ estado'[s] = "EXPIRED" /\ timestamp[s] < now - RETENTION_DAILY
      BY <1>1
  <2>0. TypeOK /\ Initialised
      BY <1>1 DEF Rows, Started, SaltFirst, Restorable
  <2> USE <2>0 DEF Restorable, Unwraps, CurrentKek, Linked
  <2>1. CASE InitVault
      BY <2>1 DEF InitVault
  <2>2. CASE StartupCleanup
      BY <2>2 DEF StartupCleanup, TypeOK
  <2>3. CASE Tick
      BY <2>3 DEF Tick, catalog
  <2>4. CASE Expire
      BY <1>1, <2>4, ExpiredIsOld DEF Expire
  <2>5. CASE Reading
      BY <2>5, ReadingKeepsVault DEF vault, catalog
  <2>6. ASSUME NEW r \in Snapshots, Backup(r), ~(r = s /\ GeneralError(r))
        PROVE  Restorable(s)'
    <3>1. r # s \/ Crash(r) \/ EndBackup(r)
      BY <1>1, <2>6 DEF Backup, StartBackup, CompleteBackup, FailBackup, Rows, WritersOpen, Started
    <3>2. estado'[s] = estado[s] /\ links'[s] = links[s] /\ encrypted_dek'[s] = encrypted_dek[s]
      BY <2>6, <3>1 DEF Backup, StartBackup, CompleteBackup, FailBackup, EndBackup, GeneralError,
                        Crash, catalog, TypeOK
    <3>3. UNCHANGED <<master_salt, passphrase>>
      BY <2>6 DEF Backup, StartBackup, CompleteBackup, FailBackup, EndBackup, GeneralError, Crash
    <3> QED
      BY <3>2, <3>3
  <2>7. ASSUME NEW r \in Snapshots, Purge(r)
        PROVE  Restorable(s)'
      BY <2>7 DEF Purge, TypeOK
  <2>8. ASSUME NEW r \in Snapshots, NEW q \in Seqs, Decay(r, q)
        PROVE  Restorable(s)'
      BY <2>8 DEF Decay, catalog
  <2>9. ASSUME NEW old \in Passphrases, NEW new \in Passphrases, RotateKek(old, new)
        PROVE  Restorable(s)'
    <3>1. s \in Rotated
      BY DEF Rotated
    <3>2. encrypted_dek'[s].kek = CurrentKek'
      BY <2>9, <3>1 DEF RotateKek, Rewrapped, Rewrap, TypeOK
    <3> QED
      BY <2>9, <3>2 DEF RotateKek
  <2>10. CASE GeneralError(s)
      BY <2>10 DEF GeneralError, TypeOK
  <2>11. \A old, new \in Passphrases : ~RotateInterrupted(old, new)
      BY InterruptedIsNothing
  <2> QED
      BY <2>1, <2>2, <2>3, <2>4, <2>5, <2>6, <2>7, <2>8, <2>9, <2>10, <2>11 DEF Next, Reading
<1> QED
    BY <1>1, RowsAlways, PTL DEF Spec, AccessKept

\* The only row of a set that is as late (early) as all others is its Last (First).
LEMMA LastIs ==
    ASSUME NEW S, NEW ts, NEW s \in S, \A r \in S : ts[r] \in Int,
           \A r \in S : ts[r] <= ts[s], \A r \in S : ts[r] = ts[s] => r = s
    PROVE  Last(S, ts) = s
<1>1. \A x \in S : (\A r \in S : ts[r] <= ts[x]) => x = s
    OBVIOUS
<1> QED
    BY <1>1 DEF Last

LEMMA FirstIs ==
    ASSUME NEW S, NEW ts, NEW s \in S, \A r \in S : ts[r] \in Int,
           \A r \in S : ts[s] <= ts[r], \A r \in S : ts[r] = ts[s] => r = s
    PROVE  First(S, ts) = s
<1>1. \A x \in S : (\A r \in S : ts[x] <= ts[r]) => x = s
    OBVIOUS
<1> QED
    BY <1>1 DEF First

\* A period that is recent was so before.
LEMMA RecentBefore ==
    ASSUME NEW number, NeverBack(number), NEW span \in Nat,
           NEW t \in Times, NEW u \in Times, NEW v \in Times, t <= u, u <= v,
           number[t] \in Recent(number, span, v)
    PROVE  number[t] \in Recent(number, span, u)
<1>1. number[t] \in Int /\ number[u] \in Int /\ number[v] \in Int
    BY DEF NeverBack
<1>2. number[t] <= number[u] /\ number[u] <= number[v]
    BY DEF NeverBack, Times
<1>3. PICK k \in 0 .. span - 1 : number[t] = number[v] - k
    BY DEF Recent
<1>4. number[u] - number[t] \in 0 .. span - 1 /\ number[t] = number[u] - (number[u] - number[t])
    BY <1>1, <1>2, <1>3
<1> QED
    BY <1>4 DEF Recent

\* The snapshots PeriodsSurvive speaks of.
KeepsWeek(s) ==
    LastOfItsWeek(s) /\ WeekOf[timestamp[s]] \in Recent(WeekOf, RETENTION_WEEKLY, now)

KeepsMonth(s) ==
    FirstOfItsMonth(s) /\ MonthOf[timestamp[s]] \in Recent(MonthOf, RETENTION_MONTHLY, now)

\* classify_snapshots protects them, whichever rows it is handed.
LEMMA KeepersProtected ==
    ASSUME Rows, NEW rows \in SUBSET {r \in Snapshots : timestamp[r] # Never},
           NEW s \in rows, KeepsWeek(s) \/ KeepsMonth(s)
    PROVE  s \in Protected(rows, timestamp, now)
<1>1. \A r \in rows : timestamp[r] \in Times /\ timestamp[r] \in Int
    BY DEF Rows, TypeOK, Times, Never
<1>2. \A r \in rows : timestamp[r] = timestamp[s] => r = s
    BY DEF Rows, Started
<1>3. CASE KeepsWeek(s)
  <2> DEFINE S == Within(rows, timestamp, WeekOf, WeekOf[timestamp[s]])
  <2>1. s \in S /\ S \subseteq rows
    BY DEF Within
  <2>2. \A r \in S : timestamp[r] <= timestamp[s]
    BY <1>3 DEF KeepsWeek, LastOfItsWeek, Within
  <2>3. Last(S, timestamp) = s
    BY <1>1, <1>2, <2>1, <2>2, LastIs
  <2>4. s \in Weekly(rows, timestamp, now)
    BY <1>3, <2>1, <2>3 DEF KeepsWeek, Weekly
  <2> QED
    BY <2>4 DEF Protected
<1>4. CASE KeepsMonth(s)
  <2> DEFINE S == Within(rows, timestamp, MonthOf, MonthOf[timestamp[s]])
  <2>1. s \in S /\ S \subseteq rows
    BY DEF Within
  <2>2. \A r \in S : timestamp[s] <= timestamp[r]
    BY <1>4 DEF KeepsMonth, FirstOfItsMonth, Within
  <2>3. First(S, timestamp) = s
    BY <1>1, <1>2, <2>1, <2>2, FirstIs
  <2>4. s \in Monthly(rows, timestamp, now)
    BY <1>4, <2>1, <2>3 DEF KeepsMonth, Monthly
  <2> QED
    BY <2>4 DEF Protected
<1> QED
    BY <1>3, <1>4

\* Who keeps a week or month after a step kept it before.
LEMMA KeptBefore ==
    ASSUME Rows, [Next]_vars, NEW s \in Snapshots, timestamp[s] # Never,
           (KeepsWeek(s) \/ KeepsMonth(s))'
    PROVE  KeepsWeek(s) \/ KeepsMonth(s)
<1>0. TypeOK /\ TypeOK'
    BY TypeNext DEF Rows
<1>1. now' = now \/ (now' = now + 1 /\ timestamp' = timestamp)
    BY DEF Next, vars, catalog, Reading, Read, Backup, InitVault, StartupCleanup, Tick, Expire,
           StartBackup, CompleteBackup, FailBackup, EndBackup, GeneralError, Crash, Purge, Decay,
           RotateKek, RotateInterrupted, Restore, Verify, Open, Answer, RestoreKey, VerifyKey,
           RestoreChunk, VerifyChunk, Succeed, GiveUp, Close, Continue
<1>2. timestamp' = timestamp \/ \E r \in Snapshots : StartBackup(r)
    BY DEF Next, vars, catalog, Reading, Read, Backup, InitVault, StartupCleanup, Tick, Expire,
           CompleteBackup, FailBackup, EndBackup, GeneralError, Crash, Purge, Decay, RotateKek,
           RotateInterrupted, Restore, Verify, Open, Answer, RestoreKey, VerifyKey, RestoreChunk,
           VerifyChunk, Succeed, GiveUp, Close, Continue
<1>3. \A r \in Snapshots : timestamp[r] # Never => timestamp'[r] = timestamp[r]
    BY <1>0, <1>2 DEF StartBackup, TypeOK
<1>4. /\ timestamp[s] \in Times /\ now \in Times /\ now' \in Times
      /\ timestamp[s] <= now /\ now <= now' /\ timestamp'[s] = timestamp[s]
    BY <1>0, <1>1, <1>3 DEF TypeOK, Rows, Started, Times
<1>5. ASSUME KeepsWeek(s)'
      PROVE  KeepsWeek(s)
  <2>1. LastOfItsWeek(s)
    BY <1>3, <1>5 DEF KeepsWeek, LastOfItsWeek
  <2>2. WeekOf[timestamp[s]] \in Recent(WeekOf, RETENTION_WEEKLY, now')
    BY <1>4, <1>5 DEF KeepsWeek, Recent
  <2> QED
    BY <1>4, <2>1, <2>2, RecentBefore, RetentionAssumption DEF KeepsWeek
<1>6. ASSUME KeepsMonth(s)'
      PROVE  KeepsMonth(s)
  <2>1. FirstOfItsMonth(s)
    BY <1>3, <1>6 DEF KeepsMonth, FirstOfItsMonth
  <2>2. MonthOf[timestamp[s]] \in Recent(MonthOf, RETENTION_MONTHLY, now')
    BY <1>4, <1>6 DEF KeepsMonth, Recent
  <2> QED
    BY <1>4, <2>1, <2>2, RecentBefore, RetentionAssumption DEF KeepsMonth
<1> QED
    BY <1>5, <1>6

\* Rows turn EXPIRED by classify_snapshots, and go when they are EXPIRED.
LEMMA GivenUp ==
    ASSUME Rows, [Next]_vars, NEW s \in Snapshots,
           estado[s] \notin {"EXPIRED", "ABSENT"}, estado'[s] \in {"EXPIRED", "ABSENT"}
    PROVE  Expire
<1>0. TypeOK
    BY DEF Rows
<1>1. ASSUME NEW r \in Snapshots, Backup(r)
      PROVE  FALSE
    BY <1>0, <1>1 DEF Backup, StartBackup, CompleteBackup, FailBackup, EndBackup, GeneralError,
                      Crash, catalog, TypeOK
<1>2. ASSUME NEW r \in Snapshots, Purge(r)
      PROVE  FALSE
    BY <1>0, <1>2 DEF Purge, TypeOK
<1>3. ~StartupCleanup
    BY <1>0 DEF StartupCleanup, TypeOK
<1>4. ~Reading
    BY ReadingKeepsVault DEF vault, catalog
<1> QED
    BY <1>1, <1>2, <1>3, <1>4
    DEF Next, vars, catalog, Reading, InitVault, Tick, Decay, RotateKek, RotateInterrupted

\* For every calendar: however often retention is applied to whatever rows, between
\* whatever failures, the last snapshot of a recent week and the first of a recent
\* month are never given up.
THEOREM PeriodsAreKept == Spec => []PeriodsSurvive
<1>1. Init => PeriodsSurvive
    BY DEF Init, PeriodsSurvive
<1>2. ASSUME Rows, PeriodsSurvive, [Next]_vars
      PROVE  PeriodsSurvive'
  <2> SUFFICES ASSUME NEW s \in Snapshots, timestamp'[s] # Never,
                      (KeepsWeek(s) \/ KeepsMonth(s))'
               PROVE  estado'[s] \notin {"EXPIRED", "ABSENT"}
      BY DEF PeriodsSurvive, KeepsWeek, KeepsMonth
  <2>1. CASE timestamp[s] = Never
    <3>1. PICK r \in Snapshots : StartBackup(r)
      BY <1>2, <2>1
      DEF Next, vars, catalog, Reading, Read, Backup, InitVault, StartupCleanup, Tick, Expire,
          CompleteBackup, FailBackup, EndBackup, GeneralError, Crash, Purge, Decay, RotateKek,
          RotateInterrupted, Restore, Verify, Open, Answer, RestoreKey, VerifyKey, RestoreChunk,
          VerifyChunk, Succeed, GiveUp, Close, Continue
    <3> QED
      BY <1>2, <2>1, <3>1 DEF StartBackup, Rows, TypeOK
  <2>2. CASE timestamp[s] # Never
    <3>1. KeepsWeek(s) \/ KeepsMonth(s)
      BY <1>2, <2>2, KeptBefore
    <3>2. estado[s] \notin {"EXPIRED", "ABSENT"}
      BY <1>2, <2>2, <3>1 DEF PeriodsSurvive, KeepsWeek, KeepsMonth
    <3>3. SUFFICES ASSUME Expire, estado'[s] # estado[s] PROVE FALSE
      BY <1>2, <3>2, GivenUp
    <3>4. PICK rows \in {{r \in Snapshots : estado[r] # "ABSENT"},
                         {r \in Snapshots : estado[r] = "COMPLETED"}} :
            estado' = [r \in Snapshots |->
              IF r \in classify_snapshots(rows, timestamp, estado, now)
                THEN "EXPIRED" ELSE estado[r]]
      BY <3>3 DEF Expire
    <3>5. s \in rows /\ s \notin Protected(rows, timestamp, now)
      BY <3>3, <3>4 DEF classify_snapshots
    <3>6. rows \in SUBSET {r \in Snapshots : timestamp[r] # Never}
      BY <1>2, <3>4 DEF Rows, Started
    <3> QED
      BY <1>2, <3>1, <3>5, <3>6, KeepersProtected
  <2> QED
    BY <2>1, <2>2
<1> QED
    BY <1>1, <1>2, RowsAlways, PTL DEF Spec
=============================================================================
