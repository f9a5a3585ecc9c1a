----------------------------- MODULE MCRecovery -----------------------------
(* A small instance of Recovery for TLC. *)
EXTENDS Recovery

\* Two weeks and two months that do not begin together.
SmallWeek == [t \in Times |-> IF t <= 3 THEN 1 ELSE 2]
SmallMonth == [t \in Times |-> IF t <= 2 THEN 1 ELSE 2]

\* Rotations wait for backups to end and backups know the passphrase.
Careful == {"crash", "purge", "cleanup", "read"}

RotateWhileRunning == {"rotate_running"}
=============================================================================
