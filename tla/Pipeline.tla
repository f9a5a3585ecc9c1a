------------------------------ MODULE Pipeline ------------------------------
(***************************************************************************)
(* What `boveda backup` relies on in the streaming engine, and what          *)
(* BackupPurge takes it for: one chunk is stored after the other, none after *)
(* the first failure, and a pipeline that ends without a failure has stored  *)
(* all that the source wrote.                                              *)
(***************************************************************************)
EXTENDS Naturals

CONSTANT Chunks

VARIABLES
    source,   \* how many chunks the source has written
    sent,     \* how many of them are stored
    broken,   \* a chunk failed
    outcome

vars == <<source, sent, broken, outcome>>

Init ==
    /\ source = 0
    /\ sent = 0
    /\ broken = FALSE
    /\ outcome = "none"

Write ==
    /\ source < Chunks
    /\ source' = source + 1
    /\ UNCHANGED <<sent, broken, outcome>>

Send ==
    /\ outcome = "none"
    /\ ~broken
    /\ sent < source
    /\ sent' = sent + 1
    /\ UNCHANGED <<source, broken, outcome>>

Break ==
    /\ outcome = "none"
    /\ broken' = TRUE
    /\ UNCHANGED <<source, sent, outcome>>

Return ==
    /\ outcome = "none"
    /\ broken \/ sent = source
    /\ outcome' = "returned"
    /\ UNCHANGED <<source, sent, broken>>

\* The source failed.  The chunk on its way when that is noticed may be stored.
Raise ==
    /\ outcome = "none"
    /\ ~broken
    /\ sent' \in sent .. source /\ sent' <= sent + 1
    /\ outcome' = "raised"
    /\ UNCHANGED <<source, broken>>

Next == Write \/ Send \/ Break \/ Return \/ Raise

Spec == Init /\ [][Next]_vars
=============================================================================
