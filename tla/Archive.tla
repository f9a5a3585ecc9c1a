------------------------------ MODULE Archive ------------------------------
(***************************************************************************)
(* What the catalogue and the bucket promise to whoever restores: a          *)
(* snapshot gathers chunks while it is written, and from the moment it is    *)
(* sealed it offers exactly those chunks until retention drops it.           *)
(***************************************************************************)
EXTENDS Integers

CONSTANTS Snapshots, Seqs

VARIABLES
    status,   \* where each snapshot is in its life
    content   \* content[s]: the chunks of s that can be fetched from the bucket

vars == <<status, content>>

Status == {"none", "open", "sealed", "failed", "doomed"}

Init ==
    /\ status = [s \in Snapshots |-> "none"]
    /\ content = [s \in Snapshots |-> {}]

Become(s, st) == status' = [status EXCEPT ![s] = st]

Open(s) ==
    /\ status[s] = "none"
    /\ content[s] = {}
    /\ Become(s, "open")
    /\ UNCHANGED content

\* One more chunk, and none of those gathered is lost.  A snapshot declared
\* failed by a starting process may still be growing.
Gather(s, q) ==
    /\ status[s] \in {"open", "failed"}
    /\ content' = [content EXCEPT ![s] = @ \cup {q}]
    /\ UNCHANGED status

Seal(s) ==
    /\ status[s] \in {"open", "failed"}
    /\ Become(s, "sealed")
    /\ UNCHANGED content

Fail(s) ==
    /\ status[s] \in {"open", "sealed", "doomed"}
    /\ Become(s, "failed")
    /\ UNCHANGED content

\* A process that starts gives up every snapshot still open.
FailOpen ==
    /\ status' = [s \in Snapshots |-> IF status[s] = "open" THEN "failed" ELSE status[s]]
    /\ UNCHANGED content

\* Retention takes the snapshot; its content stays until Drop.
Doom(s) ==
    /\ status[s] \in {"sealed", "failed"}
    /\ Become(s, "doomed")
    /\ UNCHANGED content

\* The snapshot goes with all its content at once, and no other one's changes.
Drop(s) ==
    /\ status[s] \in {"doomed", "failed"}
    /\ Become(s, "none")
    /\ content' = [content EXCEPT ![s] = {}]

Next ==
    \/ \E s \in Snapshots :
        \/ Open(s) \/ Seal(s) \/ Fail(s) \/ Doom(s) \/ Drop(s)
        \/ \E q \in Seqs : Gather(s, q)
    \/ FailOpen

Spec == Init /\ [][Next]_vars
=============================================================================
