--------------------------- MODULE CircuitBreaker ---------------------------
(***************************************************************************)
(* circuit_breaker.py: the breakers of the storage providers and the router  *)
(* that tries one provider after the other and at last the local outbox.     *)
(* Every section under a breaker's lock is free of awaits, hence one step.   *)
(* Times are kept as ages, which only grow up to the limit they are compared *)
(* with: the clock needs no bound.                                         *)
(***************************************************************************)
EXTENDS Naturals, Sequences, FiniteSets

CONSTANTS
    Providers,                  \* the providers, in the order the router tries them
    Uploads,                    \* the chunks that may be under way at a time
    failure_threshold,
    failure_window_seconds,
    cooldown_seconds,
    half_open_success_threshold

ASSUME BreakerAssumption ==
    /\ Providers \in Seq(STRING)
    /\ {failure_threshold, half_open_success_threshold} \subseteq Nat \ {0}
    /\ {failure_window_seconds, cooldown_seconds} \subseteq Nat

VARIABLES
    breaker,  \* the CircuitBreaker of each provider
    up,       \* whether the provider answers
    at,       \* the provider each upload is at; one beyond the last is the outbox
    flight    \* how far its call has come

vars == <<breaker, up, at, flight>>

Clouds == 1 .. Len(Providers)
Outbox == Len(Providers) + 1

CircuitState == {"CLOSED", "OPEN", "HALF_OPEN"}

Breaker ==
    [state            : CircuitState,
     failures         : Seq(0 .. failure_window_seconds + 1),  \* oldest first
     opened           : 0 .. cooldown_seconds,
     successes        : 0 .. half_open_success_threshold - 1,
     canary_in_flight : BOOLEAN]

TypeOK ==
    /\ \A p \in Clouds :
        breaker[p] \in Breaker /\ Len(breaker[p].failures) <= failure_threshold
    /\ up \in [Clouds -> BOOLEAN]
    /\ at \in [Uploads -> 1 .. Outbox]
    /\ flight \in [Uploads -> {"idle", "call", "plain", "canary"}]

Closed ==
    [state |-> "CLOSED", failures |-> <<>>, opened |-> 0, successes |-> 0,
     canary_in_flight |-> FALSE]

Init ==
    /\ breaker = [p \in Clouds |-> Closed]
    /\ up = [p \in Clouds |-> TRUE]
    /\ at = [u \in Uploads |-> 1]
    /\ flight = [u \in Uploads |-> "idle"]

-----------------------------------------------------------------------------
(* What each section under the lock makes of a breaker.                     *)

\* The evaluation of the cooldown with which every call begins.
Cooled(b) ==
    IF b.state = "OPEN" /\ b.opened >= cooldown_seconds
      THEN [b EXCEPT !.state = "HALF_OPEN", !.successes = 0, !.canary_in_flight = FALSE]
      ELSE b

Rejects(b) == b.state = "OPEN" \/ (b.state = "HALF_OPEN" /\ b.canary_in_flight)

Opened(b) == [b EXCEPT !.state = "OPEN", !.opened = 0]

\* The circuit closes and keeps the failures that opened it.
SlipRecordSuccess(b) ==
    IF b.state = "HALF_OPEN"
      THEN [b EXCEPT !.canary_in_flight = FALSE, !.state = "CLOSED"]
      ELSE b

\* _record_success
RecordSuccess(b) ==
    CASE b.state = "CLOSED" -> [b EXCEPT !.failures = <<>>]
      [] b.state = "OPEN" -> b
      [] b.state = "HALF_OPEN" ->
           IF b.successes + 1 >= half_open_success_threshold
             THEN [b EXCEPT !.state = "CLOSED", !.failures = <<>>, !.successes = 0,
                            !.canary_in_flight = FALSE]
             ELSE [b EXCEPT !.successes = @ + 1, !.canary_in_flight = FALSE]

\* A failure is never forgotten.
SlipInWindow(failures) == failures

\* The failures from the first in the window on: those before it are popped.
InWindow(failures) ==
    LET old == {i \in DOMAIN failures : \A j \in 1 .. i : failures[j] > failure_window_seconds}
    IN  SubSeq(failures, Cardinality(old) + 1, Len(failures))

\* One failure too many is let through.
SlipRecordFailure(b) ==
    LET counted == [b EXCEPT !.failures = Append(InWindow(@), 0)]
    IN  CASE b.state = "HALF_OPEN" ->
               [Opened(b) EXCEPT !.canary_in_flight = FALSE, !.successes = 0]
          [] b.state = "OPEN" -> b
          [] b.state = "CLOSED" ->
               IF Len(counted.failures) > failure_threshold THEN Opened(counted) ELSE counted

\* _record_failure
RecordFailure(b) ==
    LET failures == Append(InWindow(b.failures), 0)
        counted  == [b EXCEPT !.failures = failures]
    IN  CASE b.state = "HALF_OPEN" ->
               [Opened(b) EXCEPT !.canary_in_flight = FALSE, !.successes = 0]
          [] b.state = "OPEN" -> b
          [] b.state = "CLOSED" ->
               IF Len(failures) >= failure_threshold THEN Opened(counted) ELSE counted

\* A cancelled canary leaves the flag to the next call.
SlipRecordCancel(b) == b

\* The finally clause, for a canary that was cancelled.
RecordCancel(b) ==
    IF b.state = "HALF_OPEN" /\ b.canary_in_flight
      THEN [Opened(b) EXCEPT !.canary_in_flight = FALSE]
      ELSE b

-----------------------------------------------------------------------------
(* MultiCloudStorageRouter.upload_chunk.                                    *)

Submit(u) ==
    /\ flight[u] = "idle"
    /\ at' = [at EXCEPT ![u] = 1]
    /\ flight' = [flight EXCEPT ![u] = "call"]
    /\ UNCHANGED <<breaker, up>>

\* The provider refuses or fails: on to the next one.
Cascade(u) ==
    /\ at' = [at EXCEPT ![u] = @ + 1]
    /\ flight' = [flight EXCEPT ![u] = "call"]

\* The upload is over, here or by cancellation.
Over(u) ==
    /\ flight' = [flight EXCEPT ![u] = "idle"]
    /\ UNCHANGED at

\* CircuitBreaker.call, up to the call of the uploader.
Call(u) ==
    LET p == at[u]
        b == Cooled(breaker[p])
    IN  /\ flight[u] = "call" /\ p \in Clouds
        /\ \/ /\ Rejects(b)
              /\ breaker' = [breaker EXCEPT ![p] = b]
              /\ Cascade(u)
           \/ /\ ~Rejects(b) /\ b.state = "HALF_OPEN"
              /\ breaker' = [breaker EXCEPT ![p] = [b EXCEPT !.canary_in_flight = TRUE]]
              /\ flight' = [flight EXCEPT ![u] = "canary"]
              /\ UNCHANGED at
           \/ /\ ~Rejects(b) /\ b.state = "CLOSED"
              /\ flight' = [flight EXCEPT ![u] = "plain"]
              /\ UNCHANGED <<breaker, at>>
        /\ UNCHANGED up

Flying(u) == flight[u] \in {"plain", "canary"}

Succeed(u) ==
    /\ Flying(u) /\ up[at[u]]
    /\ breaker' = [breaker EXCEPT ![at[u]] = RecordSuccess(@)]
    /\ Over(u)
    /\ UNCHANGED up

Fail(u) ==
    /\ Flying(u) /\ ~up[at[u]]
    /\ breaker' = [breaker EXCEPT ![at[u]] = RecordFailure(@)]
    /\ Cascade(u)
    /\ UNCHANGED up

\* The task of the upload is cancelled, at any moment of the call.
Cancel(u) ==
    /\ Flying(u)
    /\ breaker' = IF flight[u] = "canary"
                    THEN [breaker EXCEPT ![at[u]] = RecordCancel(@)] ELSE breaker
    /\ Over(u)
    /\ UNCHANGED up

\* The outbox stages the chunk, or its exception leaves upload_chunk.
Stage(u) ==
    /\ flight[u] = "call" /\ at[u] = Outbox
    /\ Over(u)
    /\ UNCHANGED <<breaker, up>>

Older(age, limit) == IF age < limit THEN age + 1 ELSE age

Tick ==
    /\ breaker' = [p \in Clouds |->
          [breaker[p] EXCEPT
             !.failures = [i \in DOMAIN @ |-> Older(@[i], failure_window_seconds + 1)],
             !.opened = Older(@, cooldown_seconds)]]
    /\ UNCHANGED <<up, at, flight>>

Change(p) ==
    /\ up' = [up EXCEPT ![p] = ~@]
    /\ UNCHANGED <<breaker, at, flight>>

End(u) == Succeed(u) \/ Fail(u) \/ Cancel(u)

Next ==
    \/ \E u \in Uploads : Submit(u) \/ Call(u) \/ End(u) \/ Stage(u)
    \/ \E p \in Clouds : Change(p)
    \/ Tick

\* Chunks keep coming, every call of an uploader ends, and time passes.
Fairness ==
    /\ \A u \in Uploads :
        WF_vars(Submit(u)) /\ WF_vars(Call(u)) /\ WF_vars(End(u)) /\ WF_vars(Stage(u))
    /\ WF_vars(Tick)

Spec == Init /\ [][Next]_vars /\ Fairness

-----------------------------------------------------------------------------

Canaries(p) == {u \in Uploads : at[u] = p /\ flight[u] = "canary"}

\* A closed circuit has counted fewer failures than would open it: none is
\* carried over from before it was opened.
ClosedIsHealthy ==
    \A p \in Clouds :
        breaker[p].state = "CLOSED" => Len(breaker[p].failures) < failure_threshold

\* The flag that keeps every other call out stands for a probe in flight, even
\* when probes are cancelled or calls from before the opening end late.
FlagHasCanary ==
    \A p \in Clouds :
        breaker[p].canary_in_flight => breaker[p].state = "HALF_OPEN" /\ Canaries(p) # {}

\* A circuit opens on as many failures within the window as the threshold says, not
\* on failures the window has left behind, although only the first failures are
\* looked at when old ones are popped.
OpensOnFailures ==
    [][\A p \in Clouds :
          breaker[p].state = "CLOSED" /\ breaker'[p].state = "OPEN" =>
              /\ Len(breaker'[p].failures) = failure_threshold
              /\ \A i \in 1 .. failure_threshold :
                    breaker'[p].failures[i] <= failure_window_seconds]_vars

\* The finally clause takes a cancelled probe for a failed one.
ProbeCancelled(p) ==
    breaker[p].state = "HALF_OPEN" /\ breaker'[p].state = "OPEN" /\ up[p]

\* Once the first provider answers for good and nobody cancels its probes any more,
\* its circuit closes for good, although failures, cancelled probes and late calls of
\* before may lie behind it.  The others are only called when it is not available.
Recovers ==
    <>[]up[1] /\ <>[][~ProbeCancelled(1)]_vars => <>[](breaker[1].state = "CLOSED")

\* In HALF_OPEN one probe at most is in flight.
OneCanary ==
    \A p \in Clouds : breaker[p].state = "HALF_OPEN"
        => \A u, v \in Canaries(p) : u = v
=============================================================================
