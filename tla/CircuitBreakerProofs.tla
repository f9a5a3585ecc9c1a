------------------------ MODULE CircuitBreakerProofs ------------------------
(***************************************************************************)
(* Proofs about CircuitBreaker for any number of providers and of uploads     *)
(* and any thresholds and times: type correctness, that the flag of a probe   *)
(* stands for a probe in flight, that a closed circuit carries no failure     *)
(* over, and that a circuit opens on as many failures in the window as the    *)
(* threshold says.                                                         *)
(***************************************************************************)
EXTENDS CircuitBreaker, FiniteSetTheorems, SequenceTheorems, TLAPS

Constants ==
    /\ Len(Providers) \in Nat
    /\ failure_threshold \in Nat /\ failure_threshold > 0
    /\ half_open_success_threshold \in Nat /\ half_open_success_threshold > 0
    /\ failure_window_seconds \in Nat
    /\ cooldown_seconds \in Nat

Age == 0 .. failure_window_seconds + 1

\* The failures are kept oldest first.
OldestFirst(failures) ==
    \A i, j \in 1 .. Len(failures) : i < j => failures[j] <= failures[i]

\* What holds of every breaker by itself.
Sound(b) ==
    /\ b \in Breaker
    /\ Len(b.failures) <= failure_threshold
    /\ b.state = "CLOSED" => Len(b.failures) < failure_threshold
    /\ b.canary_in_flight => b.state = "HALF_OPEN"
    /\ OldestFirst(b.failures)

\* The inductive invariant: every breaker is sound, every call in flight is at a
\* provider, and a set flag stands for a probe.
Guarded ==
    /\ breaker \in [Clouds -> Breaker]
    /\ \A p \in Clouds : Sound(breaker[p])
    /\ up \in [Clouds -> BOOLEAN]
    /\ at \in [Uploads -> 1 .. Outbox]
    /\ flight \in [Uploads -> {"idle", "call", "plain", "canary"}]
    /\ \A u \in Uploads : Flying(u) => at[u] \in Clouds
    /\ \A p \in Clouds : breaker[p].canary_in_flight =>
          \E u \in Uploads : at[u] = p /\ flight[u] = "canary"

\* The constants are what they are assumed to be.
LEMMA ConstantsTyped == Constants
BY BreakerAssumption DEF Constants

\* There are n numbers from 1 to n.
LEMMA FirstNumbers ==
    ASSUME NEW n \in Nat
    PROVE  IsFiniteSet(1 .. n) /\ Cardinality(1 .. n) = n
BY FS_Interval

-----------------------------------------------------------------------------
(* What each section under the lock makes of a sound breaker.               *)

\* Popping the failures before the window keeps the order and the bound, and when the
\* failures are kept oldest first it leaves none that is too old.
LEMMA InWindowKeeps ==
    ASSUME NEW f \in Seq(Age), OldestFirst(f)
    PROVE  /\ InWindow(f) \in Seq(Age) /\ Len(InWindow(f)) <= Len(f)
           /\ OldestFirst(InWindow(f))
           /\ \A i \in 1 .. Len(InWindow(f)) : InWindow(f)[i] <= failure_window_seconds
<1> DEFINE n == Len(f)
           old == {i \in DOMAIN f : \A j \in 1 .. i : f[j] > failure_window_seconds}
           k == Cardinality(old)
<1>c. failure_window_seconds \in Nat /\ n \in Nat /\ DOMAIN f = 1 .. n
  BY ConstantsTyped DEF Constants
<1>t. \A i \in 1 .. n : f[i] \in Nat /\ f[i] \in Age
  BY <1>c DEF Age
<1>1. IsFiniteSet(1 .. n) /\ Cardinality(1 .. n) = n
  BY <1>c, FirstNumbers
<1>2. IsFiniteSet(old) /\ k \in Nat /\ k <= n
  <2>1. old \in SUBSET (1 .. n)
    BY <1>c
  <2> HIDE DEF old
  <2> QED
    BY <1>1, <2>1, FS_Subset, FS_CardinalityType
<1>3. ASSUME k < n PROVE f[k + 1] <= failure_window_seconds
  <2> SUFFICES ASSUME f[k + 1] > failure_window_seconds PROVE FALSE
    BY <1>2, <1>3, <1>t, <1>c
  <2>1. k + 1 \in 1 .. n
    BY <1>2, <1>3, <1>c
  <2>2. 1 .. k + 1 \subseteq old
    <3> SUFFICES ASSUME NEW i \in 1 .. k + 1 PROVE i \in old
      OBVIOUS
    <3>1. i \in 1 .. n
      BY <1>2, <1>3, <1>c
    <3>2. ASSUME NEW j \in 1 .. i PROVE f[j] > failure_window_seconds
      <4>1. j \in 1 .. n /\ j <= k + 1
        BY <1>2, <3>1, <1>c
      <4>2. j = k + 1 \/ f[k + 1] <= f[j]
        BY <4>1, <2>1, <1>2, <1>c DEF OldestFirst
      <4> QED
        BY <4>1, <4>2, <2>1, <1>t, <1>c
    <3> QED
      BY <3>1, <3>2, <1>c
  <2>3. IsFiniteSet(1 .. k + 1) /\ Cardinality(1 .. k + 1) = k + 1
    BY <1>2, FirstNumbers
  <2>4. k + 1 <= k
    <3> HIDE DEF old
    <3> QED
      BY <2>2, <2>3, <1>2, FS_Subset
  <2> QED
    BY <2>4, <1>2
<1>4. InWindow(f) = SubSeq(f, k + 1, n)
  BY DEF InWindow
<1> HIDE DEF n, old, k
<1>5. /\ InWindow(f) \in Seq(Age) /\ Len(InWindow(f)) = n - k
      /\ \A i \in 1 .. n - k : InWindow(f)[i] = f[k + i]
  <2>1. \A i \in k + 1 .. n : f[i] \in Age
    BY <1>2, <1>t, <1>c
  <2>2. k + 1 \in Int /\ n \in Int
    BY <1>2, <1>c
  <2>3. /\ SubSeq(f, k + 1, n) \in Seq(Age)
        /\ Len(SubSeq(f, k + 1, n)) = IF k + 1 <= n THEN n - (k + 1) + 1 ELSE 0
        /\ \A i \in 1 .. n - (k + 1) + 1 : SubSeq(f, k + 1, n)[i] = f[(k + 1) + i - 1]
    BY <2>1, <2>2, SubSeqProperties
  <2>4. n - (k + 1) + 1 = n - k /\ (k + 1 <= n \/ n - k = 0)
    BY <1>2, <1>c
  <2>5. \A i \in 1 .. n - k : (k + 1) + i - 1 = k + i
    BY <1>2, <1>c
  <2> QED
    BY <1>4, <2>3, <2>4, <2>5
<1>6. OldestFirst(InWindow(f))
  <2> SUFFICES ASSUME NEW i \in 1 .. n - k, NEW j \in 1 .. n - k, i < j
               PROVE  InWindow(f)[j] <= InWindow(f)[i]
    BY <1>5 DEF OldestFirst
  <2>1. k + i \in 1 .. n /\ k + j \in 1 .. n /\ k + i < k + j
    BY <1>2, <1>c
  <2>2. f[k + j] <= f[k + i]
    BY <2>1 DEF OldestFirst, n
  <2> QED
    BY <2>2, <1>5
<1>7. ASSUME NEW i \in 1 .. n - k PROVE InWindow(f)[i] <= failure_window_seconds
  <2>1. k + i \in 1 .. n /\ k + 1 \in 1 .. n /\ k < n /\ (i = 1 \/ k + 1 < k + i)
    BY <1>2, <1>c
  <2>2. f[k + i] <= f[k + 1]
    BY <2>1, <1>t DEF OldestFirst, n
  <2>3. f[k + 1] <= failure_window_seconds
    BY <2>1, <1>3
  <2> QED
    BY <2>1, <2>2, <2>3, <1>5, <1>t, <1>c
<1> QED
  BY <1>2, <1>5, <1>6, <1>7, <1>c DEF n

\* One more failure, now, keeps the order.
LEMMA OneMoreFailure ==
    ASSUME NEW f \in Seq(Age), OldestFirst(f),
           \A i \in 1 .. Len(f) : f[i] <= failure_window_seconds
    PROVE  /\ Append(f, 0) \in Seq(Age) /\ Len(Append(f, 0)) = Len(f) + 1
           /\ OldestFirst(Append(f, 0))
           /\ \A i \in 1 .. Len(f) + 1 : Append(f, 0)[i] <= failure_window_seconds
<1> DEFINE n == Len(f)
           g == Append(f, 0)
<1>1. failure_window_seconds \in Nat /\ 0 \in Age /\ n \in Nat
  BY ConstantsTyped DEF Constants, Age
<1>2. g \in Seq(Age) /\ Len(g) = n + 1 /\ g[n + 1] = 0 /\ \A i \in 1 .. n : g[i] = f[i]
  BY <1>1
<1>3. \A i \in 1 .. n : f[i] \in Nat
  BY <1>1 DEF Age
<1> HIDE DEF n, g
<1>4. \A i \in 1 .. n + 1 : g[i] <= failure_window_seconds
  BY <1>1, <1>2 DEF n
<1>5. OldestFirst(g)
  <2> SUFFICES ASSUME NEW i \in 1 .. n + 1, NEW j \in 1 .. n + 1, i < j PROVE g[j] <= g[i]
    BY <1>2 DEF OldestFirst
  <2>1. i \in 1 .. n
    BY <1>1
  <2>2. CASE j = n + 1
    BY <2>1, <2>2, <1>1, <1>2, <1>3
  <2>3. CASE j # n + 1
    <3>1. j \in 1 .. n
      BY <2>3, <1>1
    <3>2. f[j] <= f[i]
      BY <2>1, <3>1 DEF OldestFirst, n
    <3> QED
      BY <2>1, <3>1, <3>2, <1>2
  <2> QED
    BY <2>2, <2>3
<1> QED
  BY <1>2, <1>4, <1>5 DEF n, g

\* The fields of a breaker.
LEMMA Fields ==
    ASSUME NEW b \in Breaker
    PROVE  /\ b.state \in CircuitState /\ b.failures \in Seq(Age) /\ b.opened \in 0 .. cooldown_seconds
           /\ b.successes \in 0 .. half_open_success_threshold - 1 /\ b.canary_in_flight \in BOOLEAN
BY DEF Breaker, Age

\* The values a step may put in them.
LEMMA Values == /\ CircuitState = {"CLOSED", "OPEN", "HALF_OPEN"} /\ <<>> \in Seq(Age) /\ Len(<<>>) = 0
                /\ 0 \in 0 .. cooldown_seconds /\ 0 \in 0 .. half_open_success_threshold - 1
                /\ OldestFirst(<<>>)
BY ConstantsTyped DEF Constants, CircuitState, OldestFirst

\* A breaker as it is made is sound.
LEMMA ClosedSound == Sound(Closed)
<1>1. Constants /\ <<>> \in Seq(Age) /\ Len(<<>>) = 0
  BY ConstantsTyped
<1>2. Closed \in Breaker
  BY <1>1 DEF Constants, Closed, Breaker, CircuitState, Age
<1> QED
  BY <1>1, <1>2 DEF Constants, Closed, Sound, OldestFirst

\* The evaluation of the cooldown leaves a sound breaker, and a flag only where it was set.
LEMMA CooledSound ==
    ASSUME NEW b, Sound(b)
    PROVE  Sound(Cooled(b)) /\ (Cooled(b).canary_in_flight => b.canary_in_flight)
           /\ (Cooled(b).state = "CLOSED" => b.state = "CLOSED")
<1>b. b \in Breaker
  BY DEF Sound
<1>1. CASE b.state = "OPEN" /\ b.opened >= cooldown_seconds
  <2> DEFINE r == [b EXCEPT !.state = "HALF_OPEN", !.successes = 0, !.canary_in_flight = FALSE]
  <2>1. r \in Breaker
    BY <1>b, Values DEF Breaker
  <2>2. r.state = "HALF_OPEN" /\ r.failures = b.failures /\ r.canary_in_flight = FALSE
    BY <1>b DEF Breaker
  <2>3. Cooled(b) = r
    BY <1>1 DEF Cooled
  <2> HIDE DEF r
  <2> QED
    BY <2>1, <2>2, <2>3 DEF Sound
<1>2. CASE ~(b.state = "OPEN" /\ b.opened >= cooldown_seconds)
  BY <1>2 DEF Cooled
<1> QED
  BY <1>1, <1>2

\* A probe that sets the flag leaves a sound breaker.
LEMMA FlagSound ==
    ASSUME NEW b, Sound(b), b.state = "HALF_OPEN"
    PROVE  Sound([b EXCEPT !.canary_in_flight = TRUE])
BY ConstantsTyped DEF Constants, Sound, Breaker, CircuitState, OldestFirst

\* A success leaves a sound breaker and no flag.
LEMMA SuccessSound ==
    ASSUME NEW b, Sound(b)
    PROVE  Sound(RecordSuccess(b)) /\ ~RecordSuccess(b).canary_in_flight
           /\ (b.state = "CLOSED" => RecordSuccess(b).state = "CLOSED")
<1>c. Constants /\ <<>> \in Seq(Age) /\ Len(<<>>) = 0
  BY ConstantsTyped
<1>b. b \in Breaker /\ b.state \in CircuitState /\ b.successes \in Nat
  BY <1>c DEF Sound, Breaker, Constants
<1>1. CASE b.state = "CLOSED"
  <2> DEFINE r == [b EXCEPT !.failures = <<>>]
  <2>1. r \in Breaker
    BY <1>b, Values DEF Breaker, Age
  <2>2. r.state = "CLOSED" /\ r.failures = <<>> /\ r.canary_in_flight = b.canary_in_flight
    BY <1>1, <1>b DEF Breaker
  <2>3. RecordSuccess(b) = r
    BY <1>1 DEF RecordSuccess
  <2>4. ~b.canary_in_flight
    BY <1>1 DEF Sound
  <2> HIDE DEF r
  <2> QED
    BY <2>1, <2>2, <2>3, <2>4, <1>c, Values DEF Sound, Constants
<1>2. CASE b.state = "OPEN"
  <2>1. RecordSuccess(b) = b
    BY <1>2 DEF RecordSuccess
  <2> QED
    BY <1>2, <2>1 DEF Sound
<1>3. CASE b.state = "HALF_OPEN" /\ b.successes + 1 >= half_open_success_threshold
  <2> DEFINE r == [b EXCEPT !.state = "CLOSED", !.failures = <<>>, !.successes = 0,
                            !.canary_in_flight = FALSE]
  <2>1. r \in Breaker
    BY <1>b, Values DEF Breaker, Age
  <2>2. r.state = "CLOSED" /\ r.failures = <<>> /\ r.canary_in_flight = FALSE
    BY <1>b DEF Breaker
  <2>3. RecordSuccess(b) = r
    BY <1>3 DEF RecordSuccess
  <2> HIDE DEF r
  <2> QED
    BY <1>3, <2>1, <2>2, <2>3, <1>c, Values DEF Sound, Constants
<1>4. CASE b.state = "HALF_OPEN" /\ ~(b.successes + 1 >= half_open_success_threshold)
  <2> DEFINE r == [b EXCEPT !.successes = b.successes + 1, !.canary_in_flight = FALSE]
  <2>1. b.successes + 1 \in 0 .. half_open_success_threshold - 1
    BY <1>4, <1>b, <1>c, Fields DEF Constants
  <2>2. r \in Breaker
    BY <1>b, <2>1 DEF Breaker
  <2>3. r.state = "HALF_OPEN" /\ r.failures = b.failures /\ r.canary_in_flight = FALSE
    BY <1>4, <1>b DEF Breaker
  <2>4. RecordSuccess(b) = r
    BY <1>4 DEF RecordSuccess
  <2> HIDE DEF r
  <2> QED
    BY <1>4, <2>2, <2>3, <2>4 DEF Sound
<1> QED
  BY <1>b, <1>1, <1>2, <1>3, <1>4 DEF CircuitState

\* A failure leaves a sound breaker and no flag, and opens a closed circuit only on as
\* many failures in the window as the threshold says.
LEMMA FailureSound ==
    ASSUME NEW b, Sound(b)
    PROVE  /\ Sound(RecordFailure(b)) /\ ~RecordFailure(b).canary_in_flight
           /\ b.state = "CLOSED" /\ RecordFailure(b).state = "OPEN" =>
                 /\ Len(RecordFailure(b).failures) = failure_threshold
                 /\ \A i \in 1 .. failure_threshold :
                       RecordFailure(b).failures[i] <= failure_window_seconds
<1> DEFINE g == Append(InWindow(b.failures), 0)
<1>c. Constants
  BY ConstantsTyped
<1>b. b \in Breaker /\ b.state \in CircuitState /\ b.failures \in Seq(Age) /\ OldestFirst(b.failures)
  BY DEF Sound, Breaker, Age
<1>1. /\ InWindow(b.failures) \in Seq(Age) /\ Len(InWindow(b.failures)) <= Len(b.failures)
      /\ OldestFirst(InWindow(b.failures))
      /\ \A i \in 1 .. Len(InWindow(b.failures)) : InWindow(b.failures)[i] <= failure_window_seconds
  BY <1>b, InWindowKeeps
<1>2. /\ g \in Seq(Age) /\ Len(g) = Len(InWindow(b.failures)) + 1 /\ OldestFirst(g)
      /\ \A i \in 1 .. Len(g) : g[i] <= failure_window_seconds
  BY <1>1, OneMoreFailure
<1>3. Len(g) \in Nat /\ Len(g) <= Len(b.failures) + 1 /\ Len(b.failures) \in Nat
  BY <1>b, <1>1, <1>2
<1>4. CASE b.state = "HALF_OPEN"
  <2> DEFINE r == [Opened(b) EXCEPT !.canary_in_flight = FALSE, !.successes = 0]
  <2>1. r \in Breaker
    BY <1>b, Values DEF Breaker, Opened
  <2>2. r.state = "OPEN" /\ r.failures = b.failures /\ r.canary_in_flight = FALSE
    BY <1>b DEF Breaker, Opened
  <2>3. RecordFailure(b) = r
    BY <1>4 DEF RecordFailure
  <2> HIDE DEF r
  <2> QED
    BY <1>4, <2>1, <2>2, <2>3 DEF Sound
<1>5. CASE b.state = "OPEN"
  <2>1. RecordFailure(b) = b
    BY <1>5 DEF RecordFailure
  <2> QED
    BY <1>5, <2>1 DEF Sound
<1>6. CASE b.state = "CLOSED"
  <2> HIDE DEF g
  <2>1. RecordFailure(b) = IF Len(g) >= failure_threshold
                             THEN Opened([b EXCEPT !.failures = g]) ELSE [b EXCEPT !.failures = g]
    BY <1>6 DEF RecordFailure, g
  <2>2. /\ RecordFailure(b).failures = g
        /\ RecordFailure(b).canary_in_flight = b.canary_in_flight
        /\ RecordFailure(b) \in Breaker
        /\ RecordFailure(b).state = IF Len(g) >= failure_threshold THEN "OPEN" ELSE "CLOSED"
    <3> DEFINE counted == [b EXCEPT !.failures = g]
               opened == [counted EXCEPT !.state = "OPEN", !.opened = 0]
    <3>1. /\ counted \in Breaker /\ counted.failures = g /\ counted.state = "CLOSED"
          /\ counted.canary_in_flight = b.canary_in_flight
      BY <1>2, <1>6, <1>b DEF Breaker, Age
    <3> HIDE DEF counted
    <3>2. opened \in Breaker
      BY <3>1, Values DEF Breaker
    <3>3. /\ opened.failures = counted.failures /\ opened.state = "OPEN"
          /\ opened.canary_in_flight = counted.canary_in_flight
      BY <3>1 DEF Breaker
    <3>4. RecordFailure(b) = IF Len(g) >= failure_threshold THEN opened ELSE counted
      BY <2>1 DEF Opened, counted
    <3> HIDE DEF opened
    <3> QED
      BY <3>1, <3>2, <3>3, <3>4
  <2>3. Len(g) <= failure_threshold
    BY <1>3, <1>6, <1>c DEF Sound, Constants
  <2>4. ~b.canary_in_flight
    BY <1>6 DEF Sound
  <2>5. Sound(RecordFailure(b))
    BY <2>2, <2>3, <2>4, <1>2, <1>3, <1>c DEF Sound, Constants
  <2>6. Len(g) >= failure_threshold => Len(g) = failure_threshold
    BY <2>3, <1>3, <1>c DEF Constants
  <2> QED
    BY <2>2, <2>4, <2>5, <2>6, <1>2
<1> QED
  BY <1>b, <1>4, <1>5, <1>6 DEF CircuitState

\* A cancelled probe leaves a sound breaker and no flag.
LEMMA CancelSound ==
    ASSUME NEW b, Sound(b)
    PROVE  Sound(RecordCancel(b)) /\ ~RecordCancel(b).canary_in_flight
           /\ (b.state = "CLOSED" => RecordCancel(b).state = "CLOSED")
<1>b. b \in Breaker
  BY DEF Sound
<1>1. CASE b.state = "HALF_OPEN" /\ b.canary_in_flight
  <2> DEFINE r == [Opened(b) EXCEPT !.canary_in_flight = FALSE]
  <2>1. r \in Breaker
    BY <1>b, Values DEF Breaker, Opened
  <2>2. r.state = "OPEN" /\ r.failures = b.failures /\ r.canary_in_flight = FALSE
    BY <1>b DEF Breaker, Opened
  <2>3. RecordCancel(b) = r
    BY <1>1 DEF RecordCancel
  <2> HIDE DEF r
  <2> QED
    BY <1>1, <2>1, <2>2, <2>3 DEF Sound
<1>2. CASE ~(b.state = "HALF_OPEN" /\ b.canary_in_flight)
  BY <1>2 DEF RecordCancel, Sound
<1> QED
  BY <1>1, <1>2

\* Time makes every failure older, and keeps their order.
LEMMA TickSound ==
    ASSUME NEW b, Sound(b)
    PROVE  LET older == [b EXCEPT
                 !.failures = [i \in DOMAIN @ |-> Older(@[i], failure_window_seconds + 1)],
                 !.opened = Older(@, cooldown_seconds)]
           IN  Sound(older) /\ older.canary_in_flight = b.canary_in_flight /\ older.state = b.state
<1> DEFINE f == b.failures
           g == [i \in DOMAIN f |-> Older(f[i], failure_window_seconds + 1)]
           o == Older(b.opened, cooldown_seconds)
           older == [b EXCEPT !.failures = g, !.opened = o]
<1>c. Constants
  BY ConstantsTyped
<1>b. b \in Breaker /\ f \in Seq(Age) /\ Len(f) \in Nat /\ DOMAIN f = 1 .. Len(f)
  BY DEF Sound, Breaker, Age
<1>1. \A i \in 1 .. Len(f) : f[i] \in Age /\ g[i] = Older(f[i], failure_window_seconds + 1)
  BY <1>b
<1>2. \A a \in Age : Older(a, failure_window_seconds + 1) \in Age
  BY <1>c DEF Older, Age, Constants
<1>3. \A a1, a2 \in Age : a1 <= a2 =>
         Older(a1, failure_window_seconds + 1) <= Older(a2, failure_window_seconds + 1)
  BY <1>c DEF Older, Age, Constants
<1>4. g \in Seq(Age) /\ Len(g) = Len(f)
  <2>1. g \in [1 .. Len(f) -> Age]
    BY <1>b, <1>1, <1>2
  <2> HIDE DEF g
  <2> QED
    BY <1>b, <2>1
<1>5. OldestFirst(g)
  <2> SUFFICES ASSUME NEW i \in 1 .. Len(f), NEW j \in 1 .. Len(f), i < j PROVE g[j] <= g[i]
    BY <1>4 DEF OldestFirst
  <2>1. f[j] <= f[i]
    BY DEF Sound, OldestFirst
  <2> QED
    BY <2>1, <1>1, <1>3
<1>6. o \in 0 .. cooldown_seconds
  <2>1. b.opened \in 0 .. cooldown_seconds
    BY <1>b DEF Breaker
  <2> QED
    BY <2>1, <1>c DEF Older, Constants
<1> HIDE DEF g, o, f
<1>7. /\ older \in Breaker /\ older.failures = g /\ older.state = b.state
      /\ older.canary_in_flight = b.canary_in_flight
  BY <1>b, <1>4, <1>6 DEF Breaker, Age
<1>8. Sound(older)
  BY <1>4, <1>5, <1>7 DEF Sound, f
<1> QED
  BY <1>7, <1>8 DEF f, g, o

-----------------------------------------------------------------------------
(* The steps of the router.                                                *)

\* At first every circuit is closed.
LEMMA GuardedInit == Init => Guarded
<1> SUFFICES ASSUME Init PROVE Guarded
  OBVIOUS
<1>1. Closed \in Breaker /\ ~Closed.canary_in_flight
  BY ClosedSound DEF Sound, Closed
<1>2. 1 \in 1 .. Outbox
  BY ConstantsTyped DEF Constants, Outbox
<1> QED
  BY <1>1, <1>2, ClosedSound DEF Init, Guarded, Flying

\* Every step keeps the breakers sound and the flags to the probes in flight.
LEMMA GuardedStep == Guarded /\ [Next]_vars => Guarded'
<1> SUFFICES ASSUME Guarded, [Next]_vars PROVE Guarded'
  OBVIOUS
<1>c. Len(Providers) \in Nat
  BY ConstantsTyped DEF Constants
<1>t. /\ breaker \in [Clouds -> Breaker] /\ \A p \in Clouds : Sound(breaker[p])
      /\ up \in [Clouds -> BOOLEAN]
      /\ at \in [Uploads -> 1 .. Outbox]
      /\ flight \in [Uploads -> {"idle", "call", "plain", "canary"}]
      /\ \A u \in Uploads : flight[u] \in {"plain", "canary"} => at[u] \in Clouds
      /\ \A p \in Clouds : breaker[p].canary_in_flight =>
            \E u \in Uploads : at[u] = p /\ flight[u] = "canary"
  BY DEF Guarded, Flying
<1>n. \A p \in Clouds : p + 1 \in 1 .. Outbox /\ p \in 1 .. Outbox
  BY <1>c DEF Clouds, Outbox
<1>g. ASSUME breaker' \in [Clouds -> Breaker], \A p \in Clouds : Sound(breaker'[p]),
             up' \in [Clouds -> BOOLEAN],
             at' \in [Uploads -> 1 .. Outbox],
             flight' \in [Uploads -> {"idle", "call", "plain", "canary"}],
             \A u \in Uploads : flight'[u] \in {"plain", "canary"} => at'[u] \in Clouds,
             \A p \in Clouds : breaker'[p].canary_in_flight =>
                \E u \in Uploads : at'[u] = p /\ flight'[u] = "canary"
      PROVE  Guarded'
  BY <1>g DEF Guarded, Flying, Sound
\* One upload moves on, not as a probe, and one breaker may change: its flag goes
\* down, or it stays down or stands for another upload's probe.
<1>m. ASSUME NEW u \in Uploads, NEW place \in 1 .. Outbox, NEW stage \in {"idle", "call"},
             at' = [at EXCEPT ![u] = place], flight' = [flight EXCEPT ![u] = stage],
             UNCHANGED up,
             breaker' \in [Clouds -> Breaker], \A p \in Clouds : Sound(breaker'[p]),
             \A p \in Clouds : breaker'[p].canary_in_flight =>
                /\ breaker[p].canary_in_flight
                /\ ~(at[u] = p /\ flight[u] = "canary")
      PROVE  Guarded'
  <2>1. at' \in [Uploads -> 1 .. Outbox] /\ flight' \in [Uploads -> {"idle", "call", "plain", "canary"}]
    BY <1>t, <1>m
  <2>2. \A v \in Uploads : v # u => at'[v] = at[v] /\ flight'[v] = flight[v]
    BY <1>t, <1>m
  <2>3. flight'[u] \notin {"plain", "canary"}
    BY <1>t, <1>m
  <2>4. \A v \in Uploads : flight'[v] \in {"plain", "canary"} => at'[v] \in Clouds
    BY <1>t, <2>2, <2>3
  <2>5. ASSUME NEW p \in Clouds, breaker'[p].canary_in_flight
        PROVE  \E v \in Uploads : at'[v] = p /\ flight'[v] = "canary"
    <3>1. PICK v \in Uploads : at[v] = p /\ flight[v] = "canary"
      BY <1>t, <1>m, <2>5
    <3>2. v # u
      BY <1>m, <2>5, <3>1
    <3> QED
      BY <2>2, <3>1, <3>2
  <2> QED
    BY <1>g, <1>t, <1>m, <2>1, <2>4, <2>5
<1>1. ASSUME NEW u \in Uploads, Submit(u) PROVE Guarded'
  <2>1. /\ flight[u] = "idle" /\ at' = [at EXCEPT ![u] = 1] /\ flight' = [flight EXCEPT ![u] = "call"]
        /\ UNCHANGED <<breaker, up>>
    BY <1>1 DEF Submit
  <2>2. 1 \in 1 .. Outbox
    BY <1>c DEF Outbox
  <2> QED
    BY <1>m, <1>t, <2>1, <2>2
<1>2. ASSUME NEW u \in Uploads, Call(u) PROVE Guarded'
  <2> DEFINE p == at[u]
             b == Cooled(breaker[p])
  <2>1. flight[u] = "call" /\ p \in Clouds /\ UNCHANGED up
    BY <1>2 DEF Call
  <2>2. Sound(b) /\ (b.canary_in_flight => breaker[p].canary_in_flight) /\ b \in Breaker
    BY <1>t, <2>1, CooledSound DEF Sound
  <2>3. CASE breaker' = [breaker EXCEPT ![p] = b] /\ Cascade(u)
    <3>1. at' = [at EXCEPT ![u] = p + 1] /\ flight' = [flight EXCEPT ![u] = "call"]
      BY <2>3 DEF Cascade
    <3>2. p + 1 \in 1 .. Outbox
      BY <1>n, <2>1
    <3> HIDE DEF b
    <3>3. /\ breaker' \in [Clouds -> Breaker] /\ \A q \in Clouds : Sound(breaker'[q])
          /\ \A q \in Clouds : breaker'[q].canary_in_flight => breaker[q].canary_in_flight
      BY <1>t, <2>1, <2>2, <2>3
    <3> HIDE DEF p
    <3> QED
      BY <1>m, <2>1, <3>1, <3>2, <3>3
  <2>4. CASE /\ b.state = "HALF_OPEN"
             /\ breaker' = [breaker EXCEPT ![p] = [b EXCEPT !.canary_in_flight = TRUE]]
             /\ flight' = [flight EXCEPT ![u] = "canary"]
             /\ UNCHANGED at
    <3> DEFINE c == [b EXCEPT !.canary_in_flight = TRUE]
    <3>1. Sound(c) /\ c \in Breaker
      BY <2>2, <2>4, FlagSound DEF Sound
    <3> HIDE DEF b, c
    <3>2. breaker' = [breaker EXCEPT ![p] = c]
      BY <2>4 DEF c
    <3>3. /\ breaker' \in [Clouds -> Breaker] /\ \A q \in Clouds : Sound(breaker'[q])
          /\ \A q \in Clouds : q # p => breaker'[q] = breaker[q]
      BY <1>t, <2>1, <3>1, <3>2
    <3>4. /\ flight' \in [Uploads -> {"idle", "call", "plain", "canary"}]
          /\ flight'[u] = "canary" /\ at' = at
          /\ \A v \in Uploads : v # u => flight'[v] = flight[v]
      BY <1>t, <2>4
    <3>5. \A v \in Uploads : flight'[v] \in {"plain", "canary"} => at'[v] \in Clouds
      BY <1>t, <2>1, <3>4
    <3>6. ASSUME NEW q \in Clouds, breaker'[q].canary_in_flight
          PROVE  \E v \in Uploads : at'[v] = q /\ flight'[v] = "canary"
      <4>1. CASE q = p
        BY <3>4, <4>1
      <4>2. CASE q # p
        <5>1. PICK v \in Uploads : at[v] = q /\ flight[v] = "canary"
          BY <1>t, <3>3, <3>6, <4>2
        <5>2. v # u
          BY <2>1, <5>1
        <5> QED
          BY <3>4, <5>1, <5>2
      <4> QED
        BY <4>1, <4>2
    <3> QED
      BY <1>g, <1>t, <2>1, <3>3, <3>4, <3>5, <3>6
  <2>5. CASE flight' = [flight EXCEPT ![u] = "plain"] /\ UNCHANGED <<breaker, at>>
    <3>1. /\ flight' \in [Uploads -> {"idle", "call", "plain", "canary"}] /\ at' = at
          /\ \A v \in Uploads : v # u => flight'[v] = flight[v]
      BY <1>t, <2>5
    <3>2. \A v \in Uploads : flight'[v] \in {"plain", "canary"} => at'[v] \in Clouds
      BY <1>t, <2>1, <3>1
    <3>3. ASSUME NEW q \in Clouds, breaker'[q].canary_in_flight
          PROVE  \E v \in Uploads : at'[v] = q /\ flight'[v] = "canary"
      <4>1. PICK v \in Uploads : at[v] = q /\ flight[v] = "canary"
        BY <1>t, <2>5, <3>3
      <4> QED
        BY <2>1, <3>1, <4>1
    <3>4. UNCHANGED <<breaker, up>>
      BY <2>1, <2>5
    <3> QED
      BY <1>g, <1>t, <3>1, <3>2, <3>3, <3>4
  <2> QED
    BY <1>2, <2>3, <2>4, <2>5 DEF Call
<1>3. ASSUME NEW u \in Uploads, End(u) PROVE Guarded'
  <2> DEFINE p == at[u]
             b == breaker[p]
  <2>1. Flying(u) /\ p \in Clouds /\ UNCHANGED up
    BY <1>3, <1>t DEF End, Succeed, Fail, Cancel, Flying
  <2>2. Sound(b)
    BY <1>t, <2>1
  <2>3. ASSUME NEW c, Sound(c), ~c.canary_in_flight, breaker' = [breaker EXCEPT ![p] = c],
               Cascade(u) \/ Over(u)
        PROVE  Guarded'
    <3>1. /\ breaker' \in [Clouds -> Breaker] /\ \A q \in Clouds : Sound(breaker'[q])
          /\ \A q \in Clouds : breaker'[q].canary_in_flight => breaker[q].canary_in_flight /\ q # p
      BY <1>t, <2>1, <2>3 DEF Sound
    <3>2. CASE Cascade(u)
      <4>1. at' = [at EXCEPT ![u] = p + 1] /\ flight' = [flight EXCEPT ![u] = "call"]
        BY <3>2 DEF Cascade
      <4>2. p + 1 \in 1 .. Outbox
        BY <1>n, <2>1
      <4> QED
        BY <1>m, <2>1, <3>1, <4>1, <4>2
    <3>3. CASE Over(u)
      <4>1. at' = [at EXCEPT ![u] = p] /\ flight' = [flight EXCEPT ![u] = "idle"]
        BY <1>t, <3>3 DEF Over
      <4>2. p \in 1 .. Outbox
        BY <1>n, <2>1
      <4> QED
        BY <1>m, <2>1, <3>1, <4>1, <4>2
    <3> QED
      BY <2>3, <3>2, <3>3
  <2>4. CASE Succeed(u)
    BY <2>2, <2>3, <2>4, SuccessSound DEF Succeed
  <2>5. CASE Fail(u)
    BY <2>2, <2>3, <2>5, FailureSound DEF Fail
  <2>6. CASE Cancel(u) /\ flight[u] = "canary"
    BY <2>2, <2>3, <2>6, CancelSound DEF Cancel
  <2>7. CASE Cancel(u) /\ flight[u] # "canary"
    <3>1. /\ UNCHANGED breaker
          /\ at' = [at EXCEPT ![u] = p] /\ flight' = [flight EXCEPT ![u] = "idle"]
      BY <1>t, <2>7 DEF Cancel, Over
    <3>2. p \in 1 .. Outbox
      BY <1>n, <2>1
    <3> QED
      BY <1>m, <1>t, <2>1, <2>7, <3>1, <3>2
  <2> QED
    BY <1>3, <2>4, <2>5, <2>6, <2>7 DEF End
<1>4. ASSUME NEW u \in Uploads, Stage(u) PROVE Guarded'
  <2>1. /\ flight[u] = "call" /\ at' = [at EXCEPT ![u] = at[u]] /\ at[u] \in 1 .. Outbox
        /\ flight' = [flight EXCEPT ![u] = "idle"] /\ UNCHANGED <<breaker, up>>
    BY <1>4, <1>t DEF Stage, Over
  <2> QED
    BY <1>m, <1>t, <2>1
<1>5. ASSUME NEW p \in Clouds, Change(p) PROVE Guarded'
  <2>1. up' = [up EXCEPT ![p] = ~up[p]] /\ UNCHANGED <<breaker, at, flight>>
    BY <1>5 DEF Change
  <2>2. up' \in [Clouds -> BOOLEAN]
    BY <1>t, <2>1
  <2> QED
    BY <1>g, <1>t, <2>1, <2>2
<1>6. CASE Tick
  <2>1. UNCHANGED <<up, at, flight>>
    BY <1>6 DEF Tick
  <2>2. \A p \in Clouds : Sound(breaker'[p]) /\ breaker'[p].canary_in_flight = breaker[p].canary_in_flight
    BY <1>6, <1>t, TickSound DEF Tick
  <2>3. breaker' = [p \in Clouds |-> breaker'[p]]
    BY <1>6 DEF Tick
  <2>4. breaker' \in [Clouds -> Breaker]
    BY <2>2, <2>3 DEF Sound
  <2> QED
    BY <1>g, <1>t, <2>1, <2>2, <2>4
<1>7. CASE UNCHANGED vars
  BY <1>7, <1>g, <1>t DEF vars
<1> QED
  BY <1>1, <1>2, <1>3, <1>4, <1>5, <1>6, <1>7 DEF Next

-----------------------------------------------------------------------------
(* The theorems.                                                           *)

\* The breakers and the uploads stay well typed, and no breaker keeps more failures than
\* its threshold.
THEOREM TypeCorrect == Spec => []TypeOK
<1>1. Init => Guarded
  BY GuardedInit
<1>2. Guarded /\ [Next]_vars => Guarded'
  BY GuardedStep
<1>3. Guarded => TypeOK
  BY DEF Guarded, Sound, TypeOK
<1> QED
  BY <1>1, <1>2, <1>3, PTL DEF Spec

\* A closed circuit has counted fewer failures than would open it, so that one that closes
\* again carries none over.
THEOREM ClosedStaysHealthy == Spec => []ClosedIsHealthy
<1>1. Init => Guarded
  BY GuardedInit
<1>2. Guarded /\ [Next]_vars => Guarded'
  BY GuardedStep
<1>3. Guarded => ClosedIsHealthy
  BY DEF Guarded, Sound, ClosedIsHealthy
<1> QED
  BY <1>1, <1>2, <1>3, PTL DEF Spec

\* The flag that keeps every other call out stands for a probe in flight, however probes
\* are cancelled and late calls of before the opening end: no provider is shut out for good.
THEOREM FlagStandsForProbe == Spec => []FlagHasCanary
<1>1. Init => Guarded
  BY GuardedInit
<1>2. Guarded /\ [Next]_vars => Guarded'
  BY GuardedStep
<1>3. Guarded => FlagHasCanary
  BY DEF Guarded, Sound, FlagHasCanary, Canaries
<1> QED
  BY <1>1, <1>2, <1>3, PTL DEF Spec

\* A circuit only opens in a step in which a call fails: no other section takes a closed
\* circuit to OPEN.
LEMMA OpensStep ==
    Guarded /\ [Next]_vars =>
        \A p \in Clouds :
            breaker[p].state = "CLOSED" /\ breaker'[p].state = "OPEN" =>
                /\ Len(breaker'[p].failures) = failure_threshold
                /\ \A i \in 1 .. failure_threshold :
                      breaker'[p].failures[i] <= failure_window_seconds
<1> SUFFICES ASSUME Guarded, [Next]_vars, NEW p \in Clouds,
                    breaker[p].state = "CLOSED", breaker'[p].state = "OPEN"
             PROVE  /\ Len(breaker'[p].failures) = failure_threshold
                    /\ \A i \in 1 .. failure_threshold :
                          breaker'[p].failures[i] <= failure_window_seconds
  OBVIOUS
<1>t. /\ breaker \in [Clouds -> Breaker] /\ \A q \in Clouds : Sound(breaker[q])
      /\ breaker' # breaker
  BY DEF Guarded
<1>k. ASSUME NEW q, NEW c, breaker' = [breaker EXCEPT ![q] = c]
      PROVE  q = p /\ c.state = "OPEN" /\ breaker'[p] = c
  BY <1>k, <1>t
<1>1. ASSUME NEW u \in Uploads, Call(u) PROVE FALSE
  <2> DEFINE b == Cooled(breaker[at[u]])
  <2>1. CASE breaker' = [breaker EXCEPT ![at[u]] = b]
    <3>1. at[u] = p /\ b.state = "OPEN"
      BY <1>k, <2>1
    <3> QED
      BY <3>1 DEF Cooled
  <2>2. CASE b.state = "HALF_OPEN" /\ breaker' = [breaker EXCEPT ![at[u]] =
                                                     [b EXCEPT !.canary_in_flight = TRUE]]
    <3>1. at[u] = p
      BY <1>k, <2>2
    <3> QED
      BY <2>2, <3>1 DEF Cooled
  <2> QED
    BY <1>1, <1>t, <2>1, <2>2 DEF Call
<1>2. ASSUME NEW u \in Uploads, Succeed(u) PROVE FALSE
  <2>1. at[u] = p /\ RecordSuccess(breaker[p]).state = "OPEN"
    BY <1>2, <1>k DEF Succeed
  <2> QED
    BY <2>1, <1>t, SuccessSound
<1>3. ASSUME NEW u \in Uploads, Cancel(u) PROVE FALSE
  <2>1. at[u] = p /\ RecordCancel(breaker[p]).state = "OPEN"
    BY <1>3, <1>t, <1>k DEF Cancel
  <2> QED
    BY <2>1, <1>t, CancelSound
<1>4. CASE Tick
  BY <1>4, <1>t, TickSound DEF Tick
<1>5. ASSUME NEW u \in Uploads, Fail(u)
      PROVE  /\ Len(breaker'[p].failures) = failure_threshold
             /\ \A i \in 1 .. failure_threshold :
                   breaker'[p].failures[i] <= failure_window_seconds
  <2>1. /\ at[u] = p /\ breaker'[p] = RecordFailure(breaker[p])
        /\ RecordFailure(breaker[p]).state = "OPEN"
    BY <1>5, <1>k DEF Fail
  <2> QED
    BY <2>1, <1>t, FailureSound
<1> QED
  BY <1>t, <1>1, <1>2, <1>3, <1>4, <1>5 DEF Next, End, Submit, Stage, Change, vars

\* A circuit opens on failure_threshold failures within the window: failures that the
\* window left behind never count.
THEOREM OpensOnThreshold == Spec => OpensOnFailures
<1>1. Init => Guarded
  BY GuardedInit
<1>2. Guarded /\ [Next]_vars => Guarded'
  BY GuardedStep
<1>3. Guarded /\ [Next]_vars =>
         [\A p \in Clouds :
             breaker[p].state = "CLOSED" /\ breaker'[p].state = "OPEN" =>
                 /\ Len(breaker'[p].failures) = failure_threshold
                 /\ \A i \in 1 .. failure_threshold :
                       breaker'[p].failures[i] <= failure_window_seconds]_vars
  BY OpensStep
<1> QED
  BY <1>1, <1>2, <1>3, PTL DEF Spec, OpensOnFailures
=============================================================================
