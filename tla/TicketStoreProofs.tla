------------------------- MODULE TicketStoreProofs -------------------------
(***************************************************************************)
(* The ticket store's promises, for any number of calls, any capacity but   *)
(* zero and any times to live.  (With a capacity of zero the first eviction *)
(* would pop an empty dictionary.)                                          *)
(***************************************************************************)
EXTENDS TicketStore, TLAPS

Sensible ==
    /\ Creates \cap Consumes = {}
    /\ None \notin Creates
    /\ max_capacity \in Nat \ {0}
    /\ MaxTtl \in Nat

\* The dictionary's keys are distinct and have been stored, once.
StoredOnce ==
    /\ \A i, j \in 1 .. Len(tickets) : tickets[i] = tickets[j] => i = j
    /\ \A i \in 1 .. Len(tickets) : pc[tickets[i]] = "stored"

\* What a call has popped is in no other place, and a call past the lock has popped one.
PoppedOnce ==
    /\ \A c \in Consumes : entry[c] # None => pc[entry[c]] = "stored" /\ ~ Stored(entry[c])
    /\ \A c, d \in Consumes : entry[c] # None /\ entry[c] = entry[d] => c = d
    /\ \A c \in Consumes : pc[c] \in {"check", "granted"} => entry[c] # None
    /\ \A c \in Consumes : pc[c] = "start" => entry[c] = None

\* Behind the ticket at place i, all were stored after it.
InOrder == \A i \in 1 .. Len(tickets) : rank[tickets[i]] + (Len(tickets) - i) <= issued

Inv == TypeOK /\ StoredOnce /\ PoppedOnce /\ InOrder /\ CapacityKept /\ LiveTicketsKept

LEMMA InitInv == Sensible /\ Init => Inv
  BY DEF Sensible, Init, Inv, TypeOK, StoredOnce, PoppedOnce, InOrder, CapacityKept,
         LiveTicketsKept, Stored, Calls

\* What the store holds after an insertion that drops the first e tickets.
LEMMA AfterStore ==
  ASSUME NEW S, NEW s \in Seq(S), NEW r \in S, NEW e \in 0 .. Len(s),
         NEW t, t = Append(SubSeq(s, e + 1, Len(s)), r)
  PROVE  /\ t \in Seq(S)
         /\ Len(t) = Len(s) - e + 1
         /\ \A i \in 1 .. Len(t) - 1 : t[i] = s[e + i]
         /\ t[Len(t)] = r
  <1> DEFINE u == SubSeq(s, e + 1, Len(s))
  <1>1. u \in Seq(S) /\ Len(u) = Len(s) - e /\ \A i \in 1 .. Len(u) : u[i] = s[e + i]
    OBVIOUS
  <1> HIDE DEF u
  <1>2. t = Append(u, r)
    BY DEF u
  <1>3. /\ t \in Seq(S)
        /\ Len(t) = Len(u) + 1
        /\ \A i \in 1 .. Len(u) : t[i] = u[i]
        /\ t[Len(u) + 1] = r
    BY <1>1, <1>2
  <1>4. Len(s) \in Nat /\ Len(u) = Len(t) - 1
    BY <1>1, <1>3
  <1> QED BY <1>1, <1>3, <1>4

\* What it holds after the ticket at place i was popped.
LEMMA AfterPop ==
  ASSUME NEW S, NEW s \in Seq(S), NEW i \in 1 .. Len(s),
         NEW t, t = [j \in 1 .. Len(s) - 1 |-> IF j < i THEN s[j] ELSE s[j + 1]]
  PROVE  /\ t \in Seq(S)
         /\ Len(t) = Len(s) - 1
         /\ \A j \in 1 .. Len(t) : t[j] = IF j < i THEN s[j] ELSE s[j + 1]
  <1>1. \A j \in 1 .. Len(s) - 1 : t[j] \in S
    OBVIOUS
  <1>2. Len(s) - 1 \in Nat /\ t \in [1 .. Len(s) - 1 -> S]
    BY <1>1
  <1> QED BY <1>2

\* An insertion keeps the invariant.  The only live ticket that goes is the first, when
\* all the others of a full store were stored after it.
LEMMA StoreStep ==
  ASSUME Sensible, Inv, NEW r \in Creates, Store(r)
  PROVE  Inv'
  <1>0. PICK k \in 0 .. Len(tickets) :
           /\ ExpiredFront(k)
           /\ tickets' = Append(SubSeq(tickets, Evicted(k) + 1, Len(tickets)), r)
    BY DEF Store
  <1> DEFINE e == Evicted(k)
             n == Len(tickets)
             m == n - e
  <1>t. TypeOK /\ n \in Nat /\ max_capacity \in Nat \ {0} /\ n <= max_capacity
    BY DEF Inv, TypeOK, CapacityKept, Sensible
  <1>1. /\ e \in 0 .. n
        /\ e \in {k, k + 1}
        /\ m \in Nat
        /\ n = m + e
        /\ m < max_capacity
        /\ e = k + 1 => n - k >= max_capacity
    BY <1>t DEF Evicted
  <1> HIDE DEF e, n, m
  <1>2. /\ tickets' \in Seq(Creates)
        /\ Len(tickets') = m + 1
        /\ \A i \in 1 .. m : tickets'[i] = tickets[e + i]
        /\ tickets'[m + 1] = r
    <2>1. tickets' = Append(SubSeq(tickets, e + 1, Len(tickets)), r)
      BY <1>0 DEF e
    <2> QED BY <2>1, <1>t, <1>1, AfterStore DEF TypeOK, n
  <1>3. /\ pc[r] = "store"
        /\ issued' = issued + 1
        /\ rank' = [rank EXCEPT ![r] = issued + 1]
        /\ pc' = [pc EXCEPT ![r] = "stored"]
        /\ UNCHANGED <<now, expires_at, entry>>
    BY DEF Store
  <1>4. \A i \in 1 .. n : tickets[i] \in Creates /\ tickets[i] # r
    BY <1>t, <1>3 DEF Inv, StoredOnce, TypeOK, n
  <1>5. TypeOK'
    BY <1>t, <1>2, <1>3 DEF TypeOK, Calls
  <1>6. StoredOnce'
    <2>1. \A i, j \in 1 .. m + 1 : tickets'[i] = tickets'[j] => i = j
      <3>1. \A i, j \in 1 .. m : tickets[e + i] = tickets[e + j] => i = j
        BY <1>t, <1>1 DEF Inv, StoredOnce, n
      <3>2. \A i \in 1 .. m : tickets'[i] # r
        BY <1>t, <1>1, <1>2, <1>4
      <3> QED BY <3>1, <3>2, <1>t, <1>1, <1>2
    <2>2. \A i \in 1 .. m + 1 : pc'[tickets'[i]] = "stored"
      <3>1. \A i \in 1 .. n : pc[tickets[i]] = "stored"
        BY DEF Inv, StoredOnce, n
      <3>2. \A i \in 1 .. m : pc'[tickets'[i]] = "stored"
        <4> TAKE i \in 1 .. m
        <4>1. e + i \in 1 .. n /\ tickets'[i] = tickets[e + i]
          BY <1>t, <1>1, <1>2
        <4>2. pc[tickets[e + i]] = "stored" /\ tickets[e + i] # r
          BY <4>1, <3>1, <1>4
        <4> QED BY <4>1, <4>2, <1>t, <1>3, <1>4 DEF TypeOK, Calls
      <3>3. pc'[r] = "stored"
        BY <1>t, <1>3 DEF TypeOK, Calls
      <3> QED BY <3>2, <3>3, <1>t, <1>1, <1>2
    <2> QED BY <2>1, <2>2, <1>2 DEF StoredOnce
  <1>7. PoppedOnce'
    <2>1. \A c \in Consumes : entry[c] # None => entry[c] # r
      BY <1>3 DEF Inv, PoppedOnce
    <2>2. \A c \in Consumes : pc'[c] = pc[c]
      BY <1>t, <1>3 DEF TypeOK, Calls, Sensible
    <2>3. \A c \in Consumes : entry[c] # None => ~ Stored(entry[c])'
      <3> SUFFICES ASSUME NEW c \in Consumes, entry[c] # None,
                          NEW i \in 1 .. m + 1, tickets'[i] = entry[c]
                   PROVE  FALSE
        BY <1>2, <1>3 DEF Stored
      <3>1. i \in 1 .. m /\ e + i \in 1 .. n
        <4>1. i # m + 1
          BY <2>1, <1>2
        <4> QED BY <4>1, <1>t, <1>1
      <3>2. tickets[e + i] = entry[c]
        BY <3>1, <1>2
      <3> QED BY <3>1, <3>2 DEF Inv, PoppedOnce, Stored, n
    <2>4. \A c \in Consumes : entry[c] # None => pc'[entry[c]] = "stored"
      BY <2>1, <1>t, <1>3 DEF Inv, PoppedOnce, TypeOK, Calls
    <2> QED BY <2>2, <2>3, <2>4, <1>3 DEF Inv, PoppedOnce
  <1>8. InOrder'
    <2>1. \A i \in 1 .. m : rank'[tickets'[i]] + (m + 1 - i) <= issued + 1
      <3> TAKE i \in 1 .. m
      <3>1. e + i \in 1 .. n
        BY <1>t, <1>1
      <3>2. rank'[tickets'[i]] = rank[tickets[e + i]]
        BY <3>1, <1>t, <1>2, <1>3, <1>4 DEF TypeOK
      <3>3. rank[tickets[e + i]] + (n - (e + i)) <= issued
        BY <3>1 DEF Inv, InOrder, n
      <3>4. rank[tickets[e + i]] \in Nat
        BY <3>1, <1>t, <1>4 DEF TypeOK
      <3> QED BY <3>2, <3>3, <3>4, <1>t, <1>1 DEF TypeOK
    <2>2. rank'[tickets'[m + 1]] = issued + 1
      BY <1>t, <1>2, <1>3 DEF TypeOK
    <2>3. issued' = issued + 1 /\ issued \in Nat /\ Len(tickets') = m + 1 /\ m \in Nat
      BY <1>t, <1>1, <1>2, <1>3 DEF TypeOK
    <2> SUFFICES ASSUME NEW i \in 1 .. m + 1
                 PROVE  rank'[tickets'[i]] + (m + 1 - i) <= issued + 1
      BY <2>3 DEF InOrder
    <2>4. CASE i = m + 1
      BY <2>2, <2>3, <2>4
    <2>5. CASE i # m + 1
      <3>1. i \in 1 .. m
        BY <2>3, <2>5
      <3> QED BY <3>1, <2>1
    <2> QED BY <2>4, <2>5
  <1>9. CapacityKept'
    BY <1>t, <1>1, <1>2 DEF CapacityKept
  <1>10. LiveTicketsKept'
    <2> SUFFICES ASSUME NEW q \in Creates, pc'[q] = "stored", ~ Dead(q)',
                        \A c \in Consumes : entry'[c] # q
                 PROVE  Stored(q)' \/ issued' - rank'[q] >= max_capacity
      BY DEF LiveTicketsKept
    <2>1. CASE q = r
      <3>1. m + 1 \in 1 .. Len(tickets')
        BY <1>t, <1>1, <1>2
      <3> QED BY <2>1, <3>1, <1>2 DEF Stored
    <2>2. CASE q # r
      <3>1. /\ pc[q] = "stored"
            /\ ~ Dead(q)
            /\ \A c \in Consumes : entry[c] # q
            /\ rank'[q] = rank[q]
        BY <2>2, <1>t, <1>3 DEF Dead, TypeOK, Calls
      <3>2. CASE issued - rank[q] >= max_capacity
        BY <3>1, <3>2, <1>t, <1>3 DEF TypeOK
      <3>3. CASE Stored(q)
        <4>1. PICK j \in 1 .. n : tickets[j] = q
          BY <3>3 DEF Stored, n
        <4>2. CASE j > e
          <5>1. j - e \in 1 .. m /\ tickets'[j - e] = q
            BY <4>1, <4>2, <1>t, <1>1, <1>2
          <5> QED BY <5>1, <1>t, <1>1, <1>2 DEF Stored
        <4>3. CASE j <= e
          <5>1. j > k
            BY <4>1, <3>1, <1>0, <1>t DEF ExpiredFront
          <5>2. j = k + 1 /\ e = k + 1
            BY <5>1, <4>1, <4>3, <1>1, <1>t
          <5>3. rank[q] + (n - j) <= issued
            BY <4>1 DEF Inv, InOrder, n
          <5> QED BY <5>2, <5>3, <3>1, <1>1, <1>3, <1>t, <4>1 DEF TypeOK
        <4> QED BY <4>1, <4>2, <4>3, <1>1, <1>t
      <3> QED BY <3>1, <3>2, <3>3 DEF Inv, LiveTicketsKept
    <2> QED BY <2>1, <2>2
  <1> QED BY <1>5, <1>6, <1>7, <1>8, <1>9, <1>10 DEF Inv

\* So does the removal of a ticket by the call that uses it.
LEMMA PopStep ==
  ASSUME Sensible, Inv, NEW c \in Consumes, Pop(c)
  PROVE  Inv'
  <1>0. PICK i \in 1 .. Len(tickets) :
           /\ entry' = [entry EXCEPT ![c] = tickets[i]]
           /\ tickets' = Without(i)
    BY DEF Pop
  <1> DEFINE n == Len(tickets)
  <1>t. TypeOK /\ n \in Nat /\ n <= max_capacity /\ max_capacity \in Nat
    BY DEF Inv, TypeOK, CapacityKept, Sensible
  <1> HIDE DEF n
  <1>1. /\ tickets' \in Seq(Creates)
        /\ Len(tickets') = n - 1
        /\ \A j \in 1 .. n - 1 :
              tickets'[j] = tickets[IF j < i THEN j ELSE j + 1]
    <2>1. tickets' = [j \in 1 .. Len(tickets) - 1 |->
                         IF j < i THEN tickets[j] ELSE tickets[j + 1]]
      BY <1>0 DEF Without
    <2>2. /\ tickets' \in Seq(Creates)
          /\ Len(tickets') = n - 1
          /\ \A j \in 1 .. Len(tickets') :
                tickets'[j] = IF j < i THEN tickets[j] ELSE tickets[j + 1]
      BY <2>1, <1>t, AfterPop DEF TypeOK, n
    <2> QED BY <2>2
  <1>2. i \in 1 .. n /\ tickets[i] \in Creates
    BY <1>t DEF TypeOK, n
  <1>3. /\ pc[c] = "start"
        /\ pc' = [pc EXCEPT ![c] = "check"]
        /\ UNCHANGED <<now, expires_at, issued, rank>>
    BY DEF Pop
  <1>4. \A j \in 1 .. n - 1 : \E l \in 1 .. n :
           /\ tickets'[j] = tickets[l]
           /\ l # i
           /\ n - 1 - j <= n - l
           /\ l = IF j < i THEN j ELSE j + 1
    BY <1>1, <1>2, <1>t
  <1>5. TypeOK'
    BY <1>t, <1>0, <1>1, <1>2, <1>3 DEF TypeOK, Calls
  <1>p. \A r \in Creates : pc'[r] = pc[r]
    BY <1>t, <1>3 DEF TypeOK, Calls, Sensible
  <1>d. \A l, m \in 1 .. n : tickets[l] = tickets[m] => l = m
    BY DEF Inv, StoredOnce, n
  <1>6. StoredOnce'
    <2>1. \A j, m \in 1 .. n - 1 : tickets'[j] = tickets'[m] => j = m
      BY <1>4, <1>d, <1>2, <1>t
    <2>2. \A j \in 1 .. n - 1 : pc'[tickets'[j]] = "stored"
      <3>1. \A l \in 1 .. n : tickets[l] \in Creates /\ pc[tickets[l]] = "stored"
        BY <1>t DEF Inv, StoredOnce, TypeOK, n
      <3> QED BY <3>1, <1>4, <1>p
    <2> QED BY <2>1, <2>2, <1>1 DEF StoredOnce
  <1> PICK r \in Creates : r = tickets[i]
    BY <1>2
  <1>7. /\ Stored(r)
        /\ ~ Stored(r)'
        /\ \A q \in Creates : Stored(q)' => Stored(q)
        /\ \A q \in Creates : Stored(q) /\ q # r => Stored(q)'
    <2>1. ~ Stored(r)'
      <3> SUFFICES ASSUME NEW j \in 1 .. n - 1, tickets'[j] = r
                   PROVE  FALSE
        BY <1>1 DEF Stored
      <3>1. PICK l \in 1 .. n : tickets[l] = r /\ l # i
        BY <1>4
      <3> QED BY <3>1, <1>d, <1>2
    <2>2. ASSUME NEW q \in Creates, Stored(q)'
          PROVE  Stored(q)
      BY <2>2, <1>1, <1>4 DEF Stored, n
    <2>3. ASSUME NEW q \in Creates, Stored(q), q # r
          PROVE  Stored(q)'
      <3>1. PICK l \in 1 .. n : tickets[l] = q
        BY <2>3 DEF Stored, n
      <3>2. l # i
        BY <3>1, <2>3
      <3>3. CASE l < i
        <4>1. l \in 1 .. n - 1 /\ tickets'[l] = tickets[l]
          BY <3>3, <1>1, <1>2, <1>t
        <4> QED BY <4>1, <3>1, <1>1 DEF Stored
      <3>4. CASE l > i
        <4>1. PICK j \in 1 .. n - 1 : j + 1 = l /\ ~ (j < i)
          BY <3>4, <1>2, <1>t
        <4>2. tickets'[j] = tickets[l]
          BY <4>1, <1>1
        <4> QED BY <4>1, <4>2, <3>1, <1>1 DEF Stored
      <3> QED BY <3>2, <3>3, <3>4, <1>2, <1>t
    <2>4. Stored(r)
      BY DEF Stored
    <2> QED BY <2>1, <2>2, <2>3, <2>4
  <1>8. PoppedOnce'
    <2>1. entry' = [entry EXCEPT ![c] = r] /\ entry[c] = None /\ r # None
      BY <1>0, <1>3 DEF Inv, PoppedOnce, Sensible
    <2>2. \A d \in Consumes : entry[d] # None => entry[d] # r /\ ~ Stored(entry[d])
      BY <1>7 DEF Inv, PoppedOnce
    <2>3. \A d \in Consumes : entry'[d] = IF d = c THEN r ELSE entry[d]
      BY <2>1, <1>t DEF TypeOK
    <2>4. \A d \in Consumes : d # c => pc'[d] = pc[d]
      BY <1>3, <1>t DEF TypeOK, Calls
    <2>5. \A d \in Consumes : entry'[d] # None => pc'[entry'[d]] = "stored" /\ ~ Stored(entry[d])'
      <3> SUFFICES ASSUME NEW d \in Consumes, NEW q \in Creates, entry'[d] = q
                   PROVE  pc'[q] = "stored" /\ ~ Stored(q)'
        <4>1. \A d \in Consumes : entry'[d] # None => entry'[d] \in Creates
          BY <1>5 DEF TypeOK
        <4> QED BY <4>1 DEF Stored
      <3>1. CASE d = c
        <4>1. q = r /\ pc[r] = "stored"
          BY <3>1, <2>3 DEF Inv, StoredOnce
        <4> QED BY <4>1, <1>7, <1>p
      <3>2. CASE d # c
        <4>1. entry[d] = q /\ q # None
          BY <3>2, <2>3 DEF Sensible
        <4>2. pc[q] = "stored" /\ ~ Stored(q)
          BY <4>1 DEF Inv, PoppedOnce
        <4> QED BY <4>2, <1>7, <1>p
      <3> QED BY <3>1, <3>2
    <2>6. \A d, f \in Consumes : entry'[d] # None /\ entry'[d] = entry'[f] => d = f
      BY <2>2, <2>3 DEF Inv, PoppedOnce
    <2>7. pc'[c] = "check"
      BY <1>3, <1>t DEF TypeOK, Calls
    <2> QED BY <2>1, <2>3, <2>4, <2>5, <2>6, <2>7 DEF Inv, PoppedOnce
  <1>9. InOrder'
    <2> SUFFICES ASSUME NEW j \in 1 .. n - 1
                 PROVE  rank[tickets'[j]] + (n - 1 - j) <= issued
      BY <1>1, <1>3 DEF InOrder
    <2>1. PICK l \in 1 .. n : tickets'[j] = tickets[l] /\ n - 1 - j <= n - l
      BY <1>4
    <2>2. rank[tickets[l]] + (n - l) <= issued
      BY DEF Inv, InOrder, n
    <2>3. rank[tickets[l]] \in Nat /\ issued \in Nat
      BY <1>t DEF TypeOK, n
    <2> QED BY <2>1, <2>2, <2>3, <1>t
  <1>10. CapacityKept'
    BY <1>1, <1>t DEF CapacityKept
  <1>11. LiveTicketsKept'
    <2> SUFFICES ASSUME NEW q \in Creates, pc'[q] = "stored", ~ Dead(q)',
                        \A d \in Consumes : entry'[d] # q
                 PROVE  Stored(q)' \/ issued' - rank'[q] >= max_capacity
      BY DEF LiveTicketsKept
    <2>1. q # r /\ \A d \in Consumes : entry[d] # q
      <3>1. entry'[c] = r
        BY <1>0, <1>t DEF TypeOK
      <3>2. entry[c] = None
        BY <1>3 DEF Inv, PoppedOnce
      <3>3. \A d \in Consumes : d # c => entry'[d] = entry[d]
        BY <1>0, <1>t DEF TypeOK
      <3> QED BY <3>1, <3>2, <3>3 DEF Sensible
    <2>2. pc[q] = "stored" /\ ~ Dead(q)
      BY <1>p, <1>3 DEF Dead
    <2> QED BY <2>1, <2>2, <1>3, <1>7 DEF Inv, LiveTicketsKept
  <1> QED BY <1>5, <1>6, <1>8, <1>9, <1>10, <1>11 DEF Inv

\* The steps that leave the dictionary alone keep the invariant: what has expired stays
\* expired while time goes on.
LEMMA OtherStep ==
  ASSUME Sensible, Inv,
         \/ Tick
         \/ \E r \in Creates : ComputeExpiry(r)
         \/ \E c \in Consumes : PopNothing(c) \/ CheckExpiry(c)
         \/ UNCHANGED vars
  PROVE  Inv'
  <1>t. TypeOK
    BY DEF Inv
  <1>1. TypeOK'
    <2>1. CASE Tick
      BY <2>1, <1>t DEF TypeOK, Tick
    <2>2. ASSUME NEW r \in Creates, ComputeExpiry(r)
          PROVE  TypeOK'
      BY <2>2, <1>t DEF TypeOK, Calls, Sensible, ComputeExpiry
    <2>3. ASSUME NEW c \in Consumes, PopNothing(c) \/ CheckExpiry(c)
          PROVE  TypeOK'
      BY <2>3, <1>t DEF TypeOK, Calls, PopNothing, CheckExpiry
    <2>4. CASE UNCHANGED vars
      BY <2>4, <1>t DEF TypeOK, vars
    <2> QED BY <2>1, <2>2, <2>3, <2>4
  <1>2. UNCHANGED <<tickets, entry, issued, rank>>
    BY DEF Tick, ComputeExpiry, PopNothing, CheckExpiry, vars
  <1>3. \A r \in Creates : pc'[r] = "stored" <=> pc[r] = "stored"
    BY <1>t DEF TypeOK, Calls, Sensible, Tick, ComputeExpiry, PopNothing, CheckExpiry, vars
  <1>4. \A c \in Consumes :
          /\ pc'[c] \in {"check", "granted"} => pc[c] \in {"check", "granted"}
          /\ pc'[c] = "start" => pc[c] = "start"
    BY <1>t DEF TypeOK, Calls, Sensible, Tick, ComputeExpiry, PopNothing, CheckExpiry, vars
  <1>5. \A r \in Creates : pc[r] = "stored" /\ Dead(r) => Dead(r)'
    <2>1. now' >= now
      BY <1>t DEF TypeOK, Tick, ComputeExpiry, PopNothing, CheckExpiry, vars
    <2>2. \A r \in Creates : pc[r] = "stored" => expires_at'[r] = expires_at[r]
      BY <1>t DEF TypeOK, Tick, ComputeExpiry, PopNothing, CheckExpiry, vars
    <2> QED BY <2>1, <2>2, <1>t, <1>1 DEF TypeOK, Dead
  <1>6. \A r : Stored(r)' <=> Stored(r)
    BY <1>2 DEF Stored
  <1>7. StoredOnce'
    <2>1. \A i \in 1 .. Len(tickets) : tickets[i] \in Creates
      BY <1>t DEF TypeOK
    <2> QED BY <2>1, <1>2, <1>3 DEF Inv, StoredOnce
  <1>8. PoppedOnce'
    BY <1>t, <1>2, <1>3, <1>4, <1>6 DEF Inv, PoppedOnce, TypeOK
  <1>9. InOrder' /\ CapacityKept'
    BY <1>2 DEF Inv, InOrder, CapacityKept
  <1>10. LiveTicketsKept'
    BY <1>2, <1>3, <1>5, <1>6 DEF Inv, LiveTicketsKept
  <1> QED BY <1>1, <1>7, <1>8, <1>9, <1>10 DEF Inv

\* The invariant holds always.
LEMMA Invariance == ASSUME Sensible PROVE Spec => []Inv
  <1>1. Init => Inv
    BY InitInv
  <1>2. Inv /\ [Next]_vars => Inv'
    BY StoreStep, PopStep, OtherStep DEF Next
  <1> QED BY <1>1, <1>2, PTL DEF Spec

\* create_ticket and consume_ticket: a ticket is exchanged by one call at the most,
\* however many race for it and whatever is stored and evicted meanwhile.
THEOREM OneAdmission == ASSUME Sensible PROVE Spec => []SingleUse
  <1>1. Inv => SingleUse
    BY DEF Inv, PoppedOnce, SingleUse
  <1> QED BY <1>1, Invariance, PTL

\* create_ticket: the store never holds more than max_capacity tickets.
THEOREM CapacityBounds == ASSUME Sensible PROVE Spec => []CapacityKept
  <1>1. Inv => CapacityKept
    BY DEF Inv
  <1> QED BY <1>1, Invariance, PTL

\* create_ticket: a ticket that is neither used nor outlived is lost only after as many
\* later ones as the store can hold, although entries are not in order of expiry.
THEOREM LiveTicketsStay == ASSUME Sensible PROVE Spec => []LiveTicketsKept
  <1>1. Inv => LiveTicketsKept
    BY DEF Inv
  <1> QED BY <1>1, Invariance, PTL
=============================================================================
