---------------------------- MODULE TicketStore ----------------------------
(***************************************************************************)
(* The store of single-use tickets (auth.py 136-179).  create_ticket runs   *)
(* in threads of the server's pool, consume_ticket on its event loop: any   *)
(* number of calls meet at the lock, in any order.  Each takes the time     *)
(* once outside it, so tickets need not be stored in the order in which     *)
(* they expire.  A ticket is named by the call that creates it: 256 random  *)
(* bits do not repeat.                                                      *)
(***************************************************************************)
EXTENDS Integers, Sequences

CONSTANTS
    Creates,        \* the calls of create_ticket
    Consumes,       \* the calls of consume_ticket
    None,           \* what pop returns for a ticket it does not find
    max_capacity,   \* tickets the store may hold
    MaxTtl,         \* bound: the longest time to live a caller asks for
    MaxTime         \* bound: the last instant considered

VARIABLES
    now,            \* time.monotonic()
    tickets,        \* the OrderedDict's keys, oldest first
    expires_at,     \* expires_at[r]: computed by call r, the value stored with its ticket
    entry,          \* entry[c]: the ticket that call c has popped
    pc,             \* where each call is
    issued,         \* history: how many tickets have been stored
    rank            \* history: rank[r] is the number of r's ticket among them

vars == <<now, tickets, expires_at, entry, pc, issued, rank>>

Calls == Creates \cup Consumes

Init ==
    /\ now = 0
    /\ tickets = <<>>
    /\ expires_at = [r \in Creates |-> 0]
    /\ entry = [c \in Consumes |-> None]
    /\ pc = [p \in Calls |-> "start"]
    /\ issued = 0
    /\ rank = [r \in Creates |-> 0]

Stored(r) == \E i \in 1 .. Len(tickets) : tickets[i] = r

Dead(r) == now > expires_at[r]

\* create_ticket before the lock.
ComputeExpiry(r) ==
    /\ pc[r] = "start"
    /\ \E ttl_seconds \in 0 .. MaxTtl :
          expires_at' = [expires_at EXCEPT ![r] = now + ttl_seconds]
    /\ pc' = [pc EXCEPT ![r] = "store"]
    /\ UNCHANGED <<now, tickets, entry, issued, rank>>

\* The loop drops expired tickets from the front, up to the first that has not expired.
ExpiredFront(k) ==
    /\ k \in 0 .. Len(tickets)
    /\ \A i \in 1 .. k : Dead(tickets[i])
    /\ k < Len(tickets) => ~ Dead(tickets[k + 1])

\* One ticket more goes when those that remain fill the store.
Evicted(k) == IF Len(tickets) - k >= max_capacity THEN k + 1 ELSE k

Store(r) ==
    /\ pc[r] = "store"
    /\ \E k \in 0 .. Len(tickets) :
          /\ ExpiredFront(k)
          /\ tickets' = Append(SubSeq(tickets, Evicted(k) + 1, Len(tickets)), r)
    /\ issued' = issued + 1
    /\ rank' = [rank EXCEPT ![r] = issued + 1]
    /\ pc' = [pc EXCEPT ![r] = "stored"]
    /\ UNCHANGED <<now, expires_at, entry>>

Without(i) ==
    [j \in 1 .. Len(tickets) - 1 |-> IF j < i THEN tickets[j] ELSE tickets[j + 1]]

\* consume_ticket under the lock, for a ticket the store holds.
Pop(c) ==
    /\ pc[c] = "start"
    /\ \E i \in 1 .. Len(tickets) :
          /\ entry' = [entry EXCEPT ![c] = tickets[i]]
          /\ tickets' = Without(i)
    /\ pc' = [pc EXCEPT ![c] = "check"]
    /\ UNCHANGED <<now, expires_at, issued, rank>>

\* ... and for one it does not hold.
PopNothing(c) ==
    /\ pc[c] = "start"
    /\ pc' = [pc EXCEPT ![c] = "refused"]
    /\ UNCHANGED <<now, tickets, expires_at, entry, issued, rank>>

\* consume_ticket after the lock: the time is read again.
CheckExpiry(c) ==
    /\ pc[c] = "check"
    /\ pc' = [pc EXCEPT ![c] = IF Dead(entry[c]) THEN "refused" ELSE "granted"]
    /\ UNCHANGED <<now, tickets, expires_at, entry, issued, rank>>

Tick ==
    /\ now < MaxTime
    /\ now' = now + 1
    /\ UNCHANGED <<tickets, expires_at, entry, pc, issued, rank>>

Next ==
    \/ Tick
    \/ \E r \in Creates : ComputeExpiry(r) \/ Store(r)
    \/ \E c \in Consumes : Pop(c) \/ PopNothing(c) \/ CheckExpiry(c)

Spec == Init /\ [][Next]_vars

-----------------------------------------------------------------------------
TypeOK ==
    /\ now \in Nat
    /\ tickets \in Seq(Creates)
    /\ expires_at \in [Creates -> Nat]
    /\ entry \in [Consumes -> Creates \cup {None}]
    /\ pc \in [Calls -> {"start", "store", "stored", "check", "refused", "granted"}]
    /\ issued \in Nat
    /\ rank \in [Creates -> Nat]

\* However many calls race for it, a ticket admits one of them.
SingleUse ==
    \A c, d \in Consumes :
        pc[c] = "granted" /\ pc[d] = "granted" /\ entry[c] = entry[d] => c = d

\* The store never outgrows its capacity: eviction makes room before every insertion.
CapacityKept == Len(tickets) <= max_capacity

\* A ticket that has been neither used nor outlived is still there, unless as many
\* tickets as the store can hold were stored after it: what the front of the queue
\* loses is what the docstring's FIFO order says, even with expired tickets in between.
LiveTicketsKept ==
    \A r \in Creates :
        pc[r] = "stored" /\ ~ Dead(r) /\ (\A c \in Consumes : entry[c] # r)
            => Stored(r) \/ issued - rank[r] >= max_capacity
=============================================================================
