-------------------------- MODULE RetentionPolicy --------------------------
(***************************************************************************)
(* classify_snapshots (retention.py): which snapshots the grandfather,      *)
(* father, son rules give up.  The calendar is a parameter: WeekOf and      *)
(* MonthOf number the ISO week and the month of an instant, so that those   *)
(* of k weeks or months before are k less.                                  *)
(***************************************************************************)
EXTENDS Integers

CONSTANTS
    MaxTime,            \* the last instant considered
    WeekOf,             \* WeekOf[t]: number of the ISO week of instant t
    MonthOf,            \* MonthOf[t]: number of the month of instant t
    RETENTION_DAILY,    \* how long every snapshot is kept
    RETENTION_WEEKLY,   \* weeks that keep one
    RETENTION_MONTHLY   \* months that keep one

Times == 1 .. MaxTime

\* Time moves on, so does the calendar.
NeverBack(number) ==
    /\ number \in [Times -> Int]
    /\ \A t, u \in Times : t <= u => number[t] <= number[u]

ASSUME RetentionAssumption ==
    /\ MaxTime \in Nat \ {0}
    /\ NeverBack(WeekOf)
    /\ NeverBack(MonthOf)
    /\ RETENTION_DAILY \in Nat
    /\ RETENTION_WEEKLY \in Nat
    /\ RETENTION_MONTHLY \in Nat

First(S, timestamp) == CHOOSE s \in S : \A r \in S : timestamp[s] <= timestamp[r]

Last(S, timestamp) == CHOOSE s \in S : \A r \in S : timestamp[r] <= timestamp[s]

\* Those of rows whose timestamp falls in the period numbered n.
Within(rows, timestamp, number, n) == {s \in rows : number[timestamp[s]] = n}

\* The numbers of the last periods up to now.
Recent(number, span, now) == {number[now] - k : k \in 0 .. span - 1}

\* Each recent month that has snapshots keeps its first.
Monthly(rows, timestamp, now) ==
    {First(Within(rows, timestamp, MonthOf, m), timestamp) :
        m \in {m \in Recent(MonthOf, RETENTION_MONTHLY, now) :
                  Within(rows, timestamp, MonthOf, m) # {}}}

\* The week keeps the snapshot at the wrong end of the sorted list.
SlipWeekly(rows, timestamp, now) ==
    {First(Within(rows, timestamp, WeekOf, w), timestamp) :
        w \in {w \in Recent(WeekOf, RETENTION_WEEKLY, now) :
                  Within(rows, timestamp, WeekOf, w) # {}}}

\* Each recent week that has snapshots keeps its last.
Weekly(rows, timestamp, now) ==
    {Last(Within(rows, timestamp, WeekOf, w), timestamp) :
        w \in {w \in Recent(WeekOf, RETENTION_WEEKLY, now) :
                  Within(rows, timestamp, WeekOf, w) # {}}}

\* The boundary is not in the window.
SlipDaily(rows, timestamp, now) == {s \in rows : timestamp[s] > now - RETENTION_DAILY}

Daily(rows, timestamp, now) == {s \in rows : timestamp[s] >= now - RETENTION_DAILY}

Protected(rows, timestamp, now) ==
    Monthly(rows, timestamp, now) \cup Weekly(rows, timestamp, now)
      \cup Daily(rows, timestamp, now)

(***************************************************************************)
(* The snapshots given up.  The state is looked at only here: a FAILED      *)
(* snapshot that is the last of its week takes the week's place.            *)
(***************************************************************************)
classify_snapshots(rows, timestamp, estado, now) ==
    {s \in rows \ Protected(rows, timestamp, now) : estado[s] = "COMPLETED"}
=============================================================================
