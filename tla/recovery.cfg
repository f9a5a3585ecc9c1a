SPECIFICATION FairSpec
CONSTANTS
    MaxTime = 4
    WeekOf <- SmallWeek
    MonthOf <- SmallMonth
    RETENTION_DAILY = 1
    RETENTION_WEEKLY = 2
    RETENTION_MONTHLY = 1
    Snapshots = {s1, s2}
    Chunks = 2
    Passphrases = {p1, p2}
    MaxSalts = 2
    MaxDamage = 1
    Faults <- Careful
INVARIANTS
    TypeOK
    CompletedUnwraps
    OutputIsPrefix
    VerifiedIsRestorable
    PeriodsSurvive
PROPERTIES
    AccessKept
    LockReleased
CHECK_DEADLOCK FALSE
