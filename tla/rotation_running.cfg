SPECIFICATION Spec
CONSTANTS
    MaxTime = 2
    WeekOf <- SmallWeek
    MonthOf <- SmallMonth
    RETENTION_DAILY = 0
    RETENTION_WEEKLY = 1
    RETENTION_MONTHLY = 1
    Snapshots = {s1, s2}
    Chunks = 1
    Passphrases = {p1, p2}
    MaxSalts = 2
    MaxDamage = 0
    Faults <- RotateWhileRunning
INVARIANTS
    CompletedUnwraps
CHECK_DEADLOCK FALSE
