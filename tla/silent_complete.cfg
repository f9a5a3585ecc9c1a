SPECIFICATION Spec
CONSTANTS
    Snapshots = {s1}
    Chunks = 2
    Hashes <- UniqueHashSet
    HashOf <- UniqueHash
    BatchSize = 1
    Faults <- DriverFault
    NoSnapshot = NoSnapshot
INVARIANTS
    CompletedIsWhole
