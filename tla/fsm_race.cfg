SPECIFICATION Spec
CONSTANTS
    Snapshots = {s1, s2, s3}
    Chunks = 1
    Hashes <- UniqueHashSet
    HashOf <- UniqueHash
    BatchSize = 1
    Faults <- NoFaults
    NoSnapshot = NoSnapshot
PROPERTIES
    FollowsFSM
SYMMETRY Symmetry
