SPECIFICATION Spec
CONSTANTS
    Snapshots = {s1, s2, s3}
    Chunks = 2
    Hashes = {"same"}
    HashOf <- SharedHash
    BatchSize = 1
    Faults <- ChunkAndDbFaults
    NoSnapshot = NoSnapshot
SYMMETRY Symmetry
INVARIANTS
    RefCountExact
    PurgeableIsUnreferenced
