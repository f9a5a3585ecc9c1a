SPECIFICATION Spec
CONSTANTS
    Snapshots = {s1, s2}
    Chunks = 2
    Hashes <- UniqueHashSet
    HashOf <- UniqueHash
    BatchSize = 1
    Faults <- AllFaults
    NoSnapshot = NoSnapshot
SYMMETRY Symmetry
INVARIANTS
    TypeOK
    RefCountExact
    PurgeableIsUnreferenced
    NoDangling
    NoUntrackedObject
    LinksArePrefix
    LeakBounded
PROPERTIES
    LinksSealed
    PurgeIsFinal
    ImplementsArchive
