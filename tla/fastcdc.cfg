SPECIFICATION Spec
CONSTANTS
    MIN_CHUNK_SIZE = 2
    AVG_CHUNK_SIZE = 4
    MAX_CHUNK_SIZE = 7
    StrictBits = 3
    LaxBits = 2
    Width = 4
    GEAR_TABLE <- TwoBytes
    MaxInput = 11
INVARIANTS
    TypeOK
    SplitIndependent
    BufferBounded
    ChunkLengths
CHECK_DEADLOCK FALSE
