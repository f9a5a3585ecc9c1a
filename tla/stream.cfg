SPECIFICATION Spec
CONSTANTS
    Chunks = 6
    Noise = 2
    PipeCapacity = 1
    QueueMaxsize = 1
    MaxUploads = 1
    UploadsFail = TRUE
    None = None
INVARIANTS
    TypeOK
    UploadedIsPrefix
    CleanReturn
PROPERTIES
    WriterStops
    EndsWithoutFailure
    ImplementsPipeline
CHECK_DEADLOCK FALSE
