SPECIFICATION Spec
CONSTANTS
    Chunks = 6
    Noise = 2
    PipeCapacity = 1
    QueueMaxsize = 1
    MaxUploads = 1
    UploadsFail = TRUE
    None = None
PROPERTIES
    Ends
CHECK_DEADLOCK FALSE
