SPECIFICATION ReadingSpec
CONSTANTS
    stdout = stdout
    stderr = stderr
    Channel <- MCChannel
    MaxBytes <- MCMaxBytes
    MaxChunk = 2
    MaxFaults = 2
    Reader = Reader
    None = None
    Limit <- MCLimit
    MaxReads = 2
INVARIANTS
    ReadingTypeOK
    CompleteIsComplete
    OffsetsTile
    ReaderHasPrefix
PROPERTIES
    CaptureEnds
CHECK_DEADLOCK FALSE
