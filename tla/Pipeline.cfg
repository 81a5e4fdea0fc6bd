SPECIFICATION FairSpec
CONSTANTS
    Items = {i1, i2, i3}
    Processors = {p1, p2}
    Sinkers = {s1, s2}
    FetchSize = 2
    InputBufferSize = 1
    ProcessBatchSize = 2
    SubmitBufferSize = 2
    Attempts = 2
INVARIANT TypeOK
INVARIANT NoSendOnClosed
INVARIANT StopDrains
PROPERTY EvacuationSpec
PROPERTY Settled
CHECK_DEADLOCK FALSE
