SPECIFICATION FairSpec
CONSTANTS
    Items = {i1, i2, i3}
    Processors = {p1, p2}
    Sinkers = {s1}
    FetchSize = 2
    InputBufferSize = 1
    ProcessBatchSize = 2
    SubmitBufferSize = 1
    Attempts = 2
PROPERTY StopTerminates
CHECK_DEADLOCK FALSE
