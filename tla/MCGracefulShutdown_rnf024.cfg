SPECIFICATION ProcessSpec
CONSTANTS
    h1 = h1
    h2 = h2
    Senders <- MCSenders
    BufferSize = 1
    BatchSize = 2
    MaxSends = 2
INVARIANT
    QueriesFinishBeforeEnd
CHECK_DEADLOCK FALSE
