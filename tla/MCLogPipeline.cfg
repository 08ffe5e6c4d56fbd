SPECIFICATION FairSpec
CONSTANTS
    h1 = h1
    h2 = h2
    Senders <- MCSenders
    BufferSize = 2
    BatchSize = 2
    MaxSends = 3
INVARIANTS
    TypeOK
    InOrderExactlyOnce
    StopDrains
    StoredAtMostOnce
    DroppedNeverOvercounts
PROPERTIES
    StopTerminates
    AcceptedIsFlushed
CHECK_DEADLOCK FALSE
