SPECIFICATION Spec
CONSTANTS
    t1 = t1
    t2 = t2
    None = None
    Threads = {t1, t2}
    Names = {"site"}
    Types = {"A", "X"}
    Known = {"A"}
    TTLs = {0, 5}
    Floor = 1
    Ceiling = 2
    MaxNow = 3
    MaxGets = 2
INVARIANTS
    TypeOK
    CountersExact
    FirstHandWithinTTL
    TypesNeverMixed
    InvalidateSticksL1
PROPERTY
    ExpiredIsEvicted
