SPECIFICATION FairSpec
CONSTANTS
    Addrs = {a1, a2}
    NoStorage = NoStorage
    NanosPerMs = 2
    MaxNanos = 9
    MaxAmount = 6
    MaxTime = 4
INVARIANTS
    TypeOK
    QueriesAgree
PROPERTIES
    FullyReleased
    GrantSpec
