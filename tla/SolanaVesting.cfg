SPECIFICATION SolanaSpec
CONSTANTS
    Accounts = {v1}
    Keys = {k1, k2}
    DefaultKey = DefaultKey
    SecsBefore = 2
    MaxAmount = 6
    MaxTime = 4
INVARIANTS
    SolanaTypeOK
PROPERTIES
    ReleasesAreDue
    GrantsSpec
