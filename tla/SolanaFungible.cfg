SPECIFICATION Spec
CONSTANTS
    Accounts = {a1, a2, a3}
    Wallets = {w}
    MintAccounts = {m1, m2}
    MaxAmount = 2
    DefaultKey = DefaultKey
    NoKey = NoKey
INVARIANTS
    TypeOK
    Backed
PROPERTIES
    StayReadable
    Authorized
    LedgerSpec
