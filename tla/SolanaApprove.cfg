SPECIFICATION Spec
CONSTANTS
    Accounts = {a1, a2}
    Wallets = {w}
    MintAccounts = {m}
    MaxAmount = 2
    DefaultKey = DefaultKey
    NoKey = NoKey
INVARIANT WritesSucceed
