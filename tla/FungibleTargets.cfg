SPECIFICATION TargetsSpec
CONSTANTS
    Accounts = {a1, a2, a3}
    MaxAmount = 4
    MaxSupply = 6
    NoState = NoState
INVARIANTS
    Conservation
    BalancesAgree
    AnySupplyConserved
PROPERTIES
    OnlyCallerPays
    LedgerSpec
