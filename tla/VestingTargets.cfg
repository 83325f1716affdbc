SPECIFICATION TargetsSpec
CONSTANTS
    Accounts = {a1, a2}
    NoGrant = NoGrant
    Nobody = Nobody
    MaxAmount = 6
    MaxTime = 6
    NanosPerMilli = 2
INVARIANTS
    TypeOK
    WithinSchedule
    ViewsArePrudent
    IcSafe
    TargetsAgree
    ClocksAgree
PROPERTIES
    GrantSpec
    IcGrantUntilUpgrade
    PromisesKept
