SPECIFICATION Spec
CONSTANTS
    Chains = {c1, c2}
    Owners = {o1, o2}
    Slots = {s1, s2}
    MaxAmount = 2
    MaxSupply = 2
    NoMessage = NoMessage
    NoSigner = NoSigner
SYMMETRY Symmetry
CONSTRAINT NoAllowances
PROPERTY LedgerSpec
