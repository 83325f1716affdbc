SPECIFICATION Spec
CONSTANTS
    Chains = {c1, c2}
    Owners = {o1, o2}
    Slots = {s1}
    MaxAmount = 2
    MaxSupply = 4
    NoMessage = NoMessage
    NoSigner = NoSigner
INVARIANT Conservation
