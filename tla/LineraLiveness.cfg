SPECIFICATION FairSpec
CONSTANTS
    Chains = {c1, c2}
    Owners = {o1, o2}
    Slots = {s1}
    MaxAmount = 1
    MaxSupply = 2
    NoMessage = NoMessage
    NoSigner = NoSigner
PROPERTIES
    NoInflation
    Delivery
