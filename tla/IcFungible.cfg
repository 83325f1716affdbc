SPECIFICATION Spec
CONSTANTS
    Principals = {p1, p2, p3}
    Nobody = Nobody
    MaxAmount = 2
    MaxEntries = 2
SYMMETRY Symmetry
CONSTRAINT FewAllowances
INVARIANTS
    TypeOK
    Conservation
    LostByUpgrade
PROPERTY AllowanceBuysTokens
