SPECIFICATION Spec
CONSTANTS
    Addrs = {a1, a2, a3}
    Nobody = Nobody
    MaxAmount = 2
    MaxEntries = 2
SYMMETRY Symmetry
CONSTRAINT FewAllowances
INVARIANT TypeOK
PROPERTIES
    Authorized
    LedgerSpec
