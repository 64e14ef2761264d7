SPECIFICATION Spec
CONSTANTS
    Uint128Range = 8
    MaxBlock = 7
    Values = {1, 2}
INVARIANTS
    LookupFindsValueAtEnd
    LookupIsValueAt
CHECK_DEADLOCK FALSE
