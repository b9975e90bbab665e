SPECIFICATION Spec
CONSTANTS
    ReqIds = {r1, r2, r3}
    NoOwner = none
    MaxRows = 2
    MaxContextTokens = 8
    MaxGeneration = 3
SYMMETRY ReqSymmetry
INVARIANTS
    TypeOK
    NoStolenRow
    RefsUnique
