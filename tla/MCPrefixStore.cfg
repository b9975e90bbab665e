SPECIFICATION Spec
CONSTANTS
    Keys <- MCKeys
    Queries <- MCQueries
    Payloads = {a, b}
    Sizes = {1, 2, 4}
    MinShareds = {1, 2}
    ByteBudget = 3
    None = none
    MaxGeneration = 1
INVARIANTS
    TypeOK
    BytesExact
PROPERTY ImplementsCache
