SPECIFICATION Spec
CONSTANTS
    World = 3
    NLocal = 3
    None = None
    NLayers = 3
    MoELayers = {0, 2}
    Loads <- MCLoadsOf
    Foreign <- MCForeign
    Configs <- MCConfigs
    Audit = TRUE
INVARIANTS
    TypeOK
    Balanced
    NearBest
    ExchangeAgrees
    FunctionPreserved
    NoExpertLost
    AuditMeansWhole
    AllOrNone
PROPERTY NobodyStranded
CHECK_DEADLOCK FALSE
