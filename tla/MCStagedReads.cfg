SPECIFICATION Spec
CONSTANTS
    Requests = {1, 2, 3, 4}
    None = None
    PromptLen <- MCPromptLen
    MaxNewTokens <- MCMaxNewTokens
    SharedLen <- MCSharedLen
    Cohorts <- MCCohorts
    Stochastic = {1, 3, 4}
    Nucleus = {2, 3}
    MaxSteps = 6
INVARIANTS
    TypeOK
PROPERTIES
    ImplementsContract
CHECK_DEADLOCK FALSE
