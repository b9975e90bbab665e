SPECIFICATION Spec
CONSTANTS
    Requests = {1, 2, 3, 4, 5}
    None = None
    PromptLen <- MCPromptLen
    MaxNewTokens <- MCMaxNewTokens
    Exclusive = {4}
    MaxRows = 3
    MaxContextTokens = 8
    MaxPending = 1
    SpreadNum = 3
    SpreadDen = 2
INVARIANTS
    TypeOK
    CohortSimilar
    ExclusiveAlone
    NoRequestLost
    HeadNeverPassedOver
    AllocNeverFails
    RowsAgree
PROPERTIES
    QueueOrder
    QueueBounded
    EventuallyAdmitted
