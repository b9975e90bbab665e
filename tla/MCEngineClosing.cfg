SPECIFICATION Spec
CONSTANTS
    Requests = {1, 2}
    None = None
    PromptLen <- MCPromptLen2
    MaxNewTokens <- MCMaxNewTokens2
    SharedLen <- MCSharedLen2
    Exclusive = {}
    MaxRows = 2
    MaxContextTokens = 8
    MaxPending = 3
    SpreadNum = 3
    SpreadDen = 2
    MailboxCap = 2
    Cancellable = {2}
    Stalled = {1}
    AdmitWindow = TRUE
    MayStop = TRUE
    MayTimeOut = TRUE
    MayRestart = TRUE
    MayRaise = TRUE
    MayFail = TRUE
INVARIANTS
    FinishedOnce
    StreamExact
    NoWaitWhileServing
PROPERTIES
    NobodyForgotten
    NeighboursAnswered
CHECK_DEADLOCK FALSE
