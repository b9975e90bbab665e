SPECIFICATION Spec
CONSTANTS
    Requests = {1, 2}
    None = None
    PromptLen <- MCPromptLen2
    MaxNewTokens <- MCMaxNewTokens2
    SharedLen <- MCSharedLen2
    Exclusive = {}
    MaxRows = 2
    MaxContextTokens = 8
    MaxPending = 3
    SpreadNum = 3
    SpreadDen = 2
    MailboxCap = 2
    Cancellable = {}
    Stalled = {}
    AdmitWindow = FALSE
    MayStop = FALSE
    MayTimeOut = FALSE
    MayRestart = FALSE
    MayRaise = FALSE
    MayFail = FALSE
PROPERTY EveryoneAnswered
CHECK_DEADLOCK FALSE
