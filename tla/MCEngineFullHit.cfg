SPECIFICATION SafetySpec
CONSTANTS
    Requests = {1, 2}
    None = None
    PromptLen <- MCPromptLen2
    MaxNewTokens <- MCMaxNewTokensOne
    SharedLen <- MCSharedLenFull
    Exclusive = {2}
    MaxRows = 2
    MaxContextTokens = 8
    MaxPending = 3
    SpreadNum = 3
    SpreadDen = 2
    MailboxCap = 2
    Cancellable = {}
    Stalled = {}
    AdmitWindow = FALSE
    MayStop = FALSE
    MayTimeOut = FALSE
    MayRestart = FALSE
    MayRaise = FALSE
    MayFail = FALSE
INVARIANT ConsumesFilled
CHECK_DEADLOCK FALSE
