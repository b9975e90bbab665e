SPECIFICATION SafetySpec
CONSTANTS
    Requests = {1, 2, 3}
    None = None
    PromptLen <- MCPromptLen
    MaxNewTokens <- MCMaxNewTokens
    SharedLen <- MCSharedLen
    Exclusive = {3}
    MaxRows = 2
    MaxContextTokens = 8
    MaxPending = 3
    SpreadNum = 3
    SpreadDen = 2
    MailboxCap = 2
    Cancellable = {1}
    Stalled = {2, 3}
    AdmitWindow = FALSE
    MayStop = FALSE
    MayTimeOut = FALSE
    MayRestart = FALSE
    MayRaise = FALSE
    MayFail = TRUE
INVARIANTS
    TypeOK
    BufferSuffices
    ConsumesFilled
    DrainBeforeLastTerminal
PROPERTIES
    StreamsRefined
    FinishAtBoundary
    DrainBeforeOverwrite
    SchedulerRefined
CHECK_DEADLOCK FALSE
