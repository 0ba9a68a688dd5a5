SPECIFICATION MCSpec
CONSTANTS
    MaxProcesses = 2
    Homes <- BspOnly
    DefaultSlice = 1
    DefaultBudget = 1
    TickSettings = {}
    Lockdown = FALSE
    MaxPid = 2
    CpuSlice = 2
    CpuSettings = {0}
    MaxWork <- OnceEach
    SignedModes = {FALSE, TRUE}
    Kinds <- GatesFirst
    MaxCalls <- TwoAndOne
    MaxPending = 2
    MaxInflight = 2
    Timeout = 1
    MaxLag = 1
    TscBits = 16
INVARIANTS
    CpuStateIsOwn
    BlockedHasRequest
PROPERTIES
    CallsAnsweredOnce
    CallsReturn
    RunEnds
