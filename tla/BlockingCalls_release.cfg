SPECIFICATION FairCallsSpec
CONSTANTS
    MaxProcesses = 1
    Homes <- OneAp
    DefaultSlice = 1
    DefaultBudget = 1
    TickSettings = {}
    Lockdown = FALSE
    MaxPid = 1
    CpuSlice = 1
    CpuSettings = {}
    MaxWork <- Once
    SignedModes = {FALSE}
    Kinds <- AnyKind
    MaxCalls <- OneEach
    MaxPending = 1
    MaxInflight = 1
    Timeout = 1
    MaxLag = 1
    TscBits = 16
PROPERTY
    BlockedIsReleased
CHECK_DEADLOCK FALSE
