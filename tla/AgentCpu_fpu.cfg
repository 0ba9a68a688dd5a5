SPECIFICATION CpuSpec
CONSTANTS
    MaxProcesses = 2
    Homes <- TwoAps
    DefaultSlice = 1
    DefaultBudget = 1
    TickSettings = {}
    Lockdown = FALSE
    MaxPid = 2
    CpuSlice = 1
    CpuSettings = {}
    MaxWork <- OnceEach
    SignedModes = {FALSE}
    Kinds <- AnyKind
    MaxCalls <- OneEach
    MaxPending = 2
    MaxInflight = 2
    Timeout = 1
    MaxLag = 1
    TscBits = 16
INVARIANT
    FpuIntact
