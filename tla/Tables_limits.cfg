SPECIFICATION MCSpec
CONSTANTS
    MaxObjects = 4
    MaxMessages = 1
    MaxInterfaces = 3
    QueueDepth = 1
    RingDepth = 1
    Names <- MCNames
    Ports <- MCPorts
    NewPorts <- MCNewPorts
    MaxIds = 4
    MaxPayloads = 2
    ProbeEvery = 2
    Targets = {3, 4}
    MaxSettings = 2
    MaxProcesses = 2
    Homes <- MCHomes
    DefaultSlice = 1
    DefaultBudget = 1
    TickSettings = {0, 2}
    Lockdown = FALSE
    MaxWork <- OnlyFirst
    MaxCalls = 1
    MaxPid = 3
    Capacity = 3
    Interval = 2
    MaxCheckpoints = 2
    Events = {"e"}
    MaxRecords = 7
INVARIANTS
    RunsItsOwnState
    TableConsistent
    WatchdogBound
    Accounted
    VerifyIsExact
    SignedInTime
PROPERTIES
    EndedIsFinal
    RoundRobin
    StaleStaysStale
