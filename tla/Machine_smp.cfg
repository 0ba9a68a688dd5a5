SPECIFICATION MCSpec
CONSTANTS
    Aps = {1, 2}
    NewAps = {3}
    Order <- MCOrder
    Tasks = {"fast", "slow"}
    Intent <- MCIntent
    ReadyRoom = 3
    QueueRoom = 2
    Slice = 1
    ShotPages = {0, 1}
    Machines <- MCMachines
    FrameSize = 2
    MaxFrames = 24
    MaxEntries = 4
    Levels = 3
    Fanout = 3
    UserSlot = 1
    StackTop = 15
    StackPages = 2
    MaxSegmentBytes = 6
    MaxPhnum = 2
    MemoryMap <- MCMemoryMap
    LowMemory = 6
    BootRoot = 2
    BootTables <- MCBootTables
    BootPages <- MCBootPages
    HeapFrames = 2
    MaxProcs = 2
    MaxRegions = 2
    MaxWindows = 3
    MaxRegionFrames = 3
    Scenarios <- MCScenarios
    CopyTargets <- MCCopyTargets
    VmPages <- MCVmPages
CHECK_DEADLOCK FALSE
INVARIANTS
    AnswersAreCurrent
    FramesOwned
PROPERTIES
    CallsAnsweredOnce
    SchedulingSound
    RefusedChangesNothing
    WritesAreExact
