SPECIFICATION MCSpec
CONSTANTS
    QSize = 2
    RxBufs = 2
    Wrap = 4
    Machines <- MCMachines
    MaxFrames = 3
    MaxChunks = 5
    MaxTimeouts = 2
    HostPorts = {1, 2}
    BufAlloc = 4
    HostAlloc = 2
    MaxTx = 2
    Word = 8
    QueueLen = 2
    MaxLeft = 2
    Scenarios <- LoaderAlone
    MaxSn = 4
CHECK_DEADLOCK FALSE
INVARIANTS
    LoaderIsRequired
