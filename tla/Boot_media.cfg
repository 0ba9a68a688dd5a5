SPECIFICATION Spec
CONSTANTS
    Media <- AllMedia
    FileNames <- Names
    OperatorKeys = {"operator.pub"}
    PolicyFile = "policy"
    MaxTries = 1
    MaxSlots = 3
    MaxOps = 1
CHECK_DEADLOCK FALSE
INVARIANTS
    BootIsMeasured
    TpmInStep
PROPERTIES
    OperationsEnd
