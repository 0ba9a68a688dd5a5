SPECIFICATION AuthSpec
CONSTANTS
    Pids = {1}
    Slots = {1, 2, 3}
    Objects <- MCObjects
    Kinds <- MCKinds
    KindOf <- MCKindOf
    Prefix <- MCPrefix
    QueueRoom = 1
    PendingRoom = 2
    BatchRoom = 2
    RuleRoom = 2
    LabelRoom = 2
    LabelCap = 3
    Offices <- DiffOffices
CHECK_DEADLOCK FALSE
INVARIANT
    WideningIsShown
