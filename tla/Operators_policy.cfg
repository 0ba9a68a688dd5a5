SPECIFICATION MCSpec
CONSTANTS
    Pinned = {alice, bob}
    Strangers = {guest}
    Quorums <- RuleQuorums
    Parts = 2
    MaxRequests = 1
    MaxSignatures = 2
    MaxBoots = 2
    Pids = {1, 2}
    Slots = {1, 2}
    Objects <- MCObjects
    Kinds <- MCKinds
    KindOf <- MCKindOf
    Prefix <- MCPrefix
    QueueRoom = 1
    PendingRoom = 2
    BatchRoom = 2
    RuleRoom = 2
    LabelRoom = 2
    LabelCap = 3
    Offices <- MCOffices
SYMMETRY Permuted
CHECK_DEADLOCK FALSE
INVARIANTS
    VotesCount
    RulesHold
    ReachWasShown
    EffectsWereAllowed
PROPERTIES
    DecisionsStand
    HandlesSound
