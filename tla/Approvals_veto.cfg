SPECIFICATION Spec
CONSTANTS
    Pinned = {alice, bob}
    Strangers = {}
    Quorums = {2}
    Parts = 1
    MaxRequests = 1
    MaxSignatures = 2
    MaxBoots = 1
PROPERTY
    DenialVetoes
CHECK_DEADLOCK FALSE
