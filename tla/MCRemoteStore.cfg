SPECIFICATION FairSpec
CONSTANTS
    a = a
    k = k
    l = l
    v = v
    w = w
    NoValue = NoValue
    NoMessage = NoMessage
    Clients <- OneClient
    Keys <- TwoKeys
    Values <- TwoValues
    MaxPuts = 2
INVARIANTS
    PutsAccounted
    NoMissingValue
    ShownWasStored
PROPERTIES
    OwnKeysListed
    CallsReturn
CHECK_DEADLOCK FALSE
