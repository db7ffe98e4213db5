SPECIFICATION FairSpec
CONSTANTS
    a = a
    b = b
    v = v
    w = w
    NoClient = NoClient
    Clients <- TwoClients
    Values <- TwoValues
    Arguments <- FewArguments
    MaxCount = 2
    MaxLength = 2
INVARIANTS
    UseDefined
    TakenIsAnswered
PROPERTIES
    Linearizable
    LockReleased
CHECK_DEADLOCK FALSE
