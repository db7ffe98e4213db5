SPECIFICATION FairSpec
CONSTANTS
    a = a
    b = b
    k = k
    l = l
    v = v
    NoValue = NoValue
    Nobody = Nobody
    Gone = Gone
    Unknown = Unknown
    Clients <- TwoClients
    Keys <- TwoKeys
    Values <- OneValue
    Backlog = 2
INVARIANTS
    AnswersFit
    SessionAlone
PROPERTIES
    Served
