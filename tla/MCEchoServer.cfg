SPECIFICATION FairSpec
CONSTANTS
    a = a
    b = b
    c = c
    NoClient = NoClient
    Clients <- ThreeClients
    MAX_CLIENTS = 2
    Sleep = 2
    Window = 2
INVARIANTS
    CountExact
    RefusalNoticed
    NobodyStuck
PROPERTIES
    Admission
    Answered
    PlaceFreed
