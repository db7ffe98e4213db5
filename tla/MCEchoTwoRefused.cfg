SPECIFICATION Spec
CONSTANTS
    a = a
    b = b
    c = c
    NoClient = NoClient
    Clients <- ThreeClients
    MAX_CLIENTS = 1
    Sleep = 2
    Window = 2
SYMMETRY Symmetry
INVARIANTS
    RefusalNoticed
