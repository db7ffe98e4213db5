SPECIFICATION Spec
CONSTANTS
    a = a
    b = b
    c = c
    k = k
    l = l
    v = v
    w = w
    NoClient = NoClient
    NoValue = NoValue
    Clients <- ThreeClients
    Keys <- TwoKeys
    Values <- TwoValues
SYMMETRY Symmetry
INVARIANTS
    FoundStays
PROPERTIES
    Linearizable
    RaceFree
