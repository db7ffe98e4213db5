SPECIFICATION Spec
CONSTANTS
    s1 = s1
    p1 = p1
    p2 = p2
    h1 = h1
    NoService = NoService
    Services <- OneService
    ProviderIds <- OneProvider
    Hosts <- OneHost
    Timeout = 2
    ReaperInterval = 1
    MaxLag = 0
    MaxTime = 5
INVARIANTS
    FreshRegistrationAlive
CHECK_DEADLOCK FALSE
