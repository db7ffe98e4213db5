SPECIFICATION FairSpec
CONSTANTS
    s1 = s1
    p1 = p1
    p2 = p2
    h1 = h1
    NoService = NoService
    Services <- OneService
    ProviderIds <- TwoProviders
    Hosts <- OneHost
    Timeout = 1
    ReaperInterval = 1
    MaxLag = 1
    MaxTime = 6
INVARIANTS
    UniqueProviders
    NoEmptyService
    StalenessBound
    LeaseHeld
PROPERTIES
    ResolveSticky
    LeaseService
    ScanEnds
CHECK_DEADLOCK FALSE
