SPECIFICATION DSpec
CONSTANTS
    list = list
    a = a
    h1 = h1
    h2 = h2
    NoService = NoService
    Services <- OneService
    SERVICE_NAME = list
    Servers <- OneServer
    ProviderIds <- OneServer
    IdOf <- Itself
    HostOf <- HostOfEach
    Hosts <- TwoHosts
    Timeout = 16
    HeartbeatInterval = 20
    ReaperInterval = 4
    MaxDelay = 1
    MaxLag = 1
    MaxTime = 34
INVARIANTS
    TimeoutDecides
CHECK_DEADLOCK FALSE
