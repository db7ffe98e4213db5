SPECIFICATION DFairSpec
CONSTANTS
    list = list
    a = a
    h1 = h1
    h2 = h2
    NoService = NoService
    Services <- OneService
    SERVICE_NAME = list
    Servers <- OneServer
    ProviderIds <- OneServer
    IdOf <- Itself
    HostOf <- HostOfEach
    Hosts <- TwoHosts
    Timeout = 10
    HeartbeatInterval = 5
    ReaperInterval = 1
    MaxDelay = 2
    MaxLag = 1
    MaxTime = 22
INVARIANTS
    HealthyListed
    DeadForgotten
PROPERTIES
    RegistrationAccepted
CHECK_DEADLOCK FALSE
