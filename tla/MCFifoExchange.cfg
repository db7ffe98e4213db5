SPECIFICATION FairSpec
CONSTANTS
    a = a
    b = b
    Server = Server
    Clients <- TwoClients
    MaxUnread = 2
INVARIANTS
    ReplyTrue
    NobodyKilled
PROPERTIES
    ExchangeEnds
\* Two clients at once may leave every program waiting for another.
CHECK_DEADLOCK FALSE
