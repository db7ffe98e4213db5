SPECIFICATION FairSpec
CONSTANTS
    get = get
    quit = quit
    ClientId = 7
    OtherId = 8
    MessageIds <- ThreeIds
    Opcodes <- TwoOpcodes
    Quit = quit
    NoOpcode = NoOpcode
    Capacity = 2
    MaxFrames = 3
INVARIANTS
    RepliesMatch
    DoubtBounded
    NoRepeatedRun
PROPERTIES
    NothingAfterBye
    SessionEnds
CHECK_DEADLOCK FALSE
