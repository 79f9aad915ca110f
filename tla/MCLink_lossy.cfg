CONSTANTS
    HALF = 4
    NoPacket = NoPacket
    FlowWindow = 1
    Paced = {FALSE}
    LightAckEvery = 2
    MaxReorderTolerance = 1
    ReorderDecayAfter = 2
    MaxPaceBurst = 1
    MayShed = FALSE
    ISN = 6
    Lengths = {1, 3}
    MaxBatch = 2
    MaxPackets <- Of30
    MaxInFlight <- Of12
    MaxLoss = 1
    MaxDup = 1
    MayStall = {"b"}
    MayClose = {}
    MayIdle = FALSE
SPECIFICATION Spec
INVARIANTS
    TypeOK
    NoPrematureRelease
    ReceiveSideBounded
    PacketsUnderstood
PROPERTIES
    ImplementsMessageStream
CHECK_DEADLOCK FALSE
