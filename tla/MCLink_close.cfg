CONSTANTS
    HALF = 4
    NoPacket = NoPacket
    FlowWindow = 3
    Paced = {TRUE}
    LightAckEvery = 2
    MaxReorderTolerance = 1
    ReorderDecayAfter = 2
    MaxPaceBurst = 1
    MayShed = TRUE
    ISN = 6
    Lengths = {1, 2}
    MaxBatch = 1
    MaxPackets <- Of20
    MaxInFlight <- Of12
    MaxLoss = 1
    MaxDup = 0
    MayStall = {}
    MayClose = {"a", "b"}
    MayIdle = TRUE
SPECIFICATION Spec
INVARIANTS
    NoLostWakeup
PROPERTIES
    OrderlyClose
    ImplementsMessageStream
CHECK_DEADLOCK FALSE
