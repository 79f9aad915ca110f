CONSTANTS
    HALF = 4
    NoPacket = NoPacket
    FlowWindow = 2
    Paced = {TRUE}
    LightAckEvery = 2
    MaxReorderTolerance = 1
    ReorderDecayAfter = 2
    MaxPaceBurst = 1
    MayShed = FALSE
    ISN = 6
    Lengths = {1}
    MaxBatch = 1
    MaxPackets <- Of20
    MaxInFlight <- Of34
    MaxLoss = 2
    MaxDup = 0
    MayStall = {}
    MayClose = {}
    MayIdle = FALSE
SPECIFICATION FairSpec
PROPERTIES
    EveryPacketArrives
CHECK_DEADLOCK FALSE
