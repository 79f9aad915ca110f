CONSTANTS
    HALF = 4
    NoPacket = NoPacket
    FlowWindow = 1
    Paced = {FALSE}
    LightAckEvery = 2
    MaxReorderTolerance = 1
    ReorderDecayAfter = 2
    MaxPaceBurst = 1
    MayShed = FALSE
    ISN = 6
    Lengths = {1}
    MaxBatch = 1
    MaxPackets <- Of10
    MaxInFlight <- Of22
    MaxLoss = 1
    MaxDup = 0
    MayStall = {"b"}
    MayClose = {}
    MayIdle = FALSE
SPECIFICATION FairSpec
PROPERTIES
    WindowReopens
CHECK_DEADLOCK FALSE
