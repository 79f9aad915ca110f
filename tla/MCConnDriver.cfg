SPECIFICATION FairSpec
CONSTANTS
    HALF = 4
    NoPacket = NoPacket
    FlowWindow = 1
    Paced = TRUE
    LightAckEvery = 1
    MaxReorderTolerance = 0
    ReorderDecayAfter = 1
    MaxPaceBurst = 1
    MayShed = FALSE
    ISN = 6
    CommandCapacity = 1
    DataCapacity = 1
    MaxSends = 1
    MaxArrivals = 2
    MayFail = TRUE
    PeerReads = TRUE
INVARIANTS
    TypeOK
    DeliveryInOrder
    NoStrandedWork
    

    
    
CHECK_DEADLOCK FALSE
