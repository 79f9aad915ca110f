SPECIFICATION Spec
CONSTANTS
    HALF = 8
    NoPacket = NoPacket
    TS_HALF = 16
    GROUP_SIZE = 3
    PAYLOAD_SIZE = 2
    RCV_HISTORY_GROUPS = 1
    ISN = 13
    MSG_SPACE = 4
    FirstMessage = 3
    Start <- BeforeWrap
    Steps = {2}
    Contents <- ShortAndLong
    RecvWindow = 2
    MaxPackets = 6
INVARIANTS
    HeldIsSent
    NothingLeftToRebuild
    DataIsNotParity
    TimelineTrue

    
