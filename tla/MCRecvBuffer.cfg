CONSTANTS
    HALF = 4
    NoPacket = NoPacket
    InitialSeq = 5
    MaxIndex = 12
SPECIFICATION Spec
INVARIANTS
    TypeOK
    SlotsMatch
    BackPresent
    CountExact
    GapsAgree
    NakNamesMissing
PROPERTY
    ImplementsOrderedBuffer
CHECK_DEADLOCK FALSE
