SPECIFICATION FairSpec
CONSTANTS
    None = None
    Attempts = {"p"}
    Addresses = {"x", "z"}
    SourceAddr <- Apart
    NatAddresses <- Moving
    MILLI = 2
    Latency <- Fractional
    ListenerLatency = 5
    MaxMillis = 3
    StreamId <- Names
    Passphrases = {"right", "wrong"}
    ListenerPassphrase = "right"
    NoPassphrase = "none"
    AutoAccept = {FALSE}
    Backlog = 1
    MayTimeOut = FALSE
    MayEnd = TRUE
    MayDrop = FALSE
    MayExpire = FALSE
    MaxMinute = 1
    MaxAccepted = 2
    MaxEnds = 1
    MaxHeld = 2
    MaxInFlight = 2
    MaxMoves = 2
    MaxLoss = 1
    MaxDup = 0
INVARIANTS
    DemuxConsistent
PROPERTIES
    HandshakeCompletes
    PinSettles
CHECK_DEADLOCK FALSE
