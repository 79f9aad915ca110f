SPECIFICATION Spec
CONSTANTS
    None = None
    Attempts = {"p", "q"}
    Addresses = {"x", "y"}
    SourceAddr <- Apart
    NatAddresses <- Fixed
    MILLI = 2
    Latency <- Fractional
    ListenerLatency = 5
    MaxMillis = 3
    StreamId <- Names
    Passphrases = {"right"}
    ListenerPassphrase = "right"
    NoPassphrase = "none"
    AutoAccept = {TRUE, FALSE}
    Backlog = 1
    MayTimeOut = TRUE
    MayEnd = FALSE
    MayDrop = TRUE
    MayExpire = TRUE
    MaxMinute = 0
    MaxAccepted = 2
    MaxEnds = 0
    MaxHeld = 1
    MaxInFlight = 1
    MaxMoves = 0
    MaxLoss = 0
    MaxDup = 1
INVARIANTS
    TypeOK
    ConnectedIsUsable
    LatencyAgreed
    ParkedIsSurfaced
    HandshakesUnderstood
CHECK_DEADLOCK FALSE
