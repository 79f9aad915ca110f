SPECIFICATION Spec
CONSTANTS
    None = None
    Attempts = {"p", "q"}
    Addresses = {"x"}
    SourceAddr <- Alike
    NatAddresses <- Fixed
    MILLI = 2
    Latency <- Fractional
    ListenerLatency = 5
    MaxMillis = 3
    StreamId <- Names
    Passphrases = {"right"}
    ListenerPassphrase = "right"
    NoPassphrase = "none"
    AutoAccept = {TRUE}
    Backlog = 1
    MayTimeOut = TRUE
    MayEnd = FALSE
    MayDrop = FALSE
    MayExpire = FALSE
    MaxMinute = 0
    MaxAccepted = 2
    MaxEnds = 0
    MaxHeld = 1
    MaxInFlight = 2
    MaxMoves = 0
    MaxLoss = 0
    MaxDup = 0
INVARIANTS
    ConnectedIsUsable
CHECK_DEADLOCK FALSE
