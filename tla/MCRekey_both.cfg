SPECIFICATION Spec
CONSTANTS
    Senders <- BothWays
    KmRefreshRate = 4
    KmRefreshDefault = 8
    MaxKmRetries = 1
    Window = 3
    MaxKeys = 4
    MaxInFlight = 3
    MaxLoss = 2
INVARIANTS
    FreshDecryptable
