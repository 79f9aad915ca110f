SPECIFICATION FairSpec
CONSTANTS
    Senders <- OneWay
    KmRefreshRate = 4
    KmRefreshDefault = 8
    MaxKmRetries = 1
    Window = 3
    MaxKeys = 4
    MaxInFlight = 3
    MaxLoss = 2
INVARIANTS
    TypeOK
    BufferedDecryptable
PROPERTIES
    EveryKeyIsLeft
