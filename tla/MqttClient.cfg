SPECIFICATION Spec
CONSTANTS
    MaxCacheMessages = 1
    HasSubscriptions = TRUE
    HasKeepAlive = TRUE
    CallbackSends = TRUE
    MaxSends = 2
    MaxStreams = 2
INVARIANTS
    OldStreamsReaped
    SendsOnAckedStream
    DeathIsComplete
PROPERTY ImplementsSendQueue
CHECK_DEADLOCK FALSE
