SPECIFICATION FairSpec
CONSTANTS
    MaxCacheMessages = 1
    HasSubscriptions = FALSE
    HasKeepAlive = FALSE
    CallbackSends = FALSE
    MaxSends = 1
    MaxStreams = 1
PROPERTY CloseReturns
CHECK_DEADLOCK FALSE
