SPECIFICATION ClientSpec
CONSTANTS
    MaxCacheMessages = 1
    HasSubscriptions = TRUE
    HasKeepAlive = TRUE
    CallbackSends = FALSE
    MaxSends = 2
    MaxStreams = 1
    KeepAlive = 4
    PingMod = 4
    AnswerWithin = 3
    MaxIdle = 16
INVARIANTS
    HealthyStreamLives
    SilenceDetected
PROPERTIES
    CloseReturnsOrReentered
    DeadStreamReplaced
CHECK_DEADLOCK FALSE
