SPECIFICATION FairSpec
CONSTANTS
    Devices = {d1}
    Clients = {c1, c2}
    ChannelSize = 1
    CacheSize = 1
    CallbackGets = TRUE
    MaxGets = 2
    MaxDeltas = 1
INVARIANTS
    EntryHasItsCaller
    AnswerEndsOneCall
PROPERTIES
    GetEnds
    ProcessingEnds
CHECK_DEADLOCK FALSE
