SPECIFICATION MCSpec
CONSTANTS
    c1 = c1
    c2 = c2
    p1 = p1
    p2 = p2
    Channels = {c1, c2}
    Publishers = {p1, p2}
    Size = 1
    MaxPublishes = 3
    MaxMaps = 2
    Proc = c1
INVARIANTS
    NilMeansDelivered
    AcceptedIsHandled
PROPERTIES
    QuietAfterClose
    SilenceEndsProcessor
CHECK_DEADLOCK FALSE
