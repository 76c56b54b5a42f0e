SPECIFICATION FairSpec
CONSTANTS
    Writer = w
    Readers = {w, r}
    Users = {r}
    Services = {a, b}
    Ports <- SmallPorts
    MaxWrites = 2
    MaxGets = 2
INVARIANTS
    TablesSound
PROPERTIES
    ReadersKeepServices
    ReadersCatchUp
CHECK_DEADLOCK FALSE
