SPECIFICATION SystemSpec
CONSTANTS
    Given <- MCGiven
    Infos <- MCInfos
    Days = {0, 1}
    MaxNow = 1
    MaxCalls = 2
    RootDays = 1
    SubDays = 0
    MaxRuns = 2
    Confs <- MCConfs
    Envs <- MCEnvs
    Topics <- MCTopics
    Users = {u1, u2}
    Words = {w1}
    Factories = {f1, f2}
    MaxGets = 3
    Ranges <- MCRanges
    MaxProbes = 8
    IdSpace = 4
    MaxDraws = 8
    CheckedLevels <- MCCheckedLevels
    DeviceLevels <- MCDeviceLevels
    SysTopics <- MCSysTopics
    Subscriptions <- MCSubscriptions
    MaxParsedLevels = 6
    MaxTopicLevels = 2
    MaxTopicLength = 7
INVARIANTS
    IssuedVerifies
    OutputConsistent
    ClientsTrusted
    PluginsShared
    TopicsSound
PROPERTY NumbersInTurn
CHECK_DEADLOCK FALSE
