SPECIFICATION WeaveSpec
CONSTANTS
    Cores = {0, 1}  Domains = {0, 1}  Threads = {1, 2}  Null = Null
    CoreDomain <- MCCoreDomain  Configs <- DirtyConfigs
    CacheDomain = 0  AccLat = 1  L1Lat = 1  MemLat = 2  MemExtra = 1
    NetLat = 1  TagLat = 1
    PhaseLength = 4
INVARIANT AllChildrenVisited
CHECK_DEADLOCK FALSE
