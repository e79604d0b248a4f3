SPECIFICATION PrefetchSpec
CONSTANTS c1 = c1  c2 = c2  a1 = a1  a2 = a2  b1 = b1  Cores = {c1, c2}  Addrs = {a1, a2, b1}
    Memory = Memory  None = None
    Caches <- MCCaches  Lines <- MCLines  Children <- MCChildren
    procMask <- MCProcMask  vLineAddr <- MCVLineAddr
    Parent <- MCParent  FirstLevel <- MCFirstLevel
    InstrCaches = {}  Prefetched = {"l1a"}
INVARIANT PrefetchGivesNothing
