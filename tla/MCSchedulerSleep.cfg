SPECIFICATION FairSchedSpec
CONSTANTS
    Gids = {g1, g2}
    NumCores = 1
    Width = 1
    SchedQuantum = 1
    Mask <- AllCores
    Pid <- OneProcess
    Pcs = {pc1}
    MaxSleep = 2
    StallBatch = 1
    None = None
    Features = {"stall", "signal"}
PROPERTIES QueuedRuns SleeperWakes
