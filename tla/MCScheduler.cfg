SPECIFICATION SchedSpec
CONSTANTS
    Gids = {g1, g2, g3}
    NumCores = 2
    Width = 2
    SchedQuantum = 1
    Mask <- Overlapping
    Pid <- OneProcess
    Pcs = {pc1}
    MaxSleep = 2
    StallBatch = 1
    None = None
    Features = {"finish"}
INVARIANTS ContextsAgree QueuesAgree BarrierAgrees NoIdleContextForQueued SchedulerAsserts
