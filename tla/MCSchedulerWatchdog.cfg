SPECIFICATION SchedSpec
CONSTANTS
    Gids = {g1, g2, g3}
    NumCores = 2
    Width = 1
    SchedQuantum = 1
    Mask <- AllCores
    Pid <- OneProcess
    Pcs = {pc1}
    MaxSleep = 1
    StallBatch = 0
    None = None
    Features = {"stall", "signal", "kill"}
INVARIANTS ContextsAgree SchedulerAsserts
SYMMETRY ThreadSymmetry
CHECK_DEADLOCK FALSE
