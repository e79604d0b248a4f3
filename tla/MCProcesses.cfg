SPECIFICATION FairProcesses
CONSTANTS
    Configs <- MCConfigs
    MaxProcs = 3
    MaxPhases = 2
    CounterBits = 3
INVARIANT NothingAfterTheEnd
PROPERTIES CountersAgree SimulationEnds
CHECK_DEADLOCK FALSE
