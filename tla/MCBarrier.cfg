SPECIFICATION FairBarrierSpec
CONSTANTS
    MaxThreads = 3
    ParallelThreads = 2
    CleanupPeriod = 2
    Garbage = {0}
INVARIANTS RunListExact AssertionsHold JoinEndsNoPhase NoLostWakeup WorkConserving
PROPERTIES EventuallyRuns ImplementsPhaseBarrier
