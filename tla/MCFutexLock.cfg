SPECIFICATION Spec
CONSTANTS
    Procs = {p1, p2, p3}
    MaxCalls = 2
INVARIANTS MutualExclusion NoSleeperForgotten
PROPERTY AllServed
