SPECIFICATION PQSpec
CONSTANTS Events = {e1, e2, e3}  B = 4  W = 2  MaxCycle = 17
INVARIANT QueueExact
PROPERTY ImplementsOrderedQueue
