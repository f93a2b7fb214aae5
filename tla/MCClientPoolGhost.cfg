\* The connection is lost before the client is added.
SPECIFICATION Spec
CONSTANTS
    s1 = s1
    s2 = s2
    Id = {s1, s2}
    MaxBatch = 0
INVARIANT
    PoolHoldsConnections
CHECK_DEADLOCK FALSE
