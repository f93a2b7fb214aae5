\* Find's answer and a call of the callback, of up to two services each,
\* compete for the lock while connections fail and are built again.
SPECIFICATION FairSpec
CONSTANTS
    s1 = s1
    s2 = s2
    Id = {s1, s2}
    MaxBatch = 1
INVARIANTS
    OneClientPerService
    LiveClientInPool
PROPERTIES
    RemovesOnlyItself
    EveryBatchEnds
    LostClientLeaves
CHECK_DEADLOCK FALSE
