\* A batch of two new services: the first stays young.
SPECIFICATION FairSpec
CONSTANTS
    s1 = s1
    s2 = s2
    Id = {s1, s2}
    MaxBatch = 1
PROPERTY
    YoungGrowsUp
CHECK_DEADLOCK FALSE
