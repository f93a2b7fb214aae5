\* The entry the timers' variable stays at becomes adult.
SPECIFICATION FairSpec
CONSTANTS
    s1 = s1
    s2 = s2
    Id = {s1, s2}
    MaxBatch = 1
INVARIANT TypeOK
PROPERTY LastEntryGrowsUp
CHECK_DEADLOCK FALSE
