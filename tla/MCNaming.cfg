\* One instance that comes and goes; a name subscribed to twice in a row.
SPECIFICATION FairNaming
CONSTANTS
    s1 = s1
    Service = {s1}
    w1 = w1
    w2 = w2
    Watch = {w1, w2}
    NoWatch = NoWatch
    MaxIndex = 3
INVARIANTS
    AtMostOneLate
PROPERTIES
    BackwardsOnlyLate
    WatchEnds
    CatchesUp
CHECK_DEADLOCK FALSE
