\* As MCContainerLife: a process that is shut down leaves the naming and ends.
SPECIFICATION FairSpec
CONSTANTS
    c1 = c1
    c2 = c2
    c3 = c3
    Conn = {c1, c2, c3}
    i1 = i1
    i2 = i2
    i3 = i3
    Id = {i1, i2, i3}
    None = None
    Cap = 1
    Client = {}
    Receivers = {}
    MaxFrame = 0
    MayEnd = TRUE
INVARIANTS
    TypeOK
    ExitLeavesNaming
PROPERTIES
    ShutdownEndsProcess
CHECK_DEADLOCK FALSE
