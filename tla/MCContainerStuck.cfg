\* The first receiver's queue is full and its writer gone: the second waits.
SPECIFICATION FairSpec
CONSTANTS
    c1 = c1
    c2 = c2
    Conn = {c1, c2}
    i1 = i1
    i2 = i2
    Id = {i1, i2}
    None = None
    Cap = 1
    k1 = k1
    Client = {k1}
    Receivers <- OneOrBoth
    MaxFrame = 3
    MayEnd = FALSE
PROPERTY
    EveryReceiverServed
CHECK_DEADLOCK FALSE
