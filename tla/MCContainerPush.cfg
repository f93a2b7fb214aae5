\* A service pushes three messages to one or both of two connections that come
\* and go; the writer of either may fail, and its queue of one then stays full.
SPECIFICATION FairSpec
CONSTANTS
    c1 = c1
    c2 = c2
    Conn = {c1, c2}
    i1 = i1
    i2 = i2
    Id = {i1, i2}
    None = None
    Cap = 1
    k1 = k1
    Client = {k1}
    Receivers <- OneOrBoth
    MaxFrame = 3
    MayEnd = FALSE
INVARIANTS
    NobodyForgotten
    InOrderOnce
PROPERTIES
    PushEndsOrStuck
CHECK_DEADLOCK FALSE
