\* The connection is closed while the writer waits: it waits for ever.
SPECIFICATION FairSpec
CONSTANTS
    p1 = p1
    p2 = p2
    Pusher = {p1, p2}
    Cap = 2
    Pieces = 3
    MaxMsg = 2
    MaxPing = 0
PROPERTY
    CloseEndsWriteloop
CHECK_DEADLOCK FALSE
