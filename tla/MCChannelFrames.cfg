\* A pong and a data frame on one connection: the bytes of the two mix.
SPECIFICATION Spec
CONSTANTS
    p1 = p1
    p2 = p2
    Pusher = {p1, p2}
    Cap = 2
    Pieces = 3
    MaxMsg = 2
    MaxPing = 1
INVARIANT
    FramesWhole
CHECK_DEADLOCK FALSE
