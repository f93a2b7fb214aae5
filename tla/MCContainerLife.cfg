\* Three connections, of which some are accepted while the container shuts down;
\* the process may die and start again at any point.
SPECIFICATION Spec
CONSTANTS
    c1 = c1
    c2 = c2
    c3 = c3
    Conn = {c1, c2, c3}
    i1 = i1
    i2 = i2
    i3 = i3
    Id = {i1, i2, i3}
    None = None
    Cap = 1
    Client = {}
    Receivers = {}
    MaxFrame = 0
    MayEnd = TRUE
INVARIANTS
    LiveIsRegistered
    OpenCameLate
CHECK_DEADLOCK FALSE
