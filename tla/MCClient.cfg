\* A client of either kind, with and without heartbeats, that is closed and
\* connected again; two goroutines send; a heartbeat outlasts WriteWait, and it
\* and its pong fit into ReadWait.
SPECIFICATION FairSpec
CONSTANTS
    MaxConn = 2
    s1 = s1
    s2 = s2
    Sender = {s1, s2}
    Closer = Closer
    None = None
    Never = Never
    Pieces = 2
    HeartBeat = 3
    ReadWait = 4
    WriteWait = 1
    PongDelay = 0
    MaxSend = 2
INVARIANTS
    TypeOK
    OneConnection
    SendsDoNotMix
    KeptAlive
PROPERTIES
    SilenceNoticed
    GoroutinesEnd
CHECK_DEADLOCK FALSE
