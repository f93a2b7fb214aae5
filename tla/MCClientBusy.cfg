\* A client that goes on sending over tcp: one sender is enough.
SPECIFICATION FairSpec
CONSTANTS
    MaxConn = 1
    s1 = s1
    s2 = s2
    Sender = {s1}
    Closer = Closer
    None = None
    Never = Never
    Pieces = 2
    HeartBeat = 3
    ReadWait = 4
    WriteWait = 1
    PongDelay = 0
    MaxSend = 1
PROPERTIES
    BusyNoticesSilence
CHECK_DEADLOCK FALSE
