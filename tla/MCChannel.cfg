\* Two pushers, a buffer of two, four pushes and a ping: the buffer fills, the
\* drain loop runs with pushes in between, and a frame is lost in each of its
\* pieces; both safety and progress.
SPECIFICATION FairSpec
CONSTANTS
    p1 = p1
    p2 = p2
    Pusher = {p1, p2}
    Cap = 2
    Pieces = 2
    MaxMsg = 4
    MaxPing = 1
INVARIANTS
    Conservation
    DrainNeverWaits
    FramingBrokenOnlyByPong
PROPERTIES
    ImplementsOutbox
    Released
    PushReturnsOrWriterGone
CHECK_DEADLOCK FALSE
