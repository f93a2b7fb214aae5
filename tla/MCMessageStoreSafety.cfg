\* Two messages, between users or to a group that grows, in pages of one row.
SPECIFICATION Spec
CONSTANTS
    a = a
    b = b
    g = g
    Account = {a, b}
    Group = {g}
    NoGroup = NoGroup
    Reader = a
    d1 = d1
    Device = {d1}
    Owner <- OneReader
    Limit = 1
    Day = 2
    MaxTalk = 2
    MaxClock = 5
INVARIANTS
    NothingSkipped
    NothingTwice
CHECK_DEADLOCK FALSE
