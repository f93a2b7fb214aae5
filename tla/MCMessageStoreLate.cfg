\* A message stored after a later one was handed out and acknowledged.
SPECIFICATION Spec
CONSTANTS
    a = a
    b = b
    Account = {a, b}
    Group = {}
    NoGroup = NoGroup
    Reader = a
    d1 = d1
    Device = {d1}
    Owner <- OneReader
    Limit = 1
    Day = 2
    MaxTalk = 2
    MaxClock = 5
INVARIANTS
    SyncedMeansDelivered
CHECK_DEADLOCK FALSE
