\* Three callers draw until the counter has gone round three times.
SPECIFICATION SeqSpec
CONSTANTS
    t1 = t1
    t2 = t2
    t3 = t3
    Caller = {t1, t2, t3}
    Width = 5
    MaxLap = 3
INVARIANTS
    NeverHighest
PROPERTIES
    NeverTwiceInALap
CHECK_DEADLOCK FALSE
