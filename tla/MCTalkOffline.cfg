\* A talk to a receiver that is not online is refused instead of stored.
SPECIFICATION FairSpec
CONSTANTS
    a1 = a1
    a2 = a2
    c1 = c1
    c2 = c2
    c3 = c3
    g1 = g1
    w1 = w1
    w2 = w2
    r1 = r1
    Account = {a1, a2}
    Channel = {c1, c2, c3}
    Group = {g1}
    Gateway = {w1, w2}
    Members <- Both
    Gate <- Gates
    Routes <- AllRoutes
    Request = {r1}
    Attempts = 3
    Nil = Nil
PROPERTY
    OfflineIsStored
CHECK_DEADLOCK FALSE
