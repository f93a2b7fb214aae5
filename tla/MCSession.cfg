\* One account, up to three packets of two channels: a sign-in, its successor,
\* a late sign-out, in every order and overlap.
SPECIFICATION FairSpec
CONSTANTS
    a1 = a1
    Account = {a1}
    c1 = c1
    c2 = c2
    Channel = {c1, c2}
    r1 = r1
    r2 = r2
    r3 = r3
    Request = {r1, r2, r3}
    Nil = Nil
INVARIANTS
    NewestIsLocated
    LocatedHasSession
PROPERTIES
    EveryRequestAnswered
CHECK_DEADLOCK FALSE
