\* The first sign-in of an account that no location is stored for.
SPECIFICATION Spec
CONSTANTS
    a1 = a1
    Account = {a1}
    c1 = c1
    Channel = {c1}
    r1 = r1
    Request = {r1}
    Nil = Nil
INVARIANTS
    SignInSucceeds
CHECK_DEADLOCK FALSE
