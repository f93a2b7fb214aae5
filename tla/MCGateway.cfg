\* Two clients, two chat servers one of which may come or go, two messages and
\* the sign-outs, one answer in each of its forms.
SPECIFICATION Spec
CONSTANTS
    c1 = c1
    c2 = c2
    Channel = {c1, c2}
    s1 = s1
    s2 = s2
    Service = {s1, s2}
    Gate = Gate
    None = None
    Written <- Headers
    MaxMsg = 2
    MaxChange = 1
    MaxAnswer = 1
SYMMETRY Symmetry
INVARIANTS
    TypeOK
    CarriesOrigin
    HandledOnce
    OwnAnswers
CHECK_DEADLOCK FALSE
