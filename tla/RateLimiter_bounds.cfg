\* Five requests against a limit of two, a Redis fault and a handler that raises.
SPECIFICATION Spec
CONSTANTS
    Requests = {q1, q2, q3, q4, q5}
    MaxRequests = 2
    Window = 2
    MaxFaults = 1
    MaxAppErrors = 1
SYMMETRY RequestSymmetry
INVARIANTS
    BurstBounded
    RepeatedOnlyAfterError
    KeyExpires
\* Every request is answered and the key is gone.
CHECK_DEADLOCK FALSE
