\* Two concurrent requests: how many baselines?
SPECIFICATION Spec
CONSTANTS
    NumRuns = 2
    Requests = {q1, q2}
INVARIANTS
    OneBaseline
\* Every run may be settled and no request waiting.
CHECK_DEADLOCK FALSE
