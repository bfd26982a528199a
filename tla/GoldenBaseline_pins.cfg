\* Two runs, two concurrent requests that wait for each other's rows.
SPECIFICATION FairSpec
CONSTANTS
    NumRuns = 2
    Requests = {q1, q2}
INVARIANTS
    BaselineIsDecent
    NotItsOwnBaseline
PROPERTIES
    NeverWithoutBaseline
    PinsEnd
\* Every run may be settled and no request waiting.
CHECK_DEADLOCK FALSE
