\* Two overlapping calls, a reload, a Redis fault; every token expires.
SPECIFICATION FairSessionSpec
CONSTANTS
    Calls = {me, c1}
    Me = me
    AccessLife = 1
    RefreshLife = 2
    MaxTime = 4
    MaxLoads = 1
    MaxFaults = 1
INVARIANTS
    RevokedStaysBlocked
PROPERTIES
    CallsEnd
\* The clock is bounded.
CHECK_DEADLOCK FALSE
