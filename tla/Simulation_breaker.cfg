\* Two scenarios of one run and one of another share the breaker of one host.
SPECIFICATION FairSpec
CONSTANTS
    s1 = s1
    s2 = s2
    s3 = s3
    r1 = r1
    r2 = r2
    Scenarios = {s1, s2, s3}
    Runs = {r1, r2}
    RunOf <- TwoAndOne
    Slots = 1
    Threshold = 1
    MaxTurns = 2
    MaxAttempts = 2
    Window = 2
    MaxRedisFaults = 1
INVARIANTS
    BreakerBoundsFailures
    OnlyTargetTrips
    CounterHasLifetime
PROPERTIES
    EveryScenarioEnds
    FailuresExpire
\* Every scenario ends, or its worker does.
CHECK_DEADLOCK FALSE
