\* One run, two workers: every interleaving of its requests, deliveries, crashes and sweeps.
SPECIFICATION FairSpec
CONSTANTS
    r1 = r1
    r2 = r2
    w1 = w1
    w2 = w2
    t1 = t1
    NoRun = NoRun
    Runs = {r1}
    Tenants = {t1}
    Owner <- OneTenant
    Workers = {w1, w2}
    MaxActive = 1
    MaxCrashes = 2
    MaxDbFaults = 1
    MaxRedeliveries = 2
INVARIANTS
    TypeOK
    SingleExecutor
    ErrorMatchesStatus
    
    PendingHasTask
PROPERTIES
    StaleWriterRejected
    CompletedByExecutor
    EnqueuedRunStarts
    HeartbeatedRunSettles
\* Requests and runs are finite here, so the system may really stop.
CHECK_DEADLOCK FALSE
