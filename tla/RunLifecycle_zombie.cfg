\* Fair scheduling, one crash: a run whose worker dies before its first heartbeat.
SPECIFICATION FairSpec
CONSTANTS
    r1 = r1
    r2 = r2
    w1 = w1
    w2 = w2
    t1 = t1
    NoRun = NoRun
    Runs = {r1}
    Tenants = {t1}
    Owner <- OneTenant
    Workers = {w1, w2}
    MaxActive = 1
    MaxCrashes = 1
    MaxDbFaults = 0
    MaxRedeliveries = 0
PROPERTIES
    RunningRunSettles
\* Requests and runs are finite here, so the system may really stop.
CHECK_DEADLOCK FALSE
