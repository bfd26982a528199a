\* Two runs, one of which users delete, and a batch of one.
SPECIFICATION FairSpec
CONSTANTS
    Runs = {r1, r2}
    Traces = {t1}
    Batch = 1
    Unwanted = {r1}
INVARIANTS
    JudgedTracesKept
    DeletedRunsCleaned
PROPERTIES
    OrphansRemoved
\* Uploads, requests and runs are finite.
CHECK_DEADLOCK FALSE
