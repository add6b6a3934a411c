\* Two jobs, two retry requests at once, nothing fails.
SPECIFICATION FairSpec
CONSTANTS
    Jobs <- TwoJobs
    MaxRequests = 2
    GateMayBlock = FALSE
    WritesMayFail = FALSE
    MaxRestarts = 0
INVARIANTS
    TypeOK
    NoStuckTask
PROPERTIES
    TaskSettles
CHECK_DEADLOCK FALSE
