SPECIFICATION Spec
CONSTANTS
    Jobs <- TwoJobs
    MaxRequests = 1
    GateMayBlock = TRUE
    WritesMayFail = FALSE
    MaxRestarts = 0
INVARIANTS
    NoStuckTask
CHECK_DEADLOCK FALSE
