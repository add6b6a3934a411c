\* Two jobs, missing capabilities, lost writes and one restart.
SPECIFICATION Spec
CONSTANTS
    Jobs <- TwoJobs
    MaxRequests = 1
    GateMayBlock = TRUE
    WritesMayFail = TRUE
    MaxRestarts = 1
PROPERTIES
    
    SuccessHasCause
CHECK_DEADLOCK FALSE
