\* Three plans of one request, with retries that overlap.
SPECIFICATION Spec
CONSTANTS
    Requests <- MCRequests
    Options <- MCOptions
    MaxPlans = 3
    MaxExecs = 3
INVARIANTS
    TypeOK
    
    RunningIsExecuted
    
\* all plans built and executed
CHECK_DEADLOCK FALSE
