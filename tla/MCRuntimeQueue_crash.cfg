\* Two jobs competing for one slot, two crashes at any points, under the fairness of
\* the timers.
SPECIFICATION FairSpec
CONSTANTS
    j1 = j1
    j2 = j2
    j3 = j3
    Jobs <- TwoJobs
    Weight <- MCWeight
    Handled <- NoneUnhandled
    Categories <- MCTwoCategories
    NoError = NoError
    NonRetryable <- MCNonRetryable
    Unclassified = "unknown"
    CategoryMaxRetries <- MCMaxRetries
    DefaultMaxRetries = 1
    MaxConcurrentJobs = 1
    MaxPendingJobs = 2
    EnableDeadLetter = TRUE
    MaxCrashes = 2
INVARIANTS
    RunningIsActive
    ConcurrencyBound
PROPERTIES
    OutstandingSurvivesCrash
    ImplementsLifecycle
    EveryJobSettles
CHECK_DEADLOCK FALSE
