\* Three jobs, two slots, one of the jobs without a handler, no crash.
SPECIFICATION Spec
CONSTANTS
    j1 = j1
    j2 = j2
    j3 = j3
    Jobs <- ThreeJobs
    Weight <- MCWeight
    Handled <- J2Unhandled
    Categories <- MCCategories
    NoError = NoError
    NonRetryable <- MCNonRetryable
    Unclassified = "unknown"
    CategoryMaxRetries <- MCMaxRetries
    DefaultMaxRetries = 1
    MaxConcurrentJobs = 2
    MaxPendingJobs = 2
    EnableDeadLetter = TRUE
    MaxCrashes = 0
INVARIANTS
    TypeOK
    NonRetryableIsFinal
    RetryBudget
    HandlersWithinBudget
PROPERTIES
    NoDoubleStart
    PollRespectsOrder
    SettledIsFinal
CHECK_DEADLOCK FALSE
