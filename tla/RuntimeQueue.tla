---------------------------- MODULE RuntimeQueue ----------------------------
(***************************************************************************)
(* The durable execution queue of apps/api/src/modules/runtime-queue: the  *)
(* in-memory queue (queue.ts), the polling scheduler (scheduler.ts), the   *)
(* retry decision (retry-engine.ts) and the periodic snapshot with its     *)
(* reload at start-up (persistence.ts), in one Node process that may crash.*)
(*                                                                         *)
(* Node runs one callback to completion before the next, so an action is   *)
(* the code between two awaits: a poll tick, the continuation of           *)
(* executeJob after Promise.race, a route handler, a timer.  Status        *)
(* "scheduled" is set and left inside one poll tick (markScheduled, then   *)
(* the synchronous prefix of executeJob), so no state shows it.            *)
(***************************************************************************)
EXTENDS Integers, FiniteSets

CONSTANTS
    Jobs,               \* identifiers a run may enqueue (UUIDs: never reused)
    Weight,             \* PRIORITY_WEIGHT of each job: smaller runs first
    Handled,            \* the jobs whose type has a registered handler
    Categories,         \* ErrorCategory
    NoError,            \* lastError is undefined
    NonRetryable,       \* nonRetryableCategories of the default policy
    Unclassified,       \* category of an error that no pattern matches
    CategoryMaxRetries, \* DEFAULT_RETRY_POLICIES[c].maxRetries
    DefaultMaxRetries,  \* defaultRetryPolicy.maxRetries
    MaxConcurrentJobs,
    MaxPendingJobs,
    EnableDeadLetter,
    MaxCrashes          \* bound: crashes in one behaviour

ASSUME JobsAssumption ==
    /\ IsFiniteSet(Jobs)
    /\ Weight \in [Jobs -> Nat]
    /\ Handled \subseteq Jobs

ASSUME RetryAssumption ==
    /\ NoError \notin Categories
    /\ NonRetryable \subseteq Categories
    /\ Unclassified \in Categories \ NonRetryable
    /\ CategoryMaxRetries \in [Categories -> Nat]
    /\ DefaultMaxRetries \in Nat

ASSUME ConfigAssumption ==
    /\ MaxConcurrentJobs \in Nat \ {0}
    /\ MaxPendingJobs \in Nat \ {0}
    /\ EnableDeadLetter \in BOOLEAN
    /\ MaxCrashes \in Nat

VARIABLES
    job,        \* RuntimeQueue.jobs: what the queue holds for each identifier
    createdAt,  \* order of creation; 0 for an identifier not used yet
    active,     \* schedulerState.activeJobs
    abandoned,  \* handler calls still running after their timeout fired
    paused,     \* schedulerState.paused
    disk,       \* queue.json: the jobs of the last snapshot
    crashes     \* crashes so far, counted for MaxCrashes

vars == <<job, createdAt, active, abandoned, paused, disk, crashes>>

-----------------------------------------------------------------------------
(* Jobs *)

Statuses == {"absent", "pending", "running", "retrying",
             "completed", "failed", "cancelled", "dead"}

\* due: nextRetryAt has passed
JobRecord == [status : Statuses, retryCount : Nat,
              lastError : Categories \cup {NoError}, due : BOOLEAN]

Absent == [status |-> "absent", retryCount |-> 0, lastError |-> NoError, due |-> FALSE]

\* Mutant: the literal forgets a field.
NewJob_NoLastError == [status |-> "pending", retryCount |-> 0, due |-> FALSE]

NewJob == [Absent EXCEPT !.status = "pending"]

\* The statuses saveQueueState calls relevant: the job is still to be finished.
Outstanding(r) == r.status \in {"pending", "running", "retrying"}

History(r) == r.status \in {"completed", "failed", "cancelled"}

WithStatus(s) == {j \in Jobs : job[j].status = s}

-----------------------------------------------------------------------------
(* Retry decision *)

\* The policy comes from the error of the attempt BEFORE the one that failed.
MaxRetriesOf(r) ==
    IF r.lastError = NoError THEN DefaultMaxRetries ELSE CategoryMaxRetries[r.lastError]

\* Mutants: the category is not consulted; one retry too many.
ShouldRetry_AnyCategory(r, c) == r.retryCount < MaxRetriesOf(r)
ShouldRetry_OffByOne(r, c) == c \notin NonRetryable /\ r.retryCount <= MaxRetriesOf(r)

ShouldRetry(r, c) == c \notin NonRetryable /\ r.retryCount < MaxRetriesOf(r)

\* Mutant: the attempt is not counted.
MarkRetrying_NotCounted(r, c) ==
    [status |-> "retrying", retryCount |-> r.retryCount, lastError |-> c, due |-> FALSE]

MarkRetrying(r, c) ==
    [status |-> "retrying", retryCount |-> r.retryCount + 1, lastError |-> c, due |-> FALSE]

MarkFailed(r, c, moveToDeadLetter) ==
    [r EXCEPT !.status = IF moveToDeadLetter THEN "dead" ELSE "failed", !.lastError = c]

MarkCompleted(r) == IF r.status = "running" THEN [r EXCEPT !.status = "completed"] ELSE r

\* Mutant: markCancelled without its status check.
MarkCancelled_Any(r) == IF r.status = "absent" THEN r ELSE [r EXCEPT !.status = "cancelled"]

MarkCancelled(r) ==
    IF r.status \in {"absent", "completed", "dead"} THEN r ELSE [r EXCEPT !.status = "cancelled"]

AfterFailure(r, c) ==
    IF ShouldRetry(r, c) THEN MarkRetrying(r, c) ELSE MarkFailed(r, c, EnableDeadLetter)

-----------------------------------------------------------------------------
(* What a poll tick picks *)

\* Mutant: retrying jobs are never picked (the defect that P6.17R repaired).
Eligible_PendingOnly(r) == r.status = "pending"

Eligible(r) == r.status = "pending" \/ (r.status = "retrying" /\ r.due)

EligibleJobs == {j \in Jobs : Eligible(job[j])}

Before(j, k) ==
    \/ Weight[j] < Weight[k]
    \/ Weight[j] = Weight[k] /\ createdAt[j] < createdAt[k]

\* Mutant: slots counted in statuses instead of activeJobs.
AvailableSlots_ByStatus == MaxConcurrentJobs - Cardinality(WithStatus("running"))

AvailableSlots == MaxConcurrentJobs - Cardinality(active)

\* Mutant: the slice is taken without sorting.
IsBatch_Unsorted(batch) ==
    /\ Cardinality(batch) <= AvailableSlots
    /\ batch # EligibleJobs => Cardinality(batch) = AvailableSlots

\* A batch is what sorting the eligible jobs and taking the first slots gives.
IsBatch(batch) ==
    /\ Cardinality(batch) <= AvailableSlots
    /\ batch # EligibleJobs => Cardinality(batch) = AvailableSlots
    /\ \A j \in batch, k \in EligibleJobs \ batch : Before(j, k)

\* checkResources, evaluated for a job after the ones before it have started
CanRun(j, batch) ==
    Cardinality(WithStatus("running"))
        + Cardinality({k \in batch \cap Handled : Before(k, j)}) < MaxConcurrentJobs

-----------------------------------------------------------------------------
(* Actions *)

Init ==
    /\ job = [j \in Jobs |-> Absent]
    /\ createdAt = [j \in Jobs |-> 0]
    /\ active = {}
    /\ abandoned = [j \in Jobs |-> 0]
    /\ paused = FALSE
    /\ disk = [j \in Jobs |-> Absent]
    /\ crashes = 0

\* enqueue: from the orchestrator, a DAG or composite route, a task or job retry
Enqueue(j) ==
    /\ createdAt[j] = 0
    /\ Cardinality(WithStatus("pending")) < MaxPendingJobs
    /\ job' = [job EXCEPT ![j] = NewJob]
    /\ createdAt' = [createdAt EXCEPT
                        ![j] = Cardinality({k \in Jobs : createdAt[k] # 0}) + 1]
    /\ UNCHANGED <<active, abandoned, paused, disk, crashes>>

\* One tick of the poll interval: every picked job is marked scheduled, then
\* either marked running and handed to its handler or, without one, killed.
Poll ==
    /\ ~paused
    /\ AvailableSlots > 0
    /\ EligibleJobs # {}
    /\ \E batch \in SUBSET EligibleJobs :
        /\ IsBatch(batch)
        /\ LET started == {j \in batch : CanRun(j, batch)} IN
            /\ job' = [j \in Jobs |->
                         IF j \notin started THEN job[j]
                         ELSE IF j \in Handled THEN [job[j] EXCEPT !.status = "running"]
                         ELSE MarkFailed(job[j], Unclassified, TRUE)]
            /\ active' = active \cup (started \cap Handled)
    /\ UNCHANGED <<createdAt, abandoned, paused, disk, crashes>>

\* The handler answered success: the continuation of executeJob.
HandlerSucceeds(j) ==
    /\ j \in active
    /\ job' = [job EXCEPT ![j] = MarkCompleted(@)]
    /\ active' = active \ {j}
    /\ UNCHANGED <<createdAt, abandoned, paused, disk, crashes>>

\* The handler threw, or answered without success: an error of category c.
HandlerFails(j, c) ==
    /\ j \in active
    /\ job' = [job EXCEPT ![j] = AfterFailure(@, c)]
    /\ active' = active \ {j}
    /\ UNCHANGED <<createdAt, abandoned, paused, disk, crashes>>

\* Mutant: the clean-up of activeJobs is missing on the timeout path.
HandlerTimesOut_StaysActive(j) ==
    /\ j \in active
    /\ job' = [job EXCEPT ![j] = AfterFailure(@, Unclassified)]
    /\ abandoned' = [abandoned EXCEPT ![j] = @ + 1]
    /\ UNCHANGED <<createdAt, active, paused, disk, crashes>>

\* The timeout won the race ("Job execution timed out ..." matches no pattern);
\* nothing stops the handler, which goes on without a supervisor.
HandlerTimesOut(j) ==
    /\ j \in active
    /\ job' = [job EXCEPT ![j] = AfterFailure(@, Unclassified)]
    /\ active' = active \ {j}
    /\ abandoned' = [abandoned EXCEPT ![j] = @ + 1]
    /\ UNCHANGED <<createdAt, paused, disk, crashes>>

\* An abandoned handler ends; Promise.race drops its result.
AbandonedEnds(j) ==
    /\ abandoned[j] > 0
    /\ abandoned' = [abandoned EXCEPT ![j] = @ - 1]
    /\ UNCHANGED <<job, createdAt, active, paused, disk, crashes>>

\* Time reaches nextRetryAt.
BackoffElapses(j) ==
    /\ job[j].status = "retrying"
    /\ ~job[j].due
    /\ job' = [job EXCEPT ![j].due = TRUE]
    /\ UNCHANGED <<createdAt, active, abandoned, paused, disk, crashes>>

\* POST /queue/jobs/:id/cancel.  The handler of a running job is not told.
Cancel(j) ==
    /\ MarkCancelled(job[j]) # job[j]
    /\ job' = [job EXCEPT ![j] = MarkCancelled(@)]
    /\ UNCHANGED <<createdAt, active, abandoned, paused, disk, crashes>>

Pause ==
    /\ paused' = TRUE
    /\ UNCHANGED <<job, createdAt, active, abandoned, disk, crashes>>

Resume ==
    /\ paused' = FALSE
    /\ UNCHANGED <<job, createdAt, active, abandoned, disk, crashes>>

\* Mutant: jobs waiting for their retry are not saved.
Snapshot_NoRetrying ==
    [j \in Jobs |-> IF job[j].status \in {"pending", "running"} \/ History(job[j])
                    THEN job[j] ELSE Absent]

\* What saveQueueState keeps: dead jobs are in neither of its two lists.  Its
\* caps (50 of history, 500 in all) are beyond any instance and not modelled.
Snapshot == [j \in Jobs |-> IF Outstanding(job[j]) \/ History(job[j]) THEN job[j] ELSE Absent]

\* The 5 s interval of startPeriodicPersistence; the file write is atomic
\* (module AtomicPersistence).  A snapshot that no crash can read any more is
\* not taken (bound MaxCrashes).
SaveQueueState ==
    /\ crashes < MaxCrashes
    /\ disk' = Snapshot
    /\ UNCHANGED <<job, createdAt, active, abandoned, paused, crashes>>

\* Mutant: orphaned jobs are loaded as they were saved.
Recovered_AsSaved(r) == r

\* initializePersistence: orphaned (running) jobs go back to pending.
Recovered(r) == IF r.status = "running" THEN [r EXCEPT !.status = "pending"] ELSE r

\* The process dies and starts again: initializeRuntimeQueue.
CrashAndRestart ==
    /\ crashes < MaxCrashes
    /\ crashes' = crashes + 1
    /\ job' = [j \in Jobs |-> Recovered(disk[j])]
    /\ active' = {}
    /\ abandoned' = [j \in Jobs |-> 0]
    /\ paused' = FALSE
    /\ UNCHANGED <<createdAt, disk>>

Outcome(j) ==
    \/ HandlerSucceeds(j)
    \/ \E c \in Categories : HandlerFails(j, c)
    \/ HandlerTimesOut(j)

Next ==
    \/ \E j \in Jobs : Enqueue(j)
    \/ Poll
    \/ \E j \in Jobs : Outcome(j)
    \/ \E j \in Jobs : AbandonedEnds(j)
    \/ \E j \in Jobs : BackoffElapses(j)
    \/ \E j \in Jobs : Cancel(j)
    \/ Pause
    \/ Resume
    \/ SaveQueueState
    \/ CrashAndRestart

Spec == Init /\ [][Next]_vars

\* The poll interval keeps ticking; the timeout timer ends every attempt one
\* way or another; clocks reach nextRetryAt.  Users and crashes owe nothing.
Fairness ==
    /\ WF_vars(Poll)
    /\ \A j \in Jobs : WF_vars(Outcome(j)) /\ WF_vars(BackoffElapses(j))

FairSpec == Spec /\ Fairness

-----------------------------------------------------------------------------
(* Properties *)

\* Types, with NoError for an undefined lastError.
TypeOK ==
    /\ job \in [Jobs -> JobRecord]
    /\ createdAt \in [Jobs -> Nat]
    /\ active \subseteq Jobs
    /\ abandoned \in [Jobs -> Nat]
    /\ paused \in BOOLEAN
    /\ disk \in [Jobs -> JobRecord]
    /\ crashes \in 0..MaxCrashes

\* A job the queue shows as running has a supervised execution in this process:
\* getNextPending never looks at running jobs and nothing calls checkStaleJobs,
\* so a running job without one (after a restart, say) would be stuck for ever.
RunningIsActive == WithStatus("running") \subseteq active

\* The scheduler never supervises more than maxConcurrentJobs executions,
\* whatever mix of retries, cancels and restarts came before; slots are counted
\* in activeJobs while checkResources counts statuses.
ConcurrencyBound == Cardinality(active) <= MaxConcurrentJobs

\* A job whose last error is of a category that must not be retried does not
\* run again, also after a cancel, a restart or an older snapshot.
NonRetryableIsFinal ==
    \A j \in Jobs : job[j].lastError \in NonRetryable => ~Outstanding(job[j])

\* No job is retried more often than the most generous policy allows, although
\* the limit looked up changes with the category of the previous error.
RetryBudget ==
    \A j \in Jobs :
        \/ job[j].retryCount <= DefaultMaxRetries
        \/ \E c \in Categories : job[j].retryCount <= CategoryMaxRetries[c]

\* A timeout frees the slot of a handler that goes on, so handlers outnumber
\* slots; what bounds them is that each attempt is paid for by a retry: the
\* handlers at work for a job, supervised or abandoned, are at most its attempts.
HandlersWithinBudget ==
    \A j \in Jobs :
        abandoned[j] + (IF j \in active THEN 1 ELSE 0) <= job[j].retryCount + 1

Starts(j) == job[j].status # "running" /\ job'[j].status = "running"

\* A job is not started while an execution of it is still supervised: a second
\* executeJob would delete the entry of the first from activeJobs.
NoDoubleStart == [][\A j \in Jobs : Starts(j) => j \notin active]_vars

\* getNextPending: a poll never starts a job and leaves an eligible job that
\* should go first (priority, then age) waiting.
PollRespectsOrder ==
    [][\A j, k \in Jobs :
         (Starts(j) /\ Eligible(job[k]) /\ job'[k] = job[k]) => Before(j, k)]_vars

SameProcess == crashes' = crashes

\* Within one process, a job that completed or was buried stays so, and one
\* that was cancelled while no execution of it was supervised stays cancelled;
\* markFailed and markRetrying overwrite any status, so this rests on activeJobs.
SettledIsFinal ==
    [][SameProcess => \A j \in Jobs :
         (job[j].status \in {"completed", "dead", "cancelled"} /\ j \notin active)
             => job'[j] = job[j]]_vars

\* A job that the last snapshot shows as unfinished is not lost: later snapshots
\* keep it as long as it is unfinished, whatever its status becomes meanwhile,
\* and after a crash it is polled again and has lost no retry it is entitled to.
OutstandingSurvivesCrash ==
    [][\A j \in Jobs : Outstanding(disk[j]) =>
         /\ Outstanding(job[j]) => Outstanding(disk'[j])
         /\ ~SameProcess =>
              /\ job'[j].status \in {"pending", "retrying"}
              /\ job'[j].retryCount = disk[j].retryCount]_vars

\* Unless an operator leaves the scheduler paused (or keeps pausing it), every
\* job is eventually finished for good: no lost retry, no orphan, no livelock.
EveryJobSettles ==
    <>[]~paused => \A j \in Jobs : <>[]~Outstanding(job[j])

Lifecycle == INSTANCE JobLifecycle WITH
    life <- [j \in Jobs |-> [status |-> job[j].status, supervised |-> j \in active]]

\* Each job goes through the statuses of module JobLifecycle only, whatever
\* batch, timeout, cancel or restart it is part of: completed and dead are
\* final within a process, and only waiting jobs are started.
ImplementsLifecycle == Lifecycle!Spec
=============================================================================
