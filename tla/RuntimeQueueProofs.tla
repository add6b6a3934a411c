------------------------- MODULE RuntimeQueueProofs -------------------------
(***************************************************************************)
(* The safety of the runtime queue for every set of jobs, every limit and  *)
(* every table of retry policies.  IInv is the inductive invariant: what   *)
(* activeJobs says about a status is as essential as what a status says    *)
(* about activeJobs, because the continuation of executeJob writes its job *)
(* without looking at the status it has by then.                           *)
(***************************************************************************)
EXTENDS RuntimeQueue, FiniteSetTheorems, TLAPS

\* A supervised job is running, or was cancelled under its handler.
ActiveStatus == \A j \in active : job[j].status \in {"running", "cancelled"}

\* The record of a job carries no more retries than some policy grants, and is
\* settled once its last error is one that must not be retried.
WithinPolicy(r) ==
    /\ r.lastError \in NonRetryable => ~Outstanding(r)
    /\ \/ r.retryCount <= DefaultMaxRetries
       \/ \E c \in Categories : r.retryCount <= CategoryMaxRetries[c]

\* Both what is in memory and what a restart would load respect the policies.
PolicyInv == \A j \in Jobs : WithinPolicy(job[j]) /\ WithinPolicy(disk[j])

\* An identifier that was never enqueued is nowhere.
FreshIsAbsent == \A j \in Jobs : createdAt[j] = 0 => job[j] = Absent /\ disk[j] = Absent

IInv ==
    /\ TypeOK
    /\ FreshIsAbsent
    /\ RunningIsActive
    /\ ActiveStatus
    /\ ConcurrencyBound
    /\ PolicyInv

-----------------------------------------------------------------------------
(* Lemmas on the operators *)

\* What happens to a job after a failed attempt: a record that is not running.
LEMMA AfterFailureType ==
    ASSUME NEW r \in JobRecord, NEW c \in Categories
    PROVE  /\ AfterFailure(r, c) \in JobRecord
           /\ AfterFailure(r, c).status \in {"retrying", "dead", "failed"}
<1>1. /\ MarkRetrying(r, c) \in JobRecord
      /\ MarkRetrying(r, c).status = "retrying"
  BY DEF MarkRetrying, JobRecord, Statuses
<1>2. ASSUME NEW d \in BOOLEAN
      PROVE  /\ MarkFailed(r, c, d) \in JobRecord
             /\ MarkFailed(r, c, d).status \in {"dead", "failed"}
  <2>1. CASE d = TRUE
    BY <2>1 DEF MarkFailed, JobRecord, Statuses
  <2>2. CASE d = FALSE
    BY <2>2 DEF MarkFailed, JobRecord, Statuses
  <2>3. QED
    BY <2>1, <2>2
<1>3. QED
  BY <1>1, <1>2, ConfigAssumption DEF AfterFailure

\* A failed attempt keeps the job within the policies whatever the previous
\* error was: the category that grants the retry bounds the new count.
LEMMA AfterFailurePolicy ==
    ASSUME NEW r \in JobRecord, NEW c \in Categories, WithinPolicy(r)
    PROVE  WithinPolicy(AfterFailure(r, c))
<1>1. CASE ShouldRetry(r, c)
  <2>1. AfterFailure(r, c) = MarkRetrying(r, c)
    BY <1>1 DEF AfterFailure
  <2>2. c \notin NonRetryable
    BY <1>1 DEF ShouldRetry
  <2>3. \/ r.retryCount + 1 <= DefaultMaxRetries
        \/ \E d \in Categories : r.retryCount + 1 <= CategoryMaxRetries[d]
    BY <1>1, RetryAssumption DEF ShouldRetry, MaxRetriesOf, JobRecord
  <2>4. QED
    BY <2>1, <2>2, <2>3 DEF WithinPolicy, MarkRetrying
<1>2. CASE ~ShouldRetry(r, c)
  <2>1. AfterFailure(r, c) = MarkFailed(r, c, EnableDeadLetter)
    BY <1>2 DEF AfterFailure
  <2>2. /\ MarkFailed(r, c, EnableDeadLetter).retryCount = r.retryCount
        /\ MarkFailed(r, c, EnableDeadLetter).status \in {"dead", "failed"}
    BY DEF MarkFailed, JobRecord
  <2>3. QED
    BY <2>1, <2>2 DEF WithinPolicy, Outstanding
<1>3. QED
  BY <1>1, <1>2

\* Burying a job without a handler.
LEMMA MarkFailedFacts ==
    ASSUME NEW r \in JobRecord, NEW c \in Categories, WithinPolicy(r)
    PROVE  /\ MarkFailed(r, c, TRUE) \in JobRecord
           /\ MarkFailed(r, c, TRUE).status = "dead"
           /\ WithinPolicy(MarkFailed(r, c, TRUE))
BY DEF MarkFailed, JobRecord, Statuses, WithinPolicy, Outstanding

\* Completing, cancelling, starting and recovering a job touch its status only.
LEMMA StatusOnly ==
    ASSUME NEW r \in JobRecord, NEW s \in Statuses, WithinPolicy(r),
           s \in {"pending", "running"} => Outstanding(r), s # "retrying"
    PROVE  /\ [r EXCEPT !.status = s] \in JobRecord
           /\ [r EXCEPT !.status = s].status = s
           /\ WithinPolicy([r EXCEPT !.status = s])
BY DEF JobRecord, WithinPolicy, Outstanding, Statuses

\* The set of active jobs is finite.
LEMMA ActiveFinite == TypeOK => IsFiniteSet(active) /\ Cardinality(active) \in Nat
BY JobsAssumption, FS_Subset, FS_CardinalityType DEF TypeOK

\* The record of an unused identifier and the one enqueue creates.
LEMMA AbsentFacts ==
    /\ Absent \in JobRecord
    /\ Absent.status = "absent" /\ Absent.retryCount = 0 /\ Absent.lastError = NoError
    /\ WithinPolicy(Absent)
<1>1. /\ Absent \in JobRecord
      /\ Absent.status = "absent"
      /\ Absent.retryCount = 0
      /\ Absent.lastError = NoError
  BY DEF Absent, JobRecord, Statuses
<1>2. NoError \notin NonRetryable
  BY RetryAssumption
<1>3. QED
  BY <1>1, <1>2, RetryAssumption DEF WithinPolicy

LEMMA NewJobFacts ==
    NewJob \in JobRecord /\ NewJob.status = "pending" /\ WithinPolicy(NewJob)
<1>2. /\ NewJob \in JobRecord
      /\ NewJob.status = "pending"
      /\ NewJob.retryCount = 0
      /\ NewJob.lastError = NoError
  BY AbsentFacts DEF NewJob, JobRecord, Statuses
<1>3. NoError \notin NonRetryable
  BY RetryAssumption
<1>4. QED
  BY <1>2, <1>3, RetryAssumption DEF WithinPolicy

LEMMA InitIInv == Init => IInv
<1> SUFFICES ASSUME Init PROVE IInv
  OBVIOUS
<1>1. TypeOK
  <2>1. job \in [Jobs -> JobRecord] /\ disk \in [Jobs -> JobRecord]
    BY AbsentFacts DEF Init
  <2>2. createdAt \in [Jobs -> Nat] /\ abandoned \in [Jobs -> Nat]
    BY DEF Init
  <2>3. crashes \in 0..MaxCrashes
    BY ConfigAssumption DEF Init
  <2>4. QED
    BY <2>1, <2>2, <2>3 DEF Init, TypeOK
<1>2. RunningIsActive
  BY AbsentFacts DEF Init, RunningIsActive, WithStatus
<1>3. ActiveStatus /\ ConcurrencyBound
  BY FS_EmptySet, ConfigAssumption DEF Init, ActiveStatus, ConcurrencyBound
<1>4. PolicyInv
  BY AbsentFacts DEF Init, PolicyInv
<1>5. FreshIsAbsent
  BY DEF Init, FreshIsAbsent
<1>6. QED
  BY <1>1, <1>2, <1>3, <1>4, <1>5 DEF IInv

-----------------------------------------------------------------------------
(* Steps that give one job j a new record r and leave activeJobs alone *)

\* enqueue, BackoffElapses and Cancel: the new record must fit activeJobs.
LEMMA OneJobStep ==
    ASSUME IInv, NEW j \in Jobs, NEW r \in JobRecord, WithinPolicy(r),
           job' = [job EXCEPT ![j] = r],
           r.status # "running",
           j \in active => r.status = "cancelled",
           \A k \in Jobs : createdAt'[k] = 0 => createdAt[k] = 0 /\ k # j,
           active' = active, disk' = disk, crashes' = crashes,
           createdAt' \in [Jobs -> Nat], abandoned' \in [Jobs -> Nat], paused' \in BOOLEAN
    PROVE  IInv'
<1> USE DEF IInv
<1>1. TypeOK'
  BY DEF TypeOK
<1>2. RunningIsActive'
  BY DEF RunningIsActive, WithStatus, TypeOK
<1>3. ActiveStatus'
  BY DEF ActiveStatus, TypeOK
<1>4. ConcurrencyBound'
  BY DEF ConcurrencyBound
<1>5. PolicyInv'
  BY DEF PolicyInv, TypeOK
<1>6. FreshIsAbsent'
  BY DEF FreshIsAbsent, TypeOK
<1>7. QED
  BY <1>1, <1>2, <1>3, <1>4, <1>5, <1>6

\* The continuations of executeJob: the job gets a record that is not running
\* and leaves activeJobs.
LEMMA OutcomeStep ==
    ASSUME IInv, NEW j \in active, NEW r \in JobRecord, WithinPolicy(r),
           job' = [job EXCEPT ![j] = r],
           r.status # "running",
           active' = active \ {j}, disk' = disk, crashes' = crashes, createdAt' = createdAt,
           abandoned' \in [Jobs -> Nat], paused' \in BOOLEAN
    PROVE  IInv'
<1> USE DEF IInv
<1>1. j \in Jobs
  BY DEF TypeOK
<1>2. TypeOK'
  BY <1>1 DEF TypeOK
<1>3. RunningIsActive'
  BY <1>1 DEF RunningIsActive, WithStatus, TypeOK
<1>4. ActiveStatus'
  BY <1>1 DEF ActiveStatus, TypeOK
<1>5. ConcurrencyBound'
  <2>1. Cardinality(active \ {j}) <= Cardinality(active)
    BY ActiveFinite, FS_Subset
  <2>2. Cardinality(active \ {j}) \in Nat
    BY ActiveFinite, FS_Subset, FS_CardinalityType
  <2>3. QED
    BY <2>1, <2>2, ActiveFinite, ConfigAssumption DEF ConcurrencyBound
<1>6. PolicyInv'
  BY <1>1 DEF PolicyInv, TypeOK
<1>7. FreshIsAbsent'
  <2>1. createdAt[j] # 0
    BY <1>1, AbsentFacts DEF FreshIsAbsent, ActiveStatus
  <2>2. QED
    BY <1>1, <2>1 DEF FreshIsAbsent, TypeOK
<1>8. QED
  BY <1>2, <1>3, <1>4, <1>5, <1>6, <1>7

-----------------------------------------------------------------------------
(* One lemma per kind of step *)

LEMMA EnqueueStep == ASSUME IInv, NEW j \in Jobs, Enqueue(j) PROVE IInv'
<1> DEFINE n == Cardinality({k \in Jobs : createdAt[k] # 0}) + 1
<1>1. n \in Nat /\ n # 0
  <2>1. IsFiniteSet({k \in Jobs : createdAt[k] # 0})
    BY JobsAssumption, FS_Subset
  <2>2. QED
    BY <2>1, FS_CardinalityType
<1>2. createdAt' = [createdAt EXCEPT ![j] = n]
  BY DEF Enqueue
<1> HIDE DEF n
<1>3. /\ createdAt' \in [Jobs -> Nat]
      /\ \A k \in Jobs : createdAt'[k] = 0 => createdAt[k] = 0 /\ k # j
  BY <1>1, <1>2 DEF IInv, TypeOK
<1>4. j \notin active
  BY AbsentFacts DEF Enqueue, IInv, FreshIsAbsent, ActiveStatus
<1>5. QED
  BY <1>3, <1>4, NewJobFacts, OneJobStep DEF Enqueue, IInv, TypeOK

LEMMA BackoffStep == ASSUME IInv, NEW j \in Jobs, BackoffElapses(j) PROVE IInv'
<1> DEFINE r == [job[j] EXCEPT !.due = TRUE]
<1>1. /\ r \in JobRecord
      /\ r.status = "retrying"
      /\ WithinPolicy(r)
  <2>1. /\ job[j] \in JobRecord /\ job[j].status = "retrying"
        /\ WithinPolicy(job[j])
    BY DEF BackoffElapses, IInv, TypeOK, PolicyInv
  <2>2. /\ r \in JobRecord
        /\ r.status = job[j].status
        /\ r.lastError = job[j].lastError
        /\ r.retryCount = job[j].retryCount
    BY <2>1 DEF JobRecord
  <2>3. QED
    BY <2>1, <2>2 DEF WithinPolicy, Outstanding
<1>2. j \notin active
  BY DEF BackoffElapses, IInv, ActiveStatus
<1>3. job' = [job EXCEPT ![j] = r]
  BY DEF BackoffElapses
<1>4. createdAt[j] # 0
  BY AbsentFacts DEF BackoffElapses, IInv, FreshIsAbsent
<1>5. QED
  BY <1>1, <1>2, <1>3, <1>4, OneJobStep DEF BackoffElapses, IInv, TypeOK

LEMMA CancelStep == ASSUME IInv, NEW j \in Jobs, Cancel(j) PROVE IInv'
<1> DEFINE r == [job[j] EXCEPT !.status = "cancelled"]
<1>1. /\ r \in JobRecord
      /\ r.status = "cancelled"
      /\ WithinPolicy(r)
  BY DEF IInv, TypeOK, JobRecord, Statuses, PolicyInv, WithinPolicy, Outstanding
<1>2. job' = [job EXCEPT ![j] = r]
  BY DEF Cancel, MarkCancelled
<1>3. createdAt[j] # 0
  BY AbsentFacts DEF Cancel, MarkCancelled, IInv, FreshIsAbsent
<1>4. QED
  BY <1>1, <1>2, <1>3, OneJobStep DEF Cancel, IInv, TypeOK

LEMMA SucceedsStep == ASSUME IInv, NEW j \in Jobs, HandlerSucceeds(j) PROVE IInv'
<1> DEFINE r == MarkCompleted(job[j])
<1>1. j \in active /\ job[j].status \in {"running", "cancelled"}
  BY DEF HandlerSucceeds, IInv, ActiveStatus
<1>2. /\ r \in JobRecord
      /\ r.status \in {"completed", "cancelled"}
      /\ WithinPolicy(r)
  BY <1>1 DEF MarkCompleted, IInv, TypeOK, JobRecord, Statuses, PolicyInv, WithinPolicy,
              Outstanding
<1>3. job' = [job EXCEPT ![j] = r]
  BY DEF HandlerSucceeds
<1>4. QED
  BY <1>1, <1>2, <1>3, OutcomeStep DEF HandlerSucceeds, IInv, TypeOK

LEMMA FailsStep ==
    ASSUME IInv, NEW j \in Jobs, NEW c \in Categories,
           HandlerFails(j, c) \/ (HandlerTimesOut(j) /\ c = Unclassified)
    PROVE  IInv'
<1> DEFINE r == AfterFailure(job[j], c)
<1>1. job[j] \in JobRecord /\ WithinPolicy(job[j])
  BY DEF IInv, TypeOK, PolicyInv
<1>2. r \in JobRecord /\ r.status # "running"
  BY <1>1, AfterFailureType
<1>3. WithinPolicy(r)
  BY <1>1, AfterFailurePolicy
<1>4. /\ j \in active
      /\ job' = [job EXCEPT ![j] = r]
      /\ active' = active \ {j}
      /\ disk' = disk /\ crashes' = crashes
  BY DEF HandlerFails, HandlerTimesOut
<1>5. /\ createdAt' = createdAt
      /\ abandoned' \in [Jobs -> Nat]
      /\ paused' \in BOOLEAN
  BY DEF HandlerFails, HandlerTimesOut, IInv, TypeOK
<1> HIDE DEF r
<1>6. QED
  BY <1>2, <1>3, <1>4, <1>5, OutcomeStep

\* A poll: the started jobs had free slots, and were in no execution before.
LEMMA PollStep == ASSUME IInv, Poll PROVE IInv'
<1>1. PICK batch \in SUBSET EligibleJobs :
        /\ IsBatch(batch)
        /\ LET started == {j \in batch : CanRun(j, batch)} IN
            /\ job' = [j \in Jobs |->
                         IF j \notin started THEN job[j]
                         ELSE IF j \in Handled THEN [job[j] EXCEPT !.status = "running"]
                         ELSE MarkFailed(job[j], Unclassified, TRUE)]
            /\ active' = active \cup (started \cap Handled)
  BY DEF Poll
<1> DEFINE started == {j \in batch : CanRun(j, batch)}
<1>2. /\ job' = [j \in Jobs |->
                   IF j \notin started THEN job[j]
                   ELSE IF j \in Handled THEN [job[j] EXCEPT !.status = "running"]
                   ELSE MarkFailed(job[j], Unclassified, TRUE)]
      /\ active' = active \cup (started \cap Handled)
      /\ disk' = disk /\ crashes' = crashes /\ createdAt' = createdAt
      /\ abandoned' = abandoned /\ paused' = paused
  BY <1>1 DEF Poll
<1>3. /\ started \subseteq batch
      /\ batch \subseteq Jobs
      /\ \A j \in batch : job[j].status \in {"pending", "retrying"}
  BY <1>1 DEF EligibleJobs, Eligible
<1> HIDE DEF started
<1>4. \A j \in started : j \in Jobs /\ j \notin active
  BY <1>3 DEF IInv, ActiveStatus
<1>5. ASSUME NEW j \in Jobs
      PROVE  /\ job'[j] \in JobRecord
             /\ WithinPolicy(job'[j])
             /\ job'[j].status = "running" => j \in active'
             /\ j \in started \cap Handled => job'[j].status = "running"
             /\ j \notin started => job'[j] = job[j]
  <2>1. job[j] \in JobRecord /\ WithinPolicy(job[j])
    BY DEF IInv, TypeOK, PolicyInv
  <2>2. CASE j \notin started
    BY <2>1, <2>2, <1>2 DEF IInv, RunningIsActive, WithStatus
  <2>3. CASE j \in started /\ j \in Handled
    <3>1. job'[j] = [job[j] EXCEPT !.status = "running"]
      BY <2>3, <1>2
    <3>2. Outstanding(job[j])
      BY <2>3, <1>3 DEF Outstanding
    <3>3. "running" \in Statuses
      BY DEF Statuses
    <3>4. QED
      BY <3>1, <3>2, <3>3, <2>1, <2>3, <1>2, StatusOnly
  <2>4. CASE j \in started /\ j \notin Handled
    <3>1. job'[j] = MarkFailed(job[j], Unclassified, TRUE)
      BY <2>4, <1>2
    <3>2. QED
      BY <3>1, <2>1, <2>4, MarkFailedFacts, RetryAssumption
  <2>5. QED
    BY <2>2, <2>3, <2>4
<1>6. TypeOK'
  BY <1>2, <1>3, <1>4, <1>5 DEF IInv, TypeOK
<1>7. RunningIsActive'
  BY <1>5 DEF RunningIsActive, WithStatus
<1>8. ActiveStatus'
  BY <1>2, <1>4, <1>5 DEF IInv, TypeOK, ActiveStatus
<1>9. ConcurrencyBound'
  <2>1. IsFiniteSet(batch) /\ Cardinality(batch) <= AvailableSlots
    BY <1>1, <1>3, JobsAssumption, FS_Subset DEF IsBatch
  <2>2. IsFiniteSet(active) /\ Cardinality(active) \in Nat
    BY ActiveFinite DEF IInv
  <2>3. /\ IsFiniteSet(started \cap Handled)
        /\ Cardinality(started \cap Handled) <= Cardinality(batch)
    BY <2>1, <1>3, FS_Subset
  <2>4. /\ Cardinality(batch) \in Nat
        /\ Cardinality(started \cap Handled) \in Nat
    BY <2>1, <2>3, FS_CardinalityType
  <2>5. Cardinality(active') <= Cardinality(active) + Cardinality(started \cap Handled)
    <3>1. Cardinality(active \cup (started \cap Handled))
            = Cardinality(active) + Cardinality(started \cap Handled)
                - Cardinality(active \cap (started \cap Handled))
      BY <2>2, <2>3, FS_Union
    <3>2. Cardinality(active \cap (started \cap Handled)) \in Nat
      BY <2>2, FS_Intersection, FS_CardinalityType
    <3>3. QED
      BY <3>1, <3>2, <2>2, <2>4, <1>2
  <2>6. Cardinality(active') \in Nat
    BY <1>2, <2>2, <2>3, FS_Union, FS_CardinalityType
  <2>7. QED
    BY <2>1, <2>2, <2>3, <2>4, <2>5, <2>6, ConfigAssumption
       DEF ConcurrencyBound, AvailableSlots
<1>10. PolicyInv'
  BY <1>2, <1>5 DEF IInv, PolicyInv
<1>11. FreshIsAbsent'
  <2>1. \A j \in started : createdAt[j] # 0
    BY <1>3, AbsentFacts DEF IInv, FreshIsAbsent
  <2>2. QED
    BY <2>1, <1>2, <1>5 DEF IInv, FreshIsAbsent
<1>12. QED
  BY <1>6, <1>7, <1>8, <1>9, <1>10, <1>11 DEF IInv

\* A snapshot holds records of the queue, or none.
LEMMA SaveStep == ASSUME IInv, SaveQueueState PROVE IInv'
<1>1. /\ job' = job /\ active' = active /\ createdAt' = createdAt
      /\ abandoned' = abandoned /\ paused' = paused /\ crashes' = crashes
      /\ disk' = Snapshot
  BY DEF SaveQueueState
<1>2. Snapshot \in [Jobs -> JobRecord]
  BY AbsentFacts DEF Snapshot, IInv, TypeOK
<1>3. \A j \in Jobs : disk'[j] = job[j] \/ disk'[j] = Absent
  BY <1>1 DEF Snapshot
<1>4. TypeOK'
  BY <1>1, <1>2 DEF IInv, TypeOK
<1>5. RunningIsActive' /\ ActiveStatus' /\ ConcurrencyBound'
  BY <1>1 DEF IInv, RunningIsActive, WithStatus, ActiveStatus, ConcurrencyBound
<1>6. PolicyInv'
  BY <1>1, <1>3, AbsentFacts DEF IInv, PolicyInv
<1>7. FreshIsAbsent'
  BY <1>1, <1>3 DEF IInv, FreshIsAbsent
<1>8. QED
  BY <1>4, <1>5, <1>6, <1>7 DEF IInv

\* A restart: nothing is running, so nothing needs to be active.
LEMMA CrashStep == ASSUME IInv, CrashAndRestart PROVE IInv'
<1>1. /\ job' = [j \in Jobs |-> Recovered(disk[j])]
      /\ active' = {} /\ crashes' = crashes + 1 /\ crashes < MaxCrashes
      /\ abandoned' = [j \in Jobs |-> 0] /\ paused' = FALSE
      /\ createdAt' = createdAt /\ disk' = disk
  BY DEF CrashAndRestart
<1>2. ASSUME NEW j \in Jobs
      PROVE  /\ job'[j] \in JobRecord
             /\ job'[j].status # "running"
             /\ WithinPolicy(job'[j])
             /\ disk[j] = Absent => job'[j] = Absent
  <2>1. disk[j] \in JobRecord /\ WithinPolicy(disk[j])
    BY DEF IInv, TypeOK, PolicyInv
  <2>2. job'[j] = Recovered(disk[j])
    BY <1>1
  <2>3. CASE disk[j].status = "running"
    <3>1. Outstanding(disk[j]) /\ "pending" \in Statuses
      BY <2>3 DEF Outstanding, Statuses
    <3>2. QED
      BY <3>1, <2>1, <2>2, <2>3, StatusOnly, AbsentFacts DEF Recovered
  <2>4. CASE disk[j].status # "running"
    BY <2>1, <2>2, <2>4 DEF Recovered
  <2>5. QED
    BY <2>3, <2>4
<1>3. TypeOK'
  <2>1. job' \in [Jobs -> JobRecord]
    BY <1>1, <1>2
  <2>2. crashes' \in 0..MaxCrashes
    BY <1>1, ConfigAssumption DEF IInv, TypeOK
  <2>3. QED
    BY <1>1, <2>1, <2>2 DEF IInv, TypeOK
<1>4. RunningIsActive'
  BY <1>2 DEF RunningIsActive, WithStatus
<1>5. ActiveStatus' /\ ConcurrencyBound'
  BY <1>1, FS_EmptySet, ConfigAssumption DEF ActiveStatus, ConcurrencyBound
<1>6. PolicyInv'
  BY <1>1, <1>2 DEF IInv, PolicyInv
<1>7. FreshIsAbsent'
  BY <1>1, <1>2 DEF IInv, FreshIsAbsent
<1>8. QED
  BY <1>3, <1>4, <1>5, <1>6, <1>7 DEF IInv

\* Steps that touch neither the jobs nor activeJobs.
LEMMA FrameStep ==
    ASSUME IInv, UNCHANGED <<job, createdAt, active, disk, crashes>>,
           abandoned' \in [Jobs -> Nat], paused' \in BOOLEAN
    PROVE  IInv'
BY DEF IInv, TypeOK, RunningIsActive, WithStatus, ActiveStatus, ConcurrencyBound,
       PolicyInv, FreshIsAbsent

LEMMA NextIInv == IInv /\ [Next]_vars => IInv'
<1> SUFFICES ASSUME IInv, [Next]_vars PROVE IInv'
  OBVIOUS
<1>1. ASSUME NEW j \in Jobs, Enqueue(j) PROVE IInv'
  BY <1>1, EnqueueStep
<1>2. CASE Poll
  BY <1>2, PollStep
<1>3. ASSUME NEW j \in Jobs, Outcome(j) PROVE IInv'
  <2>1. CASE HandlerSucceeds(j)
    BY <2>1, SucceedsStep
  <2>2. ASSUME NEW c \in Categories, HandlerFails(j, c) PROVE IInv'
    BY <2>2, FailsStep
  <2>3. CASE HandlerTimesOut(j)
    BY <2>3, FailsStep, RetryAssumption
  <2>4. QED
    BY <1>3, <2>1, <2>2, <2>3 DEF Outcome
<1>4. ASSUME NEW j \in Jobs, AbandonedEnds(j) PROVE IInv'
  BY <1>4, FrameStep DEF AbandonedEnds, IInv, TypeOK
<1>5. ASSUME NEW j \in Jobs, BackoffElapses(j) PROVE IInv'
  BY <1>5, BackoffStep
<1>6. ASSUME NEW j \in Jobs, Cancel(j) PROVE IInv'
  BY <1>6, CancelStep
<1>7. CASE Pause \/ Resume
  BY <1>7, FrameStep DEF Pause, Resume, IInv, TypeOK
<1>8. CASE SaveQueueState
  BY <1>8, SaveStep
<1>9. CASE CrashAndRestart
  BY <1>9, CrashStep
<1>10. CASE UNCHANGED vars
  BY <1>10, FrameStep DEF vars, IInv, TypeOK
<1>11. QED
  BY <1>1, <1>2, <1>3, <1>4, <1>5, <1>6, <1>7, <1>8, <1>9, <1>10 DEF Next

-----------------------------------------------------------------------------
(* Theorems *)

\* The inductive invariant holds in every state of every behaviour.
THEOREM Invariance == Spec => []IInv
<1>1. Init => IInv
  BY InitIInv
<1>2. IInv /\ [Next]_vars => IInv'
  BY NextIInv
<1>3. QED
  BY <1>1, <1>2, PTL DEF Spec

\* Values keep their types.
THEOREM TypeCorrect == Spec => []TypeOK
<1>1. IInv => TypeOK
  BY DEF IInv
<1>2. QED
  BY <1>1, Invariance, PTL

\* No running job is without a supervised execution, also after a restart.
THEOREM NoOrphan == Spec => []RunningIsActive
<1>1. IInv => RunningIsActive
  BY DEF IInv
<1>2. QED
  BY <1>1, Invariance, PTL

\* At most maxConcurrentJobs supervised executions, for every limit.
THEOREM Concurrency == Spec => []ConcurrencyBound
<1>1. IInv => ConcurrencyBound
  BY DEF IInv
<1>2. QED
  BY <1>1, Invariance, PTL

\* A non-retryable error ends a job, for every table of policies.
THEOREM NonRetryableEnds == Spec => []NonRetryableIsFinal
<1>1. IInv => NonRetryableIsFinal
  BY DEF IInv, PolicyInv, WithinPolicy, NonRetryableIsFinal
<1>2. QED
  BY <1>1, Invariance, PTL

\* The retry count stays within the most generous policy, though the limit that
\* is looked up changes with the category of the last error, for every table.
THEOREM RetriesBounded == Spec => []RetryBudget
<1>1. IInv => RetryBudget
  BY DEF IInv, PolicyInv, WithinPolicy, RetryBudget
<1>2. QED
  BY <1>1, Invariance, PTL

\* A job is only ever started by a poll.
LEMMA StartsInPoll ==
    ASSUME IInv, [Next]_vars, NEW j \in Jobs, Starts(j)
    PROVE  Poll
<1>1. job[j] \in JobRecord /\ disk[j] \in JobRecord
  BY DEF IInv, TypeOK
<1>2. ASSUME NEW k \in Jobs, NEW r, r.status # "running", job' = [job EXCEPT ![k] = r]
      PROVE  FALSE
  BY <1>2 DEF Starts, IInv, TypeOK
<1>3. ASSUME NEW k \in Jobs, Enqueue(k) PROVE FALSE
  BY <1>3, <1>2, NewJobFacts DEF Enqueue
<1>4. ASSUME NEW k \in Jobs, Outcome(k) PROVE FALSE
  <2>1. job[k] \in JobRecord
    BY DEF IInv, TypeOK
  <2>2. CASE HandlerSucceeds(k)
    <3>1. MarkCompleted(job[k]).status # "running"
      BY <2>1 DEF MarkCompleted, JobRecord
    <3>2. QED
      BY <3>1, <2>2, <1>2 DEF HandlerSucceeds
  <2>3. ASSUME NEW c \in Categories, HandlerFails(k, c) PROVE FALSE
    BY <2>1, <2>3, <1>2, AfterFailureType DEF HandlerFails
  <2>4. CASE HandlerTimesOut(k)
    BY <2>1, <2>4, <1>2, AfterFailureType, RetryAssumption DEF HandlerTimesOut
  <2>5. QED
    BY <1>4, <2>2, <2>3, <2>4 DEF Outcome
<1>5. ASSUME NEW k \in Jobs, BackoffElapses(k) PROVE FALSE
  <2>1. [job[k] EXCEPT !.due = TRUE].status # "running"
    BY <1>5 DEF BackoffElapses, IInv, TypeOK, JobRecord
  <2>2. QED
    BY <2>1, <1>5, <1>2 DEF BackoffElapses
<1>6. ASSUME NEW k \in Jobs, Cancel(k) PROVE FALSE
  <2>1. MarkCancelled(job[k]) = [job[k] EXCEPT !.status = "cancelled"]
    BY <1>6 DEF Cancel, MarkCancelled
  <2>2. [job[k] EXCEPT !.status = "cancelled"].status # "running"
    BY DEF IInv, TypeOK, JobRecord
  <2>3. QED
    BY <2>1, <2>2, <1>6, <1>2 DEF Cancel
<1>7. ASSUME CrashAndRestart PROVE FALSE
  <2>1. Recovered(disk[j]).status # "running"
    BY <1>1 DEF Recovered, JobRecord
  <2>2. QED
    BY <2>1, <1>7 DEF CrashAndRestart, Starts
<1>8. job' # job
  BY DEF Starts
<1>9. QED
  BY <1>3, <1>4, <1>5, <1>6, <1>7, <1>8
     DEF Next, AbandonedEnds, Pause, Resume, SaveQueueState, vars

\* No job is started while an execution of it is supervised.
THEOREM SingleExecution == Spec => NoDoubleStart
<1>1. IInv /\ [Next]_vars => [\A j \in Jobs : Starts(j) => j \notin active]_vars
  <2> SUFFICES ASSUME IInv, [Next]_vars, NEW j \in Jobs, Starts(j)
               PROVE  j \notin active
    OBVIOUS
  <2>1. Poll
    BY StartsInPoll
  <2>2. Eligible(job[j])
    BY <2>1 DEF Poll, Starts, EligibleJobs
  <2>3. QED
    BY <2>2 DEF Eligible, IInv, ActiveStatus
<1>2. QED
  BY <1>1, Invariance, PTL DEF Spec, NoDoubleStart

\* The resource check inside the loop of a poll never refuses a picked job:
\* statuses and activeJobs, counted separately, agree.
LEMMA PickedCanRun ==
    ASSUME IInv, NEW batch \in SUBSET EligibleJobs, IsBatch(batch), NEW k \in batch
    PROVE  CanRun(k, batch)
<1> DEFINE earlier == {i \in batch \cap Handled : Before(i, k)}
           running == WithStatus("running")
<1>1. /\ IsFiniteSet(active) /\ Cardinality(active) \in Nat
      /\ IsFiniteSet(batch) /\ Cardinality(batch) \in Nat
  BY ActiveFinite, JobsAssumption, FS_Subset, FS_CardinalityType DEF IInv, EligibleJobs
<1>2. Cardinality(running) <= Cardinality(active) /\ Cardinality(running) \in Nat
  BY <1>1, FS_Subset, FS_CardinalityType DEF IInv, RunningIsActive
<1>3. earlier \subseteq batch \ {k}
  BY JobsAssumption DEF Before, EligibleJobs, IInv, TypeOK
<1>4. /\ IsFiniteSet(batch \ {k})
      /\ Cardinality(batch \ {k}) = Cardinality(batch) - 1
  BY <1>1, FS_RemoveElement
<1> HIDE DEF earlier, running
<1>5. Cardinality(earlier) <= Cardinality(batch) - 1 /\ Cardinality(earlier) \in Nat
  BY <1>3, <1>4, FS_Subset, FS_CardinalityType
<1>6. Cardinality(batch) <= MaxConcurrentJobs - Cardinality(active)
  BY DEF IsBatch, AvailableSlots
<1>7. Cardinality(running) + Cardinality(earlier) < MaxConcurrentJobs
  BY <1>1, <1>2, <1>5, <1>6, ConfigAssumption
<1>8. QED
  BY <1>7 DEF CanRun, earlier, running

\* Polls start jobs in order of priority and age.
THEOREM OrderRespected == Spec => PollRespectsOrder
<1>1. IInv /\ [Next]_vars =>
        [\A j, k \in Jobs :
           (Starts(j) /\ Eligible(job[k]) /\ job'[k] = job[k]) => Before(j, k)]_vars
  <2> SUFFICES ASSUME IInv, [Next]_vars, NEW j \in Jobs, NEW k \in Jobs,
                      Starts(j), Eligible(job[k]), job'[k] = job[k]
               PROVE  Before(j, k)
    OBVIOUS
  <2>1. PICK batch \in SUBSET EligibleJobs :
          /\ IsBatch(batch)
          /\ job' = [i \in Jobs |->
                       IF i \notin {h \in batch : CanRun(h, batch)} THEN job[i]
                       ELSE IF i \in Handled THEN [job[i] EXCEPT !.status = "running"]
                       ELSE MarkFailed(job[i], Unclassified, TRUE)]
    BY StartsInPoll DEF Poll
  <2>2. j \in batch
    BY <2>1 DEF Starts
  <2>3. k \notin batch
    <3> SUFFICES ASSUME k \in batch PROVE FALSE
      OBVIOUS
    <3>1. CanRun(k, batch)
      BY <2>1, PickedCanRun
    <3>2. job'[k] = IF k \in Handled THEN [job[k] EXCEPT !.status = "running"]
                    ELSE MarkFailed(job[k], Unclassified, TRUE)
      BY <2>1, <3>1
    <3>3. job[k] \in JobRecord
      BY DEF IInv, TypeOK
    <3>4. job'[k].status \in {"running", "dead"}
      BY <3>2, <3>3 DEF MarkFailed, JobRecord
    <3>5. QED
      BY <3>4 DEF Eligible
  <2>4. k \in EligibleJobs \ batch
    BY <2>3 DEF EligibleJobs
  <2>5. QED
    BY <2>1, <2>2, <2>4 DEF IsBatch
<1>2. QED
  BY <1>1, Invariance, PTL DEF Spec, PollRespectsOrder

\* What is settled and unsupervised is not written again before a crash.
THEOREM SettledStays == Spec => SettledIsFinal
<1>1. IInv /\ [Next]_vars =>
        [SameProcess => \A j \in Jobs :
           (job[j].status \in {"completed", "dead", "cancelled"} /\ j \notin active)
               => job'[j] = job[j]]_vars
  <2> SUFFICES ASSUME IInv, [Next]_vars, SameProcess, NEW j \in Jobs, j \notin active,
                      job[j].status \in {"completed", "dead", "cancelled"}
               PROVE  job'[j] = job[j]
    OBVIOUS
  <2>1. ASSUME NEW k \in Jobs, NEW r, k # j, job' = [job EXCEPT ![k] = r]
        PROVE  job'[j] = job[j]
    BY <2>1 DEF IInv, TypeOK
  <2>2. ASSUME NEW k \in Jobs, Enqueue(k) PROVE job'[j] = job[j]
    <3>1. k # j
      BY <2>2, AbsentFacts DEF Enqueue, IInv, FreshIsAbsent
    <3>2. QED
      BY <3>1, <2>1, <2>2 DEF Enqueue
  <2>3. ASSUME Poll PROVE job'[j] = job[j]
    <3>1. j \notin EligibleJobs
      BY DEF EligibleJobs, Eligible
    <3>2. QED
      BY <3>1, <2>3 DEF Poll
  <2>4. ASSUME NEW k \in Jobs, Outcome(k) PROVE job'[j] = job[j]
    <3>1. k # j
      BY <2>4 DEF Outcome, HandlerSucceeds, HandlerFails, HandlerTimesOut
    <3>2. QED
      BY <3>1, <2>1, <2>4 DEF Outcome, HandlerSucceeds, HandlerFails, HandlerTimesOut
  <2>5. ASSUME NEW k \in Jobs, BackoffElapses(k) PROVE job'[j] = job[j]
    BY <2>1, <2>5 DEF BackoffElapses
  <2>6. ASSUME NEW k \in Jobs, Cancel(k) PROVE job'[j] = job[j]
    <3>1. CASE k # j
      BY <3>1, <2>1, <2>6 DEF Cancel
    <3>2. CASE k = j
      <4>1. job[j].status = "cancelled"
        BY <3>2, <2>6 DEF Cancel, MarkCancelled
      <4>2. job[j] \in JobRecord
        BY DEF IInv, TypeOK
      <4>3. MarkCancelled(job[j]) = job[j]
        BY <4>1, <4>2 DEF MarkCancelled, JobRecord
      <4>4. QED
        BY <3>2, <4>3, <2>6 DEF Cancel
    <3>3. QED
      BY <3>1, <3>2
  <2>7. ~CrashAndRestart
    BY DEF CrashAndRestart, SameProcess, IInv, TypeOK
  <2>8. QED
    BY <2>2, <2>3, <2>4, <2>5, <2>6, <2>7
       DEF Next, AbandonedEnds, Pause, Resume, SaveQueueState, vars
<1>2. QED
  BY <1>1, Invariance, PTL DEF Spec, SettledIsFinal

\* Unfinished work of a snapshot stays on disk and is polled again after a crash.
THEOREM SnapshotSurvives == Spec => OutstandingSurvivesCrash
<1>1. IInv /\ [Next]_vars =>
        [\A j \in Jobs : Outstanding(disk[j]) =>
           /\ Outstanding(job[j]) => Outstanding(disk'[j])
           /\ ~SameProcess =>
                /\ job'[j].status \in {"pending", "retrying"}
                /\ job'[j].retryCount = disk[j].retryCount]_vars
  <2> SUFFICES ASSUME IInv, [Next]_vars, NEW j \in Jobs, Outstanding(disk[j])
               PROVE  /\ Outstanding(job[j]) => Outstanding(disk'[j])
                      /\ ~SameProcess =>
                           /\ job'[j].status \in {"pending", "retrying"}
                           /\ job'[j].retryCount = disk[j].retryCount
    OBVIOUS
  <2>1. CASE SaveQueueState
    BY <2>1 DEF SaveQueueState, Snapshot, SameProcess
  <2>2. CASE CrashAndRestart
    <3>1. job'[j] = Recovered(disk[j]) /\ disk[j] \in JobRecord /\ disk' = disk
      BY <2>2 DEF CrashAndRestart, IInv, TypeOK
    <3>2. QED
      BY <3>1 DEF Recovered, Outstanding, JobRecord
  <2>3. CASE ~SaveQueueState /\ ~CrashAndRestart
    <3>1. disk' = disk /\ SameProcess
      BY <2>3 DEF Next, vars, SameProcess, Enqueue, Poll, Outcome, HandlerSucceeds,
             HandlerFails, HandlerTimesOut, AbandonedEnds, BackoffElapses, Cancel, Pause,
             Resume
    <3>2. QED
      BY <3>1
  <2>4. QED
    BY <2>1, <2>2, <2>3
<1>2. QED
  BY <1>1, Invariance, PTL DEF Spec, OutstandingSurvivesCrash
-----------------------------------------------------------------------------
(* Handlers and retries *)

\* The abandoned handlers of a job are its earlier attempts; the last attempt
\* can be abandoned too once the job is over.
Paid(j) ==
    abandoned[j] <= IF Outstanding(job[j]) \/ j \in active
                    THEN job[j].retryCount ELSE job[j].retryCount + 1

\* Every handler is paid for, and an identifier never enqueued has none.
HandlersInv == \A j \in Jobs : Paid(j) /\ (createdAt[j] = 0 => abandoned[j] = 0)

\* What a failed attempt adds to the retry count.
LEMMA AfterFailureCount ==
    ASSUME NEW r \in JobRecord, NEW c \in Categories
    PROVE  \/ AfterFailure(r, c).retryCount = r.retryCount + 1
           \/ /\ AfterFailure(r, c).retryCount = r.retryCount
              /\ ~Outstanding(AfterFailure(r, c))
<1>1. MarkRetrying(r, c).retryCount = r.retryCount + 1
  BY DEF MarkRetrying
<1>2. /\ MarkFailed(r, c, EnableDeadLetter).retryCount = r.retryCount
      /\ MarkFailed(r, c, EnableDeadLetter).status \in {"dead", "failed"}
  BY DEF MarkFailed, JobRecord
<1>3. QED
  BY <1>1, <1>2 DEF AfterFailure, Outstanding

\* A poll starts or buries jobs without touching their retry count.
LEMMA PollKeepsPaid ==
    ASSUME IInv, HandlersInv, Poll, NEW k \in Jobs
    PROVE  Paid(k)'
<1>1. PICK batch \in SUBSET EligibleJobs :
        LET started == {j \in batch : CanRun(j, batch)} IN
            /\ job' = [j \in Jobs |->
                         IF j \notin started THEN job[j]
                         ELSE IF j \in Handled THEN [job[j] EXCEPT !.status = "running"]
                         ELSE MarkFailed(job[j], Unclassified, TRUE)]
            /\ active' = active \cup (started \cap Handled)
  BY DEF Poll
<1> DEFINE started == {j \in batch : CanRun(j, batch)}
<1>2. /\ job'[k] = IF k \notin started THEN job[k]
                   ELSE IF k \in Handled THEN [job[k] EXCEPT !.status = "running"]
                   ELSE MarkFailed(job[k], Unclassified, TRUE)
      /\ k \in active' <=> k \in active \/ k \in started \cap Handled
      /\ abandoned' = abandoned
  BY <1>1 DEF Poll
<1>3. /\ job[k] \in JobRecord /\ abandoned[k] \in Nat
      /\ Paid(k)
      /\ k \in started => Outstanding(job[k])
  BY <1>1 DEF IInv, TypeOK, HandlersInv, EligibleJobs, Eligible, Outstanding
<1> HIDE DEF started
<1>4. job'[k].retryCount = job[k].retryCount
  BY <1>2, <1>3 DEF MarkFailed, JobRecord
<1>5. job[k].retryCount \in Nat
  BY <1>3 DEF JobRecord
<1>6. CASE k \in started
  <2>1. abandoned'[k] <= job'[k].retryCount
    BY <1>2, <1>3, <1>4, <1>6 DEF Paid
  <2>2. job'[k].retryCount \in Nat /\ abandoned'[k] \in Nat
    BY <1>2, <1>3, <1>4, <1>5
  <2>3. QED
    BY <2>1, <2>2 DEF Paid
<1>7. CASE k \notin started
  <2>1. job'[k] = job[k] /\ (k \in active' <=> k \in active)
    BY <1>2, <1>7
  <2>2. QED
    BY <2>1, <1>2, <1>3 DEF Paid, Outstanding
<1>8. QED
  BY <1>6, <1>7

LEMMA NextHandlersInv == IInv /\ HandlersInv /\ [Next]_vars => HandlersInv'
<1> SUFFICES ASSUME IInv, HandlersInv, [Next]_vars, NEW k \in Jobs
             PROVE  Paid(k)' /\ (createdAt'[k] = 0 => abandoned'[k] = 0)
  BY DEF HandlersInv
<1> DEFINE Goal == Paid(k)' /\ (createdAt'[k] = 0 => abandoned'[k] = 0)
<1>1. /\ job[k] \in JobRecord /\ job[k].retryCount \in Nat
      /\ abandoned[k] \in Nat /\ job \in [Jobs -> JobRecord]
      /\ abandoned \in [Jobs -> Nat] /\ createdAt \in [Jobs -> Nat]
      /\ Paid(k) /\ (createdAt[k] = 0 => abandoned[k] = 0)
      /\ k \in active => createdAt[k] # 0
  BY AbsentFacts DEF IInv, TypeOK, JobRecord, HandlersInv, FreshIsAbsent, ActiveStatus
<1>2. ASSUME job'[k] = job[k], k \in active' <=> k \in active,
             abandoned'[k] \in Nat, abandoned'[k] <= abandoned[k],
             createdAt'[k] = createdAt[k]
      PROVE  Goal
  <2>1. Outstanding(job'[k]) <=> Outstanding(job[k])
    BY <1>2
  <2>2. Paid(k)'
    BY <1>1, <1>2, <2>1 DEF Paid
  <2>3. QED
    BY <1>1, <1>2, <2>2
<1>3. ASSUME NEW j \in Jobs, Enqueue(j) PROVE Goal
  <2>1. CASE j = k
    <3>1. abandoned'[k] = 0
      BY <1>1, <1>3, <2>1 DEF Enqueue
    <3>2. job'[k] = NewJob
      BY <1>1, <1>3, <2>1 DEF Enqueue
    <3>3. NewJob.retryCount \in Nat
      BY NewJobFacts DEF JobRecord
    <3>4. QED
      BY <3>1, <3>2, <3>3 DEF Paid
  <2>2. CASE j # k
    BY <1>1, <1>2, <1>3, <2>2 DEF Enqueue
  <2>3. QED
    BY <2>1, <2>2
<1>4. CASE Poll
  <2>1. createdAt' = createdAt /\ abandoned' = abandoned
    BY <1>4 DEF Poll
  <2>2. QED
    BY <1>1, <1>4, <2>1, PollKeepsPaid
<1>5. ASSUME NEW j \in Jobs, Outcome(j) PROVE Goal
  <2>1. CASE j # k
    BY <1>1, <1>2, <1>5, <2>1 DEF Outcome, HandlerSucceeds, HandlerFails, HandlerTimesOut
  <2>2. ASSUME j = k, HandlerSucceeds(k) PROVE Goal
    <3>1. job'[k] = MarkCompleted(job[k]) /\ abandoned' = abandoned /\ createdAt' = createdAt
      BY <1>1, <2>2 DEF HandlerSucceeds
    <3>2. job'[k].retryCount = job[k].retryCount
      BY <1>1, <3>1 DEF MarkCompleted, JobRecord
    <3>3. abandoned[k] <= job[k].retryCount
      BY <1>1, <2>2 DEF HandlerSucceeds, Paid
    <3>4. QED
      BY <1>1, <3>1, <3>2, <3>3 DEF Paid
  <2>3. ASSUME NEW c \in Categories, j = k,
               HandlerFails(k, c) \/ (HandlerTimesOut(k) /\ c = Unclassified)
        PROVE  Goal
    <3>1. /\ job'[k] = AfterFailure(job[k], c)
          /\ abandoned'[k] \in {abandoned[k], abandoned[k] + 1}
          /\ createdAt' = createdAt /\ k \in active /\ k \notin active'
      BY <1>1, <2>3 DEF HandlerFails, HandlerTimesOut
    <3>2. abandoned[k] <= job[k].retryCount
      BY <1>1, <3>1 DEF Paid
    <3>3. \/ job'[k].retryCount = job[k].retryCount + 1
          \/ job'[k].retryCount = job[k].retryCount /\ ~Outstanding(job'[k])
      BY <1>1, <3>1, AfterFailureCount
    <3>4. Paid(k)'
      BY <1>1, <3>1, <3>2, <3>3 DEF Paid
    <3>5. QED
      BY <1>1, <3>1, <3>4
  <2>4. CASE j = k
    BY <1>5, <2>2, <2>3, <2>4, RetryAssumption DEF Outcome
  <2>5. QED
    BY <2>1, <2>4
<1>6. ASSUME NEW j \in Jobs, AbandonedEnds(j) PROVE Goal
  <2>1. abandoned'[k] \in Nat /\ abandoned'[k] <= abandoned[k]
    BY <1>1, <1>6 DEF AbandonedEnds
  <2>2. QED
    BY <1>2, <1>6, <2>1 DEF AbandonedEnds
<1>7. ASSUME NEW j \in Jobs, BackoffElapses(j) \/ Cancel(j) PROVE Goal
  <2>1. CASE j # k
    BY <1>1, <1>2, <1>7, <2>1 DEF BackoffElapses, Cancel
  <2>2. CASE j = k
    <3>1. /\ job'[k].retryCount = job[k].retryCount
          /\ job'[k].status = job[k].status \/ ~Outstanding(job'[k])
      BY <1>1, <1>7, <2>2 DEF BackoffElapses, Cancel, MarkCancelled, JobRecord, Outstanding
    <3>2. abandoned' = abandoned /\ active' = active /\ createdAt' = createdAt
      BY <1>7 DEF BackoffElapses, Cancel
    <3>3. QED
      BY <1>1, <3>1, <3>2 DEF Paid, Outstanding
  <2>3. QED
    BY <2>1, <2>2
<1>8. CASE CrashAndRestart
  <2>1. job'[k] = Recovered(disk[k]) /\ abandoned'[k] = 0
    BY <1>8 DEF CrashAndRestart
  <2>2. job'[k].retryCount \in Nat
    BY <2>1 DEF Recovered, IInv, TypeOK, JobRecord
  <2>3. QED
    BY <2>1, <2>2 DEF Paid
<1>9. CASE Pause \/ Resume \/ SaveQueueState \/ UNCHANGED vars
  BY <1>1, <1>2, <1>9 DEF Pause, Resume, SaveQueueState, vars
<1>10. QED
  BY <1>3, <1>4, <1>5, <1>6, <1>7, <1>8, <1>9 DEF Next

\* The handlers at work for a job, the abandoned ones included, never exceed its
\* attempts: with RetriesBounded, what timeouts leak is bounded by the policies.
THEOREM HandlersBounded == Spec => []HandlersWithinBudget
<1>1. Init => HandlersInv
  BY AbsentFacts DEF Init, HandlersInv, Paid
<1>2. IInv /\ HandlersInv /\ [Next]_vars => HandlersInv'
  BY NextHandlersInv
<1>3. IInv /\ HandlersInv => HandlersWithinBudget
  <2> SUFFICES ASSUME IInv, HandlersInv, NEW j \in Jobs
               PROVE  abandoned[j] + (IF j \in active THEN 1 ELSE 0) <= job[j].retryCount + 1
    BY DEF HandlersWithinBudget
  <2>1. abandoned[j] \in Nat /\ job[j].retryCount \in Nat
    BY DEF IInv, TypeOK, JobRecord
  <2>2. QED
    BY <2>1 DEF HandlersInv, Paid
<1>4. QED
  BY <1>1, <1>2, <1>3, Invariance, PTL DEF Spec
=============================================================================
