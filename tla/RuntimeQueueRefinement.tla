----------------------- MODULE RuntimeQueueRefinement -----------------------
(***************************************************************************)
(* The runtime queue implements JobLifecycle: watched job by job, all it   *)
(* does is the moves that module allows.                                   *)
(***************************************************************************)
EXTENDS RuntimeQueueProofs

LifeOf(j) == [status |-> job[j].status, supervised |-> j \in active]

\* A dead job is in no snapshot, and what memory does not know the disk does not.
DiskInv ==
    \A j \in Jobs :
        /\ disk[j].status # "dead"
        /\ job[j].status = "absent" => disk[j].status = "absent"

-----------------------------------------------------------------------------
(* The moves of JobLifecycle, one lemma per kind of event *)

May(s, a, t, b) ==
    \/ t = s /\ b = a
    \/ Lifecycle!At(t, b) \in Lifecycle!Moves(Lifecycle!At(s, a))

LEMMA MayWait ==
    ASSUME NEW s \in {"pending", "retrying"}
    PROVE  May(s, FALSE, "running", TRUE) /\ May(s, FALSE, "dead", FALSE)
BY DEF May, Lifecycle!Moves, Lifecycle!Started, Lifecycle!Refused, Lifecycle!Waiting,
       Lifecycle!At

LEMMA MayEnqueue == May("absent", FALSE, "pending", FALSE)
BY DEF May, Lifecycle!Moves, Lifecycle!Enqueued, Lifecycle!At

LEMMA MaySucceed ==
    /\ May("running", TRUE, "completed", FALSE)
    /\ \A s : s # "running" => May(s, TRUE, s, FALSE)
BY DEF May, Lifecycle!Moves, Lifecycle!Succeeded, Lifecycle!At

LEMMA MayFail ==
    ASSUME NEW s, NEW t \in {"retrying", "failed", "dead"}
    PROVE  May(s, TRUE, t, FALSE)
BY DEF May, Lifecycle!Moves, Lifecycle!Failed, Lifecycle!At

LEMMA MayCancel ==
    ASSUME NEW s, NEW a, s \notin {"absent", "completed", "dead"}
    PROVE  May(s, a, "cancelled", a)
BY DEF May, Lifecycle!Moves, Lifecycle!Cancelled, Lifecycle!At

-----------------------------------------------------------------------------
(* Each action, seen from one job *)

\* What a step does to j is one of the moves above.
Moved(j) == May(job[j].status, j \in active, job'[j].status, j \in active')

LEMMA Unmoved ==
    ASSUME NEW j \in Jobs, job'[j].status = job[j].status, j \in active' <=> j \in active
    PROVE  Moved(j)
<1>1. (j \in active') = (j \in active)
  OBVIOUS
<1> QED
  BY <1>1 DEF Moved, May

LEMMA EnqueueMoves ==
    ASSUME IInv, NEW k \in Jobs, Enqueue(k), NEW j \in Jobs
    PROVE  Moved(j)
<1>1. CASE j # k
  BY <1>1, Unmoved DEF Enqueue, IInv, TypeOK
<1>2. CASE j = k
  <2>1. job[j].status = "absent" /\ job'[j].status = "pending"
    BY <1>2, AbsentFacts, NewJobFacts DEF Enqueue, IInv, TypeOK, FreshIsAbsent
  <2>2. j \notin active /\ j \notin active'
    BY <2>1 DEF Enqueue, IInv, ActiveStatus
  <2>3. (j \in active) = FALSE /\ (j \in active') = FALSE
    BY <2>2
  <2> QED
    BY <2>1, <2>3, MayEnqueue DEF Moved
<1> QED
  BY <1>1, <1>2

LEMMA PollMoves ==
    ASSUME IInv, Poll, NEW j \in Jobs
    PROVE  Moved(j)
<1>1. PICK batch \in SUBSET EligibleJobs :
        LET started == {i \in batch : CanRun(i, batch)} IN
          /\ job' = [i \in Jobs |->
                       IF i \notin started THEN job[i]
                       ELSE IF i \in Handled THEN [job[i] EXCEPT !.status = "running"]
                       ELSE MarkFailed(job[i], Unclassified, TRUE)]
          /\ active' = active \cup (started \cap Handled)
  BY DEF Poll
<1> DEFINE started == {i \in batch : CanRun(i, batch)}
<1>2. CASE j \notin started
  BY <1>1, <1>2, Unmoved
<1>3. CASE j \in started
  <2>1. job[j].status \in {"pending", "retrying"} /\ job[j] \in JobRecord
    BY <1>3 DEF EligibleJobs, Eligible, IInv, TypeOK
  <2>2. (j \in active) = FALSE
    BY <2>1 DEF IInv, ActiveStatus
  <2>3. CASE j \in Handled
    <3>1. job'[j].status = "running"
      BY <1>1, <1>3, <2>1, <2>3 DEF JobRecord
    <3>2. (j \in active') = TRUE
      BY <1>1, <1>3, <2>3
    <3> QED
      BY <2>1, <2>2, <3>1, <3>2, MayWait DEF Moved
  <2>4. CASE j \notin Handled
    <3>1. job'[j].status = "dead"
      BY <1>1, <1>3, <2>1, <2>4 DEF JobRecord, MarkFailed
    <3>2. (j \in active') = FALSE
      BY <1>1, <2>2, <2>4
    <3> QED
      BY <2>1, <2>2, <3>1, <3>2, MayWait DEF Moved
  <2> QED
    BY <2>3, <2>4
<1> QED
  BY <1>2, <1>3

LEMMA OutcomeMoves ==
    ASSUME IInv, NEW k \in Jobs, Outcome(k), NEW j \in Jobs
    PROVE  Moved(j)
<1>1. /\ k \in active /\ active' = active \ {k}
      /\ j # k => job'[j] = job[j]
  BY DEF Outcome, HandlerSucceeds, HandlerFails, HandlerTimesOut, IInv, TypeOK
<1>2. CASE j # k
  BY <1>1, <1>2, Unmoved
<1>3. CASE j = k
  <2>1. (j \in active) = TRUE /\ (j \in active') = FALSE /\ job[j] \in JobRecord
    BY <1>1, <1>3 DEF IInv, TypeOK
  <2>2. CASE HandlerSucceeds(k)
    <3>1. \/ job[j].status = "running" /\ job'[j].status = "completed"
          \/ job[j].status # "running" /\ job'[j].status = job[j].status
      BY <1>3, <2>1, <2>2 DEF HandlerSucceeds, MarkCompleted, JobRecord, IInv, TypeOK
    <3> QED
      BY <2>1, <3>1, MaySucceed DEF Moved
  <2>3. ASSUME NEW c \in Categories, job' = [job EXCEPT ![k] = AfterFailure(@, c)]
        PROVE  Moved(j)
    <3>1. job'[j].status \in {"retrying", "dead", "failed"}
      BY <1>3, <2>1, <2>3, AfterFailureType DEF IInv, TypeOK
    <3> QED
      BY <2>1, <3>1, MayFail DEF Moved
  <2> QED
    BY <2>2, <2>3, RetryAssumption DEF Outcome, HandlerFails, HandlerTimesOut
<1> QED
  BY <1>2, <1>3

LEMMA CancelMoves ==
    ASSUME IInv, NEW k \in Jobs, Cancel(k), NEW j \in Jobs
    PROVE  Moved(j)
<1>1. CASE j # k
  BY <1>1, Unmoved DEF Cancel, IInv, TypeOK
<1>2. CASE j = k
  <2>1. job[j].status \notin {"absent", "completed", "dead"}
    BY <1>2 DEF Cancel, MarkCancelled
  <2>2. job'[j].status = "cancelled"
    BY <1>2, <2>1 DEF Cancel, MarkCancelled, IInv, TypeOK, JobRecord
  <2>3. active' = active
    BY DEF Cancel
  <2> QED
    BY <2>1, <2>2, <2>3, MayCancel DEF Moved
<1> QED
  BY <1>1, <1>2

LEMMA BackoffMoves ==
    ASSUME IInv, NEW k \in Jobs, BackoffElapses(k), NEW j \in Jobs
    PROVE  Moved(j)
<1>1. job[k] \in JobRecord /\ job'[j].status = job[j].status
  BY DEF BackoffElapses, IInv, TypeOK, JobRecord
<1> QED
  BY <1>1, Unmoved DEF BackoffElapses

\* No process step moves a job in any other way.
LEMMA StepMoves ==
    ASSUME IInv, [Next]_vars, ~CrashAndRestart, NEW j \in Jobs
    PROVE  Moved(j)
<1>1. CASE \E k \in Jobs : Enqueue(k) \/ Outcome(k) \/ Cancel(k) \/ BackoffElapses(k)
  BY <1>1, EnqueueMoves, OutcomeMoves, CancelMoves, BackoffMoves
<1>2. CASE Poll
  BY <1>2, PollMoves
<1>3. CASE \/ \E k \in Jobs : AbandonedEnds(k)
           \/ Pause \/ Resume \/ SaveQueueState \/ UNCHANGED vars
  BY <1>3, Unmoved DEF AbandonedEnds, Pause, Resume, SaveQueueState, vars
<1> QED
  BY <1>1, <1>2, <1>3 DEF Next

\* A restart restores each job from the snapshot.
LEMMA CrashRestores ==
    ASSUME IInv, DiskInv, CrashAndRestart, NEW j \in Jobs
    PROVE  LifeOf(j)' \in Lifecycle!Restored(LifeOf(j))
<1>1. job'[j] = Recovered(disk[j]) /\ disk[j] \in JobRecord /\ (j \in active') = FALSE
  BY DEF CrashAndRestart, IInv, TypeOK
<1>2. job'[j].status \in {"absent", "pending", "retrying", "completed", "failed", "cancelled"}
  BY <1>1 DEF Recovered, DiskInv, JobRecord, Statuses
<1>3. LifeOf(j)' = [status |-> job'[j].status, supervised |-> FALSE]
  BY <1>1 DEF LifeOf
<1>4. CASE job[j].status = "absent"
  <2>1. disk[j].status = "absent"
    BY <1>4 DEF DiskInv
  <2>2. job'[j].status = "absent"
    BY <1>1, <2>1 DEF Recovered
  <2>3. (j \in active) = FALSE
    BY <1>4 DEF IInv, ActiveStatus
  <2>4. LifeOf(j) = [status |-> "absent", supervised |-> FALSE]
    BY <1>4, <2>3 DEF LifeOf
  <2> QED
    BY <1>3, <2>2, <2>4 DEF Lifecycle!Restored
<1>5. CASE job[j].status # "absent"
  <2>1. LifeOf(j).status # "absent"
    BY <1>5 DEF LifeOf
  <2> QED
    BY <1>2, <1>3, <2>1 DEF Lifecycle!Restored, Lifecycle!At
<1> QED
  BY <1>4, <1>5

\* DiskInv is kept: memory never forgets a job between restarts, and a
\* snapshot has no dead job.
LEMMA DiskStep == ASSUME IInv, DiskInv, [Next]_vars PROVE DiskInv'
<1> SUFFICES ASSUME NEW j \in Jobs
             PROVE  /\ disk'[j].status # "dead"
                    /\ job'[j].status = "absent" => disk'[j].status = "absent"
  BY DEF DiskInv
<1>1. CASE CrashAndRestart
  <2>1. job'[j] = Recovered(disk[j]) /\ disk' = disk /\ disk[j] \in JobRecord
    BY <1>1 DEF CrashAndRestart, IInv, TypeOK
  <2>2. job'[j].status = "absent" => disk[j].status = "absent"
    BY <2>1 DEF Recovered, JobRecord
  <2> QED
    BY <2>1, <2>2 DEF DiskInv
<1>2. CASE SaveQueueState
  <2>1. disk'[j] \in {job[j], Absent} /\ job' = job
    BY <1>2 DEF SaveQueueState, Snapshot
  <2>2. disk'[j] = job[j] => job[j].status # "dead" \/ job[j] = Absent
    BY <1>2 DEF SaveQueueState, Snapshot, Outstanding, History
  <2> QED
    BY <2>1, <2>2, AbsentFacts
<1>3. CASE ~CrashAndRestart /\ ~SaveQueueState
  <2>1. disk' = disk
    BY <1>3 DEF Next, vars, Enqueue, Poll, Outcome, HandlerSucceeds, HandlerFails,
                HandlerTimesOut, AbandonedEnds, BackoffElapses, Cancel, Pause, Resume
  <2>2. job'[j].status = "absent" => job[j].status = "absent"
    BY <1>3, StepMoves DEF Moved, May, Lifecycle!Moves, Lifecycle!Enqueued, Lifecycle!Started,
       Lifecycle!Refused, Lifecycle!Succeeded, Lifecycle!Failed, Lifecycle!Cancelled,
       Lifecycle!At, Lifecycle!Waiting
  <2> QED
    BY <2>1, <2>2 DEF DiskInv
<1> QED
  BY <1>1, <1>2, <1>3

\* The queue, with its polls, timeouts, cancels, snapshots and restarts,
\* implements the lifecycle that the rest of the program may rely on.
THEOREM LifecycleImplemented == Spec => ImplementsLifecycle
<1> DEFINE life == [j \in Jobs |-> LifeOf(j)]
<1>1. Init => DiskInv /\ Lifecycle!Init
  <2> SUFFICES ASSUME Init PROVE DiskInv /\ Lifecycle!Init
    OBVIOUS
  <2>1. \A j \in Jobs : job[j] = Absent /\ disk[j] = Absent /\ (j \in active) = FALSE
    BY DEF Init
  <2>2. DiskInv
    BY <2>1, AbsentFacts DEF DiskInv
  <2>3. \A j \in Jobs : job[j].status = "absent"
    BY <2>1, AbsentFacts
  <2>4. Lifecycle!Init
    BY <2>1, <2>3 DEF Lifecycle!Init, Lifecycle!At
  <2> QED
    BY <2>2, <2>4
<1>2. ASSUME IInv, IInv', DiskInv, [Next]_vars
      PROVE  Lifecycle!Next \/ UNCHANGED life
  <2>1. life' \in [Jobs -> Lifecycle!Life]
    <3>1. ASSUME NEW j \in Jobs PROVE LifeOf(j)' \in Lifecycle!Life
      <4>1. job'[j].status \in Lifecycle!Statuses
        BY <1>2 DEF IInv, TypeOK, JobRecord, Statuses, Lifecycle!Statuses
      <4>2. (j \in active') \in BOOLEAN
        OBVIOUS
      <4> QED
        BY <4>1, <4>2 DEF LifeOf, Lifecycle!Life
    <3> QED
      BY <3>1
  <2>2. CASE CrashAndRestart
    BY <1>2, <2>1, <2>2, CrashRestores DEF Lifecycle!Next, Lifecycle!Restart, LifeOf
  <2>3. CASE ~CrashAndRestart
    <3>1. ASSUME NEW j \in Jobs
          PROVE  LifeOf(j)' \in Lifecycle!Moves(LifeOf(j)) \cup {LifeOf(j)}
      <4>1. Moved(j)
        BY <1>2, <2>3, StepMoves
      <4> QED
        BY <4>1 DEF Moved, May, LifeOf, Lifecycle!At
    <3> QED
      BY <2>1, <3>1 DEF Lifecycle!Next, Lifecycle!Work, LifeOf
  <2> QED
    BY <2>2, <2>3
<1>3. Spec => []DiskInv
  BY <1>1, DiskStep, Invariance, PTL DEF Spec
<1>4. UNCHANGED life <=> UNCHANGED [j \in Jobs |->
         [status |-> job[j].status, supervised |-> j \in active]]
  BY DEF LifeOf
<1> QED
  BY <1>1, <1>2, <1>3, <1>4, Invariance, PTL DEF Spec, ImplementsLifecycle, Lifecycle!Spec
=============================================================================
