----------------------- MODULE TaskReconciliationProofs -----------------------
(***************************************************************************)
(* A task and any number of queue jobs, retry requests and restarts.       *)
(***************************************************************************)
EXTENDS TaskReconciliation, TLAPS

Verdicts == {"success", "error"}

\* What is known of the jobs: only a running job, or one cancelled under its
\* handler, is supervised; the completed jobs are those that were judged.
JobsInv ==
    /\ life \in [Jobs -> Queue!Life]
    /\ verdict \in [Jobs -> {"unused", "none"} \cup Verdicts]
    /\ \A j \in Jobs :
        /\ life[j].supervised => life[j].status \in {"running", "cancelled"}
        /\ verdict[j] \in Verdicts <=> life[j].status = "completed"
        /\ verdict[j] = "unused" => life[j].status = "absent"

\* A suspended listener that was told of a completion was told the truth.
PendingInv ==
    /\ pending \subseteq [job : Jobs, event : Events]
    /\ \A p \in pending : p.event = "completed" => verdict[p.job] \in Verdicts

TaskInv ==
    /\ task \in [status : {"none", "queued", "running", "success", "error", "blocked"},
                  jobId : Jobs \cup {NoJob}, gated : BOOLEAN]
    /\ thread \in {"none", "active", "completed", "failed"}

CountInv ==
    /\ requests \in 0..MaxRequests
    /\ simple \in Nat /\ requests + simple <= MaxRequests
    /\ restarts \in 0..MaxRestarts

IInv == JobsInv /\ PendingInv /\ TaskInv /\ CountInv

\* A judgement is never taken back by a step of the process itself.
JudgedStay == \A j \in Jobs : verdict[j] \in Verdicts => verdict'[j] = verdict[j]

-----------------------------------------------------------------------------
(* What each part of a step preserves *)

LEMMA AtIsLife ==
    \A s \in Queue!Statuses, b \in BOOLEAN :
        /\ Queue!At(s, b) \in Queue!Life
        /\ Queue!At(s, b).status = s /\ Queue!At(s, b).supervised = b
BY DEF Queue!At, Queue!Life

\* A step that moves one job and says what is judged of it keeps JobsInv if the
\* job's new record and its verdict fit together.
LEMMA OneJobMoves ==
    ASSUME JobsInv, NEW j \in Jobs, NEW r \in Queue!Life,
           NEW v \in {"unused", "none"} \cup Verdicts,
           life' = [life EXCEPT ![j] = r], verdict' = [verdict EXCEPT ![j] = v],
           r.supervised => r.status \in {"running", "cancelled"},
           v \in Verdicts <=> r.status = "completed",
           v = "unused" => r.status = "absent",
           verdict[j] \notin Verdicts
    PROVE  JobsInv' /\ JudgedStay /\ life'[j] = r /\ verdict'[j] = v
<1>1. life'[j] = r /\ verdict'[j] = v
  BY DEF JobsInv
<1>2. \A k \in Jobs \ {j} : life'[k] = life[k] /\ verdict'[k] = verdict[k]
  BY DEF JobsInv
<1>3. life' \in [Jobs -> Queue!Life] /\ verdict' \in [Jobs -> {"unused", "none"} \cup Verdicts]
  BY DEF JobsInv
<1>4. \A k \in Jobs :
        /\ life'[k].supervised => life'[k].status \in {"running", "cancelled"}
        /\ verdict'[k] \in Verdicts <=> life'[k].status = "completed"
        /\ verdict'[k] = "unused" => life'[k].status = "absent"
  BY <1>1, <1>2 DEF JobsInv
<1>5. JudgedStay
  BY <1>2 DEF JudgedStay
<1> QED
  BY <1>1, <1>3, <1>4, <1>5 DEF JobsInv

\* A job is enqueued under an identifier not used before.
LEMMA EnqueueKeeps ==
    ASSUME JobsInv, NEW j \in Jobs, Enqueue(j)
    PROVE  JobsInv' /\ JudgedStay /\ life'[j].status = "pending"
<1>1. /\ life[j].status = "absent" /\ verdict[j] = "unused"
      /\ life' = [life EXCEPT ![j] = Queue!At("pending", FALSE)]
      /\ verdict' = [verdict EXCEPT ![j] = "none"]
  BY DEF Enqueue, Unused, Queue!Enqueued
<1>2. Queue!At("pending", FALSE) \in Queue!Life /\ Queue!At("pending", FALSE).status = "pending"
      /\ ~Queue!At("pending", FALSE).supervised
  BY DEF Queue!Life, Queue!Statuses, Queue!At
<1>3. "none" \notin Verdicts /\ verdict[j] \notin Verdicts
  BY <1>1 DEF Verdicts
<1> QED
  BY <1>1, <1>2, <1>3, OneJobMoves

\* The queue moves one job without completing it.
LEMMA MoveKeeps ==
    ASSUME JobsInv, NEW j \in Jobs, life[j].status # "completed",
           NEW r \in Queue!Started(life[j]) \cup Queue!Failed(life[j])
                       \cup Queue!Refused(life[j]) \cup Queue!Cancelled(life[j]),
           life' = [life EXCEPT ![j] = r], verdict' = verdict
    PROVE  JobsInv' /\ JudgedStay
<1>0. /\ life[j] \in Queue!Life
      /\ life[j].supervised => life[j].status \in {"running", "cancelled"}
  BY DEF JobsInv
<1>1. /\ r \in Queue!Life /\ r.status \notin {"completed", "absent"}
      /\ r.supervised => r.status \in {"running", "cancelled"}
      /\ life[j].status # "absent"
  <2>1. CASE r \in Queue!Started(life[j]) \cup Queue!Refused(life[j])
    <3>1. r = Queue!At("running", TRUE) \/ r = Queue!At("dead", FALSE)
      BY <2>1 DEF Queue!Started, Queue!Refused
    <3>2. life[j].status \in {"pending", "retrying"}
      BY <2>1 DEF Queue!Started, Queue!Refused, Queue!Waiting
    <3> QED
      BY <3>1, <3>2, AtIsLife DEF Queue!Statuses
  <2>2. CASE r \in Queue!Failed(life[j])
    <3>1. PICK s \in {"retrying", "failed", "dead"} : r = Queue!At(s, FALSE)
      BY <2>2 DEF Queue!Failed
    <3>2. life[j].supervised
      BY <2>2 DEF Queue!Failed
    <3> QED
      BY <1>0, <3>1, <3>2, AtIsLife DEF Queue!Statuses
  <2>3. CASE r \in Queue!Cancelled(life[j])
    BY <1>0, <2>3 DEF Queue!Cancelled, Queue!Life, Queue!Statuses
  <2> QED
    BY <2>1, <2>2, <2>3
<1>2. verdict[j] \in {"unused", "none"} /\ verdict[j] # "unused" /\ verdict[j] \notin Verdicts
  BY <1>1 DEF JobsInv
<1>3. verdict' = [verdict EXCEPT ![j] = verdict[j]]
  BY DEF JobsInv
<1> QED
  BY <1>1, <1>2, <1>3, OneJobMoves

\* Only what is not completed moves.
LEMMA CompletedIsStill ==
    ASSUME JobsInv, NEW j \in Jobs, life[j].status = "completed"
    PROVE  /\ Queue!Started(life[j]) = {} /\ Queue!Failed(life[j]) = {}
           /\ Queue!Refused(life[j]) = {} /\ Queue!Cancelled(life[j]) = {}
           /\ Queue!Succeeded(life[j]) = {}
BY DEF JobsInv, Queue!Started, Queue!Failed, Queue!Refused, Queue!Cancelled, Queue!Succeeded,
       Queue!Waiting

\* An execution answers with success: its job is judged unless it was cancelled.
LEMMA SuccessKeeps ==
    ASSUME JobsInv, NEW j \in Jobs, NEW r \in Queue!Succeeded(life[j]), NEW v \in Verdicts,
           life' = [life EXCEPT ![j] = r],
           IF r.status = "completed" THEN verdict' = [verdict EXCEPT ![j] = v]
                                     ELSE verdict' = verdict
    PROVE  JobsInv' /\ JudgedStay
<1>1. life[j].supervised /\ life[j].status \in {"running", "cancelled"}
  BY DEF JobsInv, Queue!Succeeded
<1>2. /\ r \in Queue!Life /\ ~r.supervised
      /\ r.status = "completed" \/ r.status = "cancelled"
  <2>1. CASE life[j].status = "running"
    <3>1. r = Queue!At("completed", FALSE)
      BY <1>1, <2>1 DEF Queue!Succeeded
    <3> QED
      BY <3>1, AtIsLife DEF Queue!Statuses
  <2>2. CASE life[j].status = "cancelled"
    <3>1. r = Queue!At("cancelled", FALSE)
      BY <1>1, <2>2 DEF Queue!Succeeded
    <3> QED
      BY <3>1, AtIsLife DEF Queue!Statuses
  <2> QED
    BY <1>1, <2>1, <2>2
<1>3. verdict[j] \notin Verdicts /\ verdict[j] # "unused"
  BY <1>1 DEF JobsInv
<1>4. verdict[j] \in {"unused", "none"} \cup Verdicts
  BY DEF JobsInv
<1>5. CASE r.status = "completed"
  <2>1. v # "unused"
    BY DEF Verdicts
  <2> QED
    BY <1>2, <1>3, <1>5, <2>1, OneJobMoves
<1>6. CASE r.status # "completed"
  <2>1. verdict' = [verdict EXCEPT ![j] = verdict[j]]
    BY <1>6 DEF JobsInv
  <2> QED
    BY <1>2, <1>3, <1>4, <1>6, <2>1, OneJobMoves
<1> QED
  BY <1>5, <1>6

\* A listener is called and suspends at its import.
LEMMA EmitKeeps ==
    ASSUME PendingInv, JudgedStay, NEW j \in Jobs, NEW e \in Events, Emit(j, e),
           e = "completed" => verdict'[j] \in Verdicts
    PROVE  PendingInv' /\ pending' # {}
<1> DEFINE q == [job |-> j, event |-> e]
<1>1. pending' = pending \cup {q}
  BY DEF Emit
<1>2. q \in [job : Jobs, event : Events] /\ q.job = j /\ q.event = e
  OBVIOUS
<1> HIDE DEF q
<1>3. \A p \in pending : p.job \in Jobs
  BY DEF PendingInv
<1>4. \A p \in pending : p.event = "completed" => verdict'[p.job] \in Verdicts
  BY <1>3 DEF PendingInv, JudgedStay
<1> QED
  BY <1>1, <1>2, <1>4 DEF PendingInv

LEMMA NothingEmitted ==
    ASSUME PendingInv, JudgedStay, pending' \subseteq pending
    PROVE  PendingInv'
BY DEF PendingInv, JudgedStay, Events

LEMMA CompleteTaskKeeps ==
    ASSUME TaskInv, NEW s \in {"queued", "success", "error"}, CompleteTask(s)
    PROVE  TaskInv'
BY DEF TaskInv, CompleteTask, Write, SyncThread

LEMMA SetStatusKeeps ==
    ASSUME TaskInv, NEW s \in {"running", "success", "error"}, SetStatus(s)
    PROVE  TaskInv'
BY DEF TaskInv, SetStatus, Write

\* What a listener passes to completeTask is a verdict.
LEMMA ListenJudges ==
    ASSUME IInv, NEW p \in pending
    PROVE  (IF p.event = "completed" THEN Judged(p.job) ELSE "error") \in Verdicts
BY DEF IInv, PendingInv, Judged, Verdicts


\* cancelJob and CancelTask: a job that may be cancelled is not completed.
LEMMA CancelKeeps ==
    ASSUME IInv, NEW j \in Jobs, NEW r \in Queue!Cancelled(life[j]),
           life' = [life EXCEPT ![j] = r], verdict' = verdict, Emit(j, "cancelled")
    PROVE  JobsInv' /\ JudgedStay /\ PendingInv' /\ pending' # {}
<1>1. life[j].status # "completed"
  BY CompletedIsStill DEF IInv
<1>2. JobsInv' /\ JudgedStay
  BY <1>1, MoveKeeps DEF IInv
<1> QED
  BY <1>2, EmitKeeps DEF IInv, Events

-----------------------------------------------------------------------------
(* The invariant *)

LEMMA Initially == Init => IInv
<1> SUFFICES ASSUME Init PROVE IInv
  OBVIOUS
<1>1. JobsInv
  BY AtIsLife DEF Init, JobsInv, Queue!Statuses, Verdicts
<1>2. PendingInv /\ TaskInv
  BY DEF Init, PendingInv, TaskInv, NoJob
<1>3. CountInv
  BY TaskAssumption DEF Init, CountInv
<1> QED
  BY <1>1, <1>2, <1>3 DEF IInv

\* Every step keeps it.
LEMMA Inductive == IInv /\ [Next]_vars => IInv'
<1> SUFFICES ASSUME IInv, [Next]_vars PROVE IInv'
  OBVIOUS
<1> USE DEF IInv
<1>s. JobsInv /\ UNCHANGED <<life, verdict>> => JobsInv' /\ JudgedStay
  BY DEF JobsInv, JudgedStay
<1>p. JudgedStay /\ pending' \subseteq pending => PendingInv'
  BY NothingEmitted
<1>c. UNCHANGED <<requests, simple, restarts>> => CountInv'
  BY DEF CountInv
<1>t. SameTask => TaskInv'
  BY DEF TaskInv, SameTask
<1>1. CASE Submit
  <2>1. CASE /\ \E j \in Jobs : Enqueue(j)
             /\ CompleteTask("queued")
    BY <1>1, <2>1, <1>p, <1>c, EnqueueKeeps, CompleteTaskKeeps DEF Submit
  <2>2. CASE /\ task' = [task EXCEPT !.status = "blocked", !.gated = TRUE]
             /\ UNCHANGED <<life, verdict, thread>>
    BY <1>1, <2>2, <1>s, <1>p, <1>c DEF Submit, TaskInv
  <2>3. CASE CompleteTask("error") /\ UNCHANGED <<life, verdict>>
    BY <1>1, <2>3, <1>s, <1>p, <1>c, CompleteTaskKeeps DEF Submit
  <2> QED
    BY <1>1, <2>1, <2>2, <2>3 DEF Submit
<1>2. CASE RequestRetry
  <2>1. CountInv'
    BY <1>2, TaskAssumption DEF RequestRetry, CountInv
  <2> QED
    BY <1>2, <2>1, <1>s, <1>p, <1>t DEF RequestRetry
<1>3. CASE Retry
  <2>1. CountInv'
    <3>1. requests > 0 /\ requests' = requests - 1 /\ restarts' = restarts
      BY <1>3 DEF Retry
    <3>2. simple' = simple \/ simple' = simple + 1
      BY <1>3 DEF Retry
    <3> QED
      BY <3>1, <3>2, TaskAssumption DEF CountInv
  <2>2. CASE \E j \in Jobs : Enqueue(j) /\ Write([task EXCEPT !.status = "queued", !.jobId = j])
                              /\ UNCHANGED <<thread, simple>>
    <3>1. PICK j \in Jobs : /\ Enqueue(j) /\ UNCHANGED <<thread, simple>>
                            /\ Write([task EXCEPT !.status = "queued", !.jobId = j])
      BY <2>2
    <3>2. TaskInv'
      BY <3>1 DEF TaskInv, Write
    <3>3. JobsInv' /\ JudgedStay
      BY <3>1, EnqueueKeeps
    <3> QED
      BY <1>3, <2>1, <3>2, <3>3, <1>p DEF Retry
  <2>3. CASE /\ Write([task EXCEPT !.status = "blocked", !.gated = TRUE])
             /\ UNCHANGED <<life, verdict, thread, simple>>
    <3>1. TaskInv'
      BY <2>3 DEF TaskInv, Write
    <3> QED
      BY <1>3, <2>1, <2>3, <3>1, <1>s, <1>p DEF Retry
  <2>4. CASE SetStatus("running") /\ UNCHANGED <<life, verdict>>
    BY <1>3, <2>1, <2>4, <1>s, <1>p, SetStatusKeeps DEF Retry
  <2>5. CASE SetStatus("error") /\ UNCHANGED <<life, verdict, simple>>
    BY <1>3, <2>1, <2>5, <1>s, <1>p, SetStatusKeeps DEF Retry
  <2>6. CASE SameTask /\ UNCHANGED <<life, verdict, simple>>
    BY <1>3, <2>1, <2>6, <1>s, <1>p, <1>t DEF Retry
  <2> QED
    BY <1>3, <2>2, <2>3, <2>4, <2>5, <2>6 DEF Retry
<1>4. CASE SimpleRetryEnds
  <2>1. CountInv'
    BY <1>4, TaskAssumption DEF SimpleRetryEnds, CountInv
  <2>2. TaskInv'
    BY <1>4, SetStatusKeeps DEF SimpleRetryEnds
  <2> QED
    BY <1>4, <2>1, <2>2, <1>s, <1>p DEF SimpleRetryEnds
<1>5. CASE CancelTask
  <2>1. TaskInv' /\ CountInv'
    BY <1>5, <1>c, SetStatusKeeps DEF CancelTask
  <2>2. CASE UNCHANGED <<life, pending>>
    BY <1>5, <2>1, <2>2, <1>s, <1>p DEF CancelTask
  <2>3. CASE \E r \in Queue!Cancelled(life[task.jobId]) :
               task.jobId # NoJob /\ life' = [life EXCEPT ![task.jobId] = r]
               /\ Emit(task.jobId, "cancelled")
    <3>1. PICK r \in Queue!Cancelled(life[task.jobId]) :
            task.jobId # NoJob /\ life' = [life EXCEPT ![task.jobId] = r]
            /\ Emit(task.jobId, "cancelled")
      BY <2>3
    <3>2. task.jobId \in Jobs
      BY <3>1 DEF TaskInv
    <3> QED
      BY <1>5, <2>1, <3>1, <3>2, CancelKeeps DEF CancelTask
  <2> QED
    BY <1>5, <2>2, <2>3 DEF CancelTask
<1>6. CASE RepairTask
  <2>1. TaskInv'
    BY <1>6, SetStatusKeeps DEF RepairTask, RepairedStatus
  <2> QED
    BY <1>6, <2>1, <1>s, <1>p, <1>c DEF RepairTask
<1>7. CASE ReconcileTask
  <2>1. JobsInv' /\ JudgedStay /\ CountInv'
    BY <1>7, <1>s, <1>c DEF ReconcileTask
  <2>2. CASE CompleteTask("error") /\ pending' = pending
    BY <2>1, <2>2, <1>p, CompleteTaskKeeps
  <2>3. ASSUME NEW j \in Jobs, SameTask,
               CASE life[j].status \in {"failed", "dead"} -> Emit(j, "failed")
                 [] life[j].status \in {"completed", "cancelled"} -> Emit(j, life[j].status)
                 [] OTHER -> FALSE
        PROVE IInv'
    <3>1. PICK e \in {"failed", "completed", "cancelled"} :
            Emit(j, e) /\ (e = "completed" => life[j].status = "completed")
      BY <2>3
    <3>2. e = "completed" => verdict'[j] \in Verdicts
      BY <3>1, <1>7 DEF JobsInv, ReconcileTask
    <3> QED
      BY <2>1, <2>3, <3>1, <3>2, <1>t, EmitKeeps DEF Events
  <2> QED
    BY <1>7, <2>2, <2>3 DEF ReconcileTask
<1>8. CASE OpenThread
  BY <1>8, <1>s, <1>p, <1>c DEF OpenThread, TaskInv
<1>9. CASE RepairThread
  BY <1>9, <1>s, <1>p, <1>c DEF RepairThread, TaskInv
<1>10. ASSUME NEW j \in Jobs, JobStarts(j) PROVE IInv'
  <2>1. PICK r \in Queue!Started(life[j]) : life' = [life EXCEPT ![j] = r]
    BY <1>10 DEF JobStarts
  <2>2. JobsInv' /\ JudgedStay
    BY <1>10, <2>1, MoveKeeps, CompletedIsStill DEF JobStarts
  <2> QED
    BY <1>10, <2>2, <1>p, <1>c, <1>t DEF JobStarts
<1>11. ASSUME NEW j \in Jobs, JobSucceeds(j) PROVE IInv'
  <2>1. PICK r \in Queue!Succeeded(life[j]), v \in Verdicts :
          /\ life' = [life EXCEPT ![j] = r]
          /\ IF r.status = "completed"
             THEN verdict' = [verdict EXCEPT ![j] = v] /\ Emit(j, "completed")
             ELSE UNCHANGED <<verdict, pending>>
    BY <1>11 DEF JobSucceeds, Verdicts
  <2>2. JobsInv' /\ JudgedStay
    BY <2>1, SuccessKeeps
  <2>3. PendingInv'
    <3>1. CASE r.status = "completed"
      <4>1. verdict'[j] = v
        BY <2>1, <3>1 DEF JobsInv
      <4> QED
        BY <2>1, <2>2, <3>1, <4>1, EmitKeeps DEF Events
    <3>2. CASE r.status # "completed"
      BY <2>1, <2>2, <3>2, <1>p
    <3> QED
      BY <3>1, <3>2
  <2> QED
    BY <1>11, <2>2, <2>3, <1>c, <1>t DEF JobSucceeds
<1>12. ASSUME NEW j \in Jobs, JobFails(j) PROVE IInv'
  <2>1. PICK r \in Queue!Failed(life[j]) \cup Queue!Refused(life[j]) :
          life' = [life EXCEPT ![j] = r] /\ EmitEnd(j, r)
    BY <1>12 DEF JobFails
  <2>2. JobsInv' /\ JudgedStay
    BY <1>12, <2>1, MoveKeeps, CompletedIsStill DEF JobFails
  <2>3. PendingInv'
    <3>1. Emit(j, "dead-lettered") \/ Emit(j, "failed") \/ pending' = pending
      BY <2>1 DEF EmitEnd
    <3> QED
      BY <2>2, <3>1, <1>p, EmitKeeps DEF Events
  <2> QED
    BY <1>12, <2>2, <2>3, <1>c, <1>t DEF JobFails
<1>13. ASSUME NEW j \in Jobs, CancelJob(j) PROVE IInv'
  BY <1>13, <1>c, <1>t, CancelKeeps DEF CancelJob
<1>14. ASSUME NEW j \in Jobs, NEW k \in Jobs, RetryJob(j, k) PROVE IInv'
  BY <1>14, <1>p, <1>c, <1>t, EnqueueKeeps DEF RetryJob
<1>15. ASSUME NEW p \in pending, Listen(p) PROVE IInv'
  <2>1. JobsInv' /\ PendingInv' /\ CountInv'
    BY <1>15, <1>s, <1>p, <1>c DEF Listen
  <2>2. CASE SameTask
    BY <2>1, <2>2, <1>t
  <2>3. CASE CompleteTask(IF p.event = "completed" THEN Judged(p.job) ELSE "error")
    BY <2>1, <2>3, ListenJudges, CompleteTaskKeeps DEF Verdicts
  <2> QED
    BY <1>15, <2>2, <2>3 DEF Listen
<1>16. CASE Restart
  <2>1. TaskInv' /\ CountInv' /\ PendingInv'
    BY <1>16, <1>t, TaskAssumption DEF Restart, CountInv, PendingInv
  <2>2. PICK l \in [Jobs -> UNION {Queue!Restored(life[j]) : j \in Jobs}] :
          /\ \A j \in Jobs : /\ l[j] \in Queue!Restored(life[j])
                             /\ l[j].status = "completed" => life[j].status = "completed"
          /\ life' = l
          /\ verdict' = [j \in Jobs |->
               IF verdict[j] = "unused" \/ l[j].status = "completed" THEN verdict[j] ELSE "none"]
    BY <1>16 DEF Restart
  <2>3. \A j \in Jobs : /\ l[j] \in Queue!Life /\ ~l[j].supervised
                        /\ life[j].status = "absent" => l[j].status = "absent"
    <3>1. SUFFICES ASSUME NEW j \in Jobs
                   PROVE  /\ l[j] \in Queue!Life /\ ~l[j].supervised
                          /\ life[j].status = "absent" => l[j].status = "absent"
      OBVIOUS
    <3>2. CASE life[j].status = "absent"
      BY <2>2, <3>2 DEF JobsInv, Queue!Restored
    <3>3. CASE life[j].status # "absent"
      <4>1. PICK s \in {"absent", "pending", "retrying", "completed", "failed", "cancelled"} :
              l[j] = Queue!At(s, FALSE)
        BY <2>2, <3>3 DEF Queue!Restored
      <4> QED
        BY <3>3, <4>1, AtIsLife DEF Queue!Statuses
    <3> QED
      BY <3>2, <3>3
  <2>4. JobsInv'
    BY <2>2, <2>3 DEF JobsInv, Verdicts
  <2> QED
    BY <2>1, <2>4
<1>17. CASE UNCHANGED vars
  BY <1>17, <1>s, <1>p, <1>c, <1>t DEF vars, SameTask
<1> QED
  BY <1>1, <1>2, <1>3, <1>4, <1>5, <1>6, <1>7, <1>8, <1>9, <1>10, <1>11, <1>12, <1>13,
     <1>14, <1>15, <1>16, <1>17 DEF Next, JobEnds

\* The inductive invariant holds throughout.
THEOREM Invariance == Spec => []IInv
BY Initially, Inductive, PTL DEF Spec

\* Types: the states of tasks, threads, jobs and suspended calls.
THEOREM TypeCorrect == Spec => []TypeOK
<1>1. IInv => TypeOK
  BY DEF IInv, TypeOK, JobsInv, PendingInv, TaskInv, CountInv, Verdicts
<1> QED
  BY <1>1, Invariance, PTL


-----------------------------------------------------------------------------
(* What a task goes through *)

\* A task leaves status error by a retry only.
THEOREM ErrorStays == Spec => ErrorIsFinal
<1>1. IInv /\ [Next]_vars =>
        [(task.status = "error" /\ task'.status # "error")
           => requests' < requests \/ simple' < simple]_vars
  <2> SUFFICES ASSUME IInv, Next, task.status = "error", task'.status # "error"
               PROVE  requests' < requests \/ simple' < simple
    BY DEF vars
  <2> USE DEF IInv
  <2>0. /\ requests \in Int /\ simple \in Int
        /\ task' # task /\ ~SameTask /\ ~Open
    BY DEF CountInv, SameTask, Open
  <2>1. CASE Submit
    BY <2>1 DEF Submit
  <2>2. CASE Retry
    <3>1. requests' = requests - 1
      BY <2>2 DEF Retry
    <3> QED
      BY <2>0, <3>1
  <2>3. CASE SimpleRetryEnds
    BY <2>0, <2>3 DEF SimpleRetryEnds
  <2>4. CASE CancelTask \/ RepairTask \/ ReconcileTask
    BY <2>0, <2>4 DEF CancelTask, RepairTask, ReconcileTask
  <2>5. ASSUME NEW p \in pending, Listen(p) PROVE FALSE
    BY <2>0, <2>5 DEF Listen, Ignores
  <2>6. CASE RequestRetry \/ OpenThread \/ RepairThread \/ Restart
    BY <2>0, <2>6 DEF RequestRetry, OpenThread, RepairThread, Restart
  <2>7. ASSUME NEW j \in Jobs, JobStarts(j) \/ JobEnds(j) \/ CancelJob(j) PROVE FALSE
    BY <2>0, <2>7 DEF JobStarts, JobEnds, JobSucceeds, JobFails, CancelJob
  <2>8. ASSUME NEW j \in Jobs, NEW k \in Jobs, RetryJob(j, k) PROVE FALSE
    BY <2>0, <2>8 DEF RetryJob
  <2> QED
    BY <2>1, <2>2, <2>3, <2>4, <2>5, <2>6, <2>7, <2>8 DEF Next
<1> QED
  BY <1>1, Invariance, PTL DEF Spec, ErrorIsFinal

\* A task succeeds because of a job judged a success, of a simple run, or of a
\* repair made while its last job was completed.
THEOREM SuccessIsCaused == Spec => SuccessHasCause
<1> DEFINE Repaired == task.jobId # NoJob /\ life[task.jobId].status = "completed"
                       /\ pending' = pending
<1>1. IInv /\ [Next]_vars =>
        [BecomesSuccess => ValidatedJob \/ simple' < simple \/ Repaired]_vars
  <2> SUFFICES ASSUME IInv, Next, BecomesSuccess
               PROVE  ValidatedJob \/ simple' < simple \/ Repaired
    BY DEF vars, BecomesSuccess
  <2> USE DEF IInv, BecomesSuccess
  <2>0. /\ simple \in Int /\ task' # task /\ ~SameTask
        /\ \A t : t.status # "success" => ~Write(t)
        /\ \A s \in {"queued", "running", "error", "blocked"} : ~CompleteTask(s) /\ ~SetStatus(s)
    <3>1. \A t : t.status # "success" => ~Write(t)
      BY DEF Write
    <3>2. \A s \in {"queued", "running", "error", "blocked"} :
            /\ [task EXCEPT !.status = s].status = s
            /\ [task EXCEPT !.status = s, !.gated = FALSE].status = s
      BY DEF TaskInv
    <3>3. \A s \in {"queued", "running", "error", "blocked"} : ~CompleteTask(s) /\ ~SetStatus(s)
      BY <3>1, <3>2 DEF CompleteTask, SetStatus
    <3>4. simple \in Int
      BY DEF CountInv
    <3> QED
      BY <3>1, <3>3, <3>4 DEF SameTask
  <2>1. CASE Submit
    <3>1. [task EXCEPT !.status = "blocked", !.gated = TRUE].status = "blocked"
      BY DEF TaskInv
    <3> QED
      BY <2>0, <2>1, <3>1 DEF Submit
  <2>2. CASE Retry
    <3>1. /\ \A j : [task EXCEPT !.status = "queued", !.jobId = j].status = "queued"
          /\ [task EXCEPT !.status = "blocked", !.gated = TRUE].status = "blocked"
      BY DEF TaskInv
    <3> QED
      BY <2>0, <2>2, <3>1 DEF Retry
  <2>3. CASE SimpleRetryEnds
    BY <2>0, <2>3 DEF SimpleRetryEnds
  <2>4. CASE CancelTask
    BY <2>0, <2>4 DEF CancelTask
  <2>5. CASE RepairTask
    BY <2>0, <2>5 DEF RepairTask, RepairedStatus
  <2>6. CASE ReconcileTask
    BY <2>0, <2>6 DEF ReconcileTask
  <2>7. ASSUME NEW p \in pending, Listen(p) PROVE ValidatedJob
    <3>1. p.event = "completed" /\ Judged(p.job) = "success"
      BY <2>0, <2>7, ListenJudges DEF Listen, Verdicts
    <3>2. p.job \in Jobs /\ verdict[p.job] = "success"
      BY <3>1 DEF PendingInv, Judged
    <3> QED
      BY <3>2 DEF JobsInv, ValidatedJob, Verdicts
  <2>8. CASE RequestRetry \/ OpenThread \/ RepairThread \/ Restart
    BY <2>0, <2>8 DEF RequestRetry, OpenThread, RepairThread, Restart
  <2>9. ASSUME NEW j \in Jobs, JobStarts(j) \/ JobEnds(j) \/ CancelJob(j) PROVE FALSE
    BY <2>0, <2>9 DEF JobStarts, JobEnds, JobSucceeds, JobFails, CancelJob
  <2>10. ASSUME NEW j \in Jobs, NEW k \in Jobs, RetryJob(j, k) PROVE FALSE
    BY <2>0, <2>10 DEF RetryJob
  <2> QED
    BY <2>1, <2>2, <2>3, <2>4, <2>5, <2>6, <2>7, <2>8, <2>9, <2>10 DEF Next
<1> QED
  BY <1>1, Invariance, PTL DEF Spec, SuccessHasCause

-----------------------------------------------------------------------------
(* No task is left behind, where nothing is lost: the planner's gate leaves  *)
(* a mark that makes a listener ignore a later dead letter, and a lost write *)
(* or a restart loses the step that would have closed the task.              *)

NothingLost == ~GateMayBlock /\ ~WritesMayFail /\ MaxRestarts = 0

\* Something will close the task.
Closer == (\E j \in Jobs : Working(life[j])) \/ pending # {} \/ simple > 0

StuckInv == IInv /\ task.gated = FALSE /\ (Open => Closer)

LEMMA StuckInductive == NothingLost /\ StuckInv /\ [Next]_vars => StuckInv'
<1> SUFFICES ASSUME NothingLost, StuckInv, [Next]_vars
             PROVE  task'.gated = FALSE /\ (Open' => Closer')
  BY Inductive DEF StuckInv
<1> USE DEF StuckInv, IInv
<1>w. ASSUME NEW t, Write(t) PROVE task' = t
  BY <1>w DEF Write, NothingLost
<1>c. ASSUME NEW s \in {"queued", "success", "error"}, CompleteTask(s)
      PROVE  task'.status = s /\ task'.gated = FALSE
  BY <1>c, <1>w DEF CompleteTask, TaskInv
<1>s. ASSUME NEW s \in {"running", "success", "error"}, SetStatus(s)
      PROVE  task'.status = s /\ task'.gated = FALSE
  BY <1>s, <1>w DEF SetStatus, TaskInv
<1>t. SameTask => task'.gated = FALSE /\ (Open' => Open)
  BY DEF SameTask, Open
<1>q. ASSUME NEW j \in Jobs, Enqueue(j) PROVE Closer'
  BY <1>q, EnqueueKeeps DEF Closer, Working
<1>e. ASSUME NEW j, NEW e, Emit(j, e) PROVE Closer'
  <2>1. [job |-> j, event |-> e] \in pending'
    BY <1>e DEF Emit
  <2> QED
    BY <2>1 DEF Closer
<1>k. UNCHANGED <<life, pending, simple>> => (Closer => Closer')
  BY DEF Closer
<1>1. CASE Submit
  BY <1>1, <1>c, <1>q DEF Submit, NothingLost, Open
<1>2. CASE RequestRetry
  BY <1>2, <1>t, <1>k DEF RequestRetry
<1>3. CASE Retry
  <2>1. CASE \E j \in Jobs : Enqueue(j) /\ Write([task EXCEPT !.status = "queued", !.jobId = j])
    <3>1. PICK j \in Jobs : Enqueue(j) /\ Write([task EXCEPT !.status = "queued", !.jobId = j])
      BY <2>1
    <3> QED
      BY <3>1, <1>w, <1>q DEF TaskInv
  <2>2. CASE SetStatus("running") /\ simple' = simple + 1
    <3>1. simple' > 0
      BY <2>2 DEF CountInv
    <3>2. Closer'
      BY <3>1 DEF Closer
    <3> QED
      BY <2>2, <3>2, <1>s
  <2>3. CASE SetStatus("error")
    BY <2>3, <1>s DEF Open
  <2>4. CASE SameTask /\ UNCHANGED <<life, simple>>
    BY <1>3, <2>4, <1>t, <1>k DEF Retry
  <2> QED
    BY <1>3, <2>1, <2>2, <2>3, <2>4 DEF Retry, NothingLost
<1>4. CASE SimpleRetryEnds
  BY <1>4, <1>s DEF SimpleRetryEnds, Open
<1>5. CASE CancelTask
  BY <1>5, <1>s DEF CancelTask, Open
<1>6. CASE RepairTask
  BY <1>6, <1>s DEF RepairTask, RepairedStatus, Open
<1>7. CASE ReconcileTask
  <2>1. CASE CompleteTask("error")
    BY <2>1, <1>c DEF Open
  <2>2. ASSUME NEW j \in Jobs, SameTask,
               CASE life[j].status \in {"failed", "dead"} -> Emit(j, "failed")
                 [] life[j].status \in {"completed", "cancelled"} -> Emit(j, life[j].status)
                 [] OTHER -> FALSE
        PROVE  task'.gated = FALSE /\ Closer'
    <3>1. \E e \in {"failed", "completed", "cancelled"} : Emit(j, e)
      BY <2>2
    <3> QED
      BY <2>2, <3>1, <1>t, <1>e
  <2> QED
    BY <1>7, <2>1, <2>2 DEF ReconcileTask
<1>8. CASE OpenThread \/ RepairThread
  BY <1>8, <1>t, <1>k DEF OpenThread, RepairThread, SameTask, Open
<1>10. ASSUME NEW j \in Jobs, JobStarts(j) PROVE task'.gated = FALSE /\ Closer'
  <2>1. life'[j].status = "running"
    BY <1>10 DEF JobStarts, JobsInv, Queue!Started, Queue!At
  <2> QED
    BY <1>10, <2>1, <1>t DEF JobStarts, Closer, Working
<1>11. ASSUME NEW j \in Jobs, JobSucceeds(j) PROVE task'.gated = FALSE /\ (Open' => Closer')
  <2>1. PICK r \in Queue!Succeeded(life[j]), v \in Verdicts :
          /\ life' = [life EXCEPT ![j] = r]
          /\ IF r.status = "completed"
             THEN verdict' = [verdict EXCEPT ![j] = v] /\ Emit(j, "completed")
             ELSE UNCHANGED <<verdict, pending>>
    BY <1>11 DEF JobSucceeds, Verdicts
  <2>2. CASE r.status = "completed"
    BY <1>11, <2>1, <2>2, <1>e, <1>t DEF JobSucceeds
  <2>3. CASE r.status # "completed"
    <3>1. r.status = life[j].status
      <4>1. life[j].status \in Queue!Statuses /\ life[j].supervised
        BY <2>1 DEF Queue!Succeeded, JobsInv, Queue!Life
      <4>2. r = Queue!At("completed", FALSE) \/ r = Queue!At(life[j].status, FALSE)
        BY <2>1, <4>1 DEF Queue!Succeeded
      <4> QED
        BY <2>3, <4>1, <4>2, AtIsLife DEF Queue!Statuses
    <3>2. \A k \in Jobs : life'[k].status = life[k].status
      BY <2>1, <3>1 DEF JobsInv
    <3> QED
      BY <1>11, <2>1, <2>3, <3>2, <1>t DEF JobSucceeds, Closer, Working
  <2> QED
    BY <2>2, <2>3
<1>12. ASSUME NEW j \in Jobs, JobFails(j) PROVE task'.gated = FALSE /\ Closer'
  <2>1. PICK r \in Queue!Failed(life[j]) \cup Queue!Refused(life[j]) :
          life' = [life EXCEPT ![j] = r] /\ EmitEnd(j, r)
    BY <1>12 DEF JobFails
  <2>2. CASE r.status = "retrying"
    BY <2>1, <2>2, <1>12, <1>t DEF JobFails, JobsInv, Closer, Working
  <2>3. CASE r.status \in {"dead", "failed"}
    BY <2>1, <2>3, <1>12, <1>t, <1>e DEF JobFails, EmitEnd
  <2>4. r.status \in {"retrying", "dead", "failed"}
    <3>1. PICK s \in {"retrying", "dead", "failed"} : r = Queue!At(s, FALSE)
      BY <2>1 DEF Queue!Failed, Queue!Refused
    <3> QED
      BY <3>1, AtIsLife DEF Queue!Statuses
  <2> QED
    BY <2>2, <2>3, <2>4
<1>13. ASSUME NEW j \in Jobs, CancelJob(j) PROVE task'.gated = FALSE /\ Closer'
  BY <1>13, <1>e, <1>t DEF CancelJob
<1>14. ASSUME NEW j \in Jobs, NEW k \in Jobs, RetryJob(j, k) PROVE task'.gated = FALSE /\ Closer'
  BY <1>14, <1>q, <1>t DEF RetryJob
<1>15. ASSUME NEW p \in pending, Listen(p) PROVE task'.gated = FALSE /\ ~Open'
  <2>1. CASE Ignores(p.event) /\ SameTask
    BY <2>1, <1>t DEF Ignores, Open
  <2>2. CASE CompleteTask(IF p.event = "completed" THEN Judged(p.job) ELSE "error")
    BY <2>2, <1>c, ListenJudges DEF Verdicts, Open
  <2> QED
    BY <1>15, <2>1, <2>2 DEF Listen
<1>16. ~Restart
  BY DEF Restart, NothingLost, CountInv
<1>17. CASE UNCHANGED vars
  BY <1>17, <1>t, <1>k DEF vars, SameTask
<1> QED
  BY <1>1, <1>2, <1>3, <1>4, <1>5, <1>6, <1>7, <1>8, <1>10, <1>11, <1>12, <1>13, <1>14,
     <1>15, <1>16, <1>17 DEF Next, JobEnds

\* An open task has something that will close it.
THEOREM NobodyStuck == ASSUME NothingLost PROVE Spec => []NoStuckTask
<1>1. Init => StuckInv
  BY Initially DEF Init, StuckInv, Open
<1>2. StuckInv => NoStuckTask
  BY DEF StuckInv, NoStuckTask, Closer
<1> QED
  BY <1>1, <1>2, StuckInductive, PTL DEF Spec

=============================================================================
