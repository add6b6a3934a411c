-------------------------- MODULE TaskReconciliation --------------------------
(***************************************************************************)
(* How a task of the user follows the queue jobs made for it: the event    *)
(* listeners of runtime-queue/task-reconciliation.ts, the retry, cancel,   *)
(* repair and reconcile requests of tasks/routes.ts, and the thread that   *)
(* shows the task (task-threads/service.ts).                               *)
(*                                                                         *)
(* Tasks share nothing here, so one task stands for each.  The queue is    *)
(* what JobLifecycle promises of it (RuntimeQueue implements that).  A     *)
(* listener suspends at `await import(...)` between the event and reading  *)
(* the task; a retry request suspends between its check and its body.      *)
(***************************************************************************)
EXTENDS Integers, FiniteSets

CONSTANTS
    Jobs,          \* the task's jobs, numbered in the order they are enqueued
    MaxRequests,   \* bound: retries under way at once, waiting or as simple tasks
    GateMayBlock,  \* may the planner find a capability missing?
    WritesMayFail, \* may writing tasks.json fail? (file-db.ts logs and goes on)
    MaxRestarts    \* bound: restarts of the process in one behaviour

ASSUME TaskAssumption ==
    /\ Jobs \subseteq Nat \ {0} /\ IsFiniteSet(Jobs)
    /\ MaxRequests \in Nat /\ MaxRestarts \in Nat
    /\ GateMayBlock \in BOOLEAN /\ WritesMayFail \in BOOLEAN

VARIABLES
    life,      \* the queue: status and supervision of each job
    verdict,   \* "unused" before the job is enqueued; once it is completed,
               \* what determineTaskSuccess says of its result
    task,      \* status, lastRetryJobId (0: none), and whether result and
               \* failureExplanation are those of a capability gate
    thread,    \* status of the task's thread
    pending,   \* listener calls suspended at their import
    requests,  \* retry requests past their check
    simple,    \* retries running as simple tasks
    restarts

vars == <<life, verdict, task, thread, pending, requests, simple, restarts>>

Queue == INSTANCE JobLifecycle

NoJob == 0

-----------------------------------------------------------------------------
(* The task, its jobs and its thread *)

Open == task.status \in {"queued", "running"}

Linked == {j \in Jobs : life[j].status # "absent"}

Working(r) == r.status \in {"pending", "retrying", "running"}

Unused == {j \in Jobs : verdict[j] = "unused"}

\* queue.getAllJobs().find(...): the oldest; a reload may reorder them.
IsFirstLinked(j) == j \in Linked /\ (restarts = 0 => \A k \in Linked : j <= k)

\* syncThreadWithTask: a terminal thread is left alone; a task that succeeds
\* without a thread gets one.
SyncThread(th, s) ==
    IF th \in {"completed", "failed"} THEN th
    ELSE IF th = "none" THEN (IF s = "success" THEN "completed" ELSE "none")
    ELSE IF s = "success" THEN "completed"
    ELSE IF s = "error" THEN "failed"
    ELSE th

\* storage/file-db.ts write: a failed write is logged and forgotten.
Write(t) == task' = t \/ (WritesMayFail /\ task' = task)

\* completeTask: status, result and explanation are replaced, the thread synced.
CompleteTask(s) ==
    /\ Write([task EXCEPT !.status = s, !.gated = FALSE])
    /\ thread' = SyncThread(thread, s)

\* updateTask: the thread is not told.
SetStatus(s) ==
    /\ Write([task EXCEPT !.status = s])
    /\ thread' = thread

SameTask == UNCHANGED <<task, thread>>

\* enqueueCompositeTask: the next identifier in order of creation.
Enqueue(j) ==
    /\ j \in Unused /\ \A k \in Unused : j <= k
    /\ \E r \in Queue!Enqueued(life[j]) : life' = [life EXCEPT ![j] = r]
    /\ verdict' = [verdict EXCEPT ![j] = "none"]

-----------------------------------------------------------------------------
(* The queue and the events it emits *)

Emit(j, event) == pending' = pending \cup {[job |-> j, event |-> event]}

\* The event of a failed attempt; a retry has no listener.
EmitEnd(j, r) ==
    CASE r.status = "dead"   -> Emit(j, "dead-lettered")
      [] r.status = "failed" -> Emit(j, "failed")
      [] OTHER               -> pending' = pending

JobStarts(j) ==
    /\ \E r \in Queue!Started(life[j]) : life' = [life EXCEPT ![j] = r]
    /\ SameTask /\ UNCHANGED <<verdict, pending, requests, simple, restarts>>

JobSucceeds(j) ==
    /\ \E r \in Queue!Succeeded(life[j]), v \in {"success", "error"} :
        /\ life' = [life EXCEPT ![j] = r]
        /\ IF r.status = "completed"
           THEN verdict' = [verdict EXCEPT ![j] = v] /\ Emit(j, "completed")
           ELSE UNCHANGED <<verdict, pending>>
    /\ SameTask /\ UNCHANGED <<requests, simple, restarts>>

JobFails(j) ==
    /\ \E r \in Queue!Failed(life[j]) \cup Queue!Refused(life[j]) :
        /\ life' = [life EXCEPT ![j] = r]
        /\ EmitEnd(j, r)
    /\ SameTask /\ UNCHANGED <<verdict, requests, simple, restarts>>

\* POST /queue/jobs/:id/cancel
CancelJob(j) ==
    /\ \E r \in Queue!Cancelled(life[j]) : life' = [life EXCEPT ![j] = r]
    /\ Emit(j, "cancelled")
    /\ SameTask /\ UNCHANGED <<verdict, requests, simple, restarts>>

\* POST /queue/jobs/:id/retry: a copy of the payload, task link included.
RetryJob(j, k) ==
    /\ life[j].status \notin {"absent", "pending", "running"}
    /\ Enqueue(k)
    /\ SameTask /\ UNCHANGED <<pending, requests, simple, restarts>>

-----------------------------------------------------------------------------
(* The listeners *)

\* Mutant: a completed job is a successful task (before validation authority).
Judged_Completed(j) == "success"

\* determineTaskSuccess; a completed job is never "blocked": its handler answers
\* success only when executionStatus is "completed".
Judged(j) == verdict[j]

\* Mutant: like onJobCompleted, onJobFailed also gives up on a queued task.
Ignores_Queued(event) ==
    \/ task.status \in {"none", "error"}
    \/ event = "completed" /\ task.status \in {"success", "blocked", "unconfirmed"}
    \/ event = "failed" /\ task.status = "queued"
    \/ event = "dead-lettered" /\ (task.status = "blocked" \/ task.gated)

\* Mutant: the terminal check of onJobCompleted forgets 'error'.
Ignores_RevivesError(event) ==
    \/ task.status = "none"
    \/ event # "completed" /\ task.status = "error"
    \/ event = "completed" /\ task.status \in {"success", "blocked", "unconfirmed"}
    \/ event = "dead-lettered" /\ (task.status = "blocked" \/ task.gated)

\* The statuses for which each listener returns without touching the task.
Ignores(event) ==
    \/ task.status \in {"none", "error"}
    \/ event = "completed" /\ task.status \in {"success", "blocked", "unconfirmed"}
    \/ event = "dead-lettered" /\ (task.status = "blocked" \/ task.gated)

\* A suspended listener goes on after its imports: onJobCompleted, onJobFailed,
\* onJobCancelled or onJobDeadLettered.  Two equal calls suspended at once count
\* as one: the second would find the task as the first left it.
Listen(p) ==
    /\ p \in pending
    /\ pending' = pending \ {p}
    /\ \/ Ignores(p.event) /\ SameTask
       \/ /\ ~Ignores(p.event)
          /\ CompleteTask(IF p.event = "completed" THEN Judged(p.job) ELSE "error")
    /\ UNCHANGED <<life, verdict, requests, simple, restarts>>

-----------------------------------------------------------------------------
(* Requests of the user *)

\* The orchestrator answers a request with a plan: the job is enqueued and the
\* task queued, or a capability is missing, or planning or queueing failed.
Submit ==
    /\ task.status = "none"
    /\ \/ /\ \E j \in Jobs : Enqueue(j)
          /\ CompleteTask("queued")
       \/ /\ GateMayBlock
          /\ task' = [task EXCEPT !.status = "blocked", !.gated = TRUE]
          /\ UNCHANGED <<life, verdict, thread>>
       \/ /\ CompleteTask("error")
          /\ UNCHANGED <<life, verdict>>
    /\ UNCHANGED <<pending, requests, simple, restarts>>

\* POST /tasks/:id/retry, up to its check; the body is still to come.
RequestRetry ==
    /\ task.status # "none" /\ ~Open
    /\ requests + simple < MaxRequests
    /\ requests' = requests + 1
    /\ SameTask /\ UNCHANGED <<life, verdict, pending, simple, restarts>>

\* The body has come: plan again and enqueue, run as a simple task, or give up.
Retry ==
    /\ requests > 0
    /\ requests' = requests - 1
    /\ \/ /\ \E j \in Jobs :
              /\ Enqueue(j)
              /\ Write([task EXCEPT !.status = "queued", !.jobId = j])
          /\ UNCHANGED <<thread, simple>>
       \/ /\ GateMayBlock
          /\ Write([task EXCEPT !.status = "blocked", !.gated = TRUE])
          /\ UNCHANGED <<life, verdict, thread, simple>>
       \/ /\ SetStatus("running")
          /\ simple' = simple + 1
          /\ UNCHANGED <<life, verdict>>
       \/ /\ SetStatus("error")
          /\ UNCHANGED <<life, verdict, simple>>
       \/ SameTask /\ UNCHANGED <<life, verdict, simple>>
    /\ UNCHANGED <<pending, restarts>>

\* runSimpleAgentTask answers the retry.
SimpleRetryEnds ==
    /\ simple > 0
    /\ simple' = simple - 1
    /\ \E s \in {"success", "error"} : SetStatus(s)
    /\ UNCHANGED <<life, verdict, pending, requests, restarts>>

\* POST /tasks/:id/cancel: only the job of the last retry is known to the task.
CancelTask ==
    /\ Open
    /\ LET j == task.jobId
           gone == IF j = NoJob THEN {} ELSE Queue!Cancelled(life[j])
       IN \/ gone = {} /\ UNCHANGED <<life, pending>>
          \/ \E r \in gone : life' = [life EXCEPT ![j] = r] /\ Emit(j, "cancelled")
    /\ SetStatus("error")
    /\ UNCHANGED <<verdict, requests, simple, restarts>>

\* Mutant: the job's status is copied into the task.
RepairedStatus_Copied(s) == s

RepairedStatus(s) == IF s = "completed" THEN "success" ELSE "error"

\* POST /tasks/:id/repair, checks 2 and 3; check 4 is ReconcileTask.
RepairTask ==
    /\ Open
    /\ \/ task.jobId = NoJob /\ SetStatus("error")
       \/ /\ task.jobId # NoJob
          /\ life[task.jobId].status \in {"completed", "failed", "cancelled"}
          /\ SetStatus(RepairedStatus(life[task.jobId].status))
    /\ UNCHANGED <<life, verdict, pending, requests, simple, restarts>>

\* reconcileTaskWithJob, for one task or for all: the job found is passed to
\* its listener; a task without any is closed.
ReconcileTask ==
    /\ Open
    /\ \/ Linked = {} /\ CompleteTask("error") /\ pending' = pending
       \/ \E j \in Jobs :
             /\ IsFirstLinked(j)
             /\ CASE life[j].status \in {"failed", "dead"} -> Emit(j, "failed")
                  [] life[j].status \in {"completed", "cancelled"} -> Emit(j, life[j].status)
                  [] OTHER -> FALSE
             /\ SameTask
    /\ UNCHANGED <<life, verdict, requests, simple, restarts>>

\* getOrCreateThreadForTask: the task is opened in the interface.
OpenThread ==
    /\ thread = "none" /\ task.status # "none"
    /\ thread' = CASE task.status = "success" -> "completed"
                   [] task.status = "error"   -> "failed"
                   [] OTHER                   -> "active"
    /\ UNCHANGED <<life, verdict, task, pending, requests, simple, restarts>>

\* repairZombieThreads: an active thread of a task that is over.
RepairThread ==
    /\ thread = "active" /\ task.status \in {"success", "error", "blocked"}
    /\ thread' = IF task.status = "success" THEN "completed" ELSE "failed"
    /\ UNCHANGED <<life, verdict, task, pending, requests, simple, restarts>>

\* The process dies and starts again: tasks.json is as it was, the queue as it
\* was saved, and no suspended call is left.
Restart ==
    /\ restarts < MaxRestarts
    /\ restarts' = restarts + 1
    /\ \E l \in [Jobs -> UNION {Queue!Restored(life[j]) : j \in Jobs}] :
        /\ \A j \in Jobs :
            /\ l[j] \in Queue!Restored(life[j])
            /\ l[j].status = "completed" => life[j].status = "completed"
        /\ life' = l
        /\ verdict' = [j \in Jobs |->
              IF verdict[j] = "unused" \/ l[j].status = "completed" THEN verdict[j] ELSE "none"]
    /\ pending' = {} /\ requests' = 0 /\ simple' = 0
    /\ SameTask

-----------------------------------------------------------------------------
Init ==
    /\ life = [j \in Jobs |-> Queue!At("absent", FALSE)]
    /\ verdict = [j \in Jobs |-> "unused"]
    /\ task = [status |-> "none", jobId |-> NoJob, gated |-> FALSE]
    /\ thread = "none"
    /\ pending = {}
    /\ requests = 0 /\ simple = 0 /\ restarts = 0

JobEnds(j) == JobSucceeds(j) \/ JobFails(j)

Next ==
    \/ Submit \/ RequestRetry \/ Retry \/ SimpleRetryEnds
    \/ CancelTask \/ RepairTask \/ ReconcileTask
    \/ OpenThread \/ RepairThread
    \/ \E j \in Jobs : JobStarts(j) \/ JobEnds(j) \/ CancelJob(j)
    \/ \E j, k \in Jobs : RetryJob(j, k)
    \/ \E p \in pending : Listen(p)
    \/ Restart

Spec == Init /\ [][Next]_vars

\* A started attempt ends, and not for ever in a retry (RuntimeQueue's
\* RetryBudget and EveryJobSettles); event loop turns come; a provider answers.
JobSettles(j) == JobEnds(j) /\ life'[j].status # "retrying"

Fairness ==
    /\ \A j \in Jobs : WF_vars(JobStarts(j)) /\ SF_vars(JobSettles(j))
    /\ WF_vars(\E p \in pending : Listen(p))
    /\ WF_vars(SimpleRetryEnds)

FairSpec == Spec /\ Fairness

-----------------------------------------------------------------------------
(* Properties *)

Events == {"completed", "failed", "cancelled", "dead-lettered"}

\* Types.
TypeOK ==
    /\ life \in [Jobs -> Queue!Life]
    /\ verdict \in [Jobs -> {"unused", "none", "success", "error"}]
    /\ task \in [status : {"none", "queued", "running", "success", "error", "blocked"},
                  jobId : Jobs \cup {NoJob}, gated : BOOLEAN]
    /\ thread \in {"none", "active", "completed", "failed"}
    /\ pending \subseteq [job : Jobs, event : Events]
    /\ requests \in 0..MaxRequests
    /\ simple \in Nat /\ requests + simple <= MaxRequests
    /\ restarts \in 0..MaxRestarts

\* An open task has something that will close it: a job at work, an event on
\* its way, or a simple run.  Otherwise it is queued for ever, and retrying it is
\* refused ("Task is still running").
NoStuckTask ==
    Open => \/ \E j \in Jobs : Working(life[j])
            \/ pending # {}
            \/ simple > 0

\* A task in error, which is also what a cancelled task is, leaves that status
\* by a retry only: no late event of one of its jobs revives it.
ErrorIsFinal ==
    [][(task.status = "error" /\ task'.status # "error")
         => requests' < requests \/ simple' < simple]_vars

BecomesSuccess == task.status # "success" /\ task'.status = "success"

ValidatedJob == \E j \in Jobs : life[j].status = "completed" /\ verdict[j] = "success"

\* A task succeeds because a job of it completed and its result was judged a
\* success, because a simple run answered, or because an operator repaired it
\* while its last job was completed.
SuccessHasCause ==
    [][BecomesSuccess =>
         \/ ValidatedJob
         \/ simple' < simple
         \/ /\ task.jobId # NoJob /\ life[task.jobId].status = "completed"
            /\ pending' = pending]_vars

\* Every task that is queued or running comes to an end.
TaskSettles == Open ~> ~Open
=============================================================================
