---------------------------- MODULE CompositePlan ----------------------------
(***************************************************************************)
(* Composite plans (api/src/modules/composite-tasks): one request, stated  *)
(* again and again, is planned, executed step by step, and learned as a    *)
(* composite task that later plans of the request reuse.                   *)
(*                                                                         *)
(* An execution is a call of executeCompositePlan.  It works on the plan   *)
(* object itself, whose steps carry their status; the queue hands the same *)
(* object to every attempt of a job, and nothing stops an attempt whose    *)
(* timeout has fired.  An action is the code between two awaits.           *)
(***************************************************************************)
EXTENDS Integers, Sequences, FiniteSets

CONSTANTS
    Requests,   \* what may be asked: its number of steps n, checked, critical
    Options,    \* how an execution is asked for: the queue passes the defaults
    MaxPlans, MaxExecs  \* bounds: plans built, executions begun

\* buildStepFromInput asks for no validation: only the plan of a single
\* action has a checked step.
ASSUME RequestAssumption ==
    /\ \A r \in Requests :
        /\ r.n \in Nat \ {0}
        /\ r.critical \subseteq r.checked /\ r.checked \subseteq 1..r.n
        /\ r.n > 1 => r.checked = {}

Defaults == [direct |-> FALSE, stop |-> TRUE, partial |-> TRUE, tries |-> 1]

ASSUME BoundAssumption ==
    /\ MaxPlans \in Nat /\ MaxExecs \in Nat
    /\ Options \subseteq {Defaults} \cup
         [direct : {TRUE}, stop : BOOLEAN, partial : BOOLEAN, tries : Nat \ {0}]

VARIABLES
    request,
    library,    \* state.tasks: the composites learned, in order
    plans,      \* [composite reused or 0, its steps, their statuses, options]
    execs,      \* executions, in the order they began
    overlapped, \* history: a plan was begun again with an execution at work
    won         \* history: per composite, the executions that succeeded

vars == <<request, library, plans, execs, overlapped, won>>

Statuses == {"pending", "running", "success", "failed", "validation_failed"}
Verdicts == {"completed", "partial", "failed", "validation_failed"}

Init ==
    /\ request \in Requests
    /\ library = <<>> /\ plans = <<>> /\ execs = <<>>
    /\ overlapped = FALSE /\ won = <<>>

First(S) == CHOOSE i \in S : \A j \in S : i <= j

-----------------------------------------------------------------------------
(* The library of composites (service.ts) *)

\* successRate is a quotient rate.num / rate.den.
AtLeast(rate, num, den) == rate.num * den >= num * rate.den

\* Math.round(rate * n)
Rounded(rate, n) == (2 * rate.num * n + rate.den) \div (2 * rate.den)

\* findCompositeByInput: all composites learned from the request match it.
Usable(c) == c.present /\ ~c.invalidated /\ AtLeast(c.rate, 3, 4)

Scored(c, successes, success) ==
    LET rate == [num |-> successes, den |-> c.runs + 1]
        failures == IF success THEN 0 ELSE c.failures + 1
    IN
    [c EXCEPT !.runs = @ + 1, !.rate = rate, !.failures = failures,
              !.invalidated = @ \/ (~success /\ (failures >= 3 \/ ~AtLeast(rate, 1, 2)))]

\* mutant: the successes are reckoned over the executions with this one
RecordedWithThisOne(c, success) ==
    Scored(c, Rounded(c.rate, c.runs + 1) + (IF success THEN 1 ELSE 0), success)

\* mutant: a failure takes one success off
RecordedTakingOff(c, success) ==
    Scored(c, Rounded(c.rate, c.runs) + (IF success THEN 1 ELSE -1), success)

\* recordCompositeExecution
Recorded(c, success) ==
    Scored(c, Rounded(c.rate, c.runs) + (IF success THEN 1 ELSE 0), success)

NewComposite(S) ==
    [steps |-> S, present |-> TRUE, invalidated |-> FALSE, failures |-> 0,
     runs |-> 1, rate |-> [num |-> 1, den |-> 1]]

\* saveCompositeTask: a composite of the same signature is counted again, its
\* success rate left as it is.
Learn(S) ==
    LET same == {i \in DOMAIN library :
                   library[i].steps = S /\ library[i].present /\ ~library[i].invalidated}
    IN
    IF same # {}
    THEN /\ library' = [library EXCEPT ![First(same)].runs = @ + 1]
         /\ won' = [won EXCEPT ![First(same)] = @ + 1]
    ELSE /\ library' = Append(library, NewComposite(S))
         /\ won' = Append(won, 1)

Record(c, success) ==
    IF library[c].present
    THEN /\ library' = [library EXCEPT ![c] = Recorded(@, success)]
         /\ won' = IF success THEN [won EXCEPT ![c] = @ + 1] ELSE won
    ELSE UNCHANGED <<library, won>>

-----------------------------------------------------------------------------
(* Planning and beginning an execution *)

\* buildCompositeExecutionPlan
Plan(options) ==
    LET usable == {i \in DOMAIN library : Usable(library[i])}
        c == IF usable = {} THEN 0 ELSE First(usable)
        steps == IF c = 0 THEN 1..request.n ELSE library[c].steps
    IN [composite |-> c, steps |-> steps, options |-> options,
        status |-> [i \in steps |-> "pending"]]

Execution(p, steps) ==
    [plan |-> p, phase |-> "executing", step |-> First(steps), tries |-> 1,
     completed |-> {}, failed |-> {}, verdict |-> "none", timedOut |-> FALSE]

Started(plan) == [plan EXCEPT !.status[First(plan.steps)] = "running"]

\* A direct execution begins in the turn that built its plan; a queued one
\* waits for the scheduler.
Submit(options) ==
    LET plan == Plan(options) IN
    /\ Len(plans) < MaxPlans
    /\ IF options.direct
       THEN /\ Len(execs) < MaxExecs
            /\ plans' = Append(plans, Started(plan))
            /\ execs' = Append(execs, Execution(Len(plans) + 1, plan.steps))
       ELSE /\ plans' = Append(plans, plan)
            /\ UNCHANGED execs
    /\ UNCHANGED <<request, library, overlapped, won>>

-----------------------------------------------------------------------------
(* Execution (executor.ts) *)

AtWork(e) == execs[e].phase # "ended"
Of(p) == {e \in DOMAIN execs : execs[e].plan = p}

\* The attempt of a job that the queue makes next: the first, or one more
\* after an attempt that failed or whose timeout fired.
Begin(p) ==
    /\ ~plans[p].options.direct /\ Len(execs) < MaxExecs
    /\ \/ Of(p) = {}
       \/ \E last \in Of(p) :
            /\ \A e \in Of(p) : e <= last
            /\ execs[last].timedOut \/ execs[last].verdict \in Verdicts \ {"completed"}
    /\ plans' = [plans EXCEPT ![p] = Started(@)]
    /\ execs' = Append(execs, Execution(p, plans[p].steps))
    /\ overlapped' = (overlapped \/ \E e \in Of(p) : AtWork(e))
    /\ UNCHANGED <<request, library, won>>

Remaining(x) == {i \in plans[x.plan].steps : i > x.step}

Verdict(x, stopped) ==
    IF stopped THEN "validation_failed"
    ELSE IF x.failed # {}
    THEN IF plans[x.plan].options.partial /\ x.completed # {} THEN "partial" ELSE "failed"
    ELSE IF x.completed = plans[x.plan].steps THEN "completed" ELSE "partial"

\* mutant: whatever succeeded is learned, completed or not
ConcludeWhateverSucceeded(x, verdict, status) ==
    LET c == plans[x.plan].composite
        done == {i \in plans[x.plan].steps : status[i] = "success"}
    IN
    IF c # 0 THEN Record(c, verdict = "completed")
    ELSE IF done # {} THEN Learn(done)
    ELSE UNCHANGED <<library, won>>

\* The end of executeCompositePlan: a reused composite is recorded; a new one
\* is learned from the steps whose status in the plan is success by now.
Conclude(x, verdict, status) ==
    LET c == plans[x.plan].composite
        done == {i \in plans[x.plan].steps : status[i] = "success"}
    IN
    IF c # 0 THEN Record(c, verdict = "completed")
    ELSE IF verdict = "completed" /\ Cardinality(x.completed) >= 2 THEN Learn(done)
    ELSE UNCHANGED <<library, won>>

\* mutant: the next step is set running before the failure stops the plan
ProceedBeforeStop(e, x, status, stopped) ==
    LET next == IF stopped \/ Remaining(x) = {} THEN {} ELSE {First(Remaining(x))}
        marked == [i \in DOMAIN status |-> IF i \in next THEN "running" ELSE status[i]]
    IN
    /\ plans' = [plans EXCEPT ![x.plan].status = marked]
    /\ IF next = {} \/ (plans[x.plan].options.stop /\ x.failed # {})
       THEN /\ execs' = [execs EXCEPT ![e] =
                           [x EXCEPT !.phase = "ended", !.verdict = Verdict(x, stopped)]]
            /\ Conclude(x, Verdict(x, stopped), status)
       ELSE /\ execs' = [execs EXCEPT ![e] =
                           [x EXCEPT !.phase = "executing", !.step = First(next), !.tries = 1]]
            /\ UNCHANGED <<library, won>>

\* Execution e, now x, is through with its step: the next one, or the end.
Proceed(e, x, status, stopped) ==
    IF stopped \/ Remaining(x) = {} \/ (plans[x.plan].options.stop /\ x.failed # {})
    THEN /\ execs' = [execs EXCEPT ![e] =
                        [x EXCEPT !.phase = "ended", !.verdict = Verdict(x, stopped)]]
         /\ plans' = [plans EXCEPT ![x.plan].status = status]
         /\ Conclude(x, Verdict(x, stopped), status)
    ELSE /\ execs' = [execs EXCEPT ![e] =
                        [x EXCEPT !.phase = "executing", !.step = First(Remaining(x)),
                                  !.tries = 1]]
         /\ plans' = [plans EXCEPT ![x.plan].status =
                        [status EXCEPT ![First(Remaining(x))] = "running"]]
         /\ UNCHANGED <<library, won>>

StepSucceeds(e) ==
    LET x == [execs[e] EXCEPT !.completed = @ \cup {execs[e].step}]
        status == [plans[x.plan].status EXCEPT ![x.step] = "success"]
    IN
    /\ execs[e].phase = "executing"
    /\ IF x.step \in request.checked
       THEN /\ execs' = [execs EXCEPT ![e] = [x EXCEPT !.phase = "validating"]]
            /\ plans' = [plans EXCEPT ![x.plan].status = status]
            /\ UNCHANGED <<library, won>>
       ELSE Proceed(e, x, status, FALSE)
    /\ UNCHANGED <<request, overlapped>>

\* A failure, unless it is retried at once (retryFailedSteps, maxRetries).
StepFails(e) ==
    LET x == execs[e]
        failing == [x EXCEPT !.failed = @ \cup {x.step}]
        status == [plans[x.plan].status EXCEPT ![x.step] = "failed"]
    IN
    /\ x.phase = "executing"
    /\ IF x.tries < plans[x.plan].options.tries
       THEN /\ execs' = [execs EXCEPT ![e].tries = @ + 1]
            /\ UNCHANGED <<plans, library, won>>
       ELSE Proceed(e, failing, status, FALSE)
    /\ UNCHANGED <<request, overlapped>>

\* A failed validation ends the execution if it is critical, and is noted
\* otherwise.
StepValidated(e, ok) ==
    LET x == execs[e]
        stopped == ~ok /\ x.step \in request.critical
        status == IF stopped
                  THEN [plans[x.plan].status EXCEPT ![x.step] = "validation_failed"]
                  ELSE plans[x.plan].status
    IN
    /\ x.phase = "validating"
    /\ Proceed(e, x, status, stopped)
    /\ UNCHANGED <<request, overlapped>>

\* The scheduler's timeout: the job is retried, the execution goes on.
TimesOut(e) ==
    /\ AtWork(e) /\ ~plans[execs[e].plan].options.direct
    /\ ~execs[e].timedOut /\ \A d \in Of(execs[e].plan) : d <= e
    /\ execs' = [execs EXCEPT ![e].timedOut = TRUE]
    /\ UNCHANGED <<request, library, plans, overlapped, won>>

-----------------------------------------------------------------------------
(* The administration of composites (routes.ts) *)

Invalidate(c) ==
    /\ library[c].present
    /\ library' = [library EXCEPT ![c].invalidated = TRUE]
    /\ UNCHANGED <<request, plans, execs, overlapped, won>>

\* validateCompositeTask
Revalidate(c) ==
    /\ library[c].present
    /\ library' = [library EXCEPT ![c].invalidated = FALSE, ![c].failures = 0]
    /\ UNCHANGED <<request, plans, execs, overlapped, won>>

\* deleteCompositeTask; clearCompositeTasks deletes them all.
Delete(S) ==
    /\ \E c \in S : library[c].present
    /\ library' = [c \in DOMAIN library |->
                     IF c \in S THEN [library[c] EXCEPT !.present = FALSE] ELSE library[c]]
    /\ UNCHANGED <<request, plans, execs, overlapped, won>>

Administer ==
    \/ \E c \in DOMAIN library : Invalidate(c) \/ Revalidate(c) \/ Delete({c})
    \/ Delete(DOMAIN library)

-----------------------------------------------------------------------------
Execute(e) == StepSucceeds(e) \/ StepFails(e) \/ \E ok \in BOOLEAN : StepValidated(e, ok)

Next ==
    \/ \E o \in Options : Submit(o)
    \/ \E p \in DOMAIN plans : Begin(p)
    \/ \E e \in DOMAIN execs : Execute(e) \/ TimesOut(e)
    \/ Administer

Spec == Init /\ [][Next]_vars

-----------------------------------------------------------------------------
(* Properties *)

Rates == [num : Nat, den : Nat \ {0}]

\* Every variable has its type.
TypeOK ==
    /\ request \in Requests /\ overlapped \in BOOLEAN
    /\ library \in Seq([steps : SUBSET (1..request.n), present : BOOLEAN,
                        invalidated : BOOLEAN, failures : Nat, runs : Nat, rate : Rates])
    /\ won \in Seq(Nat) /\ Len(won) = Len(library)
    /\ \A p \in DOMAIN plans :
        /\ plans[p].composite \in 0..Len(library)
        /\ plans[p].steps \in (SUBSET (1..request.n)) \ {{}}
        /\ plans[p].options \in Options
        /\ plans[p].status \in [plans[p].steps -> Statuses]
    /\ \A e \in DOMAIN execs :
        /\ execs[e].plan \in DOMAIN plans /\ execs[e].tries \in Nat \ {0}
        /\ execs[e].phase \in {"executing", "validating", "ended"}
        /\ execs[e].step \in plans[execs[e].plan].steps
        /\ execs[e].completed \cup execs[e].failed \subseteq plans[execs[e].plan].steps
        /\ execs[e].verdict \in Verdicts \cup {"none"}

\* A request is never answered by less than it asked: as long as no attempt
\* overlapped an earlier one on its plan, whatever failed, was invalidated or
\* learned again, composites and plans have every step of the request.
PlansAreWhole ==
    ~overlapped =>
        /\ \A c \in DOMAIN library : library[c].steps = 1..request.n
        /\ \A p \in DOMAIN plans : plans[p].steps = 1..request.n

\* A step shown as running is being carried out: though attempts overlap and
\* rewrite each other's statuses, whenever a status says "running" an execution
\* of the plan is at that step, so no plan is left with a step running for ever.
RunningIsExecuted ==
    \A p \in DOMAIN plans : \A i \in plans[p].steps :
        plans[p].status[i] = "running" =>
            \E e \in Of(p) : execs[e].phase = "executing" /\ execs[e].step = i

\* The success rate by which a composite is chosen never flatters it: through
\* rounding, relearning and revalidation it stays at or under the share of its
\* executions that did succeed.
RateNeverFlatters ==
    \A c \in DOMAIN library :
        library[c].rate.num * library[c].runs <= won[c] * library[c].rate.den
==============================================================================
