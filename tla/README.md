# GranClaw: TLA+ models of the execution core

GranClaw (`src/openclaw-custom-layer`) is a Node/TypeScript API with a React front end. A user
states a request; the orchestrator plans it as a composite task; a durable in-process queue runs
the plan in the background, possibly as a graph of parallel nodes; listeners write the outcome back
into the user's task; the conversation thread of the task shows it, and the browser follows it over
a websocket. A capability that turns out not to be set up is remembered, and gates the requests that
need it. This directory models that execution core. Paths below are relative to
`src/openclaw-custom-layer/apps/api/src/` (`web/` stands for `src/openclaw-custom-layer/apps/web/src/`);
`PROJECT.json` maps every definition to the lines it
stands for, and lists the hazards the properties are aimed at.

## 1. The system

### Components, their state and operations

| Component | Where | State | Operations | What makes it correct |
|---|---|---|---|---|
| Runtime queue | `modules/runtime-queue/queue.ts`, `types.ts` | a map of jobs with status, retry count, last error, `nextRetryAt` | enqueue, getNextPending, markScheduled / Running / Completed / Failed / Retrying / Cancelled | finished work stays finished; every job ends; order of priority and age |
| Scheduler | `scheduler.ts`, `retry-engine.ts` | `activeJobs`, `paused`, handler table | poll tick, executeJob (race of handler and timeout), pause, resume | at most `maxConcurrentJobs` supervised executions, never two of one job, retries within the policies |
| Queue persistence | `persistence.ts`, `index.ts` | `queue.json` | snapshot every 5 s, reload, recovery of running jobs | unfinished work of a snapshot survives a crash |
| Atomic JSON files | `shared/atomic-persistence.ts` | a file, its `.tmp` and its `.backup` | atomicWriteJson, atomicReadJson | a read sees the last acknowledged write, whatever crashes |
| Tasks | `modules/tasks/routes.ts`, `service.ts`, `storage/file-db.ts` | `tasks.json`: status, result, explanation, `lastRetryJobId` | submit, retry, cancel, repair, reconcile | no task is left open with nothing to close it; statuses follow what happened |
| Task reconciliation | `modules/runtime-queue/task-reconciliation.ts` | none (suspended listener calls) | four event listeners, reconcile one / all | a late or repeated event never revives or falsifies a task |
| Task threads | `modules/task-threads/service.ts` | `task-threads.json`: thread status, messages, approvals | open, synchronise, repair zombies, messages, approvals | the thread does not contradict its task for ever |
| DAG executor | `modules/dag-execution/executor.ts`, `scheduler.ts`, `dependency-resolver.ts`, `graph-builder.ts` | node statuses, blocked nodes, queued nodes | select a batch, start, finish, block dependents, process the queue | dependencies are respected, failures block exactly what depends on them, execution ends |
| Artifact locks | `modules/dag-execution/artifact-locks.ts` | the lock of each artifact | try, share, release, clean stale ones | conflicting nodes never work at once; no lock outlives its use |
| Resource manager | `modules/dag-execution/resource-manager.ts` | slots by type | acquire, release | limits by type and in all |
| Composite plans | `modules/composite-tasks/executor.ts`, `planner.ts`, `service.ts` | the plan object with its step statuses; the composites learned, with success rates | plan, execute step by step, learn, record, invalidate, revalidate, delete | a failed step does not count as success; what is learned is the whole request |
| Websocket gateway | `modules/runtime-ws/` | clients, subscriptions, missed heartbeats | accept, subscribe, unsubscribe, heartbeat check, broadcast | both of its records of a subscription agree, over closes, timeouts and late frames |
| Live client | `web/services/runtime-ws.ts`, `web/hooks/useRuntimeWs.ts` | the socket, its connection state, subscriptions, reconnect timers | connect, reconnect, subscribe, ping, deliver events to hooks | a mounted hook on a connected client is subscribed; an event is delivered once |
| Setup gate | `modules/system-state/`, `modules/orchestrator/reauth-detector.ts`, `modules/openclaw/routes.ts`, `modules/openclaw-repair/service.ts` | the requirements of setup, their flag and status, in memory and in a file; repair sessions | gate a request, add and resolve requirements, check the connection, repair, reload, restart | the flag says what the list says; a requirement stays until something shows it met |
| Channel workers | `modules/channel-workers/` | workers, restarts | start, stop, recover | nothing imports it |
| Tool proposals | `modules/tool-proposals/service.ts` | proposals and their status | propose, approve, reject, create | single synchronous operations |
| Pairing state | `modules/pairing-state/service.ts` | pairing of devices | begin, confirm, expire | nothing outside the module imports it |
| Capabilities, classification, memory, accounts, web pages | several | records | single synchronous operations or calls of providers | no protocol of several steps |

### Interactions

* `orchestrator` -> `enqueueCompositeTask` -> queue; the task is then set to `queued`.
* scheduler -> handler (`execution-integration.ts`) -> composite executor or `executeGraph`.
* queue `emit` -> listeners of `task-reconciliation.ts`, synchronously up to their first
  `await import(...)`; the rest of a listener runs in a later turn.
* listener -> `completeTask` -> `syncThreadWithTask`.
* `emit` also reaches the gateway's bridge, which broadcasts to the sockets subscribed; a socket's two
  ends learn of its death each in its own time.
* the queue hands one plan object to every attempt of a job; an attempt whose timeout fired goes on.
* request paths ask the setup gate before they run, and report to it what the answer showed.
* routes act on tasks and jobs at any time between two turns of the event loop.
* timers: poll tick, job timeout, backoff, 5 s snapshot, 100 ms loop of `executeGraph`, 30 s
  clean-up of stale locks.
* a crash loses memory (queue, listeners, requests) and keeps `queue.json` and `tasks.json`.

### What is hard

One Node process: callbacks run to completion, so the interleavings are at `await`. What goes wrong
is therefore state read before an `await` and used after it, events that arrive after the state
they speak of has changed, a handler that outlives its timeout, two counts of the same thing
(`activeJobs` and statuses), a crash between memory and disk, and clean-up that runs after the code
that needed it. In the browser it is the handlers of an old socket, which act on the client whichever
socket is current.

## 2. Modules

| Module | Role |
|---|---|
| `RuntimeQueue` | queue, scheduler, retry decision, snapshots, crash and reload |
| `JobLifecycle` | abstract: what the queue promises of a job to those who watch it |
| `RuntimeQueueProofs`, `RuntimeQueueRefinement` | proofs about `RuntimeQueue` |
| `AtomicPersistence` | a file write, one action per system call |
| `AtomicRegister` | abstract: an atomic register |
| `AtomicPersistenceProofs` | proofs about `AtomicPersistence` |
| `TaskReconciliation` | tasks, threads, listeners and requests, composed with `JobLifecycle` |
| `TaskReconciliationProofs` | proofs about `TaskReconciliation` |
| `DagExecution` | loop, scheduler, locks and slots of one graph |
| `DagExecutionProofs` | proofs about `DagExecution` |
| `RuntimeWs` | a browser's client, its sockets, the network and the gateway |
| `RuntimeWsProofs` | proofs about `RuntimeWs` |
| `CompositePlan` | planning, execution and learning of the plans of one request |
| `CompositePlanProofs` | proofs about `CompositePlan` |
| `SetupGate` | requirements of setup, requests and checks that suspend, the saved state, repair sessions |
| `SetupGateProofs` | proofs about `SetupGate` |
| `MC*` | values of the constants for TLC |

Composition: `TaskReconciliation` does not repeat the queue. It takes each move of a job from
`JobLifecycle`, and `RuntimeQueue` is shown to implement `JobLifecycle`, by TLC on an instance and by
proof for all. `RuntimeQueue` takes the write of `queue.json` as one step, which `AtomicPersistence`
justifies. `executeGraph` runs inside one handler call of the queue.

### RuntimeQueue

An action is the code between two awaits: `Poll` is a whole tick with the synchronous start of each
handler; `HandlerSucceeds`, `HandlerFails` and `HandlerTimesOut` are the continuation of `executeJob`;
`Cancel`, `Pause`, `Resume` and `Enqueue` are route handlers; `SaveQueueState` is the snapshot timer;
`CrashAndRestart` is a crash followed by `initializeRuntimeQueue`. Status `scheduled` exists only
inside a tick. `abandoned` counts handler calls whose timeout has fired: `Promise.race` drops their
result but nothing stops them. Time is abstracted to `due`. Dates, tenants, progress, metrics and
dependencies between jobs (which nothing sets) are left out; so are the caps of a snapshot (50 of
history, 500 in all), which no small instance reaches.

### AtomicPersistence

`primary`, `temp` and `backup` are the three files, `pc` the next system call. A write or copy that
was begun leaves torn content, which does not parse. `CallFails` is the catch clause, `Crash` a death
of the process in the middle. A write is taken to be alone on its file, as its callers are synchronous.

### TaskReconciliation

One task (tasks share nothing here) with its jobs, its thread, the suspended listener calls, the retry
requests past their check, and simple runs. A listener is two steps: the event, and `Listen` after its
imports. A retry is two steps: `RequestRetry` (the check) and `Retry` (the body). The planner's gate,
the failing write and the restart are switched by constants. Explanations, messages and evidence are
left out.

### DagExecution

`NextBatch` is one turn of the loop: `getNextNodes` with its lock attempts, then the synchronous start
of every selected node. `Finish` is the synchronous end of a node: mark, block dependents,
`processQueue`, and then the release of the locks in the finally clause, in that order.
`ExpireLock` is the stale clean-up. Retries and validation inside a node decide its outcome and are
abstracted to it. Scores are abstracted to an arbitrary order. Slots are held exactly while a node
runs, so they have no variable. `stopOnFirstFailure` has no effect in the code (it stops a monitoring
timer, not the loop) and is left out; nothing marks a node skipped; the wait queues of locks and
slots are never entered, because a node is started only with all it needs.

### RuntimeWs

The browser, the network and the gateway of one tab. A socket is a number; `cs` is what the browser
thinks of it, `registered` and `up` what the gateway and the network do. Frames under way are
sequences, and the close of a socket is a frame of its own, so each end learns of it in order. `OnOpen`,
`OnClose` and `Receive` are the handlers of a socket; they never ask whether it is the current one,
and neither does the model. `OnClose` of a reconnect that failed puts two timeouts in motion, as
`onclose` and the catch of `attemptReconnect` both do. `beats` keeps the heartbeat intervals alive and
whether the client still has the handle of the last. Frames carry what their receiver looks at: a
subscribe frame its channel and types, an ack the frame it answers, an event nothing (there is one in
a behaviour). Authorization, the rate limit and the limit of a connection decide whether a
subscription is refused; all refusals look alike to the browser.

### CompositePlan

One request, stated again and again. A plan is the object itself, its steps with their statuses; an
execution works on the plan, not on a copy, so attempts that overlap rewrite each other's statuses.
An action is the code between two awaits: the end of a step with the start of the next one, or with
the end of the execution and what it learns (`Proceed`, `Conclude`). `Begin` is the queue's attempt,
`TimesOut` the timeout of an attempt that goes on. The success rate is kept as a quotient, and the
number of successes is recovered from it by rounding, as the code does. `overlapped` and `won` are
history. Texts, durations and progress events are left out, and which composite fits an input: all
those of the request do.

### SetupGate

A requirement is a scope and a capability (or none). `mem` is the cached state, `disk` the file;
a save may fail, and then only the memory has changed (`Saves`). An actor is a request: it is gated,
runs, and ends well, with an answer that shows what setup is missing, or with an error; the main path
reads the file again before it gates, the others do not. A probe is a check of the connection; it
suspends between what it asks and what it does about the answer. A repair session names a scope, has
its own statuses and may be checked, cancelled or retried. An old file (version 1) is migrated when it
is loaded. Recognising a refusal in an answer is reduced to its outcome, a scope and a capability.

## 3. Runs

| Run | Instance | Shows |
|---|---|---|
| `queue_safety` | 3 jobs of two priorities, one without handler; 2 slots; budgets 2/0/1, default 1 | types, retry policies, handlers within attempts, no double start, order, finality |
| `queue_crash` | 2 jobs for 1 slot, snapshots anywhere, 2 crashes, fair | recovered jobs run again, one slot is never given twice, unfinished work of a snapshot is not lost, refinement of `JobLifecycle`, every job settles |
| `file_refine` | 2 values | the file protocol is an atomic register |
| `task_safety` | 2 jobs, 2 retries at once, nothing fails, fair | an open task always has something to close it, and is closed |
| `task_faults` | 2 jobs, gate, failing writes, a restart | error is left by a retry only; a success has a cause |
| `task_stuck` | violation | after a gate, retry and dead job a task stays queued |
| `dag_all` | every graph of 3 nodes over 2 artifacts (2625), scarce slots, fair | exclusion, limits, live lock holders, dependencies, exact result, termination when conflicts are ordered |
| `dag_hang` | violation: "edit f, search, edit f" | the second edit waits for ever |
| `ws_safety` | 2 hooks of one channel, one of which wants the event, 2 sockets, 2 subscribe frames, 1 event | no subscription outlives its client, the browser's ids are the gateway's, an event is heard once for each socket |
| `ws_live` | 1 hook, 2 sockets that may overlap, a network that drops, fair | a hook that stays mounted on a client that stays connected is subscribed or refused; `degraded` ends |
| `plan_safety` | 3 plans, 3 executions, a request of one checked step or of two steps; queued, or direct with two sets of options | what is learned is the whole request unless attempts overlap; a running step is being executed; success rates do not flatter |
| `gate_safety` | 2 requests, 1 check, a named scope and the unknown one, a mapped capability, 1 repair session | flag, status and list agree; a requirement is kept until something shows it met |

### Why the bounds are enough

* Three jobs and two slots make a poll choose, leave one waiting, and fill up; one job has to wait
  behind an abandoned handler. Retry budgets keep the code's order (transient > default, validation 0)
  so that the limit of a job changes as its category does. The bound on executions is checked where
  jobs with handlers outnumber the slots (`queue_crash`). `MaxCrashes = 2` lets a second crash hit
  what the first one recovered.
* Two jobs of a task are what the hazards need: the original and its retry, both at work at once.
  `MaxRequests` bounds retries under way at once, not in all; identifiers bound those that enqueue.
* Three nodes give a chain, a fork, a join, and a queued node with two others at work. With two
  artifacts a node can hold one while it waits for the other. Slots are two, one for installs, so a
  selected node can fail to start.
* Two file contents tell old from new; the protocol keeps no more than three files.

* Two sockets are an old one and a new one; that an old handler acts on a new connection needs no
  third. Two subscribe frames are a subscription and its repetition after a reconnect, `MaxAttempts = 1`
  lets the attempts run out, `MaxConnections = 1` makes the gateway refuse the new socket while it
  keeps the old one. At most one ping is under way at a time. The live run gives up the event and the
  second hook.
* Three plans are one to learn from, one that reuses and one more after a failure or an invalidation;
  three executions let two attempts overlap and a third conclude.
* Two requests and a check make every pair of suspended callers; a third scope would only repeat what
  the named one does. An instance with two mapped capabilities of the scope (1 046 835 states) passes
  as well, and is too slow to keep.

Deadlock is not checked where the system may stop: all identifiers used and finished, a paused
scheduler, a graph that ended, the last socket, frame, plan or session used.

### Fairness

* Live view: event loops, the reconnect timeout and the heartbeat interval go on, a close handshake
  ends, the gateway serves what has arrived, and its checker comes by a client that has fallen silent.
  Nothing is promised of the user, the network or the events. `MountedIsAnswered` is conditional on the
  client staying connected and the hook mounted. `CompositePlan` and `SetupGate` have no liveness:
  whether a step or a provider ever answers is not theirs to say (the queue's timeout is, see below).
* Queue: the poll interval keeps ticking (weak fairness of `Poll`), the timeout timer ends every
  attempt one way or another (of `Outcome(j)`), clocks reach `nextRetryAt`. Pausing, cancelling,
  saving and crashing are owed nothing, and `EveryJobSettles` is conditional on the scheduler not
  being left paused.
* Tasks: jobs start and settle (what `RetryBudget` and `EveryJobSettles` show of the queue; strong
  fairness because an attempt may go through `retrying` first), suspended listeners go on, a
  provider answers a simple run.
* Graph: the loop turns (its own 100 ms timer) and every node's execution ends. Expiry of locks is not
  assumed.

## 4. Proofs

All theorems hold for every value of the constants that satisfies the named assumptions
(`JobsAssumption`, `RetryAssumption`, `ConfigAssumption`; `ContentsAssumption`; `TaskAssumption`;
`GraphAssumption`, `DagAssumption`; `GateAssumption`; `RequestAssumption`, `BoundAssumption`;
`RuntimeWsAssumption`), which ask for finite sets of identifiers, limits of at least one, a table of budgets with one entry per category, and
requests of at least one step, validated only when they have a single one.

* `RuntimeQueueProofs`: `IInv` is inductive. The listed invariants are not so by themselves:
  `RunningIsActive` needs `FreshIsAbsent` (an identifier enqueued for the first time is nowhere) and
  `PolicyInv` has to hold of the snapshot on disk as well, since a restart loads it. `ActiveStatus`, the
  converse of `RunningIsActive` (a supervised job is running, or was cancelled under its handler), is
  what shows that a poll never picks a supervised job; from it follow `SingleExecution`, `SettledStays`
  and the agreement of the two counts (`PickedCanRun`) behind `OrderRespected`. `HandlersBounded` rests on
  `HandlersInv`: the abandoned handlers of a job number at most its retries while it is unfinished,
  one more afterwards.
* `RuntimeQueueRefinement`: `Spec => Lifecycle!Spec`, step by step over the actions, by the same `IInv`.
* `AtomicPersistenceProofs`: type correctness, `AckedIsRead`, and the refinement of `AtomicRegister`. The
  inductive invariant says what each file holds at each `pc`: the primary is never torn, and is what was
  acknowledged.
* `TaskReconciliationProofs`: `IInv` adds to the types what is known of the jobs (`JobsInv`: only a running
  job, or one cancelled under its handler, is supervised; the completed jobs are exactly those that were
  judged) and of suspended listeners (`PendingInv`: one told of a completion was told the truth).
  `SuccessIsCaused` follows: what a listener passes on is the verdict on a job that did complete, also
  after a restart. `NobodyStuck` assumes `NothingLost` (no gate, no lost write, no restart, as in
  `task_safety`; `task_stuck` shows that the gate alone breaks it) and strengthens `NoStuckTask` by the
  absence of the gate's mark, for which a listener would ignore a dead letter.
* `SetupGateProofs`, for any requests, checks, scopes and map of capabilities: memory is a good state
  (typed, flag and list agree, one requirement per scope), and the file is one too or is still of the
  old version. Each operation on a state is shown to keep it good (`LoadedGood`, `AddedGood`, ...), and
  a save, failing or not, only ever leaves good states behind. `RequirementsKept` uses the same
  operations: whatever does not resolve a scope keeps a requirement of it, in both copies.
* `CompositePlanProofs`, for any requests and any number of plans and attempts. `RateNeverFlatters` needs
  that a rate is at most one: then the successes recovered by rounding (`RoundedBounded`, by `Quotient`) are
  no more than those there were. `PlansAreWhole` needs that an execution goes through the steps in order
  (`IsExec`) and, while no attempt has overlapped, is alone on its plan (`OneWorker`) and shows every step
  it completed as a success (`CompletedShown`): a completed execution then learns every step. That only
  the plan of a single action is validated (`RequestAssumption`) keeps a failed validation from being
  learned.
* `DagExecutionProofs`, for every graph, cyclic ones included (but for `ResultExact`). `IInv` says how the three ways in which a
  node learns of its dependencies agree: what was started found its dependencies over (`StartedReady`),
  what has hard dependencies is blocked once one failed (`FailureBlocks`), and `blockedNodes` agrees with
  the statuses (`BlockedAgree`). The three are inductive only together: `blockDependents` skips a node
  that is in `blockedNodes` already, and would overwrite one at work. `HardDependencies` follows.
  `Exclusion` and `Slots` rest on the batch barrier (`RunningOnlyShrinks`: no other step adds a node to
  those at work) and on the order of a batch (`CountedInOrder`); no assumption about expiry, release or
  the recording of readers is needed. `LocksAreLive` and `TypeCorrect` take a second invariant, `LoopInv`:
  a queued node, and the holder of a lock, is pending or running and has its dependencies met, so that a
  failure, which blocks only nodes that wait for the failed one, never blocks a node that holds a lock.
  `ResultExact` takes a third, `ExactInv`: at every moment, not only at the end, the blocked nodes of a
  graph of hard dependencies are those with a failed or blocked one (`BlockedExactly`), and a loop that
  leaves has left nothing that could start. The second half needs the hypothesis `Acyclic`: the graph
  builder only warns of a cycle, and the nodes of one stay pending for ever.
* `RuntimeWsProofs`, for any hooks, channels, types and bounds. The invariant follows an id from its
  subscribe frame to its ack. A subscribe frame under way is the only one of its id and the gateway does not
  hold that id yet (`RequestInv`), hence no id ever has two holders; an unsubscribe frame names no id still
  in use. An ack that the browser waits for is true as long as the gateway keeps its socket (`AckInv`), and,
  while connected, comes by `this.socket` (`CurrentInv`): what `Receive` records is then what the gateway
  holds. `OnOpen` is the step that could break this, as the handler of an old socket may run it: it gives
  every subscription a new id, so that no ack under way answers any (`AskStep`). `HeardOnce` counts: the
  times a listener was called and the event frames under way together never exceed the sockets the event
  was sent on (`HeardInv`). Steps without a new request or grant are treated together, by what they may not
  add to the wire (`QuietBrowser`, `QuietGateway`).

### Model-checked only

Of the properties of passing runs, those that speak of what must happen in the end: `EveryJobSettles`,
`TaskSettles`, `OrderedGraphEnds`, `MountedIsAnswered`, `DegradedEnds`. They need `ENABLED`, which the
provers do not handle. Every invariant and every action property that a run checks is proved;
`NobodyStuck` and `ResultExact` under the hypotheses said above.

## 5. Disagreements

The violation runs are the ones kept as findings (`PROJECT.json`). Others were seen on the same models
and are not kept as runs of their own:

The queue and its jobs:

* `runtime-queue/routes.ts:168` answers "Trabajo cancelado" and `types.ts:18` calls `cancelled` a status of
  its own, but when the handler of a job cancelled while it ran fails, `queue.ts:180` puts the job to
  `retrying` or `failed` whatever its status was.
* `runtime-queue/types.ts:19` says of a dead job "Moved to dead letter queue"; `persistence.ts:138` writes the
  pending and the history statuses only, so a dead job vanishes from disk at the next snapshot.
* `runtime-queue/types.ts:191` "Maximum concurrent jobs per queue": a timeout frees the slot of a handler
  that goes on, so more handlers than slots can be at work (`HandlersWithinBudget` is the bound that does
  hold).
* `runtime-queue/types.ts:193`, the limit of pending jobs: recovery puts running jobs back to pending
  without looking at it.

Graphs and files:

* `dag-execution/types.ts:37` has soft dependencies, which do not block, but `dependency-resolver.ts:384`
  goes by the type of the dependent: "download f, edit f, search" blocks on a soft one.
* `shared/atomic-persistence.ts:89`: an unreadable primary is copied over a good backup by the next write.

Tasks:

* `task-reconciliation.ts:831` takes the first job linked to a task, so reconciling a retried task applies
  the outcome of its oldest job, although its last one may still be at work, which `:894` means to leave alone.
* `tasks/routes.ts:791`: repair turns `completed` into success whatever the validation said.
* `tasks/routes.ts:703`: cancelling a task cancels only the job of its last retry; the first job of a
  task is not known to it and goes on.
* `tasks/routes.ts:778`: repair closes a healthy first execution, which has no `lastRetryJobId`.
* `tasks/routes.ts:407`: the check of a retry is made before its body arrives, so two requests put two
  jobs of one task at work.
* `task-threads/service.ts:966`: the terminal thread of a failed attempt hides the success of the next.
* a job enqueued less than a save interval before a crash is lost while its task stays `queued`.


The live view:

* subscriptions to workflow events are never granted: `auth.ts:127` is passed the workflow's id as its
  tenant (`subscriptions.ts:140`). A refused subscription is never tried again.
* unsubscribing before the ack sends the browser's own id (`web/services/runtime-ws.ts:530`), which the
  gateway does not know: that subscription stays until the socket goes. `HeardOncePerSocket` holds all the
  same, since the gateway sends an event once for each socket.
* a reconnect that fails schedules two timeouts, and only the last can be cleared; handlers of an old socket
  act on the client; a connection the gateway lets in and closes resets `reconnectAttempts`.
* a degraded client sends no more pings: a pong under way or the gateway's own timeout gets it out.
* an event carries no channel, and task events go to both `tasks` and `runtime`; what a listener gets is
  told apart by type alone.
* two hooks of one key share the first one's types (`web/hooks/useRuntimeWs.ts:126`, `:190`): the second
  type of `NotificationPanel.tsx:85` and `ProductDashboard.tsx:42` is not asked for.
* `disconnect()` has no caller outside the class.

Composite plans:

* an abandoned attempt may finish "completed" while the retry has set a step of the same plan running
  again; `executor.ts:501` then learns a composite without that step, where `:465` speaks of complete
  plans. `PlansAreWhole` is stated for requests whose attempts never overlapped.
* plans of several steps never ask for validation (`planner.ts:391`).
* relearning counts an execution and no success, so a rate only falls by it; a composite that failed once
  in two is neither invalidated nor reusable; revalidation resets the failures but not the rate.
* the queue's handler passes no task id, so its executions emit no step events; `checkStepPreconditions` and
  retrieval by plan id are not implemented.

The setup gate:

* the check of a repair session asks OpenClaw nothing, though it is called real
  (`openclaw-repair/service.ts:360`); it resolves only what is already gone, and revives a cancelled session,
  so that two sessions of one scope can be open.
* `ready` says that a request can be tried again although a requirement of the unknown scope may still
  block it; any success of a simple request clears a requirement of that scope.
* the pending action is one slot for all tenants, and using a session again does not refresh it.
* the migration of an old file keeps status `setup_required` without a requirement; the gate goes by the
  list.
* `DEFAULT_SYSTEM_STATE` is copied one level deep (`system-state/service.ts:68`, `:103`): without a file that
  can be written, requirements added to the defaults come back at a reload with the flag off.
  `RequirementsAgree` would fail there, and the model starts from a file that exists. Files of version 2
  with two requirements of one scope, written by earlier builds, are not initial states either.
* `openclaw-auth/auth-lifecycle.ts:73` reads fields the state does not have; `cleanupOldSessions`,
  `reloadRepairSessions`, `resetSystemState`, `markOpenClawRequiresSetup` and `markOpenClawReady` have no
  effective caller.

## 6. Not modelled, and the plan

What could still be added, most useful first:

1. `DagExecution`: several graphs at once, as the routes and the queue start them; `retryNode` beside a
   running graph.
2. The verdict of `CompositePlan` as the one that `TaskReconciliation` takes as given, in one composition.
3. Task threads: messages, approvals and duplicate threads; zombie repair against live tasks.
4. The setup gate with the file missing while the server runs.

Left out for good:

* channel workers and pairing state: nothing imports them. The class `JsonPersistence` and
  `performStartupRecovery` have no user.
* `openclaw-auth`: its check never gets past the connection.
* tool proposals, task memory, accounts, workflow validation: each operation reads, changes and writes
  one record without suspending, so there is no order of steps to get wrong.
* providers, OAuth and the probes of capabilities: their state is outside the program; what they answer is
  a choice in the models.
* text classification and similarity: functions of texts, without protocol.
* the pages of the web interface, which show state and keep none that the server relies on.
