---------------------------- MODULE DagExecution ----------------------------
(***************************************************************************)
(* The execution of a workflow graph by apps/api/src/modules/dag-execution:*)
(* the loop of executeGraph (executor.ts), the DAGScheduler (scheduler.ts),*)
(* the readiness of nodes (dependency-resolver.ts), the table of artifact  *)
(* locks (artifact-locks.ts) and the resource slots (resource-manager.ts), *)
(* the last two created for one graph by createScheduler.                  *)
(*                                                                         *)
(* The loop selects a batch and awaits all of it (Promise.all) before it   *)
(* selects again.  A node ends in one synchronous stretch: mark, release   *)
(* slots, block dependents, process the queue, and then, in the finally    *)
(* clause, release its locks.                                              *)
(***************************************************************************)
EXTENDS Integers, Sequences, FiniteSets

CONSTANTS
    Nodes, Artifacts, SlotTypes,
    NoNode,         \* an artifact without a lock
    Limit,          \* slots of each type
    GlobalLimit,    \* globalConcurrencyLimit
    Graphs          \* the graphs a run may be given

\* A graph: the dependencies of each node, the nodes whose dependencyType is
\* soft, getArtifactIds and slot types of each node, and the nodes whose lock
\* type (one for all artifacts of the node) is not read.
GraphType ==
    [deps : [Nodes -> SUBSET Nodes], soft : SUBSET Nodes,
     needs : [Nodes -> SUBSET Artifacts], writers : SUBSET Nodes,
     uses : [Nodes -> SUBSET SlotTypes]]

ASSUME GraphAssumption == Graphs \subseteq GraphType

ASSUME DagAssumption ==
    /\ IsFiniteSet(Nodes)
    /\ NoNode \notin Nodes
    /\ Limit \in [SlotTypes -> Nat \ {0}]
    /\ GlobalLimit \in Nat \ {0}

VARIABLES
    graph,          \* the graph executed, never changed
    phase,          \* "running" until executeGraph leaves its loop
    status,         \* node.status; queued counts as pending (see queue)
    blockedNodes,   \* DAGScheduler.blockedNodes, which getReadyNodes bypasses
    queue,          \* DAGScheduler.queuedNodes
    lock            \* the holder of each artifact lock

vars == <<graph, phase, status, blockedNodes, queue, lock>>

NodeStatuses == {"pending", "running", "completed", "failed", "blocked"}

Over == {"completed", "failed"}

WithStatus(S) == {n \in Nodes : status[n] \in S}

Running == WithStatus({"running"})

Queued == {queue[i] : i \in DOMAIN queue}

\* m comes before n in the sequence s.
Before(s, m, n) == \E i, k \in DOMAIN s : i < k /\ s[i] = m /\ s[k] = n

\* The orders in which sorting by calculateScore may leave a set of nodes.
Orders(S) ==
    {s \in [1..Cardinality(S) -> S] : \A i, k \in DOMAIN s : s[i] = s[k] => i = k}

\* The nodes of S, filtered from the sequence q: they stand as they do in q.
Filtered(q, S) ==
    {s \in Orders(S) : \A m, n \in S : Before(s, m, n) => Before(q, m, n)}

-----------------------------------------------------------------------------
(* Dependencies *)

\* The nodes of C reached from n through dependents that are all in C.
Downstream(n, C) ==
    {m \in C : \A S \in SUBSET C :
        {k \in C : graph.deps[k] \cap (S \cup {n}) # {}} \subseteq S => m \in S}

\* A dependency is hard or soft by the type of the node depended UPON.
DepsMet(n) ==
    \A d \in graph.deps[n] :
        status[d] \in IF d \in graph.soft THEN Over ELSE {"completed"}

\* Mutant: the queue is not looked at.
Available_Queued == {n \in Nodes : status[n] = "pending" /\ DepsMet(n)}

Available == {n \in Nodes : status[n] = "pending" /\ n \notin Queued /\ DepsMet(n)}

HasFailedDep(n) == \E d \in graph.deps[n] : d \notin graph.soft /\ status[d] = "failed"

\* getReadyNodes marks a node blocked when it meets the failed dependency before
\* one that has not ended: the order of the dependencies decides.
MayBlock == {n \in WithStatus({"pending"}) : HasFailedDep(n)}
MustBlock ==
    {n \in MayBlock : \A d \in graph.deps[n] :
        status[d] = "completed" \/ status[d] = "failed"}

\* Mutants of blockDependents: no recursion; the type of the failed node decides.
BlockedBy_DirectOnly(n) ==
    {m \in WithStatus({"pending", "running"}) \ graph.soft : n \in graph.deps[m]}
BlockedBy_TypeOfFailed(n) ==
    IF n \in graph.soft THEN {}
    ELSE Downstream(n, WithStatus({"pending", "running"}) \ graph.soft)

\* blockDependents: here the type of the DEPENDENT decides.
BlockedBy(n) ==
    Downstream(n, (Nodes \ (WithStatus(Over) \cup blockedNodes)) \ graph.soft)

-----------------------------------------------------------------------------
(* Artifact locks *)

\* Mutant: the type of the lock that exists is not looked at.
Granted_AnyReader(lk, n) == \A a \in graph.needs[n] : lk[a] = n \/ n \notin graph.writers

\* canAcquireLocks, after the node tried: a lock is its own or shared by readers.
\* A reader that shares is recorded nowhere.
Granted(lk, n) ==
    \A a \in graph.needs[n] :
        lk[a] = n \/ (n \notin graph.writers /\ lk[a] \notin graph.writers)

First(S, order) == CHOOSE n \in S : \A m \in S \ {n} : Before(order, n, m)

FirstOrNone(S, order) == IF S = {} THEN NoNode ELSE First(S, order)

\* The nodes of S call tryAcquire for all their artifacts, in this order.  Each
\* keeps what it gets, also when it does not get everything.
Grab(lk, S, order) ==
    [a \in Artifacts |->
        IF lk[a] # NoNode THEN lk[a]
        ELSE FirstOrNone({n \in S : a \in graph.needs[n]}, order)]

\* Mutant: no finally clause.
Release_Nothing(lk, n) == lk

\* releaseNodeLocks
Release(lk, n) == [a \in Artifacts |-> IF lk[a] = n THEN NoNode ELSE lk[a]]

\* A selected node without slots returns at once and so releases its locks;
\* acquireNodeLocks of a later one that shared them as a reader takes them over.
AfterStart(lk, unstarted, started, order) ==
    [a \in Artifacts |->
        IF lk[a] \notin unstarted THEN lk[a]
        ELSE FirstOrNone({n \in started : a \in graph.needs[n] /\ Before(order, lk[a], n)},
                         order)]

-----------------------------------------------------------------------------
(* Resource slots: a node holds its slots exactly while it runs *)

\* Mutant: the last slot is given twice.
Fits_OffByOne(S, n) ==
    /\ Cardinality(S) < GlobalLimit
    /\ \A t \in graph.uses[n] : Cardinality({m \in S : t \in graph.uses[m]}) <= Limit[t]

\* hasAvailableSlots, when the nodes of S hold slots
Fits(S, n) ==
    /\ Cardinality(S) < GlobalLimit
    /\ \A t \in graph.uses[n] : Cardinality({m \in S : t \in graph.uses[m]}) < Limit[t]

-----------------------------------------------------------------------------
(* Actions *)

Init ==
    /\ graph \in Graphs
    /\ phase = "running"
    /\ status = [n \in Nodes |-> "pending"]
    /\ blockedNodes = {}
    /\ queue = <<>>
    /\ lock = [a \in Artifacts |-> NoNode]

AtLoopTop == phase = "running" /\ Running = {}

IsComplete == Nodes = WithStatus(Over) \cup blockedNodes /\ queue = <<>>

LoopEnds ==
    /\ AtLoopTop
    /\ IsComplete
    /\ phase' = "finished"
    /\ UNCHANGED <<graph, status, blockedNodes, queue, lock>>

\* One turn of the loop: getNextNodes, then the synchronous prefix of each
\* execution.  No node holds slots here, so every node tried has slots at
\* selection; nodes whose locks are not granted go to the queue.  With nothing
\* selected the loop gives up, or, if nodes are queued, turns again.
NextBatch ==
    /\ AtLoopTop
    /\ ~IsComplete
    /\ \E order \in Orders(Available), tried \in SUBSET Available :
        LET lk == Grab(lock, tried, order)
            selected == {n \in tried : Granted(lk, n)}
        IN
        /\ tried = {n \in Available :
                      Cardinality({m \in selected : Before(order, m, n)}) < GlobalLimit}
        /\ \E started \in SUBSET selected, unready \in SUBSET MayBlock :
            /\ \A n \in selected :
                 n \in started <=> Fits({m \in started : Before(order, m, n)}, n)
            /\ MustBlock \subseteq unready
            /\ status' = [n \in Nodes |->
                            IF n \in started THEN "running"
                            ELSE IF n \in unready THEN "blocked" ELSE status[n]]
            /\ lock' = AfterStart(lk, selected \ started, started, order)
        /\ \E waiting \in Filtered(order, tried \ selected) : queue' = queue \o waiting
        /\ phase' = IF selected = {} /\ queue' = <<>> THEN "finished" ELSE phase
    /\ UNCHANGED <<graph, blockedNodes>>

\* executeWithRetry and the validation of node n came to an end: markCompleted,
\* or markFailed / markValidationFailed.  processQueue runs BEFORE the finally
\* clause gives up the locks of n.
Finish(n, outcome) ==
    /\ phase = "running"
    /\ status[n] = "running"
    /\ LET blocked == IF outcome = "failed" THEN BlockedBy(n) ELSE {}
           failed == WithStatus({"failed"}) \cup (IF outcome = "failed" THEN {n} ELSE {})
           refused == {q \in Queued \ graph.soft : graph.deps[q] \cap failed # {}}
           tried == {q \in Queued \ refused : Fits(Running \ {n}, q)}
           lk == Grab(lock, tried, queue)
           dequeued == refused \cup {q \in tried : Granted(lk, q)}
       IN
        /\ status' = [m \in Nodes |-> IF m = n THEN outcome
                                      ELSE IF m \in blocked \cup refused THEN "blocked"
                                      ELSE status[m]]
        /\ blockedNodes' = blockedNodes \cup blocked \cup refused
        /\ queue' \in Filtered(queue, Queued \ dequeued)
        /\ lock' = Release(lk, n)
    /\ UNCHANGED <<graph, phase>>

\* cleanupStaleLocks: nothing sends heartbeats, so the lock of any node at work
\* for longer than staleThresholdMs, or of one that waits, is taken away.
ExpireLock(a) ==
    /\ phase = "running"
    /\ lock[a] # NoNode
    /\ lock' = [lock EXCEPT ![a] = NoNode]
    /\ UNCHANGED <<graph, phase, status, blockedNodes, queue>>

Ends(n) == \E outcome \in Over : Finish(n, outcome)

Next ==
    \/ LoopEnds
    \/ NextBatch
    \/ \E n \in Nodes : Ends(n)
    \/ \E a \in Artifacts : ExpireLock(a)

Spec == Init /\ [][Next]_vars

\* The loop turns (at once, or by its 100 ms timer) and a node's execution ends.
\* That a lock expires is not assumed: cleaning needs a node to work for long.
Fairness == WF_vars(LoopEnds) /\ WF_vars(NextBatch) /\ \A n \in Nodes : WF_vars(Ends(n))

FairSpec == Spec /\ Fairness

-----------------------------------------------------------------------------
(* Properties *)

\* Types; a node is queued once, and only while it waits.
TypeOK ==
    /\ graph \in GraphType
    /\ phase \in {"running", "finished"}
    /\ status \in [Nodes -> NodeStatuses]
    /\ blockedNodes \subseteq Nodes
    /\ queue \in Seq(WithStatus({"pending"}))
    /\ \A i, k \in DOMAIN queue : queue[i] = queue[k] => i = k
    /\ lock \in [Artifacts -> Nodes \cup {NoNode}]

Conflict(m, n) ==
    /\ m # n
    /\ graph.needs[m] \cap graph.needs[n] # {}
    /\ {m, n} \cap graph.writers # {}

\* Two nodes at work never need the same artifact unless both only read it,
\* although a lock may expire under its holder and a reader that shares a lock
\* is recorded nowhere: the batch barrier is what protects them.
ConflictExclusion == \A m, n \in Running : ~Conflict(m, n)

\* No slot type is used beyond its limit, although a node is selected while
\* others of its batch have not taken their slots yet.
SlotBound ==
    /\ Cardinality(Running) <= GlobalLimit
    /\ \A t \in SlotTypes : Cardinality({n \in Running : t \in graph.uses[n]}) <= Limit[t]

\* The holder of a lock still has work to do: no finished, failed or blocked
\* node keeps an artifact from the others.
LockHolderIsLive ==
    \A a \in Artifacts : lock[a] # NoNode => status[lock[a]] \in {"pending", "running"}

\* A node whose dependencies are hard works only on completed ones.  Readiness
\* goes by the type of the node depended upon and would let it start after a
\* failure; that blockDependents goes by its own type is what stops it.
HardDependencyHolds ==
    \A n \in WithStatus({"running", "completed"}) \ graph.soft :
        \A d \in graph.deps[n] : status[d] = "completed"

\* In a graph of hard dependencies the result is exact: when the loop has left,
\* a node is reported blocked if and only if one of its dependencies failed or is
\* blocked itself, and every other node has completed or failed.
ResultIsExact ==
    (phase = "finished" /\ graph.soft = {}) =>
        \A n \in Nodes :
            IF graph.deps[n] \cap (WithStatus({"failed"}) \cup blockedNodes) # {}
            THEN n \in blockedNodes
            ELSE status[n] \in Over

Ordered(m, n) == n \in Downstream(m, Nodes) \/ m \in Downstream(n, Nodes)

\* executeGraph returns when every two nodes in conflict are ordered by
\* dependencies: whatever fails, no node waits for ever.
OrderedGraphEnds ==
    (\A m, n \in Nodes : Conflict(m, n) => Ordered(m, n)) => <>(phase = "finished")

-----------------------------------------------------------------------------
(* A claim of the code that its behaviour does not keep *)

\* scheduler.ts:277, "Check if any queued nodes can now run": executeGraph
\* returns for every graph, a queued node being started after what it waits for.
GraphEnds == <>(phase = "finished")
=============================================================================
