------------------------- MODULE DagExecutionProofs -------------------------
(***************************************************************************)
(* Safety of the graph executor for every set of nodes, artifacts, slots   *)
(* and graphs, cyclic ones included (the exact result apart).  IInv says   *)
(* how the three ways in which a node learns of its dependencies           *)
(* (getReadyNodes, blockDependents, processQueue) fit together.  LoopInv   *)
(* adds the queue and the locks, ExactInv what the failures reach.         *)
(***************************************************************************)
EXTENDS DagExecution, FiniteSetTheorems, SequenceTheorems, WellFoundedInduction, TLAPS

StatusType == graph \in GraphType /\ status \in [Nodes -> NodeStatuses]

\* A node that was started found all its dependencies over.
StartedReady ==
    \A n \in WithStatus({"running", "completed", "failed"}) :
        \A d \in graph.deps[n] : status[d] \in Over

\* A node of hard dependencies is blocked once one of them has failed.
FailureBlocks ==
    \A n \in Nodes \ graph.soft :
        (\E d \in graph.deps[n] : status[d] = "failed") => status[n] = "blocked"

\* blockedNodes and the statuses agree, one way.
BlockedAgree == \A n \in Nodes : n \in blockedNodes => status[n] = "blocked"

IInv == StatusType /\ StartedReady /\ FailureBlocks /\ BlockedAgree

-----------------------------------------------------------------------------
(* Lemmas *)

\* Nodes and artifacts of a graph.
LEMMA GraphFacts ==
    ASSUME StatusType
    PROVE  /\ graph.deps \in [Nodes -> SUBSET Nodes]
           /\ graph.needs \in [Nodes -> SUBSET Artifacts]
           /\ graph.uses \in [Nodes -> SUBSET SlotTypes]
BY DEF StatusType, GraphType

\* Downstream is closed under dependents within C ...
LEMMA DownstreamClosed ==
    ASSUME NEW C, NEW n, NEW k \in C, graph.deps[k] \cap (Downstream(n, C) \cup {n}) # {}
    PROVE  k \in Downstream(n, C)
<1> SUFFICES ASSUME NEW S \in SUBSET C,
                    {m \in C : graph.deps[m] \cap (S \cup {n}) # {}} \subseteq S
             PROVE  k \in S
  BY DEF Downstream
<1>1. Downstream(n, C) \subseteq S
  BY DEF Downstream
<1>2. graph.deps[k] \cap (S \cup {n}) # {}
  BY <1>1
<1>3. QED
  BY <1>2

\* ... and holds nothing that is not reached.
LEMMA DownstreamReached ==
    ASSUME NEW C, NEW n, NEW m \in Downstream(n, C)
    PROVE  m \in C /\ graph.deps[m] \cap (Downstream(n, C) \cup {n}) # {}
<1>1. m \in C
  BY DEF Downstream
<1> SUFFICES ASSUME graph.deps[m] \cap (Downstream(n, C) \cup {n}) = {} PROVE FALSE
  BY <1>1
<1> DEFINE S == Downstream(n, C) \ {m}
<1>2. S \in SUBSET C
  BY DEF Downstream
<1>3. ASSUME NEW k \in C, graph.deps[k] \cap (S \cup {n}) # {} PROVE k \in S
  <2>1. graph.deps[k] \cap (Downstream(n, C) \cup {n}) # {}
    BY <1>3
  <2>2. k \in Downstream(n, C)
    BY <2>1, DownstreamClosed
  <2>3. k # m
    BY <2>1
  <2>4. QED
    BY <2>2, <2>3
<1>4. m \in S
  BY <1>2, <1>3 DEF Downstream
<1>5. QED
  BY <1>4

\* One turn of the loop, with its choices named.
Batch(order, tried, selected, started, unready, waiting) ==
    /\ selected = {n \in tried : Granted(Grab(lock, tried, order), n)}
    /\ tried = {n \in Available :
                  Cardinality({m \in selected : Before(order, m, n)}) < GlobalLimit}
    /\ \A n \in started : Fits({m \in started : Before(order, m, n)}, n)
    /\ status' = [n \in Nodes |-> IF n \in started THEN "running"
                                  ELSE IF n \in unready THEN "blocked" ELSE status[n]]
    /\ lock' = AfterStart(Grab(lock, tried, order), selected \ started, started, order)
    /\ waiting \in Filtered(order, tried \ selected)
    /\ queue' = queue \o waiting
    /\ phase' = IF selected = {} /\ queue' = <<>> THEN "finished" ELSE phase

LEMMA BatchChoices ==
    ASSUME NextBatch
    PROVE  \E order \in Orders(Available), tried \in SUBSET Available :
             \E selected \in SUBSET tried : \E started \in SUBSET selected,
                unready \in SUBSET MayBlock : \E waiting :
                    Batch(order, tried, selected, started, unready, waiting)
<1>1. PICK order \in Orders(Available), tried \in SUBSET Available :
        LET lk == Grab(lock, tried, order)
            selected == {n \in tried : Granted(lk, n)}
        IN
        /\ tried = {n \in Available :
                      Cardinality({m \in selected : Before(order, m, n)}) < GlobalLimit}
        /\ \E started \in SUBSET selected, unready \in SUBSET MayBlock :
            /\ \A n \in selected :
                 n \in started <=> Fits({m \in started : Before(order, m, n)}, n)
            /\ MustBlock \subseteq unready
            /\ status' = [n \in Nodes |->
                            IF n \in started THEN "running"
                            ELSE IF n \in unready THEN "blocked" ELSE status[n]]
            /\ lock' = AfterStart(lk, selected \ started, started, order)
        /\ \E waiting \in Filtered(order, tried \ selected) : queue' = queue \o waiting
        /\ phase' = IF selected = {} /\ queue' = <<>> THEN "finished" ELSE phase
  BY Zenon DEF NextBatch
<1> DEFINE lk == Grab(lock, tried, order)
           selected == {n \in tried : Granted(lk, n)}
<1>2. PICK started \in SUBSET selected, unready \in SUBSET MayBlock :
            /\ \A n \in selected :
                 n \in started <=> Fits({m \in started : Before(order, m, n)}, n)
            /\ status' = [n \in Nodes |->
                            IF n \in started THEN "running"
                            ELSE IF n \in unready THEN "blocked" ELSE status[n]]
            /\ lock' = AfterStart(lk, selected \ started, started, order)
  BY <1>1
<1>3. PICK waiting \in Filtered(order, tried \ selected) : queue' = queue \o waiting
  BY <1>1
<1>4. /\ tried = {n \in Available :
                    Cardinality({m \in selected : Before(order, m, n)}) < GlobalLimit}
      /\ phase' = IF selected = {} /\ queue' = <<>> THEN "finished" ELSE phase
  BY <1>1
<1>5. selected \in SUBSET tried /\ \A n \in started : n \in selected
  OBVIOUS
<1>6. \A n \in started : Fits({m \in started : Before(order, m, n)}, n)
  BY <1>2, <1>5
<1>7. selected = {n \in tried : Granted(Grab(lock, tried, order), n)}
  OBVIOUS
<1>8. lock' = AfterStart(Grab(lock, tried, order), selected \ started, started, order)
  BY <1>2
<1> HIDE DEF selected
<1>9. Batch(order, tried, selected, started, unready, waiting)
  BY <1>2, <1>3, <1>4, <1>6, <1>7, <1>8 DEF Batch
<1> QED
  BY <1>5, <1>9

\* What a turn of the loop does to the statuses.
LEMMA BatchFacts ==
    ASSUME StatusType, NextBatch
    PROVE  \E order \in Orders(Available), started \in SUBSET Available,
              unready \in SUBSET WithStatus({"pending"}) : \E lk :
             /\ \A n \in started : Granted(lk, n)
             /\ \A n \in started : Fits({m \in started : Before(order, m, n)}, n)
             /\ status' = [n \in Nodes |-> IF n \in started THEN "running"
                                           ELSE IF n \in unready THEN "blocked" ELSE status[n]]
<1>1. PICK order \in Orders(Available), tried \in SUBSET Available :
        \E selected \in SUBSET tried : \E started \in SUBSET selected,
           unready \in SUBSET MayBlock : \E waiting :
             Batch(order, tried, selected, started, unready, waiting)
  BY BatchChoices
<1>2. PICK selected \in SUBSET tried :
        \E started \in SUBSET selected, unready \in SUBSET MayBlock : \E waiting :
          Batch(order, tried, selected, started, unready, waiting)
  BY <1>1
<1>2a. PICK started \in SUBSET selected, unready \in SUBSET MayBlock :
         \E waiting : Batch(order, tried, selected, started, unready, waiting)
  BY <1>2
<1>3. PICK waiting : Batch(order, tried, selected, started, unready, waiting)
  BY <1>2a
<1> DEFINE lk == Grab(lock, tried, order)
<1>4. /\ started \in SUBSET Available
      /\ unready \in SUBSET WithStatus({"pending"})
      /\ \A n \in started : Granted(lk, n)
  BY <1>3 DEF MayBlock, Batch
<1> HIDE DEF lk
<1> QED
  BY <1>3, <1>4 DEF Batch

-----------------------------------------------------------------------------
(* The inductive invariant *)

LEMMA InitIInv == Init => IInv
<1> SUFFICES ASSUME Init PROVE IInv
  OBVIOUS
<1>1. StatusType /\ \A n \in Nodes : status[n] = "pending"
  BY GraphAssumption DEF Init, StatusType, NodeStatuses
<1>2. graph.deps \in [Nodes -> SUBSET Nodes]
  BY <1>1, GraphFacts
<1>3. StartedReady /\ FailureBlocks
  BY <1>1, <1>2 DEF StartedReady, FailureBlocks, WithStatus
<1>4. BlockedAgree
  BY DEF Init, BlockedAgree
<1>5. QED
  BY <1>1, <1>3, <1>4 DEF IInv

LEMMA BatchStep == ASSUME IInv, NextBatch PROVE IInv'
<1>1. PICK started \in SUBSET Available, unready \in SUBSET WithStatus({"pending"}) :
        status' = [n \in Nodes |-> IF n \in started THEN "running"
                                   ELSE IF n \in unready THEN "blocked" ELSE status[n]]
  BY BatchFacts DEF IInv
<1>2. graph' = graph /\ blockedNodes' = blockedNodes
  BY DEF NextBatch
<1>3. /\ \A n \in started : n \in Nodes /\ status[n] = "pending" /\ DepsMet(n)
      /\ \A n \in unready : n \in Nodes /\ status[n] = "pending"
  BY DEF Available, WithStatus
<1>4. ASSUME NEW n \in Nodes
      PROVE  /\ status[n] # "pending" => status'[n] = status[n]
             /\ n \in started => status'[n] = "running"
             /\ n \notin started => status'[n] \in {status[n], "blocked"}
             /\ status'[n] \in NodeStatuses
  BY <1>1, <1>3 DEF IInv, StatusType, NodeStatuses
<1>5. StatusType'
  BY <1>1, <1>2, <1>4 DEF IInv, StatusType
<1>6. graph.deps \in [Nodes -> SUBSET Nodes]
  BY GraphFacts DEF IInv
<1>7. StartedReady'
  <2> SUFFICES ASSUME NEW n \in Nodes, status'[n] \in {"running", "completed", "failed"},
                      NEW d \in graph.deps[n]
               PROVE  status'[d] \in Over
    BY <1>2 DEF StartedReady, WithStatus
  <2>1. d \in Nodes
    BY <1>6
  <2>2. status[d] \in Over
    <3>1. CASE n \in started
      BY <3>1, <1>3 DEF DepsMet, Over
    <3>2. CASE n \notin started
      BY <3>2, <1>4 DEF IInv, StartedReady, WithStatus
    <3>3. QED
      BY <3>1, <3>2
  <2>3. QED
    BY <2>1, <2>2, <1>4 DEF Over
<1>8. FailureBlocks'
  <2> SUFFICES ASSUME NEW n \in Nodes \ graph.soft, NEW d \in graph.deps[n],
                      status'[d] = "failed"
               PROVE  status'[n] = "blocked"
    BY <1>2 DEF FailureBlocks
  <2>1. d \in Nodes
    BY <1>6
  <2>2. status[d] = "failed"
    BY <2>1, <1>4
  <2>3. QED
    BY <2>2, <1>4 DEF IInv, FailureBlocks
<1>9. BlockedAgree'
  BY <1>2, <1>4 DEF IInv, BlockedAgree
<1>10. QED
  BY <1>5, <1>7, <1>8, <1>9 DEF IInv

\* The end of a node: those blocked with it, by either way, had not started.
LEMMA FinishStep ==
    ASSUME IInv, NEW n \in Nodes, NEW outcome \in Over, Finish(n, outcome)
    PROVE  IInv'
<1> DEFINE blocked == IF outcome = "failed" THEN BlockedBy(n) ELSE {}
           failed == WithStatus({"failed"}) \cup (IF outcome = "failed" THEN {n} ELSE {})
           refused == {q \in Queued \ graph.soft : graph.deps[q] \cap failed # {}}
           hit == (blocked \cup refused) \cap Nodes
<1>1. /\ status[n] = "running" /\ graph' = graph
      /\ status' = [m \in Nodes |-> IF m = n THEN outcome
                                    ELSE IF m \in blocked \cup refused THEN "blocked"
                                    ELSE status[m]]
      /\ blockedNodes' = blockedNodes \cup blocked \cup refused
  BY DEF Finish
<1>2. graph.deps \in [Nodes -> SUBSET Nodes]
  BY GraphFacts DEF IInv
<1>3. ASSUME NEW m \in Nodes, n \in graph.deps[m]
      PROVE  status[m] \in {"pending", "blocked"}
  BY <1>1, <1>3 DEF IInv, StatusType, NodeStatuses, StartedReady, WithStatus, Over
<1>4. ASSUME NEW m \in blocked PROVE m \in Nodes /\ status[m] \in {"pending", "blocked"}
  <2>1. m \in Downstream(n, (Nodes \ (WithStatus(Over) \cup blockedNodes)) \ graph.soft)
    BY <1>4 DEF BlockedBy
  <2> DEFINE C == (Nodes \ (WithStatus(Over) \cup blockedNodes)) \ graph.soft
  <2> HIDE DEF C
  <2>2. m \in C /\ graph.deps[m] \cap (Downstream(n, C) \cup {n}) # {}
    BY <2>1, DownstreamReached DEF C
  <2>3. PICK d \in graph.deps[m] : d = n \/ d \in Downstream(n, C)
    BY <2>2
  <2>4. m \in Nodes
    BY <2>2 DEF C
  <2>5. CASE d = n
    BY <2>3, <2>4, <2>5, <1>3
  <2>6. CASE d \in Downstream(n, C)
    <3>1. d \in C
      BY <2>6, DownstreamReached
    <3>2. status[d] \notin Over
      BY <3>1 DEF C, WithStatus
    <3>3. status[m] \notin {"running", "completed", "failed"}
      BY <3>2, <2>3, <2>4 DEF IInv, StartedReady, WithStatus
    <3>4. QED
      BY <3>3, <2>4 DEF IInv, StatusType, NodeStatuses
  <2>7. QED
    BY <2>3, <2>4, <2>5, <2>6
<1>5. ASSUME NEW m \in refused, m \in Nodes PROVE status[m] \in {"pending", "blocked"}
  <2>1. PICK d \in graph.deps[m] : d \in failed
    OBVIOUS
  <2>2. CASE d = n
    BY <2>2, <2>1, <1>3, <1>5
  <2>3. CASE d # n
    <3>1. status[d] = "failed"
      BY <2>1, <2>3 DEF WithStatus
    <3>2. m \in Nodes \ graph.soft
      BY <1>5
    <3>3. QED
      BY <3>1, <3>2, <2>1 DEF IInv, FailureBlocks
  <2>4. QED
    BY <2>2, <2>3
<1> HIDE DEF failed
<1>6. ASSUME NEW m \in Nodes
      PROVE  /\ m = n => status'[m] = outcome
             /\ m \in hit => status[m] \in {"pending", "blocked"} /\ status'[m] = "blocked"
             /\ m # n /\ m \notin hit => status'[m] = status[m]
  BY <1>1, <1>4, <1>5
<1>7. ASSUME NEW m \in Nodes
      PROVE  /\ status[m] \in Over => status'[m] = status[m]
             /\ status[m] = "blocked" => status'[m] = "blocked"
             /\ status'[m] \in Over => status[m] \in Over \/ m = n
             /\ status'[m] \in {"running", "completed", "failed"}
                  => status[m] \in {"running", "completed", "failed"}
             /\ status'[m] \in NodeStatuses
  <2>1. status[m] \in NodeStatuses
    BY DEF IInv, StatusType
  <2>2. CASE m = n
    BY <2>2, <1>1, <1>6 DEF Over, NodeStatuses
  <2>3. CASE m \in hit
    BY <2>3, <1>6 DEF Over, NodeStatuses
  <2>4. CASE m # n /\ m \notin hit
    BY <2>1, <2>4, <1>6 DEF Over
  <2>5. QED
    BY <2>2, <2>3, <2>4
<1>8. StatusType'
  BY <1>1, <1>7 DEF IInv, StatusType
<1>9. StartedReady'
  <2> SUFFICES ASSUME NEW m \in Nodes, status'[m] \in {"running", "completed", "failed"},
                      NEW d \in graph.deps[m]
               PROVE  status'[d] \in Over
    BY <1>1 DEF StartedReady, WithStatus
  <2>1. d \in Nodes
    BY <1>2
  <2>2. status[d] \in Over
    BY <1>7 DEF IInv, StartedReady, WithStatus
  <2>3. QED
    BY <2>1, <2>2, <1>7
<1>10. FailureBlocks'
  <2> SUFFICES ASSUME NEW m \in Nodes \ graph.soft, NEW d \in graph.deps[m],
                      status'[d] = "failed"
               PROVE  status'[m] = "blocked"
    BY <1>1 DEF FailureBlocks
  <2>1. d \in Nodes
    BY <1>2
  <2>2. CASE status[d] = "failed"
    BY <2>2, <1>7 DEF IInv, FailureBlocks
  <2>3. CASE status[d] # "failed"
    <3>1. d = n /\ outcome = "failed"
      BY <2>1, <2>3, <1>6, <1>7 DEF Over
    <3>2. status[m] \in {"pending", "blocked"}
      BY <3>1, <1>3
    <3>3. CASE m \in blockedNodes
      BY <3>3, <1>7 DEF IInv, BlockedAgree
    <3>4. CASE m \notin blockedNodes
      <4> DEFINE C == (Nodes \ (WithStatus(Over) \cup blockedNodes)) \ graph.soft
      <4>1. m \in C
        BY <3>2, <3>4 DEF WithStatus, Over
      <4> HIDE DEF C
      <4>2. m \in Downstream(n, C)
        BY <4>1, <3>1, DownstreamClosed
      <4>3. m \in hit
        BY <4>2, <3>1 DEF BlockedBy, C
      <4>4. QED
        BY <4>3, <1>6
    <3>5. QED
      BY <3>3, <3>4
  <2>4. QED
    BY <2>2, <2>3
<1>11. BlockedAgree'
  <2> SUFFICES ASSUME NEW m \in Nodes, m \in blockedNodes' PROVE status'[m] = "blocked"
    BY DEF BlockedAgree
  <2>1. CASE m \in blockedNodes
    BY <2>1, <1>7 DEF IInv, BlockedAgree
  <2>2. CASE m \in hit
    BY <2>2, <1>6
  <2>3. QED
    BY <2>1, <2>2, <1>1
<1>12. QED
  BY <1>8, <1>9, <1>10, <1>11 DEF IInv

LEMMA NextIInv == IInv /\ [Next]_vars => IInv'
<1> SUFFICES ASSUME IInv, [Next]_vars PROVE IInv'
  OBVIOUS
<1>1. ASSUME graph' = graph, status' = status, blockedNodes' = blockedNodes PROVE IInv'
  BY <1>1 DEF IInv, StatusType, StartedReady, FailureBlocks, BlockedAgree, WithStatus
<1>2. CASE LoopEnds
  BY <1>1, <1>2 DEF LoopEnds
<1>3. CASE NextBatch
  BY <1>3, BatchStep
<1>4. ASSUME NEW n \in Nodes, Ends(n) PROVE IInv'
  BY <1>4, FinishStep DEF Ends
<1>5. ASSUME NEW a \in Artifacts, ExpireLock(a) PROVE IInv'
  BY <1>1, <1>5 DEF ExpireLock
<1>6. CASE UNCHANGED vars
  BY <1>1, <1>6 DEF vars
<1>7. QED
  BY <1>2, <1>3, <1>4, <1>5, <1>6 DEF Next

\* The inductive invariant holds in every state of every behaviour.
THEOREM Invariance == Spec => []IInv
<1>1. QED
  BY InitIInv, NextIInv, PTL DEF Spec

\* Nodes of hard dependencies work on completed ones only, for every mixture of
\* types in a graph.
THEOREM HardDependencies == Spec => []HardDependencyHolds
<1>1. IInv => HardDependencyHolds
  <2> SUFFICES ASSUME IInv, NEW n \in WithStatus({"running", "completed"}) \ graph.soft,
                      NEW d \in graph.deps[n]
               PROVE  status[d] = "completed"
    BY DEF HardDependencyHolds
  <2>1. n \in Nodes /\ status[n] \in {"running", "completed"}
    BY DEF WithStatus
  <2>2. status[d] \in Over
    BY <2>1 DEF IInv, StartedReady, WithStatus
  <2>3. status[d] # "failed"
    BY <2>1 DEF IInv, FailureBlocks
  <2>4. QED
    BY <2>2, <2>3 DEF Over
<1>2. QED
  BY <1>1, Invariance, PTL

-----------------------------------------------------------------------------
(* Exclusion and slots: what a batch is, and that only a batch starts nodes *)

\* Within a process no other step adds a node to those at work.
LEMMA RunningOnlyShrinks ==
    ASSUME IInv, [Next]_vars, ~NextBatch
    PROVE  Running' \subseteq Running /\ graph' = graph
<1>1. ASSUME NEW n \in Nodes, NEW outcome \in Over, Finish(n, outcome)
      PROVE  Running' \subseteq Running /\ graph' = graph
  <2>1. graph' = graph /\ \E hit : status' =
          [m \in Nodes |-> IF m = n THEN outcome ELSE IF m \in hit THEN "blocked" ELSE status[m]]
    BY <1>1 DEF Finish
  <2>2. QED
    BY <2>1 DEF Running, WithStatus, Over
<1>2. QED
  BY <1>1 DEF Next, Ends, LoopEnds, ExpireLock, vars, Running, WithStatus

\* No two nodes in conflict are at work together.
THEOREM Exclusion == Spec => []ConflictExclusion
<1>1. Init => ConflictExclusion
  BY DEF Init, ConflictExclusion, Running, WithStatus
<1>2. IInv /\ ConflictExclusion /\ [Next]_vars => ConflictExclusion'
  <2> SUFFICES ASSUME IInv, ConflictExclusion, [Next]_vars PROVE ConflictExclusion'
    OBVIOUS
  <2>1. CASE ~NextBatch
    BY <2>1, RunningOnlyShrinks DEF ConflictExclusion, Conflict
  <2>2. CASE NextBatch
    <3>1. PICK started, unready, lk :
            /\ \A n \in started : Granted(lk, n)
            /\ status' = [n \in Nodes |-> IF n \in started THEN "running"
                                          ELSE IF n \in unready THEN "blocked" ELSE status[n]]
      BY <2>2, BatchFacts DEF IInv
    <3>2. Running' \subseteq started /\ graph' = graph
      BY <2>2, <3>1 DEF NextBatch, AtLoopTop, Running, WithStatus
    <3>3. ASSUME NEW m \in started, NEW n \in started, Conflict(m, n) PROVE FALSE
      <4>1. PICK a : a \in graph.needs[m] /\ a \in graph.needs[n]
        BY <3>3 DEF Conflict
      <4>2. /\ lk[a] = m \/ (m \notin graph.writers /\ lk[a] \notin graph.writers)
            /\ lk[a] = n \/ (n \notin graph.writers /\ lk[a] \notin graph.writers)
        BY <3>1, <4>1 DEF Granted
      <4>3. QED
        BY <4>2, <3>3 DEF Conflict
    <3>4. QED
      BY <3>2, <3>3 DEF ConflictExclusion, Conflict
  <2>3. QED
    BY <2>1, <2>2
<1>3. QED
  BY <1>1, <1>2, Invariance, PTL DEF Spec

\* An order of a finite set lists all of it, and any part of it has a last member.
LEMMA LastOf ==
    ASSUME NEW A, IsFiniteSet(A), NEW order \in Orders(A), NEW S \in SUBSET A, S # {}
    PROVE  \E x \in S : \A m \in S \ {x} : Before(order, m, x)
<1> DEFINE N == Cardinality(A)
<1>1. N \in Nat
  BY FS_CardinalityType
<1>2. order \in Injection(1..N, A)
  BY DEF Orders, Injection, IsInjective
<1>3. IsFiniteSet(1..N) /\ Cardinality(1..N) = N
  BY <1>1, FS_Interval
<1>4. order \in Surjection(1..N, A)
  BY <1>2, <1>3, FS_Injection
<1> HIDE DEF N
<1>5. /\ DOMAIN order = 1..N
      /\ \A m \in A : \E i \in 1..N : order[i] = m
  BY <1>4 DEF Surjection
<1> DEFINE T == {k \in Nat : \E i \in 1..N : order[i] \in S /\ k = N - i}
<1>6. T \subseteq Nat /\ T # {}
  <2>1. PICK m \in S : TRUE
    OBVIOUS
  <2>2. PICK i \in 1..N : order[i] = m
    BY <1>5
  <2>3. N - i \in Nat /\ order[i] \in S
    BY <1>1, <2>1, <2>2
  <2>4. N - i \in T
    BY <2>3
  <2>5. QED
    BY <2>4
<1> DEFINE R == OpToRel(<, Nat)
<1>7. PICK k \in T : \A j \in T : <<j, k>> \notin R
  <2>1. IsWellFoundedOn(R, Nat)
    BY Zenon, NatLessThanWellFounded
  <2> HIDE DEF T, R
  <2>2. QED
    BY <1>6, <2>1, WFMin
<1>8. \A j \in T : k <= j
  <2>1. \A j, l \in Nat : j < l => <<j, l>> \in R
    BY DEF OpToRel
  <2> HIDE DEF R
  <2>2. SUFFICES ASSUME NEW j \in T PROVE k <= j
    OBVIOUS
  <2>3. j \in Nat /\ k \in Nat
    BY <1>6
  <2>4. ~(j < k)
    BY <1>7, <2>1, <2>3
  <2> HIDE DEF T
  <2>5. QED
    BY <2>3, <2>4
<1> HIDE DEF R
<1>9. PICK i \in 1..N : order[i] \in S /\ k = N - i
  OBVIOUS
<1>10. ASSUME NEW m \in S \ {order[i]} PROVE Before(order, m, order[i])
  <2>1. PICK h \in 1..N : order[h] = m
    BY <1>5
  <2>2. N - h \in T
    BY <1>1, <2>1
  <2>3. h <= i
    BY <1>1, <1>8, <1>9, <2>2
  <2>4. h < i
    BY <2>1, <2>3, <1>10
  <2>5. QED
    BY <2>1, <2>4, <1>5 DEF Before
<1>11. QED
  BY <1>9, <1>10

\* Nodes that each found fewer than L before them are no more than L.
LEMMA CountedInOrder ==
    ASSUME NEW A, IsFiniteSet(A), NEW order \in Orders(A), NEW S \in SUBSET A, NEW L \in Nat,
           \A n \in S : Cardinality({m \in S : Before(order, m, n)}) < L
    PROVE  Cardinality(S) <= L
<1>1. IsFiniteSet(S)
  BY FS_Subset
<1>2. CASE S = {}
  BY <1>2, FS_EmptySet
<1>3. CASE S # {}
  <2>1. PICK x \in S : \A m \in S \ {x} : Before(order, m, x)
    BY <1>3, LastOf
  <2> DEFINE B == {m \in S : Before(order, m, x)}
  <2>2. IsFiniteSet(B) /\ Cardinality(B) \in Nat
    BY <1>1, FS_Subset, FS_CardinalityType
  <2>3. S \ {x} \in SUBSET B
    BY <2>1
  <2>4. Cardinality(S \ {x}) <= Cardinality(B)
    BY <2>2, <2>3, FS_Subset
  <2>5. Cardinality(S \ {x}) = Cardinality(S) - 1 /\ Cardinality(S) \in Nat
    BY <1>1, FS_RemoveElement, FS_CardinalityType
  <2>6. Cardinality(B) < L
    OBVIOUS
  <2> HIDE DEF B
  <2>7. QED
    BY <2>2, <2>4, <2>5, <2>6
<1>4. QED
  BY <1>2, <1>3

\* No slot type and no global limit is exceeded, whatever a batch selects.
THEOREM Slots == Spec => []SlotBound
<1>1. Init => SlotBound
  <2> SUFFICES ASSUME Init PROVE SlotBound
    OBVIOUS
  <2>1. Running = {}
    BY DEF Init, Running, WithStatus
  <2>2. Cardinality(Running) = 0 /\ \A t : Cardinality({n \in Running : t \in graph.uses[n]}) = 0
    BY <2>1, FS_EmptySet
  <2>3. QED
    BY <2>2, DagAssumption DEF SlotBound
<1>2. IInv /\ SlotBound /\ [Next]_vars => SlotBound'
  <2> SUFFICES ASSUME IInv, SlotBound, [Next]_vars PROVE SlotBound'
    OBVIOUS
  <2>1. IsFiniteSet(Running) /\ Running \in SUBSET Nodes
    BY DagAssumption, FS_Subset DEF Running, WithStatus
  <2>2. ASSUME NEW t \in SlotTypes PROVE Limit[t] \in Nat
    BY DagAssumption
  <2>3. CASE ~NextBatch
    <3>1. Running' \subseteq Running /\ graph' = graph
      BY <2>3, RunningOnlyShrinks
    <3>2. Cardinality(Running') <= Cardinality(Running)
      BY <2>1, <3>1, FS_Subset
    <3>3. Cardinality(Running') \in Nat /\ Cardinality(Running) \in Nat
      BY <2>1, <3>1, FS_Subset, FS_CardinalityType
    <3>4. Cardinality(Running') <= GlobalLimit
      BY <3>2, <3>3, DagAssumption DEF SlotBound
    <3>5. ASSUME NEW t \in SlotTypes
          PROVE  Cardinality({n \in Running' : t \in graph.uses[n]}) <= Limit[t]
      <4> DEFINE U == {n \in Running : t \in graph.uses[n]}
                 V == {n \in Running' : t \in graph.uses[n]}
      <4>1. U \in SUBSET Running /\ V \in SUBSET U
        BY <3>1
      <4>2. IsFiniteSet(U)
        BY <4>1, <2>1, FS_Subset
      <4>3. Cardinality(V) <= Cardinality(U) /\ IsFiniteSet(V)
        BY <4>1, <4>2, FS_Subset
      <4>4. Cardinality(V) \in Nat /\ Cardinality(U) \in Nat
        BY <4>2, <4>3, FS_CardinalityType
      <4>5. Cardinality(U) <= Limit[t]
        BY DEF SlotBound
      <4> HIDE DEF U, V
      <4>6. Cardinality(V) <= Limit[t]
        BY <4>3, <4>4, <4>5, <2>2
      <4>7. QED
        BY <4>6 DEF V
    <3>6. QED
      BY <3>1, <3>4, <3>5 DEF SlotBound
  <2>4. CASE NextBatch
    <3>1. PICK order \in Orders(Available), started \in SUBSET Available,
                unready \in SUBSET WithStatus({"pending"}) :
            /\ \A n \in started : Fits({m \in started : Before(order, m, n)}, n)
            /\ status' = [n \in Nodes |-> IF n \in started THEN "running"
                                          ELSE IF n \in unready THEN "blocked" ELSE status[n]]
      BY <2>4, BatchFacts DEF IInv
    <3>2. started \in SUBSET Available /\ started \in SUBSET Nodes /\ IsFiniteSet(Available)
      BY DagAssumption, FS_Subset DEF Available
    <3>3. Running' = started /\ graph' = graph
      BY <2>4, <3>1, <3>2 DEF NextBatch, AtLoopTop, Running, WithStatus
    <3>4. Cardinality(started) <= GlobalLimit
      <4>1. \A n \in started : Cardinality({m \in started : Before(order, m, n)}) < GlobalLimit
        BY <3>1 DEF Fits
      <4>2. QED
        BY <4>1, <3>2, CountedInOrder, DagAssumption
    <3>5. ASSUME NEW t \in SlotTypes
          PROVE  Cardinality({n \in started : t \in graph.uses[n]}) <= Limit[t]
      <4> DEFINE U == {n \in started : t \in graph.uses[n]}
      <4>1. ASSUME NEW n \in U
            PROVE  Cardinality({m \in U : Before(order, m, n)}) < Limit[t]
        <5>1. Cardinality({m \in {k \in started : Before(order, k, n)} : t \in graph.uses[m]})
                < Limit[t]
          BY <3>1 DEF Fits
        <5>2. {m \in {k \in started : Before(order, k, n)} : t \in graph.uses[m]}
                = {m \in U : Before(order, m, n)}
          OBVIOUS
        <5>3. QED
          BY <5>1, <5>2
      <4>2. U \in SUBSET Available
        BY <3>2
      <4> HIDE DEF U
      <4>3. Cardinality(U) <= Limit[t]
        BY <4>1, <4>2, <3>2, <2>2, CountedInOrder
      <4>4. QED
        BY <4>3 DEF U
    <3>6. QED
      BY <3>3, <3>4, <3>5 DEF SlotBound
  <2>5. QED
    BY <2>3, <2>4
<1>3. QED
  BY <1>1, <1>2, Invariance, PTL DEF Spec

-----------------------------------------------------------------------------
(* The queue and the locks *)

\* A queued node is queued once, and its dependencies are met.
QueueInv ==
    /\ queue \in Seq(Nodes)
    /\ \A i, k \in DOMAIN queue : queue[i] = queue[k] => i = k
    /\ \A n \in Queued : status[n] = "pending" /\ DepsMet(n)

\* So are those of the holder of a lock.
LockInv ==
    /\ lock \in [Artifacts -> Nodes \cup {NoNode}]
    /\ \A a \in Artifacts :
        lock[a] # NoNode => status[lock[a]] \in {"pending", "running"} /\ DepsMet(lock[a])

LoopInv == phase \in {"running", "finished"} /\ blockedNodes \subseteq Nodes /\ QueueInv /\ LockInv

\* q is a sequence that lists the nodes of S.
Lists(q, S) == \E N \in Nat : DOMAIN q = 1..N /\ \A m \in S : \E i \in 1..N : q[i] = m

LEMMA LeastNat ==
    ASSUME NEW T \in SUBSET Nat, T # {}
    PROVE  \E k \in T : \A j \in T : k <= j
<1> DEFINE R == OpToRel(<, Nat)
<1>1. IsWellFoundedOn(R, Nat)
  BY NatLessThanWellFounded
<1>2. \A x, y \in Nat : y < x => <<y, x>> \in R
  BY DEF OpToRel
<1> HIDE DEF R
<1>3. PICK x \in T : \A y \in T : ~ (<<y, x>> \in R)
  BY <1>1, WFMin
<1>4. \A y \in T : ~(y < x)
  BY <1>2, <1>3
<1> QED
  BY <1>4

\* The first of the nodes that a sequence lists is one of them.
LEMMA FirstIsOne ==
    ASSUME NEW q, NEW S, S # {}, Lists(q, S)
    PROVE  First(S, q) \in S
<1>1. PICK N \in Nat : DOMAIN q = 1..N /\ \A m \in S : \E i \in 1..N : q[i] = m
  BY DEF Lists
<1> DEFINE T == {i \in 1..N : q[i] \in S}
<1>2. T \in SUBSET Nat /\ T # {}
  BY <1>1
<1>3. PICK k \in T : \A j \in T : k <= j
  BY <1>2, LeastNat
<1>4. q[k] \in S /\ \A m \in S \ {q[k]} : Before(q, q[k], m)
  <2> SUFFICES ASSUME NEW m \in S \ {q[k]} PROVE Before(q, q[k], m)
    BY <1>3
  <2>1. PICK h \in 1..N : q[h] = m
    BY <1>1
  <2>2. k <= h /\ k # h
    BY <1>3, <2>1
  <2> QED
    BY <1>1, <2>1, <2>2 DEF Before
<1> QED
  BY <1>4 DEF First

LEMMA OrderLists ==
    ASSUME NEW A, IsFiniteSet(A), NEW order \in Orders(A), NEW S \in SUBSET A
    PROVE  Lists(order, S)
<1> DEFINE N == Cardinality(A)
<1>1. N \in Nat
  BY FS_CardinalityType
<1>2. order \in Injection(1..N, A)
  BY DEF Orders, Injection, IsInjective
<1>3. IsFiniteSet(1..N) /\ Cardinality(1..N) = N
  BY <1>1, FS_Interval
<1>4. order \in Surjection(1..N, A)
  BY <1>2, <1>3, FS_Injection
<1> HIDE DEF N
<1> QED
  BY <1>1, <1>4 DEF Surjection, Lists

LEMMA QueueLists ==
    ASSUME queue \in Seq(Nodes), NEW S \in SUBSET Queued
    PROVE  Lists(queue, S)
<1>1. Len(queue) \in Nat /\ DOMAIN queue = 1..Len(queue)
  OBVIOUS
<1> QED
  BY <1>1 DEF Lists, Queued

\* What is filtered from a sequence has its nodes, each once.
LEMMA FilteredFacts ==
    ASSUME NEW q, NEW S \in SUBSET Nodes, NEW s \in Filtered(q, S)
    PROVE  /\ s \in Seq(S) /\ \A i \in DOMAIN s : s[i] \in S
           /\ \A i, k \in DOMAIN s : s[i] = s[k] => i = k
           /\ s = <<>> => S = {}
<1>1. IsFiniteSet(S) /\ Cardinality(S) \in Nat
  BY DagAssumption, FS_Subset, FS_CardinalityType
<1>2. s \in [1..Cardinality(S) -> S] /\ \A i, k \in DOMAIN s : s[i] = s[k] => i = k
  BY DEF Filtered, Orders
<1>3. s \in Seq(S)
  BY <1>1, <1>2
<1>4. s = <<>> => Cardinality(S) = 0
  <2> SUFFICES ASSUME s = <<>> PROVE Cardinality(S) = 0
    OBVIOUS
  <2>1. DOMAIN s = {} /\ DOMAIN s = 1..Cardinality(S)
    BY <1>2
  <2> QED
    BY <1>1, <2>1
<1> QED
  BY <1>1, <1>2, <1>3, <1>4, FS_EmptySet

\* A lock is left as it is or goes to a node that asked for it.
LEMMA GrabGives ==
    ASSUME NEW lk, NEW S, NEW order, Lists(order, S), NEW a \in Artifacts
    PROVE  Grab(lk, S, order)[a] \in {lk[a], NoNode} \cup S
<1> DEFINE T == {n \in S : a \in graph.needs[n]}
<1>1. T # {} => First(T, order) \in T
  <2>1. Lists(order, T)
    BY DEF Lists
  <2> HIDE DEF T
  <2> QED
    BY <2>1, FirstIsOne
<1> QED
  BY <1>1 DEF Grab, FirstOrNone

LEMMA AfterStartGives ==
    ASSUME NEW lk, NEW unstarted, NEW started, NEW order, Lists(order, started),
           NEW a \in Artifacts
    PROVE  AfterStart(lk, unstarted, started, order)[a] \in
             (IF lk[a] \notin unstarted THEN {lk[a]} ELSE {NoNode} \cup started)
<1> DEFINE T == {n \in started : a \in graph.needs[n] /\ Before(order, lk[a], n)}
<1>1. T # {} => First(T, order) \in T
  <2>1. Lists(order, T)
    BY DEF Lists
  <2> HIDE DEF T
  <2> QED
    BY <2>1, FirstIsOne
<1> QED
  BY <1>1 DEF AfterStart, FirstOrNone

\* Dependencies that are met stay met: what is over stays as it is.
LEMMA MetStaysMet ==
    ASSUME StatusType, graph' = graph,
           \A m \in Nodes : status[m] \in Over => status'[m] = status[m],
           NEW n \in Nodes, DepsMet(n)
    PROVE  DepsMet(n)'
<1>1. graph.deps[n] \subseteq Nodes
  BY GraphFacts
<1> QED
  BY <1>1 DEF DepsMet, Over

\* A turn of the loop blocks no node whose dependencies are met.
LEMMA BatchKeepsLoop == ASSUME IInv, LoopInv, NextBatch PROVE LoopInv'
<1>1. PICK order \in Orders(Available), tried \in SUBSET Available :
        \E selected \in SUBSET tried : \E started \in SUBSET selected,
           unready \in SUBSET MayBlock : \E waiting :
             Batch(order, tried, selected, started, unready, waiting)
  BY BatchChoices
<1>2. PICK selected \in SUBSET tried :
        \E started \in SUBSET selected, unready \in SUBSET MayBlock : \E waiting :
          Batch(order, tried, selected, started, unready, waiting)
  BY <1>1
<1>2a. PICK started \in SUBSET selected, unready \in SUBSET MayBlock :
         \E waiting : Batch(order, tried, selected, started, unready, waiting)
  BY <1>2
<1>3. PICK waiting : Batch(order, tried, selected, started, unready, waiting)
  BY <1>2a
<1>4. /\ graph' = graph /\ blockedNodes' = blockedNodes
      /\ Available \in SUBSET Nodes /\ IsFiniteSet(Available)
      /\ \A n \in Available : status[n] = "pending" /\ n \notin Queued /\ DepsMet(n)
  BY DagAssumption, FS_Subset DEF NextBatch, Available
<1>5. /\ graph.deps \in [Nodes -> SUBSET Nodes] /\ status \in [Nodes -> NodeStatuses]
  BY GraphFacts DEF IInv, StatusType
<1>6. ASSUME NEW n \in Nodes, DepsMet(n) PROVE n \notin unready
  BY <1>5, <1>6 DEF MayBlock, HasFailedDep, DepsMet, WithStatus
<1>7. ASSUME NEW n \in Nodes
      PROVE  /\ n \in started => status'[n] = "running"
             /\ n \notin started /\ DepsMet(n) => status'[n] = status[n]
             /\ status[n] \in Over => status'[n] = status[n]
  BY <1>3, <1>4, <1>6 DEF Batch, MayBlock, WithStatus, Over
<1>8. \A n \in Nodes : DepsMet(n) => DepsMet(n)'
  BY <1>4, <1>7, MetStaysMet DEF IInv
<1>9. QueueInv'
  <2>1. /\ queue' = queue \o waiting /\ waiting \in Seq(Nodes) /\ queue \in Seq(Nodes)
        /\ \A i \in DOMAIN waiting : waiting[i] \in tried \ selected
        /\ \A i, k \in DOMAIN waiting : waiting[i] = waiting[k] => i = k
    <3>1. tried \ selected \in SUBSET Nodes /\ waiting \in Filtered(order, tried \ selected)
      BY <1>3, <1>4 DEF Batch
    <3>2. /\ waiting \in Seq(tried \ selected)
          /\ \A i \in DOMAIN waiting : waiting[i] \in tried \ selected
          /\ \A i, k \in DOMAIN waiting : waiting[i] = waiting[k] => i = k
      BY <3>1, FilteredFacts
    <3> QED
      BY <1>3, <3>1, <3>2, SeqMonotonic DEF Batch, LoopInv, QueueInv
  <2>2. /\ queue' \in Seq(Nodes) /\ DOMAIN queue' = 1..(Len(queue) + Len(waiting))
        /\ \A i \in 1..(Len(queue) + Len(waiting)) :
             queue'[i] = IF i <= Len(queue) THEN queue[i] ELSE waiting[i - Len(queue)]
    BY <2>1, ConcatProperties, LenProperties
  <2>3. Len(queue) \in Nat /\ Len(waiting) \in Nat /\ DOMAIN queue = 1..Len(queue)
        /\ DOMAIN waiting = 1..Len(waiting)
    BY <2>1, LenProperties
  <2>4. ASSUME NEW i \in DOMAIN queue'
        PROVE  \/ i \in DOMAIN queue /\ queue'[i] = queue[i]
               \/ /\ i - Len(queue) \in DOMAIN waiting
                  /\ queue'[i] = waiting[i - Len(queue)] /\ i > Len(queue)
    BY <2>2, <2>3
  <2>5. \A i \in DOMAIN queue : queue[i] \in Queued /\ queue[i] \in Nodes
    BY <2>1, <2>3, ElementOfSeq DEF Queued
  <2>6. \A i \in DOMAIN waiting : waiting[i] \notin Queued /\ waiting[i] \in Available
    BY <1>4, <2>1
  <2>7. \A i, k \in DOMAIN queue' : queue'[i] = queue'[k] => i = k
    <3> SUFFICES ASSUME NEW i \in DOMAIN queue', NEW k \in DOMAIN queue', queue'[i] = queue'[k]
                 PROVE  i = k
      OBVIOUS
    <3>1. i \in Int /\ k \in Int
      BY <2>2
    <3> QED
      BY <2>1, <2>3, <2>4, <2>5, <2>6, <3>1 DEF LoopInv, QueueInv
  <2>8. ASSUME NEW n \in Queued' PROVE status'[n] = "pending" /\ DepsMet(n)'
    <3>1. PICK i \in DOMAIN queue' : n = queue'[i]
      BY DEF Queued
    <3>2. n \in Nodes /\ status[n] = "pending" /\ DepsMet(n) /\ n \notin started
      <4>1. CASE i \in DOMAIN queue /\ queue'[i] = queue[i]
        BY <1>4, <2>5, <3>1, <4>1 DEF LoopInv, QueueInv
      <4>2. CASE ~(i \in DOMAIN queue /\ queue'[i] = queue[i])
        BY <1>4, <2>1, <2>4, <3>1, <4>2
      <4> QED
        BY <4>1, <4>2
    <3> QED
      BY <1>7, <1>8, <3>2
  <2> QED
    BY <2>2, <2>7, <2>8 DEF QueueInv
<1>10. LockInv'
  <2> DEFINE lk == Grab(lock, tried, order)
  <2>1. Lists(order, tried) /\ Lists(order, started)
    BY <1>4, OrderLists
  <2>2. ASSUME NEW a \in Artifacts
        PROVE  /\ lk[a] \in {lock[a], NoNode} \cup tried
               /\ lock'[a] \in {lk[a], NoNode} \cup started
               /\ lock'[a] = lk[a] => lk[a] \notin selected \/ lk[a] \in started
                                      \/ lk[a] = NoNode
    <3>1. lk[a] \in {lock[a], NoNode} \cup tried
      BY <2>1, GrabGives
    <3> HIDE DEF lk
    <3>2. lock'[a] = AfterStart(lk, selected \ started, started, order)[a]
      BY <1>3 DEF Batch, lk
    <3>3. lock'[a] \in (IF lk[a] \notin selected \ started THEN {lk[a]} ELSE {NoNode} \cup started)
      BY <2>1, <3>2, AfterStartGives
    <3> QED
      BY <3>1, <3>3
  <2> HIDE DEF lk
  <2>3. lock' = [a \in Artifacts |-> lock'[a]]
    BY <1>3 DEF Batch, AfterStart
  <2>4. ASSUME NEW a \in Artifacts
        PROVE  lock'[a] = NoNode
               \/ (lock'[a] \in Nodes /\ status[lock'[a]] \in {"pending", "running"}
                   /\ DepsMet(lock'[a]))
    BY <1>4, <2>2 DEF LoopInv, LockInv
  <2>5. lock' \in [Artifacts -> Nodes \cup {NoNode}]
    BY <2>3, <2>4
  <2>6. ASSUME NEW a \in Artifacts, lock'[a] # NoNode
        PROVE  (status[lock[a]] \in {"pending", "running"} /\ DepsMet(lock[a]))'
    <3>1. PICK h \in Nodes : h = lock'[a] /\ status[h] \in {"pending", "running"} /\ DepsMet(h)
      BY <2>4, <2>6
    <3>2. status'[h] \in {"pending", "running"} /\ DepsMet(h)'
      BY <1>7, <1>8, <3>1
    <3> QED
      BY <3>1, <3>2 DEF DepsMet
  <2> QED
    BY <2>5, <2>6 DEF LockInv
<1>11. phase' \in {"running", "finished"}
  BY <1>3 DEF Batch, LoopInv
<1> QED
  BY <1>4, <1>9, <1>10, <1>11 DEF LoopInv

\* A node whose dependencies are met is not blocked by the end of another one.
LEMMA FinishSpares ==
    ASSUME IInv, LoopInv, NEW n \in Nodes, NEW outcome \in Over, Finish(n, outcome),
           NEW m \in Nodes, m # n, status[m] \in {"pending", "running"}, DepsMet(m)
    PROVE  status'[m] = status[m]
<1> DEFINE failed == WithStatus({"failed"}) \cup (IF outcome = "failed" THEN {n} ELSE {})
           refused == {q \in Queued \ graph.soft : graph.deps[q] \cap failed # {}}
           blocked == IF outcome = "failed" THEN BlockedBy(n) ELSE {}
           C == (Nodes \ (WithStatus(Over) \cup blockedNodes)) \ graph.soft
<1>1. /\ status[n] = "running"
      /\ status' = [k \in Nodes |-> IF k = n THEN outcome
                                    ELSE IF k \in blocked \cup refused THEN "blocked"
                                    ELSE status[k]]
  BY DEF Finish
<1>2. graph.deps \in [Nodes -> SUBSET Nodes]
  BY GraphFacts DEF IInv
<1>3. \A d \in graph.deps[m] : status[d] \in Over /\ d # n
  BY <1>1 DEF DepsMet, Over
<1>4. m \notin BlockedBy(n)
  <2> SUFFICES ASSUME m \in Downstream(n, C) PROVE FALSE
    BY DEF BlockedBy
  <2> HIDE DEF C
  <2>1. PICK d \in graph.deps[m] : d = n \/ d \in Downstream(n, C)
    BY DownstreamReached
  <2>2. d \in C
    BY <1>3, <2>1, DownstreamReached
  <2> QED
    BY <1>3, <2>2 DEF C, WithStatus
<1>5. m \notin refused
  <2> SUFFICES ASSUME m \notin graph.soft, NEW d \in graph.deps[m], d \in failed PROVE FALSE
    OBVIOUS
  <2>1. status[d] = "failed"
    BY <1>3 DEF WithStatus
  <2> QED
    BY <2>1 DEF IInv, FailureBlocks
<1> HIDE DEF refused
<1> QED
  BY <1>1, <1>4, <1>5

LEMMA FinishKeepsLoop ==
    ASSUME IInv, LoopInv, NEW n \in Nodes, NEW outcome \in Over, Finish(n, outcome)
    PROVE  LoopInv'
<1> DEFINE blocked == IF outcome = "failed" THEN BlockedBy(n) ELSE {}
           failed == WithStatus({"failed"}) \cup (IF outcome = "failed" THEN {n} ELSE {})
           refused == {q \in Queued \ graph.soft : graph.deps[q] \cap failed # {}}
           tried == {q \in Queued \ refused : Fits(Running \ {n}, q)}
           lk == Grab(lock, tried, queue)
           dequeued == refused \cup {q \in tried : Granted(lk, q)}
<1>1. /\ status[n] = "running" /\ graph' = graph /\ phase' = phase
      /\ status' = [m \in Nodes |-> IF m = n THEN outcome
                                    ELSE IF m \in blocked \cup refused THEN "blocked"
                                    ELSE status[m]]
      /\ blockedNodes' = blockedNodes \cup blocked \cup refused
      /\ queue' \in Filtered(queue, Queued \ dequeued)
      /\ lock' = Release(lk, n)
  BY DEF Finish
<1>2. Queued \in SUBSET Nodes /\ \A m \in Queued : status[m] = "pending" /\ DepsMet(m)
  <2>1. queue \in Seq(Nodes) /\ DOMAIN queue = 1..Len(queue)
    BY LenProperties DEF LoopInv, QueueInv
  <2> QED
    BY <2>1, ElementOfSeq DEF Queued, LoopInv, QueueInv
<1>3. Queued \ dequeued \in SUBSET Nodes /\ tried \in SUBSET Queued
  BY <1>2
<1>4. blockedNodes' \subseteq Nodes
  <2>1. blocked \subseteq Nodes
    BY DEF BlockedBy, Downstream
  <2> QED
    BY <1>1, <1>2, <2>1 DEF LoopInv
<1> HIDE DEF dequeued, lk, tried, refused, blocked, failed
<1>5. \A m \in Nodes : status[m] \in Over => status'[m] = status[m]
  <2> SUFFICES ASSUME NEW m \in Nodes, status[m] \in Over PROVE status'[m] = status[m]
    OBVIOUS
  <2>1. m # n /\ m \notin Queued
    BY <1>1, <1>2 DEF Over
  <2>2. m \notin refused
    BY <2>1 DEF refused
  <2>3. m \notin blocked
    BY DEF blocked, BlockedBy, Downstream, WithStatus
  <2> QED
    BY <1>1, <2>1, <2>2, <2>3
<1>6. \A m \in Nodes : DepsMet(m) => DepsMet(m)'
  BY <1>1, <1>5, MetStaysMet DEF IInv
<1>7. \A m \in Nodes : m # n /\ status[m] \in {"pending", "running"} /\ DepsMet(m)
                         => status'[m] = status[m]
  BY FinishSpares
<1>8. QueueInv'
  <2>1. /\ queue' \in Seq(Queued \ dequeued)
        /\ \A i \in DOMAIN queue' : queue'[i] \in Queued \ dequeued
        /\ \A i, k \in DOMAIN queue' : queue'[i] = queue'[k] => i = k
    BY <1>1, <1>3, FilteredFacts
  <2>2. queue' \in Seq(Nodes)
    BY <1>3, <2>1, SeqMonotonic
  <2>3. ASSUME NEW m \in Queued' PROVE status'[m] = "pending" /\ DepsMet(m)'
    <3>1. m \in Queued
      BY <2>1 DEF Queued
    <3>2. m \in Nodes /\ status[m] = "pending" /\ DepsMet(m) /\ m # n
      BY <1>1, <1>2, <3>1
    <3> QED
      BY <1>6, <1>7, <3>2
  <2> QED
    BY <2>1, <2>2, <2>3 DEF QueueInv
<1>9. LockInv'
  <2>1. Lists(queue, tried)
    BY <1>3, QueueLists DEF LoopInv, QueueInv
  <2>2. lock' = [a \in Artifacts |-> IF lk[a] = n THEN NoNode ELSE lk[a]]
    BY <1>1 DEF Release
  <2>3. ASSUME NEW a \in Artifacts
        PROVE  lock'[a] = NoNode
               \/ \E h \in Nodes : /\ h = lock'[a] /\ h # n /\ DepsMet(h)
                                   /\ status[h] \in {"pending", "running"}
    <3>1. lk[a] \in {lock[a], NoNode} \cup tried
      BY <2>1, GrabGives DEF lk
    <3> QED
      BY <1>2, <1>3, <2>2, <3>1 DEF LoopInv, LockInv
  <2>4. lock' \in [Artifacts -> Nodes \cup {NoNode}]
    BY <2>2, <2>3
  <2>5. ASSUME NEW a \in Artifacts, lock'[a] # NoNode
        PROVE  (status[lock[a]] \in {"pending", "running"} /\ DepsMet(lock[a]))'
    <3>1. PICK h \in Nodes : /\ h = lock'[a] /\ h # n /\ DepsMet(h)
                             /\ status[h] \in {"pending", "running"}
      BY <2>3, <2>5
    <3>2. status'[h] \in {"pending", "running"} /\ DepsMet(h)'
      BY <1>6, <1>7, <3>1
    <3> QED
      BY <3>1, <3>2 DEF DepsMet
  <2> QED
    BY <2>4, <2>5 DEF LockInv
<1> QED
  BY <1>1, <1>4, <1>8, <1>9 DEF LoopInv

LEMMA InitLoop == Init => LoopInv
<1> SUFFICES ASSUME Init PROVE LoopInv
  OBVIOUS
<1>1. queue \in Seq(Nodes) /\ DOMAIN queue = {} /\ Queued = {}
  BY EmptySeq DEF Init, Queued
<1>2. QueueInv
  BY <1>1 DEF QueueInv
<1>3. LockInv
  BY DEF Init, LockInv
<1> QED
  BY <1>2, <1>3 DEF Init, LoopInv

LEMMA NextKeepsLoop == IInv /\ LoopInv /\ [Next]_vars => LoopInv'
<1> SUFFICES ASSUME IInv, LoopInv, [Next]_vars PROVE LoopInv'
  OBVIOUS
<1>1. ASSUME UNCHANGED <<graph, status, blockedNodes, queue>>, LockInv',
             phase' \in {"running", "finished"}
      PROVE  LoopInv'
  BY <1>1 DEF LoopInv, QueueInv, Queued, DepsMet
<1>2. UNCHANGED <<graph, status, lock>> => LockInv'
  BY DEF LoopInv, LockInv, DepsMet
<1>3. CASE LoopEnds
  BY <1>1, <1>2, <1>3 DEF LoopEnds
<1>4. CASE NextBatch
  BY <1>4, BatchKeepsLoop
<1>5. ASSUME NEW n \in Nodes, Ends(n) PROVE LoopInv'
  BY <1>5, FinishKeepsLoop DEF Ends
<1>6. ASSUME NEW a \in Artifacts, ExpireLock(a) PROVE LoopInv'
  <2>1. /\ lock' = [lock EXCEPT ![a] = NoNode] /\ phase' = phase
        /\ UNCHANGED <<graph, status, blockedNodes, queue>>
    BY <1>6 DEF ExpireLock
  <2>2. LockInv'
    BY <2>1 DEF LoopInv, LockInv, DepsMet
  <2> QED
    BY <1>1, <2>1, <2>2 DEF LoopInv
<1>7. CASE UNCHANGED vars
  BY <1>1, <1>2, <1>7 DEF vars, LoopInv
<1> QED
  BY <1>3, <1>4, <1>5, <1>6, <1>7 DEF Next

THEOREM LoopInvariance == Spec => []LoopInv
BY Invariance, InitLoop, NextKeepsLoop, PTL DEF Spec

\* Every variable keeps its type; a node is queued once, and only while it waits.
THEOREM TypeCorrect == Spec => []TypeOK
<1>1. IInv /\ LoopInv => TypeOK
  <2> SUFFICES ASSUME IInv, LoopInv PROVE TypeOK
    OBVIOUS
  <2>1. queue \in Seq(WithStatus({"pending"}))
    <3>1. queue \in Seq(Nodes) /\ Len(queue) \in Nat /\ DOMAIN queue = 1..Len(queue)
      BY LenProperties DEF LoopInv, QueueInv
    <3>2. \A i \in 1..Len(queue) : queue[i] \in WithStatus({"pending"})
      BY <3>1, ElementOfSeq DEF LoopInv, QueueInv, Queued, WithStatus
    <3> QED
      BY <3>1, <3>2
  <2> QED
    BY <2>1 DEF IInv, StatusType, LoopInv, QueueInv, LockInv, TypeOK
<1> QED
  BY <1>1, Invariance, LoopInvariance, PTL

\* No node that is finished, failed or blocked keeps an artifact from the others,
\* though nodes take locks that they wait with, share without record and lose.
THEOREM LocksAreLive == Spec => []LockHolderIsLive
<1>1. LoopInv => LockHolderIsLive
  BY DEF LoopInv, LockInv, LockHolderIsLive
<1> QED
  BY <1>1, LoopInvariance, PTL

-----------------------------------------------------------------------------
(* The result in a graph of hard dependencies *)

\* No set of nodes waits for itself.  The graph builder only warns of a cycle.
Acyclic == \A S \in SUBSET Nodes : S # {} => \E n \in S : graph.deps[n] \cap S = {}

Bad == WithStatus({"failed"}) \cup blockedNodes

\* Without soft nodes, blockedNodes is what the failures reach, at every moment.
BlockedExactly ==
    graph.soft = {} =>
        \A n \in Nodes :
            /\ n \in blockedNodes <=> graph.deps[n] \cap Bad # {}
            /\ status[n] = "blocked" => n \in blockedNodes

\* The loop has left no node that could still run.
NothingLeft ==
    (phase = "finished" /\ graph.soft = {} /\ Acyclic) =>
        \A n \in Nodes : n \in blockedNodes \/ status[n] \in Over

ExactInv == BlockedExactly /\ NothingLeft

LEMMA InitExact == Init => ExactInv
<1> SUFFICES ASSUME Init PROVE ExactInv
  OBVIOUS
<1>1. Bad = {} /\ \A n \in Nodes : status[n] = "pending"
  BY DEF Init, Bad, WithStatus
<1> QED
  BY <1>1 DEF Init, ExactInv, BlockedExactly, NothingLeft

\* A turn of the loop blocks nothing: the failures have blocked before.
LEMMA BatchBlocksNothing ==
    ASSUME IInv, graph.soft = {}
    PROVE  MayBlock = {}
BY DEF MayBlock, HasFailedDep, IInv, FailureBlocks, WithStatus

LEMMA BatchKeepsExact == ASSUME IInv, LoopInv, ExactInv, NextBatch PROVE ExactInv'
<1>1. PICK order \in Orders(Available), tried \in SUBSET Available :
        \E selected \in SUBSET tried : \E started \in SUBSET selected,
           unready \in SUBSET MayBlock : \E waiting :
             Batch(order, tried, selected, started, unready, waiting)
  BY BatchChoices
<1>2. PICK selected \in SUBSET tried :
        \E started \in SUBSET selected, unready \in SUBSET MayBlock : \E waiting :
          Batch(order, tried, selected, started, unready, waiting)
  BY <1>1
<1>2a. PICK started \in SUBSET selected, unready \in SUBSET MayBlock :
         \E waiting : Batch(order, tried, selected, started, unready, waiting)
  BY <1>2
<1>3. PICK waiting : Batch(order, tried, selected, started, unready, waiting)
  BY <1>2a
<1>4. /\ graph' = graph /\ blockedNodes' = blockedNodes /\ Running = {} /\ phase = "running"
      /\ \A n \in Available : n \in Nodes /\ status[n] = "pending"
  BY DEF NextBatch, AtLoopTop, Available
<1>5. /\ graph.deps \in [Nodes -> SUBSET Nodes] /\ status \in [Nodes -> NodeStatuses]
  BY GraphFacts DEF IInv, StatusType
<1>6. ASSUME graph.soft = {}
      PROVE  \A n \in Nodes : /\ n \in started => status'[n] = "running" /\ status[n] = "pending"
                              /\ n \notin started => status'[n] = status[n]
  <2>1. unready = {}
    BY <1>6, BatchBlocksNothing
  <2> QED
    BY <1>3, <1>4, <2>1 DEF Batch
<1>7. BlockedExactly'
  <2> SUFFICES ASSUME graph.soft = {}
               PROVE  \A n \in Nodes : /\ n \in blockedNodes <=> graph.deps[n] \cap Bad' # {}
                                       /\ status'[n] = "blocked" => n \in blockedNodes
    BY <1>4 DEF BlockedExactly
  <2>1. Bad' = Bad
    BY <1>4, <1>6 DEF Bad, WithStatus
  <2> QED
    BY <1>6, <2>1 DEF ExactInv, BlockedExactly
<1>8. NothingLeft'
  <2> SUFFICES ASSUME phase' = "finished", graph.soft = {}, Acyclic
               PROVE  \A n \in Nodes : n \in blockedNodes \/ status'[n] \in Over
    BY <1>4 DEF NothingLeft, Acyclic
  <2>1. /\ selected = {} /\ queue \o waiting = <<>>
        /\ tried = {n \in Available :
                      Cardinality({m \in selected : Before(order, m, n)}) < GlobalLimit}
    BY <1>3, <1>4 DEF Batch
  <2>2. queue = <<>> /\ waiting = <<>>
    <3>1. tried \ selected \in SUBSET Nodes /\ waiting \in Filtered(order, tried \ selected)
      BY <1>3, <1>4 DEF Batch
    <3>2. waiting \in Seq(Nodes) /\ queue \in Seq(Nodes)
      BY <3>1, FilteredFacts, SeqMonotonic DEF LoopInv, QueueInv
    <3> QED
      BY <2>1, <3>2, ConcatEmptySeq
  <2>3. Available = {} /\ Queued = {}
    <3>1. tried = {}
      <4>1. tried \ selected \in SUBSET Nodes /\ <<>> \in Filtered(order, tried \ selected)
        BY <1>3, <1>4, <2>2 DEF Batch
      <4>2. tried \ selected = {}
        BY <4>1, FilteredFacts
      <4> QED
        BY <2>1, <4>2
    <3>2. ASSUME NEW n PROVE Cardinality({m \in selected : Before(order, m, n)}) < GlobalLimit
      <4>1. {m \in selected : Before(order, m, n)} = {}
        BY <2>1
      <4>2. Cardinality({m \in selected : Before(order, m, n)}) = 0
        BY <4>1, FS_EmptySet
      <4>3. 0 < GlobalLimit
        BY DagAssumption
      <4> QED
        BY <4>2, <4>3
    <3>3. \A n : Cardinality({m \in selected : Before(order, m, n)}) < GlobalLimit
      BY <3>2
    <3> QED
      BY <2>1, <2>2, <3>1, <3>3 DEF Queued
  <2> DEFINE S == {n \in Nodes : n \notin blockedNodes /\ status[n] \notin Over}
  <2>4. S = {}
    <3> SUFFICES ASSUME S # {} PROVE FALSE
      OBVIOUS
    <3>1. PICK n \in S : graph.deps[n] \cap S = {}
      BY DEF Acyclic
    <3>2. \A d \in graph.deps[n] : d \in Nodes /\ d \notin Bad
      BY <1>5, <3>1 DEF ExactInv, BlockedExactly
    <3>3. \A d \in graph.deps[n] : status[d] = "completed"
      BY <3>1, <3>2 DEF Bad, WithStatus, Over
    <3>4. status[n] = "pending"
      BY <1>4, <1>5, <3>1 DEF ExactInv, BlockedExactly, NodeStatuses, Over, Running, WithStatus
    <3> QED
      BY <2>3, <3>3, <3>4 DEF Available, DepsMet
  <2> QED
    BY <1>6, <2>4, <2>1 DEF Over
<1> QED
  BY <1>7, <1>8 DEF ExactInv

\* The end of a node blocks what its failure reaches, and nothing by the queue.
LEMMA FinishKeepsExact ==
    ASSUME IInv, LoopInv, ExactInv, NEW n \in Nodes, NEW outcome \in Over, Finish(n, outcome)
    PROVE  ExactInv'
<1> DEFINE blocked == IF outcome = "failed" THEN BlockedBy(n) ELSE {}
           failed == WithStatus({"failed"}) \cup (IF outcome = "failed" THEN {n} ELSE {})
           refused == {q \in Queued \ graph.soft : graph.deps[q] \cap failed # {}}
           C == (Nodes \ (WithStatus(Over) \cup blockedNodes)) \ graph.soft
<1>1. /\ phase = "running" /\ phase' = phase /\ graph' = graph /\ status[n] = "running"
      /\ status' = [m \in Nodes |-> IF m = n THEN outcome
                                    ELSE IF m \in blocked \cup refused THEN "blocked"
                                    ELSE status[m]]
      /\ blockedNodes' = blockedNodes \cup blocked \cup refused
  BY DEF Finish
<1>2. NothingLeft'
  BY <1>1 DEF NothingLeft
<1> SUFFICES ASSUME graph.soft = {}
             PROVE  \A m \in Nodes : /\ m \in blockedNodes' <=> graph.deps[m] \cap Bad' # {}
                                     /\ status'[m] = "blocked" => m \in blockedNodes'
  BY <1>1, <1>2 DEF ExactInv, BlockedExactly
<1>3. refused = {}
  <2> SUFFICES ASSUME NEW q \in Queued, NEW d \in graph.deps[q], d \in failed PROVE FALSE
    OBVIOUS
  <2>1. status[d] = "completed"
    BY DEF LoopInv, QueueInv, DepsMet
  <2> QED
    BY <1>1, <2>1 DEF WithStatus
<1>4. /\ graph.deps \in [Nodes -> SUBSET Nodes] /\ status \in [Nodes -> NodeStatuses]
  BY GraphFacts DEF IInv, StatusType
<1>5. blocked = IF outcome = "failed" THEN Downstream(n, C) ELSE {}
  BY DEF BlockedBy
<1>6. \A m \in blocked : m \in Nodes /\ m \notin blockedNodes /\ status[m] \notin Over
  BY <1>5, DownstreamReached DEF WithStatus
<1> HIDE DEF refused, blocked, C
<1>7. Bad' = IF outcome = "failed" THEN Bad \cup {n} \cup blocked ELSE Bad
  <2>1. blockedNodes' = blockedNodes \cup blocked
    BY <1>1, <1>3
  <2>2. WithStatus({"failed"})' = WithStatus({"failed"})
                                  \cup (IF outcome = "failed" THEN {n} ELSE {})
    BY <1>1, <1>3, <1>4, <1>6 DEF WithStatus, Over
  <2> QED
    BY <2>1, <2>2, <1>5 DEF Bad
<1>8. ASSUME NEW m \in Nodes PROVE m \in blockedNodes' <=> graph.deps[m] \cap Bad' # {}
  <2>1. m \in blockedNodes <=> graph.deps[m] \cap Bad # {}
    BY DEF ExactInv, BlockedExactly
  <2>2. m \in blockedNodes' <=> m \in blockedNodes \/ m \in blocked
    BY <1>1, <1>3
  <2>3. CASE outcome # "failed"
    BY <1>5, <1>7, <2>1, <2>2, <2>3
  <2>4. CASE outcome = "failed"
    <3>1. m \in blocked => graph.deps[m] \cap (blocked \cup {n}) # {}
      BY <1>5, <2>4, DownstreamReached
    <3>2. ASSUME graph.deps[m] \cap (blocked \cup {n}) # {}
          PROVE  m \in blockedNodes \/ m \in blocked
      <4>1. PICK d \in graph.deps[m] : d \in blocked \/ d = n
        BY <3>2
      <4>2. status[d] \notin Over
        BY <1>1, <1>6, <4>1 DEF Over
      <4>3. status[m] \notin Over
        BY <4>1, <4>2 DEF IInv, StartedReady, WithStatus, Over
      <4>4. CASE m \in blockedNodes
        BY <4>4
      <4>5. CASE m \notin blockedNodes
        <5>1. m \in C
          BY <4>3, <4>5 DEF C, WithStatus
        <5> QED
          BY <1>5, <2>4, <3>2, <5>1, DownstreamClosed
      <4> QED
        BY <4>4, <4>5
    <3> QED
      BY <1>7, <2>1, <2>2, <2>4, <3>1, <3>2
  <2> QED
    BY <2>3, <2>4
<1>9. ASSUME NEW m \in Nodes, status'[m] = "blocked" PROVE m \in blockedNodes'
  BY <1>1, <1>3, <1>9 DEF ExactInv, BlockedExactly, Over
<1> QED
  BY <1>8, <1>9

LEMMA NextKeepsExact == IInv /\ LoopInv /\ ExactInv /\ [Next]_vars => ExactInv'
<1> SUFFICES ASSUME IInv, LoopInv, ExactInv, [Next]_vars PROVE ExactInv'
  OBVIOUS
<1>1. ASSUME UNCHANGED <<graph, status, blockedNodes>> PROVE BlockedExactly'
  BY <1>1 DEF ExactInv, BlockedExactly, Bad, WithStatus
<1>2. ASSUME UNCHANGED <<graph, status, blockedNodes, phase>> PROVE NothingLeft'
  BY <1>2 DEF ExactInv, NothingLeft, Acyclic
<1>3. CASE LoopEnds
  <2>1. /\ Nodes = WithStatus(Over) \cup blockedNodes
        /\ UNCHANGED <<graph, status, blockedNodes>>
    BY <1>3 DEF LoopEnds, IsComplete
  <2>2. NothingLeft'
    BY <2>1 DEF NothingLeft, WithStatus
  <2> QED
    BY <1>1, <2>1, <2>2 DEF ExactInv
<1>4. CASE NextBatch
  BY <1>4, BatchKeepsExact
<1>5. ASSUME NEW n \in Nodes, Ends(n) PROVE ExactInv'
  BY <1>5, FinishKeepsExact DEF Ends
<1>6. ASSUME NEW a \in Artifacts, ExpireLock(a) PROVE ExactInv'
  BY <1>1, <1>2, <1>6 DEF ExpireLock, ExactInv
<1>7. CASE UNCHANGED vars
  BY <1>1, <1>2, <1>7 DEF vars, ExactInv
<1> QED
  BY <1>3, <1>4, <1>5, <1>6, <1>7 DEF Next

\* In a graph of hard dependencies without a cycle the result is exact: what is
\* reported blocked is what a failure reaches, and everything else has ended.
THEOREM ResultExact == Spec => [](Acyclic => ResultIsExact)
<1>1. ExactInv => (Acyclic => ResultIsExact)
  BY DEF ExactInv, BlockedExactly, NothingLeft, ResultIsExact, Bad
<1> QED
  BY <1>1, InitExact, NextKeepsExact, Invariance, LoopInvariance, PTL DEF Spec

=============================================================================
