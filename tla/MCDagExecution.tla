--------------------------- MODULE MCDagExecution ---------------------------
(* Every graph of three nodes numbered in topological order, of which the    *)
(* second and the third compete for the one install slot, over two artifacts *)
(* of which a node may need the first or both.                               *)
EXTENDS DagExecution, TLC

MCNodes == 1..3
MCArtifacts == {"x", "y"}
MCSlotTypes == {"local", "install"}
MCLimit == "local" :> 2 @@ "install" :> 1
MCUses == [n \in MCNodes |-> IF n = 1 THEN {"local"} ELSE {"local", "install"}]
MCDeps == {d \in [MCNodes -> SUBSET MCNodes] : \A n \in MCNodes : d[n] \subseteq 1..(n - 1)}
MCNeeds == [MCNodes -> {{}, {"x"}, {"x", "y"}}]

\* dependencyType stays hard for a node without dependencies.
MCGraphs ==
    {g \in [deps : MCDeps, soft : SUBSET {2, 3}, needs : MCNeeds,
            writers : SUBSET MCNodes, uses : {MCUses}] :
        /\ \A n \in g.soft : g.deps[n] # {}
        /\ \A n \in g.writers : g.needs[n] # {}}

\* What the graph builder makes of "edit f, search the web, edit f".
EditTwice ==
    {[deps |-> [n \in MCNodes |-> {}], soft |-> {},
      needs |-> [n \in MCNodes |-> IF n = 2 THEN {} ELSE {"x"}], writers |-> {1, 3},
      uses |-> [n \in MCNodes |-> {"local"}]]}
=============================================================================
