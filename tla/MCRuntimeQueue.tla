--------------------------- MODULE MCRuntimeQueue ---------------------------
(* Values for TLC: three error categories with the code's budgets scaled    *)
(* down (default 3, transient 5, unknown 1, validation 0 become 1, 2, 1, 0) *)
(* and the order between them kept.                                         *)
EXTENDS RuntimeQueue, TLC

CONSTANTS j1, j2, j3

MCCategories == {"transient", "validation", "unknown"}
MCTwoCategories == {"validation", "unknown"}
MCNonRetryable == {"validation"}
MCBudget == "transient" :> 2 @@ "validation" :> 0 @@ "unknown" :> 1
MCMaxRetries == [c \in Categories |-> MCBudget[c]]

TwoJobs == {j1, j2}
ThreeJobs == {j1, j2, j3}
\* j1 and j2 are of normal priority, j3 is high
MCWeight == [j \in Jobs |-> IF j = j3 THEN 1 ELSE 2]
NoneUnhandled == Jobs
J2Unhandled == Jobs \ {j2}
=============================================================================
