--------------------------- MODULE MCCompositePlan ---------------------------
(* "Download x and open it", a chain of two steps without validation, and    *)
(* "download x", one step whose validation is critical, or "run x", one      *)
(* whose validation is not.                                                  *)
EXTENDS CompositePlan

MCRequests ==
    {[n |-> 2, checked |-> {}, critical |-> {}],
     [n |-> 1, checked |-> {1}, critical |-> {1}],
     [n |-> 1, checked |-> {1}, critical |-> {}]}

\* Queued, or at once by the request: past failures, or with one retry and
\* no partial completion.
MCOptions ==
    {Defaults,
     [direct |-> TRUE, stop |-> FALSE, partial |-> TRUE, tries |-> 1],
     [direct |-> TRUE, stop |-> TRUE, partial |-> FALSE, tries |-> 2]}
==============================================================================
