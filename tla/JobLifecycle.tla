----------------------------- MODULE JobLifecycle -----------------------------
(***************************************************************************)
(* What the runtime queue promises of each job to those who watch it: the  *)
(* statuses it may go through and when an execution of it is supervised.   *)
(* Module RuntimeQueue implements it; module TaskReconciliation builds on  *)
(* it and needs no more of the queue than this.                            *)
(***************************************************************************)
CONSTANTS Jobs

VARIABLE life   \* of each job: its status, and whether an execution is supervised

Statuses == {"absent", "pending", "running", "retrying",
             "completed", "failed", "cancelled", "dead"}

Life == [status : Statuses, supervised : BOOLEAN]

At(s, b) == [status |-> s, supervised |-> b]

Waiting(r) == r.status \in {"pending", "retrying"} /\ ~r.supervised

\* Where each kind of event may take a job.
Enqueued(r) == IF r.status = "absent" THEN {At("pending", FALSE)} ELSE {}

Started(r) == IF Waiting(r) THEN {At("running", TRUE)} ELSE {}

\* no handler is registered for its type
Refused(r) == IF Waiting(r) THEN {At("dead", FALSE)} ELSE {}

\* success is dropped when the job was cancelled meanwhile ...
Succeeded(r) ==
    IF ~r.supervised THEN {}
    ELSE IF r.status = "running" THEN {At("completed", FALSE)}
    ELSE {At(r.status, FALSE)}

\* ... and failure is not
Failed(r) ==
    IF r.supervised THEN {At(s, FALSE) : s \in {"retrying", "failed", "dead"}} ELSE {}

Cancelled(r) ==
    IF r.status \in {"absent", "completed", "dead"} THEN {}
    ELSE {[r EXCEPT !.status = "cancelled"]}

\* A restart goes back to some snapshot: dead jobs are in none, and running
\* ones wait again.
Restored(r) ==
    IF r.status = "absent" THEN {r}
    ELSE {At(s, FALSE) :
             s \in {"absent", "pending", "retrying", "completed", "failed", "cancelled"}}

Moves(r) ==
    Enqueued(r) \cup Started(r) \cup Refused(r) \cup Succeeded(r) \cup Failed(r)
        \cup Cancelled(r)

-----------------------------------------------------------------------------
Init == life = [j \in Jobs |-> At("absent", FALSE)]

\* One tick of the poll interval may move several jobs.
Work ==
    /\ life' \in [Jobs -> Life]
    /\ \A j \in Jobs : life'[j] \in Moves(life[j]) \cup {life[j]}

Restart ==
    /\ life' \in [Jobs -> Life]
    /\ \A j \in Jobs : life'[j] \in Restored(life[j])

Next == Work \/ Restart

Spec == Init /\ [][Next]_life
=============================================================================
