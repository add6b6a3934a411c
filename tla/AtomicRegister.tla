--------------------------- MODULE AtomicRegister ---------------------------
(***************************************************************************)
(* What the callers of shared/atomic-persistence.ts rely on: a file is one *)
(* register.  A write takes effect as a whole, at the moment it succeeds,  *)
(* or not at all; a failed write and a crash are steps that change nothing.*)
(***************************************************************************)
CONSTANTS Values, None

VARIABLES
    value,   \* what a read returns
    acked    \* the last value whose write was reported successful

vars == <<value, acked>>

Init == value = None /\ acked = None

Write(v) == value' = v /\ acked' = v

Next == \E v \in Values : Write(v)

Spec == Init /\ [][Next]_vars
=============================================================================
