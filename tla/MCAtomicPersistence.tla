------------------------- MODULE MCAtomicPersistence -------------------------
(* Three contents are enough to tell the old, the backed-up and the new one. *)
EXTENDS AtomicPersistence

CONSTANTS v1, v2, v3

MCValues == {v1, v2, v3}
==============================================================================
