----------------------------- MODULE MCSetupGate -----------------------------
EXTENDS SetupGate, TLC

CONSTANTS r1, r2, app, openApp

\* One named scope and one mapped capability: what has no key, or is simple,
\* has the unknown scope, with the capability or without.
MCScopeOf == openApp :> app
Symmetry == Permutations(Actors)
=============================================================================
