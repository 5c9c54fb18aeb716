----------------------------- MODULE MCHookOutbox -----------------------------
EXTENDS HookOutboxSpec, TLC

CONSTANTS k1, k2, k3, r1, r2

Symmetric == Permutations(Keys) \cup Permutations(Callers \ {Deliverer})
=============================================================================
