---------------------------- MODULE MCHookControl ----------------------------
EXTENDS HookControl, TLC

CONSTANTS k1, k2, r1, r2

Symmetric == Permutations(Keys) \cup Permutations(Rpcs)
=============================================================================
