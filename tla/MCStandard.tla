----------------------------- MODULE MCStandard -----------------------------
EXTENDS Standard, TLC
Requests == Permutations(Worker)
=============================================================================
