--------------------------- MODULE MCProbationTx ---------------------------
(* ProbationTx on a handful of jobs, one request at a time.                *)
EXTENDS ProbationTx, TLC

MCSymmetry == Permutations(Ref) \union Permutations(Worker)
=============================================================================
