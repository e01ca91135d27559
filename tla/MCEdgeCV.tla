------------------------------ MODULE MCEdgeCV ------------------------------
(***************************************************************************)
(* Small instances of EdgeCV for TLC.                                      *)
(***************************************************************************)
EXTENDS EdgeCVClaims, TLC

CONSTANTS d1, d2, t1, t2

\* d1 runs only t1, d2 runs both.
MCRuns == [d \in Device |-> IF d = d1 THEN {t1} ELSE Tasks]

\* One slot on d1, two on the others.
MCMixedSlots == [d \in Device |-> IF d = d1 THEN 1 ELSE 2]
=============================================================================
