---------------------------- MODULE MCInspection ----------------------------
(* The inspection flow on one or two jobs and one or two points.           *)
EXTENDS InspectionClaims, TLC

MCSymmetry == Permutations(Point) \union Permutations(Worker)
=============================================================================
