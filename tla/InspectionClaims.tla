-------------------------- MODULE InspectionClaims --------------------------
(* Statements the repository makes about the inspection flow that the code *)
(* does not keep: no run lists them, TLC refutes each on the instance of   *)
(* the report run; README.md tells the counterexamples.                    *)
EXTENDS Inspection

\* inspection/probation_bridge.py:12-13, "the human final verdict is the
\* operator-reviewed final report": a recorded pair belongs to a job whose
\* results an operator reviewed.
HumanVerdictIsReviewed ==
  \A j \in Ref : rows[j] # NoRow => \A p \in Point : source[j][p] = "operator"

\* api/pad_router.py:953-954, "the operator flow can never finalize a pass
\* from model-only results": a pass the Pad flow counts as the human verdict
\* was reviewed point by point.
PadPassIsReviewed ==
  \A j \in Ref : rows[j] # NoRow /\ rows[j].human = "pass" =>
    \A p \in Point : source[j][p] = "operator"

\* api/pad_router.py:783-784, 409 "inspection job already finalized": no new
\* AI suggestion is stored for a job that has its report.
NoSuggestionAfterReport ==
  [][\A j \in Ref : job[j] \in Verdict => ai'[j] \in {ai[j], "none"}]_inspVars
=============================================================================
