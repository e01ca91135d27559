--------------------------- MODULE VerdictClaims ---------------------------
(* Statements the repository makes about the verdict flow: what holds of   *)
(* them without crashes, and what the code does not keep.                  *)
EXTENDS Verdict

\* recompute.py:31-33, "a fail can never be relaxed to a pass", and :153, of
\* the results of a duplicated checkpoint "keep the worst": no submission
\* with a failed result gets a pass.
FailNeverPasses ==
  \A r \in Ref : server[r] = "pass" =>
    \A i \in DOMAIN sub[r].cps : sub[r].cps[i].res # "fail"

\* qc_verdict_router.py:124-128, 409 for a Pad submission whose decision is
\* not the recorded one: only the Results page replaces a decision.
OnlyResultsPageAmends ==
  [][\A r \in Ref : decision[r] # "none" /\ decision'[r] # decision[r] =>
       deciding' = deciding]_subVars

\* The flow of a revision whose probation nobody pauses: Pads work with it
\* once publishing has started the probation.
OnProbationNext ==
  \/ TxStart /\ UNCHANGED subVars
  \/ pStatus # "none" /\ Requests

\* A request handler that is not stopped by a crash runs on to its end.
OnProbationSpec ==
  /\ VInit
  /\ [][OnProbationNext]_vVars
  /\ \A x \in Request :
       WF_vVars(Decide(x)) /\ WF_vVars(Skip(x)) /\ WF_vVars(\E w \in Worker : Count(w, x))
  /\ \A w \in Worker : WF_vVars(Commit(w)) /\ WF_vVars(Refused(w))

\* docs/api-contracts/probation-api.md:64, the final decision "records the
\* human verdict and advances active probation exactly once": a decision on a
\* job of a revision on active probation is counted, or comes after the
\* revision qualified.
DecisionAdvancesProbation ==
  \A r \in Ref :
    (decision[r] # "none" /\ pStatus = "active" /\ sub[r].known)
      ~> (rows[r] # NoRow \/ pStatus = "qualified")
=============================================================================
