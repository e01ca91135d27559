------------------------- MODULE RevisionLifecycle -------------------------
(* What the standard's code promises about the revisions of one SKU, whatever
   requests, crashes and databases do: a revision is drafted, made the active
   standard, and retired by a successor; it is published only once it has been
   active, and put on probation only once it is published.  Standard implements
   this module. *)
CONSTANT Rev
VARIABLES stage,      \* of each revision: "none", "draft", "active", "archived"
          standing    \* of each revision: "unpublished", "published", "probation"

lifecycle == <<stage, standing>>

LifecycleTypeOK ==
    /\ stage \in [Rev -> {"none", "draft", "active", "archived"}]
    /\ standing \in [Rev -> {"unpublished", "published", "probation"}]

LifecycleInit ==
    /\ stage = [r \in Rev |-> "none"]
    /\ standing = [r \in Rev |-> "unpublished"]

Draft(r) ==
    /\ stage[r] = "none"
    /\ stage' = [stage EXCEPT ![r] = "draft"]
    /\ UNCHANGED standing

\* A successor becomes active and at most one revision makes room for it.
Activate(r) ==
    /\ stage[r] = "draft"
    /\ \/ stage' = [stage EXCEPT ![r] = "active"]
       \/ \E p \in Rev \ {r} :
             /\ stage[p] \in {"active", "archived"}
             /\ stage' = [stage EXCEPT ![r] = "active", ![p] = "archived"]
    /\ UNCHANGED standing

Publish(r) ==
    /\ stage[r] \in {"active", "archived"}
    /\ standing[r] = "unpublished"
    /\ standing' = [standing EXCEPT ![r] = "published"]
    /\ UNCHANGED stage

EnterProbation(r) ==
    /\ standing[r] = "published"
    /\ standing' = [standing EXCEPT ![r] = "probation"]
    /\ UNCHANGED stage

LifecycleNext ==
    \E r \in Rev : Draft(r) \/ Activate(r) \/ Publish(r) \/ EnterProbation(r)

LifecycleSpec == LifecycleInit /\ [][LifecycleNext]_lifecycle
=============================================================================
