------------------------------ MODULE Learning ------------------------------
(* Detection-point proposals of a training pack: drafted by a learning job
   (src/src/qc_model/learning/service.py) or by an authoring job over source
   fragments (authoring/service.py), reviewed by a supervisor through either
   service, and applied as detection points (learning/apply.py).

   A request that waits for a model provider is split at its commits, and apply
   between its read and its commit; the other requests are one short
   transaction, and one step. *)
EXTENDS Naturals, Sequences, FiniteSets

CONSTANTS
    LearnJob, AuthorJob,  \* jobs of either kind
    Prop,                 \* proposals
    Category,             \* checkpoint categories in play
    Role,                 \* AI roles a model may answer
    Applier               \* apply requests in flight at a time

Physical == "physical_measurement"
RecordOnly == "record_only"
Unresolved == ""          \* category of an authored proposal the guard blanked

ASSUME LearnAssumption ==
    /\ Physical \in Category /\ RecordOnly \in Role
    /\ Category \subseteq {"visual_defect", Physical, "rule_verification", "subjective_judgment"}
    /\ Unresolved \in Role

VARIABLES
    ljob,       \* status of each job; "none" before it is created
    asking,     \* learning jobs with a request waiting for the provider
    prop,       \* the proposals
    points,     \* detection points made of each proposal
    applying    \* what each apply request has read, or Idle

learnVars == <<ljob, asking, prop, points, applying>>

LearnStatus == {"draft", "input_ready", "running", "proposed", "reviewing",
                "partially_approved", "approved", "rejected", "applied", "failed"}
AuthorStatus == {"running", "completed", "failed"}
Confirmed == {"approved", "applied"}
AnyRole == Role \union {RecordOnly, "primary_visual_judge", "information_extraction", "assistant_only"}
Proposal == [job : LearnJob \union AuthorJob \union {"none"}, cat : Category \union {Unresolved},
             role : AnyRole,
             status : {"absent", "proposed", "approved", "rejected", "applied"}, point : BOOLEAN]
NoProp == [job |-> "none", cat |-> Unresolved, role |-> RecordOnly, status |-> "absent", point |-> FALSE]
NoApply == [job |-> "none", seen |-> <<>>]

LearnInit ==
    /\ ljob = [j \in LearnJob \union AuthorJob |-> "none"]
    /\ asking = {}
    /\ prop = [p \in Prop |-> NoProp]
    /\ points = [p \in Prop |-> <<>>]
    /\ applying = [a \in Applier |-> NoApply]

----------------------------------------------------------------------------
(* Helpers *)
Made == {p \in Prop : prop[p].status # "absent"}
Of(j) == {p \in Made : prop[p].job = j}

\* default_ai_role
DefaultRole(c) ==
    CASE c = "visual_defect"       -> "primary_visual_judge"
      [] c = "rule_verification"   -> "information_extraction"
      [] c = "subjective_judgment" -> "assistant_only"
      [] OTHER                     -> RecordOnly

\* _refresh_job_status: the status of a job whose proposals are as in q
JobStatus(q, ps, old) ==
    LET statuses == {q[p].status : p \in ps} IN
    CASE ps = {}                            -> old
      [] ps # {} /\ statuses = {"applied"}  -> "applied"
      [] "rejected" \in statuses /\ statuses \intersect Confirmed = {} -> "rejected"
      [] statuses \intersect Confirmed # {} /\ ~ statuses \subseteq Confirmed -> "partially_approved"
      [] statuses \subseteq Confirmed /\ statuses # {"applied"} /\ ps # {} -> "approved"
      [] OTHER                              -> "reviewing"

\* what a job of either kind adds: fresh proposals with the model's category and role
Draft(j, S, cat, role) ==
    prop' = [p \in Prop |-> IF p \in S
                THEN [job |-> j, cat |-> cat[p], role |-> role[p], status |-> "proposed", point |-> FALSE]
                ELSE prop[p]]

----------------------------------------------------------------------------
(* Learning jobs *)
CreateJob(j) ==
    /\ ljob[j] = "none"
    /\ ljob' = [ljob EXCEPT ![j] = "draft"]
    /\ UNCHANGED <<asking, prop, points, applying>>

\* add_operator_requirement, add_sample_refs
AddInput(j) ==
    /\ ljob[j] = "draft"
    /\ ljob' = [ljob EXCEPT ![j] = "input_ready"]
    /\ UNCHANGED <<asking, prop, points, applying>>

\* run_learning on a runtime the policy refuses
RejectRuntime(j) ==
    /\ ljob[j] # "none"
    /\ ljob' = [ljob EXCEPT ![j] = "failed"]
    /\ UNCHANGED <<asking, prop, points, applying>>

\* run_learning asks the status of nothing: a job may run again at any time
StartRun(j) ==
    /\ ljob[j] # "none" /\ j \notin asking
    /\ ljob' = [ljob EXCEPT ![j] = "running"]
    /\ asking' = asking \union {j}
    /\ UNCHANGED <<prop, points, applying>>

\* the provider's answer: validate_response puts the category's own role in the
\* place of whatever role came with it
FinishRun(j, S, cat) ==
    /\ j \in asking
    /\ asking' = asking \ {j}
    /\ Draft(j, S, cat, [p \in S |-> DefaultRole(cat[p])])
    /\ ljob' = [ljob EXCEPT ![j] = "proposed"]
    /\ UNCHANGED <<points, applying>>

FailRun(j) ==
    /\ j \in asking
    /\ asking' = asking \ {j}
    /\ ljob' = [ljob EXCEPT ![j] = "failed"]
    /\ UNCHANGED <<prop, points, applying>>

\* the process dies while the provider is asked: the job stays as it was committed
DieAsking(j) ==
    /\ j \in asking
    /\ asking' = asking \ {j}
    /\ UNCHANGED <<ljob, prop, points, applying>>

----------------------------------------------------------------------------
(* Authoring jobs *)
StartAuthoring(j) ==
    /\ ljob[j] = "none"
    /\ ljob' = [ljob EXCEPT ![j] = "running"]
    /\ UNCHANGED <<asking, prop, points, applying>>

\* _validate_one: whatever role the model answers, but for a measurement
Guarded(cat, role) == IF cat = Physical THEN RecordOnly ELSE role

FinishAuthoring(j, S, cat, role) ==
    /\ ljob[j] = "running"
    /\ Draft(j, S, cat, [p \in S |-> Guarded(cat[p], role[p])])
    /\ ljob' = [ljob EXCEPT ![j] = "completed"]
    /\ UNCHANGED <<asking, points, applying>>

FailAuthoring(j) ==
    /\ ljob[j] = "running"
    /\ ljob' = [ljob EXCEPT ![j] = "failed"]
    /\ UNCHANGED <<asking, prop, points, applying>>

----------------------------------------------------------------------------
(* Review *)

\* r with category c, and that category's role; Unresolved leaves it alone
Edited(r, c) ==
    IF c = Unresolved THEN r ELSE [r EXCEPT !.cat = c, !.role = DefaultRole(c)]

\* approve_proposals looks at no status; edit gives each proposal a category
ApproveProposals(j, S, edit) ==
    /\ S # {} /\ S \subseteq Of(j)
    /\ prop' = [p \in Prop |-> IF p \in S
                  THEN [Edited(prop[p], edit[p]) EXCEPT !.status = "approved"] ELSE prop[p]]
    /\ ljob' = [ljob EXCEPT ![j] = JobStatus(prop', Of(j), @)]
    /\ UNCHANGED <<asking, points, applying>>

RejectProposals(j, S) ==
    /\ S # {} /\ S \subseteq Of(j)
    /\ prop' = [p \in Prop |-> IF p \in S THEN [prop[p] EXCEPT !.status = "rejected"] ELSE prop[p]]
    /\ ljob' = [ljob EXCEPT ![j] = JobStatus(prop', Of(j), @)]
    /\ UNCHANGED <<asking, points, applying>>

\* the authoring service's approve_proposal takes any proposal, of a learning
\* job too, and refreshes no job
ApproveOne(p, cat) ==
    /\ p \in Made
    /\ prop' = [prop EXCEPT ![p] = [Edited(@, cat) EXCEPT !.status = "approved"]]
    /\ UNCHANGED <<ljob, asking, points, applying>>

RejectOne(p) ==
    /\ p \in Made
    /\ prop' = [prop EXCEPT ![p].status = "rejected"]
    /\ UNCHANGED <<ljob, asking, points, applying>>

----------------------------------------------------------------------------
(* Apply *)
\* apply_approved_rules reads the job's proposals ...
BeginApply(a, j) ==
    /\ applying[a] = NoApply /\ ljob[j] # "none"
    /\ applying' = [applying EXCEPT ![a] = [job |-> j, seen |-> [p \in Of(j) |-> prop[p]]]]
    /\ UNCHANGED <<ljob, asking, prop, points>>

\* Mutant: only the status tells that a proposal was applied.
AppliesByStatus(r) == r.status = "approved"

\* ... and applies those approved that have given no detection point yet
Applies(r) == r.status = "approved" /\ ~ r.point

CommitApply(a) ==
    /\ applying[a] # NoApply
    /\ LET seen == applying[a].seen
           todo == {p \in DOMAIN seen : Applies(seen[p])} IN
       /\ prop' = [p \in Prop |-> IF p \in todo
                      THEN [prop[p] EXCEPT !.status = "applied", !.point = TRUE] ELSE prop[p]]
       /\ points' = [p \in Prop |-> IF p \in todo
                      THEN Append(points[p], [cat |-> seen[p].cat, role |-> seen[p].role]) ELSE points[p]]
       /\ LET done == DOMAIN seen # {}
                      /\ \A p \in DOMAIN seen : p \in todo \/ seen[p].status = "applied" IN
          ljob' = [ljob EXCEPT ![applying[a].job] = IF done THEN "applied" ELSE @]
    /\ applying' = [applying EXCEPT ![a] = NoApply]
    /\ UNCHANGED asking

LearnNext ==
    \/ \E j \in LearnJob :
        \/ CreateJob(j) \/ AddInput(j) \/ RejectRuntime(j)
        \/ StartRun(j) \/ FailRun(j) \/ DieAsking(j)
        \/ \E S \in SUBSET (Prop \ Made) : \E cat \in [S -> Category] : FinishRun(j, S, cat)
        \/ \E S \in SUBSET Of(j) :
            \/ \E edit \in [S -> Category \union {Unresolved}] : ApproveProposals(j, S, edit)
            \/ RejectProposals(j, S)
        \/ \E a \in Applier : BeginApply(a, j)
    \/ \E j \in AuthorJob :
        \/ StartAuthoring(j) \/ FailAuthoring(j)
        \/ \E S \in SUBSET (Prop \ Made) :
            \E cat \in [S -> Category \union {Unresolved}], role \in [S -> Role] :
                FinishAuthoring(j, S, cat, role)
    \/ \E p \in Prop : RejectOne(p) \/ \E cat \in Category \union {Unresolved} : ApproveOne(p, cat)
    \/ \E a \in Applier : CommitApply(a)

LearnSpec == LearnInit /\ [][LearnNext]_learnVars

----------------------------------------------------------------------------
(* Properties *)
\* Every job, proposal and request keeps its type.
LearnTypeOK ==
    /\ ljob \in [LearnJob \union AuthorJob -> {"none"} \union LearnStatus \union AuthorStatus]
    /\ asking \subseteq LearnJob
    /\ prop \in [Prop -> Proposal]
    /\ points \in [Prop -> Seq([cat : Category \union {Unresolved}, role : AnyRole])]
    /\ \A a \in Applier : applying[a] # NoApply =>
         /\ applying[a].job \in LearnJob
         /\ \A p \in DOMAIN applying[a].seen :
              p \in Made /\ prop[p].job = applying[a].job /\ applying[a].seen[p] \in Proposal

\* learning/apply.py, "Applying is idempotent": however often a proposal is
\* rejected, approved again and applied again, through either service and while
\* the one apply request is under way, it gives one detection point and says so.
PointIsOnce ==
    \A p \in Prop :
        /\ Len(points[p]) = IF prop[p].point THEN 1 ELSE 0
        /\ prop[p].status = "applied" => prop[p].point

\* validator.py and approve_proposals: no proposal and no detection point of a
\* physical measurement has an AI role, whatever order of drafting, editing and
\* applying it went through.
PhysicalIsRecordOnly ==
    /\ \A p \in Made : prop[p].cat = Physical => prop[p].role = RecordOnly
    /\ \A p \in Prop : \A i \in DOMAIN points[p] :
         points[p][i].cat = Physical => points[p][i].role = RecordOnly
=============================================================================
