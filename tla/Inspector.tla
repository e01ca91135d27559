----------------------------- MODULE Inspector ------------------------------
(***************************************************************************)
(* The digital inspector library: the inspector's lifecycle and exam, the  *)
(* categories of its training pack's detection points, and an inspection   *)
(* that asks a vision model and is finalized by rule.  A caller keeps the  *)
(* inspector and the pack it called with while feedback makes new ones.    *)
(***************************************************************************)
EXTENDS Naturals, Sequences, FiniteSets

CONSTANTS
  DetPoint,    \* detection points of the pack
  Critical,    \* those with critical severity
  Proves,      \* those whose verdict needs evidence
  Responses    \* what a provider may answer: [valid, items, acceptable, issues, incidental]

VARIABLES
  inspector,   \* [status, requalify]
  exam,        \* the outcome the inspector last moved by
  pack,        \* [playbook, reference, protocol, category]: category by point
  classified,  \* the stored classification of each point
  call,        \* the inspection under way: what its caller passed
  given        \* its result, with what it was made of

inspectorVars == <<inspector, exam, pack, classified, call, given>>

Supported == {"visual_defect", "physical_measurement", "rule_verification", "subjective_judgment"}
Unconfirmed == "unconfirmed"
NoCall == [status |-> "none", points |-> [p \in {} |-> ""], reason |-> ""]
NoneGiven == [call |-> NoCall, response |-> [valid |-> FALSE], overall |-> "none",
              results |-> [p \in {} |-> ""], human |-> FALSE]

InspectorInit ==
  /\ inspector = [status |-> "draft", requalify |-> FALSE] /\ exam = "none"
  /\ pack = [playbook |-> FALSE, reference |-> FALSE, protocol |-> FALSE,
             category |-> [p \in DetPoint |-> Unconfirmed]]
  /\ classified = [p \in DetPoint |-> [proposed |-> "none", confirmed |-> Unconfirmed]]
  /\ call = NoCall /\ given = NoneGiven

-----------------------------------------------------------------------------
(* Lifecycle.                                                               *)

Transitions ==
  [draft |-> {"training_pack_pending", "retired"},
   training_pack_pending |-> {"learning", "draft", "retired"},
   learning |-> {"exam_ready", "training_pack_pending", "retired"},
   exam_ready |-> {"exam_passed", "exam_failed", "retired"},
   exam_failed |-> {"learning", "exam_ready", "retired"},
   exam_passed |-> {"on_trial", "retired"},
   on_trial |-> {"active", "suspended", "retired"},
   active |-> {"suspended", "on_trial", "retired"},
   suspended |-> {"on_trial", "learning", "exam_ready", "retired"},
   retired |-> {}]

\* The exam decides whether it is passed; other moves follow the table.
Move(target) ==
  /\ target \in Transitions[inspector.status]
  /\ target \notin {"exam_passed", "exam_failed"}
  /\ inspector' = [inspector EXCEPT !.status = target]
  /\ UNCHANGED <<exam, pack, classified, call, given>>

\* The exam passes with no false pass and every measure at its threshold.
ScoreExam(falsePasses, measures) ==
  IF falsePasses = 0 /\ \A m \in DOMAIN measures : measures[m] THEN "exam_passed" ELSE "exam_failed"
TakeExam(falsePasses, measures) ==
  /\ inspector.status = "exam_ready" /\ exam' = ScoreExam(falsePasses, measures)
  /\ inspector' = [inspector EXCEPT !.status = exam']
  /\ UNCHANGED <<pack, classified, call, given>>

\* A false pass, as the reviewer names it or as the two verdicts show it,
\* suspends the inspector from whatever state it is in.
FalsePass(misjudgment, ai, human) == misjudgment = "false_pass" \/ (ai = "pass" /\ human = "fail")
ProcessHumanFeedback(misjudgment, human) ==
  /\ given.overall # "none"
  /\ inspector' = IF FalsePass(misjudgment, given.overall, human)
                  THEN [status |-> "suspended", requalify |-> TRUE] ELSE inspector
  /\ UNCHANGED <<exam, pack, classified, call, given>>

-----------------------------------------------------------------------------
(* The pack and the classification of its points.                           *)

SetUpPack(part) ==
  /\ part \in {"playbook", "reference", "protocol"} /\ pack' = [pack EXCEPT ![part] = TRUE]
  /\ UNCHANGED <<inspector, exam, classified, call, given>>

\* A category is confirmed on the pack's point as named, supported or not.
ConfirmPoint(p, category) ==
  /\ pack' = [pack EXCEPT !.category[p] = category]
  /\ UNCHANGED <<inspector, exam, classified, call, given>>
ConfirmedPoints == {p \in DetPoint : pack.category[p] \in Supported}

\* A request that looks at a point proposes a category for it once, from words
\* of its text; one that confirms replaces what was confirmed.
SuggestCategory(measured) == IF measured THEN "physical_measurement" ELSE "visual_defect"
EnsureClassification(p, measured) ==
  /\ classified[p].proposed = "none"
  /\ classified' = [classified EXCEPT ![p].proposed = SuggestCategory(measured)]
  /\ UNCHANGED <<inspector, exam, pack, call, given>>
ConfirmCategory(p, category, measured) ==
  /\ category \in Supported
  /\ classified' = [classified EXCEPT ![p] =
       [proposed |-> IF @.proposed = "none" THEN SuggestCategory(measured) ELSE @.proposed,
        confirmed |-> category]]
  /\ UNCHANGED <<inspector, exam, pack, call, given>>

\* What the panel shows as judged by the model.
AiPrimary(category) == category = "visual_defect"
ClassificationView == {p \in DetPoint : AiPrimary(classified[p].confirmed)}

-----------------------------------------------------------------------------
(* An inspection.                                                           *)

Preconditions(image) ==
  /\ pack.playbook /\ ConfirmedPoints # {} /\ pack.reference /\ image /\ pack.protocol
  /\ inspector.status \in {"on_trial", "active", "suspended"}

BeginCall(image) ==
  /\ call = NoCall
  /\ call' = [status |-> inspector.status,
              points |-> [p \in ConfirmedPoints |-> pack.category[p]],
              reason |-> IF Preconditions(image) THEN "" ELSE "precondition"]
  /\ UNCHANGED <<inspector, exam, pack, classified, given>>

\* The item the model gave last for a point.
ItemOn(response, p) ==
  LET on == {i \in DOMAIN response.items : response.items[i].code = p}
  IN IF on = {} THEN [code |-> p, result |-> "missing", evidence |-> FALSE]
     ELSE response.items[CHOOSE i \in on : \A j \in on : j <= i]

FinalizeCheckpoint(p, category, item) ==
  IF /\ AiPrimary(category) /\ item.result \in {"pass", "fail", "review_required"}
     /\ p \in Proves /\ item.result \in {"pass", "fail"} => item.evidence
  THEN item.result ELSE "review_required"

EvaluateCaptureQuality(response) == response.acceptable /\ ~response.issues

\* Mutant of DeriveOverall: an incidental finding is only reported.
DeriveOverallIgnoring(results, clear, incidental) ==
  LET with(r) == {p \in DOMAIN results : results[p] = r}
  IN IF with("fail") \cap Critical # {} THEN "fail"
     ELSE IF ~clear \/ with("review_required") # {} THEN "review_required"
     ELSE IF with("fail") # {} THEN "fail" ELSE "pass"

\* A critical failure outranks everything, then what a person must look at,
\* then other failures.
DeriveOverall(results, clear, incidental) ==
  LET with(r) == {p \in DOMAIN results : results[p] = r}
  IN IF with("fail") \cap Critical # {} THEN "fail"
     ELSE IF ~clear \/ with("review_required") # {} \/ incidental = "critical" THEN "review_required"
     ELSE IF with("fail") # {} THEN "fail" ELSE "pass"

ReviewRequired(points) == [p \in points |-> "review_required"]

Finalize(points, response) ==
  IF ~response.valid
  THEN [overall |-> "review_required", results |-> ReviewRequired(DOMAIN points), human |-> TRUE]
  ELSE LET results == [p \in DOMAIN points |->
                         FinalizeCheckpoint(p, points[p], ItemOn(response, p))]
           overall == DeriveOverall(results, EvaluateCaptureQuality(response), response.incidental)
       IN [overall |-> overall, results |-> results,
           human |-> overall = "review_required" \/ \E p \in DOMAIN results : results[p] = "review_required"]

\* A suspended inspector only asks for review, one on trial always does too.
ApplyLifecyclePolicy(status, out) ==
  CASE status = "suspended" ->
         [overall |-> "review_required", results |-> ReviewRequired(DOMAIN out.results), human |-> TRUE]
    [] status = "on_trial" -> [out EXCEPT !.human = TRUE]
    [] OTHER -> out

\* A provider that raises answers nothing valid.
FinishCall(response) ==
  /\ call # NoCall
  /\ LET out == IF call.reason # ""
                THEN [overall |-> "review_required",
                      results |-> ReviewRequired(DOMAIN call.points), human |-> TRUE]
                ELSE ApplyLifecyclePolicy(call.status, Finalize(call.points, response))
     IN given' = [call |-> call, response |-> response, overall |-> out.overall,
                  results |-> out.results, human |-> out.human]
  /\ call' = NoCall
  /\ UNCHANGED <<inspector, exam, pack, classified>>

InspectorNext ==
  \/ \E target \in DOMAIN Transitions : Move(target)
  \/ \E falsePasses \in {0, 1}, enough \in BOOLEAN : TakeExam(falsePasses, [accuracy |-> enough])
  \/ \E misjudgment \in {"none", "false_pass"}, human \in {"pass", "fail"} :
       ProcessHumanFeedback(misjudgment, human)
  \/ \E part \in {"playbook", "reference", "protocol"} : SetUpPack(part)
  \/ \E p \in DetPoint, category \in Supported \cup {"odd"} : ConfirmPoint(p, category)
  \/ \E p \in DetPoint, measured \in BOOLEAN :
       \/ EnsureClassification(p, measured)
       \/ \E category \in Supported : ConfirmCategory(p, category, measured)
  \/ \E image \in BOOLEAN : BeginCall(image)
  \/ \E response \in Responses : FinishCall(response)

InspectorSpec == InspectorInit /\ [][InspectorNext]_inspectorVars

-----------------------------------------------------------------------------
\* finalizer.py:5, "a model-level pass can never override a checkpoint-level
\* fail": whatever state the inspector came to meanwhile, a pass was given by an
\* inspector on trial or active for points confirmed as visual defects that the
\* model last called pass, with evidence where it is needed, on an acceptable
\* capture without a critical finding, and on trial a person looks at it; and a
\* critical failure the model shows on an acceptable capture is never softened but
\* by suspension.
PassIsGuarded ==
  LET r == given.response
      points == DOMAIN given.call.points
      said(p, result) == /\ ItemOn(r, p).result = result
                         /\ p \in Proves => ItemOn(r, p).evidence
  IN /\ DOMAIN given.results = points
     /\ given.overall = "pass" =>
          /\ given.call.status \in {"on_trial", "active"} /\ points # {} /\ r.valid
          /\ \A p \in points : given.call.points[p] = "visual_defect" /\ said(p, "pass")
          /\ r.acceptable /\ ~r.issues /\ r.incidental # "critical"
          /\ given.call.status = "on_trial" => given.human
     /\ /\ given.call.reason = "" /\ given.call.status \in {"on_trial", "active"} /\ r.valid
        /\ r.acceptable /\ ~r.issues
        /\ \E p \in points \cap Critical : given.call.points[p] = "visual_defect" /\ said(p, "fail")
        => given.overall = "fail"

\* finalizer.py:11 ranks an unacceptable capture, which asks for a review, above a
\* critical failure.  The code ranks them the other way (finalizer.py:199), and
\* this does not hold.
CaptureOutranksFail ==
  /\ given.call.reason = "" /\ given.call.status \in {"on_trial", "active"} /\ given.response.valid
  /\ ~(given.response.acceptable /\ ~given.response.issues)
  => given.overall = "review_required"
=============================================================================
