----------------------------- MODULE Inspection -----------------------------
(***************************************************************************)
(* Inspection jobs of one standard revision, from creation to the final    *)
(* report (src/src/inspection/service.py, api_service.py), through the     *)
(* machine API (api/qc_inspection_router.py) and the operator's Pad        *)
(* (api/pad_router.py), and the bridge that records finalized jobs against *)
(* the revision's probation (inspection/probation_bridge.py).              *)
(*                                                                         *)
(* A job is a job_ref of Probation.  The Pad's handlers are coroutines and *)
(* take turns on one event loop: its vision request is two steps because   *)
(* it awaits its body between check and store.  The machine API and the    *)
(* administrator's operations are plain functions in a thread pool, so     *)
(* they fall between the steps of the Pad's finalize: the report is        *)
(* committed, the bridge reads suggestion and probation, a worker of       *)
(* ProbationTx commits the pair.                                           *)
(***************************************************************************)
EXTENDS ProbationTx

CONSTANT Point  \* active detection points of the revision

Verdict == {"pass", "fail", "review_required"}
\* Checkpoint results: "unclear" stands for missing, not_visible,
\* low_confidence and unsupported, which every rule treats alike.
Value == {"pass", "fail", "unclear"}

ASSUME InspectionAssumption == Verdict \subseteq Verdicts

VARIABLES
  job,      \* [Ref -> {"absent", "pending"} \union Verdict], status and report
  media,    \* jobs with attached evidence
  result,   \* [Ref -> [Point -> Value or "none"]]
  source,   \* [Ref -> [Point -> {"none", "model", "operator"}]], review_source
  serious,  \* jobs with a major or critical incidental finding
  ai,       \* [Ref -> verdict of the latest model result, or "none"]
  asking,   \* jobs with a vision request between its check and its store
  bridging  \* the job whose report the Pad's finalize has, on its way to the bridge

jobVars == <<job, media, result, source, serious, ai, asking>>
inspVars == <<txVars, jobVars, bridging>>

InspInit ==
  /\ TxInit
  /\ bridging = {}
  /\ job = [j \in Ref |-> "absent"]
  /\ media = {}
  /\ result = [j \in Ref |-> [p \in Point |-> "none"]]
  /\ source = [j \in Ref |-> [p \in Point |-> "none"]]
  /\ serious = {}
  /\ ai = [j \in Ref |-> "none"]
  /\ asking = {}

-----------------------------------------------------------------------------
(* Pure parts.                                                             *)

\* _aggregate_ai_verdict over a non-empty set of suggested values.
Aggregate(S) == IF "fail" \in S THEN "fail"
                ELSE IF S = {"pass"} THEN "pass" ELSE "review_required"

\* The no-guess policy of finalize_job for results f from sources s.
Policy(f, s, hasSerious, needsReview) ==
  LET values == {f[p] : p \in Point}
  IN IF Point = {} THEN "review_required"
     ELSE IF "fail" \in values THEN "fail"
     ELSE IF \/ "unclear" \in values
             \/ hasSerious
             \/ needsReview /\ \E p \in Point : s[p] # "operator"
     THEN "review_required"
     ELSE "pass"

\* Mutant of Completed: points without a result stay without one.
CompletedNot(f, g, fill) == f

\* Results f, where g has none the given value instead.
Completed(f, g, fill) == [p \in Point |-> IF g[p] = "none" THEN fill ELSE f[p]]

-----------------------------------------------------------------------------
(* The machine API and the parts of the job it shares with the Pad.        *)

\* create_inspection_job: against the active revision.
CreateJob(j) ==
  /\ job[j] = "absent"
  /\ job' = [job EXCEPT ![j] = "pending"]
  /\ UNCHANGED <<txVars, bridging, media, result, source, serious, ai, asking>>

\* attach_inspection_media, on a job in any state.
AttachMedia(j) ==
  /\ job[j] # "absent"
  /\ media' = media \union {j}
  /\ UNCHANGED <<txVars, bridging, job, result, source, serious, ai, asking>>

\* No point that f gives a value has a result on job j.
NoClash(j, f) == \A p \in Point : f[p] # "none" => result[j][p] = "none"

\* Results f are stored for job j.
Store(j, f, from) ==
  /\ result' = [result EXCEPT ![j] = [p \in Point |-> IF f[p] = "none" THEN @[p] ELSE f[p]]]
  /\ source' = [source EXCEPT ![j] = [p \in Point |-> IF f[p] = "none" THEN @[p] ELSE from]]

\* ingest_model_output: f suggests values for some of the points; a payload
\* without checkpoint results leaves no suggestion as the latest.
IngestModelOutput(j, f, finding) ==
  /\ job[j] # "absent"
  /\ NoClash(j, f)
  /\ Store(j, f, "model")
  /\ ai' = [ai EXCEPT ![j] = IF \A p \in Point : f[p] = "none" THEN "none"
                             ELSE Aggregate({f[p] : p \in Point} \ {"none"})]
  /\ serious' = IF finding THEN serious \union {j} ELSE serious
  /\ UNCHANGED <<txVars, bridging, job, media, asking>>

\* submit_checkpoint_result: one point, review_source left at its default.
SubmitCheckpointResult(j, p, v) ==
  LET f == [q \in Point |-> IF q = p THEN v ELSE "none"]
  IN /\ job[j] # "absent"
     /\ NoClash(j, f)
     /\ Store(j, f, "model")
     /\ UNCHANGED <<txVars, bridging, job, media, serious, ai, asking>>

\* submit_incidental_finding with a major or critical severity.
SubmitIncidentalFinding(j) ==
  /\ job[j] # "absent"
  /\ serious' = serious \union {j}
  /\ UNCHANGED <<txVars, bridging, job, media, result, source, ai, asking>>

-----------------------------------------------------------------------------
(* Finalisation.                                                           *)

\* Mutant of MayFinalize: an existing report is written again.
MayFinalizeAgain(j) == job[j] # "absent"

\* finalize_job writes a report; otherwise it returns the one there is.
MayFinalize(j) == job[j] = "pending"

\* finalize_job: points without a result get "missing", then the policy.
Finalize(j, needsReview) ==
  LET f == Completed(result[j], result[j], "unclear")
      s == Completed(source[j], result[j], "model")
  IN /\ MayFinalize(j)
     /\ result' = [result EXCEPT ![j] = f]
     /\ source' = [source EXCEPT ![j] = s]
     /\ job' = [job EXCEPT ![j] = Policy(f, s, j \in serious, needsReview)]
     /\ UNCHANGED <<media, serious, ai, asking>>

\* POST /inspection-jobs/{id}/finalize: without human review.
ApiFinalize(j) == Finalize(j, FALSE) /\ UNCHANGED <<txVars, bridging>>

-----------------------------------------------------------------------------
(* The Pad.  Its handlers run while no other one of them is under way.     *)

LoopFree ==
  bridging = {} /\ \A w \in Worker : tx[w] # Idle => tx[w].op # "record"

\* POST /api/v1/pad/inspection-jobs/{id}/finalize as far as the report: it is
\* written, or the one there is is returned.
PadFinalize(j) ==
  /\ LoopFree
  /\ \/ Finalize(j, TRUE)
     \/ job[j] \in Verdict /\ UNCHANGED jobVars
  /\ bridging' = {j}
  /\ UNCHANGED txVars

\* Mutant of Bridge: the bridge writes the row itself, past the probation's
\* own checks.
BridgeUnchecked(w, j) ==
  /\ j \in bridging /\ ai[j] # "none" /\ pStatus # "none" /\ rows[j] = NoRow
  /\ rows' = [rows EXCEPT ![j] = [ai |-> ai[j], human |-> job[j], seq |-> jobsRecorded + 1]]
  /\ jobsRecorded' = jobsRecorded + 1
  /\ bridging' = {}
  /\ UNCHANGED <<pStatus, agreements, tx, jobVars>>

\* record_probation_outcome as far as record_probation_job's reads: there is an
\* AI suggestion, the probation is active and the job is new.
Bridge(w, j) ==
  /\ j \in bridging /\ ai[j] # "none"
  /\ BeginRecord(w, j, ai[j], job[j])
  /\ bridging' = {}
  /\ UNCHANGED jobVars

\* Otherwise it records nothing.
BridgeNot(j) ==
  /\ j \in bridging /\ (ai[j] = "none" \/ ~MayRecord(j))
  /\ bridging' = {}
  /\ UNCHANGED <<txVars, jobVars>>

\* The pair is committed, or the database refuses it: the report stays.
BridgeCommit(w) == CommitRecord(w) /\ UNCHANGED <<jobVars, bridging>>
BridgeRollback(w) ==
  /\ tx[w] # Idle /\ tx[w].op = "record"
  /\ Rollback(w) /\ UNCHANGED <<jobVars, bridging>>

\* The server stops between any two commits.
Crash ==
  /\ TxCrash /\ bridging' = {} /\ asking' = {}
  /\ UNCHANGED <<job, media, result, source, serious, ai>>

\* submit_checkpoint_results_batch accepts f: evidence is attached, every
\* active point has a value and the job has no result yet.
MaySubmitBatch(j, f) ==
  /\ job[j] # "absent" /\ j \in media
  /\ Point # {} /\ \A p \in Point : f[p] # "none" /\ result[j][p] = "none"

SubmitBatch(j, f) ==
  /\ LoopFree /\ MaySubmitBatch(j, f)
  /\ Store(j, f, "operator")
  /\ UNCHANGED <<txVars, bridging, job, media, serious, ai, asking>>

\* pad_run_vision_analysis up to its await: the job is not finalized.
VisionStart(j) ==
  /\ LoopFree /\ job[j] = "pending"
  /\ asking' = asking \union {j}
  /\ UNCHANGED <<txVars, bridging, job, media, result, source, serious, ai>>

\* The rest of it: the suggestions are stored, whatever the job is by now;
\* without evidence, points or a provider it ends with an error.
VisionStore(j, v) ==
  /\ LoopFree /\ j \in asking /\ j \in media /\ Point # {}
  /\ ai' = [ai EXCEPT ![j] = v]
  /\ asking' = asking \ {j}
  /\ UNCHANGED <<txVars, bridging, job, media, result, source, serious>>

VisionFail(j) ==
  /\ LoopFree /\ j \in asking
  /\ asking' = asking \ {j}
  /\ UNCHANGED <<txVars, bridging, job, media, result, source, serious, ai>>

\* Publishing, and the administrator's operations on the probation.
Administer ==
  /\ \/ TxStart
     \/ \E w \in Worker : BeginPause(w) \/ BeginResume(w) \/ CommitStatus(w)
  /\ UNCHANGED <<jobVars, bridging>>

Payload == [Point -> Value \union {"none"}]

InspNext ==
  \/ Administer \/ Crash
  \/ \E w \in Worker : BridgeCommit(w) \/ BridgeRollback(w)
  \/ \E j \in Ref :
       \/ CreateJob(j) \/ AttachMedia(j) \/ SubmitIncidentalFinding(j)
       \/ \E f \in Payload, finding \in BOOLEAN : IngestModelOutput(j, f, finding)
       \/ \E p \in Point, v \in Value : SubmitCheckpointResult(j, p, v)
       \/ ApiFinalize(j) \/ PadFinalize(j) \/ BridgeNot(j)
       \/ \E w \in Worker : Bridge(w, j)
       \/ \E f \in Payload : SubmitBatch(j, f)
       \/ VisionStart(j) \/ VisionFail(j)
       \/ \E v \in Verdict : VisionStore(j, v)

InspSpec == InspInit /\ [][InspNext]_inspVars

-----------------------------------------------------------------------------
(* Properties.                                                             *)

JobTypeOK ==
  /\ job \in [Ref -> {"absent", "pending"} \union Verdict]
  /\ media \in SUBSET Ref /\ serious \in SUBSET Ref /\ asking \in SUBSET Ref
  /\ result \in [Ref -> [Point -> Value \union {"none"}]]
  /\ source \in [Ref -> [Point -> {"none", "model", "operator"}]]
  /\ ai \in [Ref -> Verdict \union {"none"}]

\* Types of the jobs' and the probation's state.
InspTypeOK == TxTypeOK /\ JobTypeOK /\ bridging \in SUBSET Ref

\* A report stays explained by its job's results for ever: although no
\* handler that stores results looks at the job's status, a finalized job has
\* a result for every point, its fail is a recorded fail and its pass is all
\* passes.
ReportStandsOnResults ==
  \A j \in Ref : job[j] \in Verdict =>
    /\ \A p \in Point : result[j][p] # "none"
    /\ (job[j] = "fail") <=> (\E p \in Point : result[j][p] = "fail")
    /\ (job[j] = "pass") => (\A p \in Point : result[j][p] = "pass")

\* An operator's review covers the whole job or none of it: the batch is
\* atomic and nothing else can mix with it.
ReviewIsWhole ==
  \A j \in Ref : \A p, q \in Point :
    source[j][p] = "operator" => source[j][q] = "operator"

\* A recorded pair names a finalized job, and the verdict it counts as the
\* human one is for ever the verdict of the job's report.
RecordedPairStands ==
  \A j \in Ref : rows[j] # NoRow => job[j] \in Verdict /\ rows[j].human = job[j]

\* A report is written once and no result is overwritten or moved to another
\* source.
ReportAndResultsAreFinal ==
  [][\A j \in Ref :
       /\ job[j] \in Verdict => job'[j] = job[j]
       /\ \A p \in Point : result[j][p] # "none" =>
            result'[j][p] = result[j][p] /\ source'[j][p] = source[j][p]]_jobVars

\* Every step of the inspection flow is, for the probation, one half of one of
\* its own operations, a rollback or nothing.
InspectionDrivesProbation == TxSpec
=============================================================================
