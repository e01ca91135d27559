------------------------------- MODULE Scope -------------------------------
(* The controlled-active (L3) scope of one training pack: qualification runs
   and the approval of their reports (src/src/qc_model/qualification/service.py),
   false-pass incidents that suspend the scope and requalification that restores
   it (incident/service.py), and checks 12 and 13 of the readiness evaluation.

   Decisions, approvals and lifts validate what they read and commit later; a
   qualification run waits for its provider between its two commits. *)
EXTENDS Naturals, Sequences, FiniteSets

CONSTANTS
    Incident,
    Point,           \* detection point codes
    PointOf,         \* the point of each incident, or Pack for an incident of the pack
    Qualification,   \* qualification runs, each with the report it may give
    Clerk            \* decisions, approvals and lifts in flight at a time

Pack == "pack"
ASSUME ScopeAssumption == PointOf \in [Incident -> Point \union {Pack}]

VARIABLES
    incident,    \* status of each incident; "none" before it is reported
    confirmed,   \* incidents with confirmed_at
    suspension,  \* the suspensions each confirmation made, in order
    fresh,       \* fresh[i]: reports created after the confirmed_at of i
    qrun,        \* status of each qualification run
    dataset,     \* the points each run has samples of
    covers,      \* the points whose results met the thresholds
    report,      \* status of each report; "none" before the run completes
    clerk        \* what each clerk has validated

scopeVars == <<incident, confirmed, suspension, fresh, qrun, dataset, covers, report, clerk>>
incVars == <<incident, confirmed, suspension>>
qualVars == <<qrun, dataset, covers, report>>

Free == [at |-> "free"]

ScopeInit ==
    /\ incident = [i \in Incident |-> "none"]
    /\ confirmed = {}
    /\ suspension = [i \in Incident |-> <<>>]
    /\ fresh = [i \in Incident |-> {}]
    /\ qrun = [q \in Qualification |-> "none"]
    /\ dataset = [q \in Qualification |-> {}]
    /\ covers = [q \in Qualification |-> {}]
    /\ report = [q \in Qualification |-> "none"]
    /\ clerk = [c \in Clerk |-> Free]

----------------------------------------------------------------------------
(* Helpers *)
Does(c, what) == clerk' = [clerk EXCEPT ![c] = what]
ActiveSuspensions(i) == {n \in DOMAIN suspension[i] : suspension[i][n] = "active"}

\* overall_meets_thresholds: there are results, and all meet
Meets(q) == dataset[q] # {} /\ covers[q] = dataset[q]

\* has_approved_qualification and active_l3_suspensions_for_pack
ControlledActive ==
    /\ \E q \in Qualification : report[q] = "approved" /\ Meets(q)
    /\ \A i \in Incident : ActiveSuspensions(i) = {}

\* Mutant: a report is not asked when it was made.
RequalifiesEver(q, i) ==
    /\ report[q] = "approved" /\ Meets(q)
    /\ PointOf[i] = Pack \/ PointOf[i] \in covers[q]

\* _validate_requalification_report and _assert_report_covers_scope, over one
\* SKU, station, provider and model
Requalifies(q, i) ==
    /\ report[q] = "approved" /\ Meets(q)
    /\ q \in fresh[i]
    /\ PointOf[i] = Pack \/ PointOf[i] \in covers[q]

----------------------------------------------------------------------------
(* Incidents *)
ReportIncident(i) ==
    /\ incident[i] = "none"
    /\ incident' = [incident EXCEPT ![i] = "triage_pending"]
    /\ UNCHANGED <<confirmed, suspension, fresh, qualVars, clerk>>

Decision == {"needs_more_evidence", "rejected", "confirmed_false_pass"}
Work ==
    {Free} \union [at : {"deciding"}, of : Incident, as : Decision]
           \union [at : {"lifting"}, of : Incident, nth : Nat]
           \union [at : {"approving"}, of : Qualification, as : {"approved", "rejected"}]

\* confirm_incident refuses or ignores a decision on a confirmed incident, and
\* one that finds an active suspension
BeginDecision(c, i, d) ==
    /\ clerk[c] = Free
    /\ incident[i] # "none" /\ i \notin confirmed
    /\ d = "confirmed_false_pass" => ActiveSuspensions(i) = {}
    /\ Does(c, [at |-> "deciding", of |-> i, as |-> d])
    /\ UNCHANGED <<incVars, fresh, qualVars>>

CommitDecision(c) ==
    /\ clerk[c].at = "deciding" /\ clerk[c].as # "confirmed_false_pass"
    /\ incident' = [incident EXCEPT ![clerk[c].of] =
           IF clerk[c].as = "rejected" THEN "rejected" ELSE "triage_pending"]
    /\ Does(c, Free)
    /\ UNCHANGED <<confirmed, suspension, fresh, qualVars>>

\* the incident, its suspension and its requalification requirement, in one
\* commit; every report made so far is older than the new confirmed_at
CommitConfirmation(c) ==
    /\ clerk[c].at = "deciding" /\ clerk[c].as = "confirmed_false_pass"
    /\ LET i == clerk[c].of IN
       /\ incident' = [incident EXCEPT ![i] = "requalification_required"]
       /\ confirmed' = confirmed \union {i}
       /\ suspension' = [suspension EXCEPT ![i] = Append(@, "active")]
       /\ fresh' = [fresh EXCEPT ![i] = {}]
    /\ Does(c, Free)
    /\ UNCHANGED qualVars

BeginLift(c, i, n, q) ==
    /\ clerk[c] = Free
    /\ n \in ActiveSuspensions(i)
    /\ Requalifies(q, i)
    /\ Does(c, [at |-> "lifting", of |-> i, nth |-> n])
    /\ UNCHANGED <<incVars, fresh, qualVars>>

\* the suspension is lifted and its requirement satisfied
CommitLift(c) ==
    /\ clerk[c].at = "lifting"
    /\ suspension' = [suspension EXCEPT ![clerk[c].of][clerk[c].nth] = "lifted"]
    /\ Does(c, Free)
    /\ UNCHANGED <<incident, confirmed, fresh, qualVars>>

----------------------------------------------------------------------------
(* Qualification *)
\* run_qualification on the samples there are, through an eligible provider
StartQualification(q, D) ==
    /\ qrun[q] = "none"
    /\ qrun' = [qrun EXCEPT ![q] = IF D = {} THEN "failed" ELSE "running"]
    /\ dataset' = [dataset EXCEPT ![q] = D]
    /\ UNCHANGED <<incVars, fresh, covers, report, clerk>>

\* Mutant: a late provider error fails a run that is over.
FailQualificationLate(q) ==
    /\ qrun[q] \in {"running", "completed"}
    /\ qrun' = [qrun EXCEPT ![q] = "failed"]
    /\ UNCHANGED <<incVars, fresh, dataset, covers, report, clerk>>

FailQualification(q) ==
    /\ qrun[q] = "running"
    /\ qrun' = [qrun EXCEPT ![q] = "failed"]
    /\ UNCHANGED <<incVars, fresh, dataset, covers, report, clerk>>

\* Met: the points whose false-pass rate, false-fail rate and numbers of samples
\* are within the thresholds
FinishQualification(q, Met) ==
    /\ qrun[q] = "running" /\ Met \subseteq dataset[q]
    /\ qrun' = [qrun EXCEPT ![q] = "completed"]
    /\ covers' = [covers EXCEPT ![q] = Met]
    /\ report' = [report EXCEPT ![q] = "draft"]
    /\ fresh' = [i \in Incident |-> IF i \in confirmed THEN fresh[i] \union {q} ELSE fresh[i]]
    /\ UNCHANGED <<incVars, dataset, clerk>>

BeginApproval(c, q, d) ==
    /\ clerk[c] = Free
    /\ report[q] \in {"draft", "rejected"}
    /\ d = "approved" => Meets(q)
    /\ Does(c, [at |-> "approving", of |-> q, as |-> d])
    /\ UNCHANGED <<incVars, fresh, qualVars>>

CommitApproval(c) ==
    /\ clerk[c].at = "approving"
    /\ report' = [report EXCEPT ![clerk[c].of] = clerk[c].as]
    /\ Does(c, Free)
    /\ UNCHANGED <<incVars, fresh, qrun, dataset, covers>>

\* the request fails or its process dies before its commit
GiveUp(c) ==
    /\ clerk[c] # Free
    /\ Does(c, Free)
    /\ UNCHANGED <<incVars, fresh, qualVars>>

ScopeNext ==
    \/ \E i \in Incident : ReportIncident(i)
    \/ \E q \in Qualification :
        \/ FailQualification(q)
        \/ \E D \in SUBSET Point : StartQualification(q, D) \/ FinishQualification(q, D)
    \/ \E c \in Clerk :
        \/ CommitDecision(c) \/ CommitConfirmation(c) \/ CommitLift(c) \/ CommitApproval(c) \/ GiveUp(c)
        \/ \E i \in Incident :
            \/ \E d \in Decision : BeginDecision(c, i, d)
            \/ \E n \in ActiveSuspensions(i), q \in Qualification : BeginLift(c, i, n, q)
        \/ \E q \in Qualification, d \in {"approved", "rejected"} : BeginApproval(c, q, d)

ScopeSpec == ScopeInit /\ [][ScopeNext]_scopeVars

----------------------------------------------------------------------------
(* Properties *)
\* Every row and every clerk keeps its type, and what a clerk means to lift exists.
ScopeTypeOK ==
    /\ incident \in [Incident -> {"none", "triage_pending", "rejected", "requalification_required"}]
    /\ confirmed \subseteq Incident
    /\ suspension \in [Incident -> Seq({"active", "lifted"})]
    /\ fresh \in [Incident -> SUBSET Qualification]
    /\ qrun \in [Qualification -> {"none", "running", "completed", "failed"}]
    /\ dataset \in [Qualification -> SUBSET Point] /\ covers \in [Qualification -> SUBSET Point]
    /\ report \in [Qualification -> {"none", "draft", "approved", "rejected"}]
    /\ clerk \in [Clerk -> Work]
    /\ \A c \in Clerk :
          clerk[c].at = "lifting" => clerk[c].nth \in DOMAIN suspension[clerk[c].of]

\* docs and incident/service.py, "an old report cannot restore L3": as long as a
\* false pass stands confirmed, its pack is suspended, or was requalified on the
\* point that failed by a report made since, whatever confirmations, decisions,
\* approvals and lifts overlap.
FalsePassIsAnswered ==
    \A i \in confirmed :
        \/ ActiveSuspensions(i) # {}
        \/ \E q \in fresh[i] : Meets(q) /\ (PointOf[i] = Pack \/ PointOf[i] \in covers[q])

\* No report that leaves a threshold unmet is ever approved, and what is approved
\* keeps its results: the L3 gate rests on both.
ApprovedMeets == \A q \in Qualification : report[q] = "approved" => qrun[q] = "completed" /\ Meets(q)
=============================================================================
