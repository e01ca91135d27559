--------------------------- MODULE ServicesProofs ---------------------------
(***************************************************************************)
(* Theorems about services of the server that share no table: Scope, for   *)
(* any number of incidents, detection points, qualification runs and       *)
(* overlapping requests; Learning and TrainingPack, for any number of      *)
(* jobs, proposals, memories and production runs.                          *)
(***************************************************************************)
EXTENDS TrainingPack, Scope, TLAPS

Good(q, i) == Meets(q) /\ (PointOf[i] = Pack \/ PointOf[i] \in covers[q])
Lifting(c, i, n) == clerk[c].at = "lifting" /\ clerk[c].of = i /\ clerk[c].nth = n

(* A lift in flight has read a report that answers the incident.  If the    *)
(* incident is confirmed again meanwhile, the report no longer does, but    *)
(* the suspension made then is one that no lift has read.                   *)
Answered(i) ==
    \/ \E q \in fresh[i] : Good(q, i)
    \/ \E n \in ActiveSuspensions(i) : \A c \in Clerk : ~ Lifting(c, i, n)

ApprovalChecked(c) ==
    clerk[c].at = "approving" =>
        /\ report[clerk[c].of] # "none"
        /\ clerk[c].as = "approved" => Meets(clerk[c].of)

(* Reports exist only of completed runs, whose results no step changes.     *)
Reports ==
    /\ \A i \in Incident : \A q \in fresh[i] : qrun[q] = "completed"
    /\ \A q \in Qualification : report[q] # "none" => qrun[q] = "completed"
    /\ \A c \in Clerk : ApprovalChecked(c)

IInv ==
    /\ ScopeTypeOK
    /\ Reports
    /\ ApprovedMeets
    /\ \A i \in confirmed : Answered(i)

-----------------------------------------------------------------------------
(* Types                                                                   *)

THEOREM ScopeTypeInit == ScopeInit => ScopeTypeOK
  BY DEF ScopeInit, ScopeTypeOK, Work, Free

LEMMA ClerkStep ==
  ASSUME ScopeTypeOK, NEW c \in Clerk, NEW what \in Work, Does(c, what)
  PROVE  /\ clerk' \in [Clerk -> Work]
         /\ clerk'[c] = what
         /\ \A d \in Clerk \ {c} : clerk'[d] = clerk[d]
  BY DEF ScopeTypeOK, Does

LEMMA FreeWork == Free \in Work /\ Free.at = "free"
  BY DEF Work, Free

LEMMA WorkOK ==
  ASSUME NEW what \in Work
  PROVE  /\ what.at = "deciding" => what.of \in Incident /\ what.as \in Decision
         /\ what.at = "lifting" => what.of \in Incident /\ what.nth \in Nat
         /\ what.at = "approving" => what.of \in Qualification /\ what.as \in {"approved", "rejected"}
  BY DEF Work, Free


LEMMA RowsKept ==
  ASSUME ScopeTypeOK, UNCHANGED <<incVars, fresh, qualVars>>,
         NEW c \in Clerk, NEW what \in Work, Does(c, what),
         what.at = "lifting" => what.nth \in DOMAIN suspension[what.of]
  PROVE  ScopeTypeOK'
  BY ClerkStep DEF ScopeTypeOK, incVars, qualVars

\* A step takes rows and requests of their types to rows and requests of their
\* types.
THEOREM ScopeTypeNext ==
  ASSUME ScopeTypeOK, [ScopeNext]_scopeVars
  PROVE  ScopeTypeOK'
  <1>1. ASSUME NEW i \in Incident, ReportIncident(i)
        PROVE  ScopeTypeOK'
    BY <1>1 DEF ReportIncident, ScopeTypeOK, qualVars, Work
  <1>2. ASSUME NEW q \in Qualification, FailQualification(q)
        PROVE  ScopeTypeOK'
    BY <1>2 DEF FailQualification, ScopeTypeOK, incVars, Work
  <1>3. ASSUME NEW q \in Qualification, NEW D \in SUBSET Point, StartQualification(q, D)
        PROVE  ScopeTypeOK'
    BY <1>3 DEF StartQualification, ScopeTypeOK, incVars, Work
  <1>4. ASSUME NEW q \in Qualification, NEW D \in SUBSET Point, FinishQualification(q, D)
        PROVE  ScopeTypeOK'
    BY <1>4 DEF FinishQualification, ScopeTypeOK, incVars, Work
  <1>5. ASSUME NEW c \in Clerk, CommitDecision(c)
        PROVE  ScopeTypeOK'
    <2>1. clerk[c].of \in Incident
      BY <1>5, WorkOK DEF CommitDecision, ScopeTypeOK
    <2>2. clerk' \in [Clerk -> Work] /\ clerk'[c] = Free /\ \A d \in Clerk \ {c} : clerk'[d] = clerk[d]
      BY <1>5, ClerkStep, FreeWork DEF CommitDecision
    <2> QED
      BY <1>5, <2>1, <2>2, FreeWork DEF CommitDecision, ScopeTypeOK, qualVars
  <1>6. ASSUME NEW c \in Clerk, CommitConfirmation(c)
        PROVE  ScopeTypeOK'
    <2> DEFINE i == clerk[c].of
    <2>1. i \in Incident
      BY <1>6, WorkOK DEF CommitConfirmation, ScopeTypeOK
    <2>2. clerk' \in [Clerk -> Work] /\ clerk'[c] = Free /\ \A d \in Clerk \ {c} : clerk'[d] = clerk[d]
      BY <1>6, ClerkStep, FreeWork DEF CommitConfirmation
    <2>3. suspension' = [suspension EXCEPT ![i] = Append(@, "active")]
      BY <1>6 DEF CommitConfirmation
    <2> HIDE DEF i
    <2>4. suspension[i] \in Seq({"active", "lifted"})
      BY <2>1 DEF ScopeTypeOK
    <2>5. /\ Append(suspension[i], "active") \in Seq({"active", "lifted"})
          /\ DOMAIN suspension[i] \subseteq DOMAIN Append(suspension[i], "active")
      BY <2>4
    <2>6. /\ suspension' \in [Incident -> Seq({"active", "lifted"})]
          /\ \A j \in Incident : DOMAIN suspension[j] \subseteq DOMAIN suspension'[j]
      BY <2>1, <2>3, <2>5 DEF ScopeTypeOK
    <2>7. \A d \in Clerk : clerk'[d].at = "lifting" => clerk'[d].nth \in DOMAIN suspension'[clerk'[d].of]
      BY <2>2, <2>6, FreeWork, WorkOK DEF ScopeTypeOK
    <2> QED
      BY <1>6, <2>1, <2>2, <2>6, <2>7 DEF CommitConfirmation, ScopeTypeOK, qualVars, i
  <1>7. ASSUME NEW c \in Clerk, CommitLift(c)
        PROVE  ScopeTypeOK'
    <2> DEFINE i == clerk[c].of
               n == clerk[c].nth
    <2>1. i \in Incident /\ n \in DOMAIN suspension[i]
      BY <1>7, WorkOK DEF CommitLift, ScopeTypeOK
    <2>2. clerk' \in [Clerk -> Work] /\ clerk'[c] = Free /\ \A d \in Clerk \ {c} : clerk'[d] = clerk[d]
      BY <1>7, ClerkStep, FreeWork DEF CommitLift
    <2>3. suspension' = [suspension EXCEPT ![i][n] = "lifted"]
      BY <1>7 DEF CommitLift
    <2> HIDE DEF i, n
    <2>4. suspension[i] \in Seq({"active", "lifted"})
      BY <2>1 DEF ScopeTypeOK
    <2>5. /\ [suspension[i] EXCEPT ![n] = "lifted"] \in Seq({"active", "lifted"})
          /\ DOMAIN [suspension[i] EXCEPT ![n] = "lifted"] = DOMAIN suspension[i]
      BY <2>1, <2>4
    <2>6. /\ suspension' \in [Incident -> Seq({"active", "lifted"})]
          /\ \A j \in Incident : DOMAIN suspension'[j] = DOMAIN suspension[j]
      BY <2>1, <2>3, <2>5 DEF ScopeTypeOK
    <2>7. \A d \in Clerk : clerk'[d].at = "lifting" => clerk'[d].nth \in DOMAIN suspension'[clerk'[d].of]
      BY <2>2, <2>6, FreeWork, WorkOK, ZenonT(40) DEF ScopeTypeOK
    <2> QED
      BY <1>7, <2>2, <2>6, <2>7 DEF CommitLift, ScopeTypeOK, qualVars
  <1>8. ASSUME NEW c \in Clerk, CommitApproval(c)
        PROVE  ScopeTypeOK'
    <2>1. clerk[c].of \in Qualification /\ clerk[c].as \in {"approved", "rejected"}
      BY <1>8, WorkOK DEF CommitApproval, ScopeTypeOK
    <2>2. clerk' \in [Clerk -> Work] /\ clerk'[c] = Free /\ \A d \in Clerk \ {c} : clerk'[d] = clerk[d]
      BY <1>8, ClerkStep, FreeWork DEF CommitApproval
    <2> QED
      BY <1>8, <2>1, <2>2, FreeWork DEF CommitApproval, ScopeTypeOK, incVars
  <1>9. ASSUME NEW c \in Clerk, GiveUp(c)
        PROVE  ScopeTypeOK'
    BY <1>9, FreeWork, RowsKept DEF GiveUp
  <1>10. ASSUME NEW c \in Clerk, NEW i \in Incident, NEW d \in Decision, BeginDecision(c, i, d)
         PROVE  ScopeTypeOK'
    <2>1. [at |-> "deciding", of |-> i, as |-> d] \in Work
      BY DEF Work
    <2> QED
      BY <1>10, <2>1, RowsKept DEF BeginDecision
  <1>11. ASSUME NEW c \in Clerk, NEW i \in Incident, NEW n \in ActiveSuspensions(i),
                NEW q \in Qualification, BeginLift(c, i, n, q)
         PROVE  ScopeTypeOK'
    <2>1. n \in DOMAIN suspension[i] /\ n \in Nat
      BY DEF ActiveSuspensions, ScopeTypeOK
    <2>2. [at |-> "lifting", of |-> i, nth |-> n] \in Work
      BY <2>1 DEF Work
    <2> QED
      BY <1>11, <2>1, <2>2, RowsKept DEF BeginLift
  <1>12. ASSUME NEW c \in Clerk, NEW q \in Qualification, NEW d \in {"approved", "rejected"},
                BeginApproval(c, q, d)
         PROVE  ScopeTypeOK'
    <2>1. [at |-> "approving", of |-> q, as |-> d] \in Work
      BY DEF Work
    <2> QED
      BY <1>12, <2>1, RowsKept DEF BeginApproval
  <1>13. CASE UNCHANGED scopeVars
    BY <1>13 DEF scopeVars, ScopeTypeOK
  <1> QED
    BY <1>1, <1>2, <1>3, <1>4, <1>5, <1>6, <1>7, <1>8, <1>9, <1>10, <1>11, <1>12, <1>13 DEF ScopeNext

-----------------------------------------------------------------------------
(* Reports and the runs they come from                                     *)

\* The results of a completed run, and the reports made of it, stay.
LEMMA CompletedStays ==
  ASSUME ScopeTypeOK, [ScopeNext]_scopeVars, NEW q \in Qualification, qrun[q] = "completed"
  PROVE  qrun'[q] = "completed" /\ dataset'[q] = dataset[q] /\ covers'[q] = covers[q]
  <1>1. CASE UNCHANGED <<qrun, dataset, covers>>
    BY <1>1
  <1>2. ASSUME NEW p \in Qualification, NEW D \in SUBSET Point, StartQualification(p, D)
        PROVE  qrun'[q] = "completed" /\ dataset'[q] = dataset[q] /\ covers'[q] = covers[q]
    BY <1>2 DEF ScopeTypeOK, StartQualification
  <1>3. ASSUME NEW p \in Qualification, FailQualification(p)
        PROVE  qrun'[q] = "completed" /\ dataset'[q] = dataset[q] /\ covers'[q] = covers[q]
    BY <1>3 DEF ScopeTypeOK, FailQualification
  <1>4. ASSUME NEW p \in Qualification, NEW Met \in SUBSET Point, FinishQualification(p, Met)
        PROVE  qrun'[q] = "completed" /\ dataset'[q] = dataset[q] /\ covers'[q] = covers[q]
    BY <1>4 DEF ScopeTypeOK, FinishQualification
  <1> QED
    BY <1>1, <1>2, <1>3, <1>4
    DEF ScopeNext, scopeVars, incVars, qualVars, ReportIncident, CommitDecision, CommitConfirmation,
        CommitLift, CommitApproval, GiveUp, BeginDecision, BeginLift, BeginApproval

LEMMA MeetsStays ==
  ASSUME ScopeTypeOK, [ScopeNext]_scopeVars, NEW q \in Qualification, qrun[q] = "completed"
  PROVE  Meets(q)' = Meets(q) /\ \A i \in Incident : Good(q, i)' = Good(q, i)
  BY CompletedStays DEF Meets, Good

\* Rows of reports that a step writes: those of a run it completes, or those of
\* the approval it commits.
LEMMA ReportsNext ==
  ASSUME ScopeTypeOK, Reports, ApprovedMeets, [ScopeNext]_scopeVars
  PROVE  Reports' /\ ApprovedMeets'
  <1>1. ASSUME NEW i \in Incident, NEW q \in fresh'[i]
        PROVE  qrun'[q] = "completed"
    <2>1. q \in fresh[i] \/ \E D \in SUBSET Point : FinishQualification(q, D)
      <3>1. ASSUME NEW p \in Qualification, NEW D \in SUBSET Point, FinishQualification(p, D)
            PROVE  q \in fresh[i] \/ (q = p /\ FinishQualification(q, D))
        BY <1>1, <3>1 DEF FinishQualification
      <3>2. ASSUME NEW c \in Clerk, CommitConfirmation(c)
            PROVE  q \in fresh[i]
        BY <1>1, <3>2 DEF CommitConfirmation, ScopeTypeOK
      <3>3. \/ UNCHANGED fresh
            \/ \E p \in Qualification, D \in SUBSET Point : FinishQualification(p, D)
            \/ \E c \in Clerk : CommitConfirmation(c)
        BY DEF ScopeNext, scopeVars, ReportIncident, FailQualification, StartQualification,
               CommitDecision, CommitLift, CommitApproval, GiveUp, BeginDecision, BeginLift,
               BeginApproval
      <3> QED
        BY <1>1, <3>1, <3>2, <3>3
    <2>2. CASE q \in fresh[i]
      BY <2>2, CompletedStays DEF Reports, ScopeTypeOK
    <2>3. CASE \E D \in SUBSET Point : FinishQualification(q, D)
      <3>1. q \in Qualification
        BY ScopeTypeNext, <1>1 DEF ScopeTypeOK
      <3> QED
        BY <2>3, <3>1 DEF FinishQualification, ScopeTypeOK
    <2> QED
      BY <2>1, <2>2, <2>3
  <1>2. ASSUME NEW q \in Qualification, report'[q] # report[q]
        PROVE  \/ /\ report'[q] = "draft" /\ qrun'[q] = "completed"
               \/ /\ report[q] # "none"
                  /\ report'[q] = "approved" => Meets(q)
    <2>1. ASSUME NEW p \in Qualification, NEW D \in SUBSET Point, FinishQualification(p, D)
          PROVE  report'[q] = "draft" /\ qrun'[q] = "completed"
      BY <1>2, <2>1 DEF FinishQualification, ScopeTypeOK
    <2>2. ASSUME NEW c \in Clerk, CommitApproval(c)
          PROVE  report[q] # "none" /\ (report'[q] = "approved" => Meets(q))
      <3>1. clerk[c].at = "approving" /\ clerk[c].of \in Qualification
        BY <2>2, WorkOK DEF CommitApproval, ScopeTypeOK
      <3>2. clerk[c].of = q /\ report'[q] = clerk[c].as
        BY <1>2, <2>2, <3>1 DEF CommitApproval, ScopeTypeOK
      <3> QED
        BY <3>1, <3>2 DEF Reports, ApprovalChecked
    <2> QED
      BY <1>2, <2>1, <2>2 DEF ScopeNext, scopeVars, incVars, qualVars, ReportIncident, FailQualification,
         StartQualification, CommitDecision, CommitConfirmation, CommitLift,
         GiveUp, BeginDecision, BeginLift, BeginApproval
  <1>3. ASSUME NEW q \in Qualification, report'[q] # "none"
        PROVE  qrun'[q] = "completed"
    BY <1>2, <1>3, CompletedStays DEF Reports
  <1>4. ASSUME NEW q \in Qualification, report'[q] = "approved"
        PROVE  Meets(q)'
    <2>1. report[q] = "approved" \/ (report[q] # "none" /\ Meets(q))
      BY <1>2, <1>4
    <2>2. Meets(q) /\ qrun[q] = "completed"
      BY <2>1 DEF ApprovedMeets, Reports
    <2> QED
      BY <2>2, MeetsStays
  <1>5. ASSUME NEW q \in Qualification, report[q] # "none"
        PROVE  report'[q] # "none"
    <2>1. ASSUME NEW p \in Qualification, NEW D \in SUBSET Point, FinishQualification(p, D)
          PROVE  report'[q] # "none"
      BY <1>5, <2>1 DEF FinishQualification, ScopeTypeOK
    <2>2. ASSUME NEW c \in Clerk, CommitApproval(c)
          PROVE  report'[q] # "none"
      <3>1. clerk[c].of \in Qualification /\ clerk[c].as \in {"approved", "rejected"}
        BY <2>2, WorkOK DEF CommitApproval, ScopeTypeOK
      <3> QED
        BY <1>5, <2>2, <3>1 DEF CommitApproval, ScopeTypeOK
    <2> QED
      BY <1>5, <2>1, <2>2 DEF ScopeNext, scopeVars, incVars, qualVars, ReportIncident, FailQualification,
         StartQualification, CommitDecision, CommitConfirmation, CommitLift,
         GiveUp, BeginDecision, BeginLift, BeginApproval
  <1>6. ASSUME NEW c \in Clerk, clerk'[c] = clerk[c]
        PROVE  ApprovalChecked(c)'
    <2> SUFFICES ASSUME clerk[c].at = "approving"
                 PROVE  ApprovalChecked(c)'
      BY <1>6 DEF ApprovalChecked
    <2> DEFINE q == clerk[c].of
    <2>1. q \in Qualification /\ report[q] # "none" /\ (clerk[c].as = "approved" => Meets(q))
      BY WorkOK DEF Reports, ApprovalChecked, ScopeTypeOK
    <2>2. qrun[q] = "completed" /\ report'[q] # "none"
      BY <2>1, <1>5 DEF Reports
    <2>3. dataset'[q] = dataset[q] /\ covers'[q] = covers[q]
      BY <2>1, <2>2, CompletedStays
    <2> QED
      BY <1>6, <2>1, <2>2, <2>3 DEF ApprovalChecked, Meets
  <1>7. ASSUME NEW c \in Clerk, NEW q \in Qualification, NEW d \in {"approved", "rejected"},
               BeginApproval(c, q, d)
        PROVE  ApprovalChecked(c)'
    <2>1. clerk'[c] = [at |-> "approving", of |-> q, as |-> d]
      BY <1>7 DEF BeginApproval, Does, ScopeTypeOK
    <2>2. report'[q] # "none" /\ (d = "approved" => dataset'[q] # {} /\ covers'[q] = dataset'[q])
      BY <1>7 DEF BeginApproval, qualVars, Meets
    <2> QED
      BY <2>1, <2>2 DEF ApprovalChecked, Meets
  <1>8. ASSUME NEW c \in Clerk
        PROVE  ApprovalChecked(c)'
    <2>1. ASSUME NEW e \in Clerk, NEW what, Does(e, what), what.at # "approving"
          PROVE  clerk'[c] = clerk[c] \/ clerk'[c].at # "approving"
      BY <2>1 DEF Does, ScopeTypeOK
    <2>2. ASSUME NEW e \in Clerk, NEW q \in Qualification, NEW d \in {"approved", "rejected"},
                 BeginApproval(e, q, d)
          PROVE  ApprovalChecked(c)'
      <3>1. c = e \/ clerk'[c] = clerk[c]
        BY <2>2 DEF BeginApproval, Does, ScopeTypeOK
      <3> QED
        BY <1>6, <1>7, <2>2, <3>1
    <2>3. \/ UNCHANGED clerk
          \/ \E e \in Clerk, q \in Qualification, d \in {"approved", "rejected"} : BeginApproval(e, q, d)
          \/ \E e \in Clerk : \E what \in Work : Does(e, what) /\ what.at # "approving"
      <3>1. ASSUME NEW e \in Clerk, NEW i \in Incident, NEW d \in Decision, BeginDecision(e, i, d)
            PROVE  \E what \in Work : Does(e, what) /\ what.at # "approving"
        <4>1. [at |-> "deciding", of |-> i, as |-> d] \in Work
          BY DEF Work
        <4> QED
          BY <3>1, <4>1 DEF BeginDecision
      <3>2. ASSUME NEW e \in Clerk, NEW i \in Incident, NEW n \in ActiveSuspensions(i),
                   NEW q \in Qualification, BeginLift(e, i, n, q)
            PROVE  \E what \in Work : Does(e, what) /\ what.at # "approving"
        <4>1. n \in Nat
          BY DEF ActiveSuspensions, ScopeTypeOK
        <4>2. [at |-> "lifting", of |-> i, nth |-> n] \in Work
          BY <4>1 DEF Work
        <4> QED
          BY <3>2, <4>2 DEF BeginLift
      <3>3. ASSUME NEW e \in Clerk,
                   \/ CommitDecision(e) \/ CommitConfirmation(e) \/ CommitLift(e)
                   \/ CommitApproval(e) \/ GiveUp(e)
            PROVE  \E what \in Work : Does(e, what) /\ what.at # "approving"
        BY <3>3, FreeWork DEF CommitDecision, CommitConfirmation, CommitLift, CommitApproval, GiveUp
      <3>4. ASSUME \/ \E i \in Incident : ReportIncident(i)
                   \/ \E q \in Qualification : FailQualification(q)
                   \/ \E q \in Qualification, D \in SUBSET Point :
                          StartQualification(q, D) \/ FinishQualification(q, D)
                   \/ UNCHANGED scopeVars
            PROVE  UNCHANGED clerk
        BY <3>4 DEF ReportIncident, FailQualification, StartQualification, FinishQualification,
                    scopeVars
      <3> QED
        BY <3>1, <3>2, <3>3, <3>4 DEF ScopeNext
    <2>4. ASSUME clerk'[c].at # "approving"
          PROVE  ApprovalChecked(c)'
      BY <2>4 DEF ApprovalChecked
    <2> QED
      BY <1>6, <2>1, <2>2, <2>3, <2>4
  <1> QED
    BY <1>1, <1>3, <1>4, <1>8 DEF Reports, ApprovedMeets
-----------------------------------------------------------------------------
(* Confirmed false passes                                                  *)

\* What keeps an incident answered: its good reports stay, one of its
\* suspensions that no one lifts stays, and no lift of that one begins.
LEMMA AnsweredStays ==
  ASSUME ScopeTypeOK, Reports, [ScopeNext]_scopeVars, NEW i \in Incident, Answered(i),
         fresh[i] \subseteq fresh'[i],
         \A n \in ActiveSuspensions(i) :
             (\A c \in Clerk : ~ Lifting(c, i, n)) => n \in ActiveSuspensions(i)',
         \A c \in Clerk, n \in ActiveSuspensions(i) :
             \/ clerk'[c] = clerk[c]
             \/ clerk'[c].at # "lifting"
             \/ \E q \in fresh[i] : Good(q, i)
  PROVE  Answered(i)'
  <1>1. CASE \E q \in fresh[i] : Good(q, i)
    <2>1. PICK q \in fresh[i] : Good(q, i)
      BY <1>1
    <2>2. q \in Qualification /\ qrun[q] = "completed"
      BY DEF ScopeTypeOK, Reports
    <2>3. q \in fresh'[i] /\ Good(q, i)'
      BY <2>1, <2>2, MeetsStays
    <2> QED
      BY <2>3 DEF Answered
  <1>2. CASE ~ \E q \in fresh[i] : Good(q, i)
    <2>1. PICK n \in ActiveSuspensions(i) : \A c \in Clerk : ~ Lifting(c, i, n)
      BY <1>2 DEF Answered
    <2>2. n \in ActiveSuspensions(i)'
      BY <2>1
    <2>3. ASSUME NEW c \in Clerk
          PROVE  ~ Lifting(c, i, n)'
      BY <1>2, <2>1 DEF Lifting
    <2> QED
      BY <2>2, <2>3 DEF Answered
  <1> QED
    BY <1>1, <1>2

LEMMA DoesOne ==
  ASSUME ScopeTypeOK, NEW e \in Clerk, NEW what, Does(e, what), what.at # "lifting"
  PROVE  \A c \in Clerk : clerk'[c] = clerk[c] \/ clerk'[c].at # "lifting"
  BY DEF Does, ScopeTypeOK

\* A step that is neither a confirmation nor a lift of this incident.
LEMMA AnsweredElsewhere ==
  ASSUME ScopeTypeOK, Reports, [ScopeNext]_scopeVars, NEW i \in Incident, Answered(i),
         fresh[i] \subseteq fresh'[i], suspension'[i] = suspension[i],
         \A c \in Clerk : clerk'[c] = clerk[c] \/ clerk'[c].at # "lifting"
  PROVE  Answered(i)'
  <1>1. ActiveSuspensions(i)' = ActiveSuspensions(i)
    BY DEF ActiveSuspensions
  <1> QED
    BY <1>1, AnsweredStays

LEMMA AnsweredNext ==
  ASSUME ScopeTypeOK, Reports, [ScopeNext]_scopeVars, \A i \in confirmed : Answered(i)
  PROVE  \A i \in confirmed' : Answered(i)'
  <1> SUFFICES ASSUME NEW i \in confirmed'
               PROVE  Answered(i)'
    OBVIOUS
  <1>0. i \in Incident
    BY ScopeTypeNext DEF ScopeTypeOK
  <1>1. ASSUME NEW c \in Clerk, CommitConfirmation(c)
        PROVE  Answered(i)'
    <2>1. clerk[c].of \in Incident /\ clerk[c].at = "deciding"
      BY <1>1, WorkOK DEF CommitConfirmation, ScopeTypeOK
    <2>2. Does(c, Free) /\ UNCHANGED qualVars
      BY <1>1 DEF CommitConfirmation
    <2>3. CASE i = clerk[c].of
      <3>1. suspension'[i] = Append(suspension[i], "active") /\ suspension[i] \in Seq({"active", "lifted"})
        BY <1>0, <1>1, <2>3 DEF CommitConfirmation, ScopeTypeOK
      <3>0. PICK n \in Nat : n = Len(suspension[i]) + 1
        BY <3>1
      <3>2. n \in DOMAIN suspension'[i] /\ suspension'[i][n] = "active"
        BY <3>0, <3>1
      <3>3. ASSUME NEW d \in Clerk
            PROVE  ~ Lifting(d, i, n)'
        <4>1. clerk'[d] = clerk[d] \/ clerk'[d].at # "lifting"
          BY <2>2, FreeWork, DoesOne
        <4>2. clerk[d].at = "lifting" /\ clerk[d].of = i => clerk[d].nth \in 1 .. Len(suspension[i])
          BY <3>1 DEF ScopeTypeOK
        <4> QED
          BY <3>0, <3>1, <4>1, <4>2 DEF Lifting
      <3>4. n \in ActiveSuspensions(i)'
        BY <3>2 DEF ActiveSuspensions
      <3> QED
        BY <3>3, <3>4 DEF Answered
    <2>4. CASE i # clerk[c].of
      <3>1. i \in confirmed /\ fresh'[i] = fresh[i] /\ suspension'[i] = suspension[i]
        BY <1>0, <1>1, <2>4 DEF CommitConfirmation, ScopeTypeOK
      <3> QED
        BY <1>0, <2>2, <3>1, FreeWork, DoesOne, AnsweredElsewhere
    <2> QED
      BY <2>3, <2>4
  <1>2. ASSUME NEW c \in Clerk, CommitLift(c)
        PROVE  Answered(i)'
    <2>1. /\ clerk[c].at = "lifting" /\ Does(c, Free)
          /\ suspension' = [suspension EXCEPT ![clerk[c].of][clerk[c].nth] = "lifted"]
          /\ UNCHANGED <<confirmed, fresh>>
      BY <1>2 DEF CommitLift
    <2>2. ASSUME NEW n \in ActiveSuspensions(i), \A d \in Clerk : ~ Lifting(d, i, n)
          PROVE  n \in ActiveSuspensions(i)'
      <3>1. clerk[c].of # i \/ clerk[c].nth # n
        BY <2>1, <2>2 DEF Lifting
      <3> QED
        BY <1>0, <2>1, <2>2, <3>1 DEF ActiveSuspensions, ScopeTypeOK
    <2>3. \A d \in Clerk : clerk'[d] = clerk[d] \/ clerk'[d].at # "lifting"
      BY <2>1, FreeWork, DoesOne
    <2> QED
      BY <1>0, <2>1, <2>2, <2>3, AnsweredStays
  <1>3. ASSUME NEW c \in Clerk, NEW j \in Incident, NEW n \in ActiveSuspensions(j),
               NEW q \in Qualification, BeginLift(c, j, n, q)
        PROVE  Answered(i)'
    <2>1. UNCHANGED <<confirmed, suspension, fresh>> /\ Requalifies(q, j)
      BY <1>3 DEF BeginLift, incVars
    <2>2. clerk'[c] = [at |-> "lifting", of |-> j, nth |-> n] /\ \A d \in Clerk \ {c} : clerk'[d] = clerk[d]
      BY <1>3 DEF BeginLift, Does, ScopeTypeOK
    <2>3. CASE i = j
      <3>1. \E p \in fresh[i] : Good(p, i)
        BY <2>1, <2>3 DEF Requalifies, Good
      <3>2. ActiveSuspensions(i)' = ActiveSuspensions(i)
        BY <2>1 DEF ActiveSuspensions
      <3> QED
        BY <1>0, <2>1, <3>1, <3>2, AnsweredStays
    <2>4. CASE i # j
      <3>1. CASE \E p \in fresh[i] : Good(p, i)
        <4>1. ActiveSuspensions(i)' = ActiveSuspensions(i)
          BY <2>1 DEF ActiveSuspensions
        <4> QED
          BY <1>0, <2>1, <3>1, <4>1, AnsweredStays
      <3>2. CASE ~ \E p \in fresh[i] : Good(p, i)
        <4>1. PICK m \in ActiveSuspensions(i) : \A d \in Clerk : ~ Lifting(d, i, m)
          BY <2>1, <3>2 DEF Answered
        <4>2. \A d \in Clerk : ~ Lifting(d, i, m)'
          BY <2>2, <2>4, <4>1 DEF Lifting
        <4>3. m \in ActiveSuspensions(i)'
          BY <2>1, <4>1 DEF ActiveSuspensions
        <4> QED
          BY <4>2, <4>3 DEF Answered
      <3> QED
        BY <3>1, <3>2
    <2> QED
      BY <2>3, <2>4
  <1>4. ASSUME NEW q \in Qualification, NEW D \in SUBSET Point, FinishQualification(q, D)
        PROVE  Answered(i)'
    <2>1. UNCHANGED <<confirmed, suspension, clerk>> /\ fresh[i] \subseteq fresh'[i]
      BY <1>0, <1>4 DEF FinishQualification, incVars, ScopeTypeOK
    <2> QED
      BY <1>0, <2>1, AnsweredElsewhere
  <1>5. ASSUME UNCHANGED <<confirmed, suspension, fresh>>,
               \A c \in Clerk : clerk'[c] = clerk[c] \/ clerk'[c].at # "lifting"
        PROVE  Answered(i)'
    BY <1>0, <1>5, AnsweredElsewhere
  <1>6. ASSUME NEW e \in Clerk, NEW what, Does(e, what), what.at # "lifting",
               UNCHANGED <<confirmed, suspension, fresh>>
        PROVE  Answered(i)'
    BY <1>5, <1>6, DoesOne
  <1>7. ASSUME UNCHANGED <<confirmed, suspension, fresh, clerk>>
        PROVE  Answered(i)'
    BY <1>5, <1>7
  <1>8. ASSUME NEW c \in Clerk, CommitDecision(c) \/ CommitApproval(c) \/ GiveUp(c)
        PROVE  Answered(i)'
    BY <1>6, <1>8, FreeWork DEF CommitDecision, CommitApproval, GiveUp, incVars
  <1>9. ASSUME NEW c \in Clerk, NEW j \in Incident, NEW d \in Decision, BeginDecision(c, j, d)
        PROVE  Answered(i)'
    BY <1>6, <1>9 DEF BeginDecision, incVars
  <1>10. ASSUME NEW c \in Clerk, NEW q \in Qualification, NEW d \in {"approved", "rejected"},
                BeginApproval(c, q, d)
         PROVE  Answered(i)'
    BY <1>6, <1>10 DEF BeginApproval, incVars
  <1>11. ASSUME \/ \E j \in Incident : ReportIncident(j)
                \/ \E q \in Qualification : FailQualification(q)
                \/ \E q \in Qualification, D \in SUBSET Point : StartQualification(q, D)
                \/ UNCHANGED scopeVars
         PROVE  Answered(i)'
    BY <1>7, <1>11 DEF ReportIncident, FailQualification, StartQualification, incVars, scopeVars
  <1> QED
    BY <1>1, <1>2, <1>3, <1>4, <1>8, <1>9, <1>10, <1>11 DEF ScopeNext

-----------------------------------------------------------------------------
(* The specification                                                       *)

LEMMA IInvInit == ScopeInit => IInv
  <1> SUFFICES ASSUME ScopeInit PROVE IInv
    OBVIOUS
  <1>1. ScopeTypeOK
    BY ScopeTypeInit
  <1> QED
    BY <1>1 DEF ScopeInit, IInv, Reports, ApprovalChecked, ApprovedMeets, Free

LEMMA IInvNext == IInv /\ [ScopeNext]_scopeVars => IInv'
  BY ScopeTypeNext, ReportsNext, AnsweredNext DEF IInv

\* The inductive invariant holds: confirmed false passes stay answered because a
\* lift in flight never holds the last thing that answers one.
THEOREM ScopeSafe == ScopeSpec => []IInv
  BY IInvInit, IInvNext, PTL DEF ScopeSpec

\* Rows and requests keep their types.
THEOREM ScopeTypes == ScopeSpec => []ScopeTypeOK
  <1>1. IInv => ScopeTypeOK
    BY DEF IInv
  <1> QED
    BY <1>1, ScopeSafe, PTL

\* A confirmed false pass suspends its pack until a report made since answers it
\* (incident/service.py), for any number of overlapping requests.
THEOREM FalsePassAnswered == ScopeSpec => []FalsePassIsAnswered
  <1>1. IInv => FalsePassIsAnswered
    BY DEF IInv, Answered, FalsePassIsAnswered, Good
  <1> QED
    BY <1>1, ScopeSafe, PTL

\* Only a report whose results all meet the thresholds is ever approved
\* (qualification/service.py, approve_report).
THEOREM ApprovedReportsMeet == ScopeSpec => []ApprovedMeets
  <1>1. IInv => ApprovedMeets
    BY DEF IInv
  <1> QED
    BY <1>1, ScopeSafe, PTL
-----------------------------------------------------------------------------
(* Proposals.  Only an apply request makes a detection point, and only of   *)
(* proposals it read as having none; no other step writes that column, so   *)
(* what a request read of it stays true until the request commits, if it is *)
(* the only one.  No category leaves a measurement an AI role.              *)

Guards(r) == r.cat = Physical => r.role = RecordOnly
MadePoint == [cat : Category \union {Unresolved}, role : AnyRole]

Read == {f \in UNION {[S -> Proposal] : S \in SUBSET Prop} :
            \A p \in DOMAIN f : f[p].status # "absent" /\ Guards(f[p])}

PointInv ==
    /\ prop \in [Prop -> Proposal]
    /\ points \in [Prop -> Seq(MadePoint)]
    /\ applying \in [Applier -> {NoApply} \union [job : LearnJob, seen : Read]]
    /\ \A p \in Prop : prop[p].status = "absent" => ~ prop[p].point
    /\ \A a \in Applier : applying[a] # NoApply =>
           \A p \in DOMAIN applying[a].seen :
               prop[p].status # "absent" /\ applying[a].seen[p].point = prop[p].point
    /\ PhysicalIsRecordOnly
    /\ PointIsOnce

LEMMA DefaultRoleOK ==
  ASSUME NEW c
  PROVE  DefaultRole(c) \in AnyRole /\ (c = Physical => DefaultRole(c) = RecordOnly)
  BY DEF DefaultRole, AnyRole, Physical

\* A step that drafts, edits, approves or rejects proposals, and applies none.
LEMMA Reviewed1 ==
  ASSUME PointInv, prop' \in [Prop -> Proposal], UNCHANGED <<points, applying>>,
         \A p \in Prop : \/ prop'[p] = prop[p]
                         \/ /\ prop'[p].point = prop[p].point /\ Guards(prop'[p])
                            /\ prop'[p].status \notin {"absent", "applied"}
  PROVE  PointInv'
  <1>1. \A p \in Prop : prop'[p].point = prop[p].point
    OBVIOUS
  <1>2. \A p \in Prop : prop'[p].status = "absent" => ~ prop'[p].point
    BY DEF PointInv
  <1>3. \A a \in Applier : applying'[a] # NoApply => \A p \in DOMAIN applying'[a].seen :
            prop'[p].status # "absent" /\ applying'[a].seen[p].point = prop'[p].point
    <2> SUFFICES ASSUME NEW a \in Applier, applying[a] # NoApply, NEW p \in DOMAIN applying[a].seen
                 PROVE  prop'[p].status # "absent" /\ applying[a].seen[p].point = prop'[p].point
      OBVIOUS
    <2>1. p \in Prop
      BY DEF PointInv, Read
    <2> QED
      BY <2>1 DEF PointInv
  <1>4. PhysicalIsRecordOnly'
    BY DEF PointInv, PhysicalIsRecordOnly, Made, Guards
  <1>5. PointIsOnce'
    BY <1>1 DEF PointInv, PointIsOnce
  <1> QED
    BY <1>2, <1>3, <1>4, <1>5 DEF PointInv

LEMMA EditedOK ==
  ASSUME NEW r \in Proposal, NEW c \in Category \union {Unresolved}, Guards(r)
  PROVE  Edited(r, c) \in Proposal /\ Guards(Edited(r, c)) /\ Edited(r, c).point = r.point
  <1>1. DefaultRole(c) \in AnyRole /\ (c = Physical => DefaultRole(c) = RecordOnly)
    BY DefaultRoleOK
  <1> QED
    BY <1>1 DEF Edited, Proposal, Guards

LEMMA Drafted ==
  ASSUME PointInv, NEW j \in LearnJob \union AuthorJob, NEW S \in SUBSET (Prop \ Made), NEW cat, NEW role,
         \A p \in S : /\ cat[p] \in Category \union {Unresolved} /\ role[p] \in AnyRole
                      /\ cat[p] = Physical => role[p] = RecordOnly,
         Draft(j, S, cat, role), UNCHANGED <<points, applying>>
  PROVE  PointInv'
  <1> DEFINE new(p) == [job |-> j, cat |-> cat[p], role |-> role[p], status |-> "proposed", point |-> FALSE]
  <1>1. \A p \in S : new(p) \in Proposal /\ Guards(new(p)) /\ new(p).point = FALSE /\ new(p).status = "proposed"
    BY DEF Proposal, Guards
  <1>2. prop' = [p \in Prop |-> IF p \in S THEN new(p) ELSE prop[p]]
    BY DEF Draft
  <1> HIDE DEF new
  <1>3. \A p \in S : p \in Prop /\ prop[p].point = FALSE
    BY DEF PointInv, Made, Proposal
  <1> QED
    BY <1>1, <1>2, <1>3, Reviewed1 DEF PointInv

LEMMA PointInitially == LearnInit => PointInv
  <1> SUFFICES ASSUME LearnInit
               PROVE  PointInv
    OBVIOUS
  <1>1. NoProp \in Proposal /\ NoProp.status = "absent" /\ NoProp.point = FALSE
    BY DEF NoProp, Proposal, AnyRole
  <1>2. prop \in [Prop -> Proposal] /\ \A p \in Prop : prop[p] = NoProp
    BY <1>1 DEF LearnInit
  <1>3. points \in [Prop -> Seq(MadePoint)] /\ \A p \in Prop : points[p] = <<>>
    BY DEF LearnInit
  <1>4. \A p \in Prop : Len(points[p]) = 0 /\ DOMAIN points[p] = {}
    BY <1>3
  <1>5. applying = [a \in Applier |-> NoApply]
    BY DEF LearnInit
  <1> QED
    BY <1>1, <1>2, <1>3, <1>4, <1>5 DEF PointInv, PhysicalIsRecordOnly, PointIsOnce, Made

LEMMA PointStep ==
  ASSUME \A a, b \in Applier : a = b, PointInv, [LearnNext]_learnVars
  PROVE  PointInv'
  <1>row. \A p \in Prop : prop[p] \in Proposal /\ (p \in Made => Guards(prop[p]))
    BY DEF PointInv, PhysicalIsRecordOnly, Guards
  <1>same. UNCHANGED <<prop, points, applying>> => PointInv'
    BY Reviewed1 DEF PointInv
  <1>1. ASSUME NEW j \in LearnJob, NEW S \in SUBSET (Prop \ Made), NEW cat \in [S -> Category],
               FinishRun(j, S, cat)
        PROVE  PointInv'
    <2> DEFINE role == [p \in S |-> DefaultRole(cat[p])]
    <2>1. \A p \in S : /\ cat[p] \in Category \union {Unresolved} /\ role[p] \in AnyRole
                       /\ cat[p] = Physical => role[p] = RecordOnly
      BY DefaultRoleOK
    <2>2. Draft(j, S, cat, role) /\ UNCHANGED <<points, applying>>
      BY <1>1 DEF FinishRun
    <2> HIDE DEF role
    <2> QED
      BY <2>1, <2>2, Drafted
  <1>2. ASSUME NEW j \in AuthorJob, NEW S \in SUBSET (Prop \ Made), NEW cat \in [S -> Category \union {Unresolved}],
               NEW role \in [S -> Role], FinishAuthoring(j, S, cat, role)
        PROVE  PointInv'
    <2> DEFINE guarded == [p \in S |-> Guarded(cat[p], role[p])]
    <2>1. \A p \in S : /\ cat[p] \in Category \union {Unresolved} /\ guarded[p] \in AnyRole
                       /\ cat[p] = Physical => guarded[p] = RecordOnly
      BY DEF Guarded, AnyRole
    <2>2. Draft(j, S, cat, guarded) /\ UNCHANGED <<points, applying>>
      BY <1>2 DEF FinishAuthoring
    <2> HIDE DEF guarded
    <2> QED
      BY <2>1, <2>2, Drafted
  <1>3. ASSUME NEW j \in LearnJob, NEW S \in SUBSET Of(j), NEW edit \in [S -> Category \union {Unresolved}],
               ApproveProposals(j, S, edit)
        PROVE  PointInv'
    <2> DEFINE new(p) == [Edited(prop[p], edit[p]) EXCEPT !.status = "approved"]
    <2>1. \A p \in S : p \in Prop /\ p \in Made
      BY DEF Of, Made
    <2>2. \A p \in S : new(p) \in Proposal /\ Guards(new(p)) /\ new(p).point = prop[p].point /\ new(p).status = "approved"
      <3> TAKE p \in S
      <3>1. Edited(prop[p], edit[p]) \in Proposal /\ Guards(Edited(prop[p], edit[p])) /\ Edited(prop[p], edit[p]).point = prop[p].point
        BY <2>1, <1>row, EditedOK
      <3> QED
        BY <3>1 DEF Proposal, Guards
    <2>3. prop' = [p \in Prop |-> IF p \in S THEN new(p) ELSE prop[p]] /\ UNCHANGED <<points, applying>>
      BY <1>3 DEF ApproveProposals
    <2> HIDE DEF new
    <2> QED
      BY <1>row, <2>2, <2>3, Reviewed1
  <1>4. ASSUME NEW j \in LearnJob, NEW S \in SUBSET Of(j), RejectProposals(j, S)
        PROVE  PointInv'
    <2> DEFINE new(p) == [prop[p] EXCEPT !.status = "rejected"]
    <2>1. \A p \in S : p \in Prop /\ p \in Made
      BY DEF Of, Made
    <2>2. \A p \in S : new(p) \in Proposal /\ Guards(new(p)) /\ new(p).point = prop[p].point /\ new(p).status = "rejected"
      BY <2>1, <1>row DEF Proposal, Guards
    <2>3. prop' = [p \in Prop |-> IF p \in S THEN new(p) ELSE prop[p]] /\ UNCHANGED <<points, applying>>
      BY <1>4 DEF RejectProposals
    <2> HIDE DEF new
    <2> QED
      BY <1>row, <2>2, <2>3, Reviewed1
  <1>5. ASSUME NEW p \in Prop, NEW c \in Category \union {Unresolved}, ApproveOne(p, c)
        PROVE  PointInv'
    <2> DEFINE new == [Edited(prop[p], c) EXCEPT !.status = "approved"]
    <2>1. Edited(prop[p], c) \in Proposal /\ Guards(Edited(prop[p], c)) /\ Edited(prop[p], c).point = prop[p].point
      BY <1>5, <1>row, EditedOK DEF ApproveOne
    <2>2. new \in Proposal /\ Guards(new) /\ new.point = prop[p].point /\ new.status = "approved"
      BY <2>1 DEF Proposal, Guards
    <2>3. prop' = [prop EXCEPT ![p] = new] /\ UNCHANGED <<points, applying>>
      BY <1>5 DEF ApproveOne
    <2> HIDE DEF new
    <2> QED
      BY <2>2, <2>3, Reviewed1 DEF PointInv
  <1>6. ASSUME NEW p \in Prop, RejectOne(p)
        PROVE  PointInv'
    <2> DEFINE new == [prop[p] EXCEPT !.status = "rejected"]
    <2>1. new \in Proposal /\ Guards(new) /\ new.point = prop[p].point /\ new.status = "rejected"
      BY <1>6, <1>row DEF RejectOne, Proposal, Guards
    <2>2. prop' = [prop EXCEPT ![p] = new] /\ UNCHANGED <<points, applying>>
      BY <1>6 DEF RejectOne, PointInv
    <2> HIDE DEF new
    <2> QED
      BY <2>1, <2>2, Reviewed1 DEF PointInv
  <1>7. ASSUME NEW a \in Applier, NEW j \in LearnJob, BeginApply(a, j)
        PROVE  PointInv'
    <2> DEFINE seen == [p \in Of(j) |-> prop[p]]
               new == [job |-> j, seen |-> seen]
    <2>1. Of(j) \in SUBSET Prop /\ \A p \in Of(j) : prop[p].status # "absent" /\ p \in Made
      BY DEF Of, Made
    <2>2. seen \in [Of(j) -> Proposal]
      BY <2>1, <1>row
    <2>3. \A p \in Of(j) : seen[p].status # "absent" /\ Guards(seen[p])
      BY <2>1, <1>row
    <2>4. seen \in Read
      BY <2>1, <2>2, <2>3 DEF Read
    <2>5. new \in [job : LearnJob, seen : Read]
      BY <2>4
    <2>6. applying' = [applying EXCEPT ![a] = new] /\ UNCHANGED <<prop, points>>
      BY <1>7 DEF BeginApply
    <2>7. new.seen = seen /\ DOMAIN seen = Of(j) /\ \A p \in Of(j) : seen[p] = prop[p]
      OBVIOUS
    <2> HIDE DEF new, seen
    <2>8. applying' \in [Applier -> {NoApply} \union [job : LearnJob, seen : Read]]
      BY <2>5, <2>6 DEF PointInv
    <2>9. \A b \in Applier : applying'[b].seen = seen
      BY <2>6, <2>7 DEF PointInv
    <2>10. \A b \in Applier : applying'[b] # NoApply => \A p \in DOMAIN applying'[b].seen :
               prop'[p].status # "absent" /\ applying'[b].seen[p].point = prop'[p].point
      BY <2>1, <2>6, <2>7, <2>9
    <2> QED
      BY <2>6, <2>8, <2>10 DEF PointInv, PhysicalIsRecordOnly, PointIsOnce, Made
  <1>8. ASSUME NEW a \in Applier, CommitApply(a)
        PROVE  PointInv'
    <2> DEFINE seen == applying[a].seen
               todo == {p \in DOMAIN seen : Applies(seen[p])}
               new(p) == [prop[p] EXCEPT !.status = "applied", !.point = TRUE]
               made(p) == [cat |-> seen[p].cat, role |-> seen[p].role]
    <2>1. seen \in Read
      BY <1>8 DEF CommitApply, PointInv
    <2>2. DOMAIN seen \subseteq Prop /\ \A p \in DOMAIN seen : seen[p] \in Proposal /\ Guards(seen[p])
      BY <2>1 DEF Read
    <2>3. \A p \in DOMAIN seen : prop[p].status # "absent" /\ seen[p].point = prop[p].point
      BY <1>8 DEF CommitApply, PointInv
    <2>4. /\ prop' = [p \in Prop |-> IF p \in todo THEN new(p) ELSE prop[p]]
          /\ points' = [p \in Prop |-> IF p \in todo THEN Append(points[p], made(p)) ELSE points[p]]
          /\ applying' = [applying EXCEPT ![a] = NoApply]
      BY <1>8 DEF CommitApply
    <2>5. \A p \in todo : /\ p \in Prop /\ p \in Made /\ prop[p].point = FALSE
                          /\ made(p) \in MadePoint /\ Guards(made(p))
      <3> TAKE p \in todo
      <3>1. p \in Prop /\ seen[p] \in Proposal /\ Guards(seen[p]) /\ ~ seen[p].point
        BY <2>2 DEF Applies
      <3>2. prop[p].status # "absent" /\ prop[p].point = FALSE
        BY <2>3, <3>1, <1>row DEF Proposal
      <3> QED
        BY <3>1, <3>2 DEF Made, Proposal, MadePoint, Guards
    <2> HIDE DEF seen, todo, made
    <2>6. \A p \in todo : new(p) \in Proposal /\ Guards(new(p)) /\ new(p).point = TRUE /\ new(p).status = "applied"
      BY <2>5, <1>row DEF Proposal, Guards
    <2> HIDE DEF new
    <2>7. \A p \in todo : /\ Append(points[p], made(p)) \in Seq(MadePoint)
                          /\ Len(Append(points[p], made(p))) = 1
                          /\ \A i \in DOMAIN Append(points[p], made(p)) : Guards(Append(points[p], made(p))[i])
      <3> TAKE p \in todo
      <3>1. points[p] \in Seq(MadePoint) /\ Len(points[p]) = 0 /\ made(p) \in MadePoint /\ Guards(made(p))
        BY <2>5 DEF PointInv, PointIsOnce
      <3> QED
        BY <3>1
    <2>8. prop' \in [Prop -> Proposal] /\ points' \in [Prop -> Seq(MadePoint)]
      BY <2>4, <2>6, <2>7, <1>row DEF PointInv
    <2>9. \A p \in Prop : (p \in todo => prop'[p] = new(p) /\ points'[p] = Append(points[p], made(p)))
                          /\ (p \notin todo => prop'[p] = prop[p] /\ points'[p] = points[p])
      BY <2>4
    <2>10. PointIsOnce'
      <3>1. ASSUME NEW p \in Prop
            PROVE  /\ Len(points'[p]) = IF prop'[p].point THEN 1 ELSE 0
                   /\ prop'[p].status = "applied" => prop'[p].point
        <4>1. CASE p \in todo
          BY <2>6, <2>7, <2>9, <4>1
        <4>2. CASE p \notin todo
          BY <2>9, <4>2 DEF PointInv, PointIsOnce
        <4> QED
          BY <4>1, <4>2
      <3> QED
        BY <3>1 DEF PointIsOnce
    <2>11. PhysicalIsRecordOnly'
      <3>1. ASSUME NEW p \in Prop
            PROVE  /\ p \in Made' => Guards(prop'[p])
                   /\ \A i \in DOMAIN points'[p] : Guards(points'[p][i])
        <4>1. CASE p \in todo
          BY <2>6, <2>7, <2>9, <4>1
        <4>2. CASE p \notin todo
          BY <2>9, <4>2, <1>row DEF PointInv, PhysicalIsRecordOnly, Made, Guards
        <4> QED
          BY <4>1, <4>2
      <3> QED
        BY <3>1 DEF PhysicalIsRecordOnly, Made, Guards
    <2>12. \A b \in Applier : applying'[b] = NoApply
      BY <2>4 DEF PointInv
    <2>13. applying' \in [Applier -> {NoApply} \union [job : LearnJob, seen : Read]]
      BY <2>4 DEF PointInv
    <2>14. \A p \in Prop : prop'[p].status = "absent" => ~ prop'[p].point
      BY <2>6, <2>9 DEF PointInv
    <2> QED
      BY <2>8, <2>10, <2>11, <2>12, <2>13, <2>14 DEF PointInv
  <1>9. CASE UNCHANGED learnVars
    BY <1>9, <1>same DEF learnVars
  <1>10. ASSUME NEW j \in LearnJob \union AuthorJob,
                \/ CreateJob(j) \/ AddInput(j) \/ RejectRuntime(j) \/ StartRun(j) \/ FailRun(j) \/ DieAsking(j)
                \/ StartAuthoring(j) \/ FailAuthoring(j)
         PROVE  PointInv'
    BY <1>10, <1>same DEF CreateJob, AddInput, RejectRuntime, StartRun, FailRun, DieAsking, StartAuthoring, FailAuthoring
  <1> QED
    BY <1>1, <1>2, <1>3, <1>4, <1>5, <1>6, <1>7, <1>8, <1>9, <1>10 DEF LearnNext

\* However often a proposal is drafted, rejected, approved and applied, through
\* either service, one apply request at a time gives it one detection point.
THEOREM PointOnce ==
  ASSUME \A a, b \in Applier : a = b
  PROVE  LearnSpec => []PointIsOnce
  <1>1. PointInv => PointIsOnce
    BY DEF PointInv
  <1>2. PointInv /\ [LearnNext]_learnVars => PointInv'
    BY PointStep
  <1> QED
    BY PointInitially, <1>1, <1>2, PTL DEF LearnSpec

-----------------------------------------------------------------------------
(* Production runs of a training pack.  Confirmed rules are only ever added,  *)
(* so those there were at the gate are among those read after it; a run says  *)
(* pass only from answers of which there is one for each rule it read.  A     *)
(* memory exists only after its job completed, and no job completes twice.    *)

MemRow == [status : MemStatus, feature : Feature, content : Content,
           attached : {"absent"} \union MemStatus]
RuleRow == [of : Memory, feature : Feature, content : Content]
RunStatus == {"none", "running", "asking", "completed", "failed"}
Dispositions == {"none", "pass", "review", "reject"}
RunRow(known) == [status : RunStatus, began : SUBSET known, rules : SUBSET known,
                  measured : BOOLEAN, overall : Dispositions]

\* What a run holds at each point of it, when the confirmed rules are those of known.
RunHolds(x, known) ==
    /\ x.status \notin {"none", "running"} => x.began \subseteq x.rules
    /\ x.status # "completed" => x.overall # "pass"
    /\ x.overall = "pass" => x.rules # {} /\ ~ x.measured

PackInv ==
    /\ PackTypeOK
    /\ \A m \in Memory : mem[m].status # "absent" => sjob[m] = "completed"
    /\ \A a \in Applier : confirming[a] # NotConfirming => mem[confirming[a].of].status # "absent"
    /\ ClosedWithMemory
    /\ \A r \in Run : RunHolds(run[r], rules)

LEMMA PackInitially == TPInit => PackInv
  <1> SUFFICES ASSUME PackInit
               PROVE  PackInv
    BY DEF TPInit
  <1>1. NoRun \in RunRow({}) /\ RunHolds(NoRun, {})
    BY DEF NoRun, RunRow, RunHolds, RunStatus, Dispositions
  <1>2. rules = {} /\ run = [r \in Run |-> NoRun]
    BY DEF PackInit
  <1> HIDE DEF NoRun
  <1>3. run \in [Run -> RunRow(rules)] /\ \A r \in Run : RunHolds(run[r], rules)
    BY <1>1, <1>2
  <1>4. \A m \in Memory : mem[m].status = "absent"
    BY DEF PackInit, NoMem
  <1>5. \A a \in Applier : confirming[a] = NotConfirming
    BY DEF PackInit
  <1>6. PackTypeOK
    BY <1>3 DEF PackInit, PackTypeOK, RunRow, RunStatus, Dispositions
  <1>7. ClosedWithMemory
    BY <1>4 DEF ClosedWithMemory, MemStatus
  <1> QED
    BY <1>3, <1>4, <1>5, <1>6, <1>7 DEF PackInv

\* A memory that exists is a row.
LEMMA MemIsRow ==
  ASSUME PackInv, NEW m \in Memory, mem[m].status # "absent"
  PROVE  mem[m] \in MemRow /\ sjob[m] = "completed"
  <1>1. mem[m] \in {NoMem} \union MemRow
    BY DEF PackInv, PackTypeOK, MemRow
  <1> QED
    BY <1>1 DEF PackInv, NoMem

\* A step that gives one memory another row, of a status it may have, and
\* confirms no rule and touches no run.
LEMMA MemoryStep ==
  ASSUME PackInv, NEW m \in Memory, NEW row \in MemRow, sjob'[m] = "completed",
         row.status # "proposed" => row.attached # "proposed",
         mem' = [mem EXCEPT ![m] = row], \A n \in Memory \ {m} : sjob'[n] = sjob[n],
         sjob' \in [Memory -> {"none", "running", "completed", "failed"}],
         UNCHANGED <<provider, rules, confirming, waived, session, run>>
  PROVE  PackInv'
  <1>1. row.status # "absent"
    BY DEF MemRow, MemStatus
  <1>2. mem' \in [Memory -> {NoMem} \union MemRow]
    BY DEF PackInv, PackTypeOK, MemRow
  <1>3. PackTypeOK'
    BY <1>2 DEF PackInv, PackTypeOK, MemRow
  <1>4. \A n \in Memory : mem'[n] = IF n = m THEN row ELSE mem[n]
    BY DEF PackInv, PackTypeOK
  <1>5. \A n \in Memory : mem'[n].status # "absent" => sjob'[n] = "completed"
    BY <1>4 DEF PackInv
  <1>6. \A a \in Applier : confirming'[a] # NotConfirming => mem'[confirming'[a].of].status # "absent"
    <2> SUFFICES ASSUME NEW a \in Applier, confirming[a] # NotConfirming
                 PROVE  mem'[confirming[a].of].status # "absent"
      OBVIOUS
    <2>1. confirming[a].of \in Memory
      BY DEF PackInv, PackTypeOK
    <2> QED
      BY <1>1, <1>4, <2>1 DEF PackInv
  <1>7. ClosedWithMemory'
    BY <1>4 DEF PackInv, ClosedWithMemory
  <1>8. \A r \in Run : RunHolds(run'[r], rules')
    BY DEF PackInv, RunHolds
  <1> QED
    BY <1>3, <1>5, <1>6, <1>7, <1>8 DEF PackInv

\* A step that gives one run another row.
LEMMA RunStep ==
  ASSUME PackInv, NEW r \in Run, NEW row \in RunRow(rules), RunHolds(row, rules),
         run' = [run EXCEPT ![r] = row],
         UNCHANGED <<sjob, provider, mem, rules, confirming, waived, session>>
  PROVE  PackInv'
  <1>1. run' \in [Run -> RunRow(rules)] /\ \A q \in Run : run'[q] = IF q = r THEN row ELSE run[q]
    BY DEF PackInv, PackTypeOK, RunRow, RunStatus, Dispositions
  <1>2. PackTypeOK'
    BY <1>1 DEF PackInv, PackTypeOK, RunRow, RunStatus, Dispositions
  <1>3. \A q \in Run : RunHolds(run'[q], rules')
    BY <1>1 DEF PackInv, RunHolds
  <1> QED
    BY <1>2, <1>3 DEF PackInv, ClosedWithMemory

LEMMA PackLearns ==
  ASSUME PackInv, NEW m \in Memory,
         \/ \E who \in {"real", "mock"} : StartLearning(m, who)
         \/ \E f \in Feature, c \in Content, attached \in {"absent", "proposed"} : FinishLearning(m, f, c, attached)
         \/ FailLearning(m)
         \/ \E c \in Content : \/ EditMemory(m, c)
                               \/ \E verdict \in {"approved", "rejected"} : Review(m, verdict, c)
  PROVE  PackInv'
  <1>job. sjob \in [Memory -> {"none", "running", "completed", "failed"}]
    BY DEF PackInv, PackTypeOK
  <1>1. ASSUME sjob[m] # "completed", NEW who \in {"real", "mock"}, NEW to \in {"running", "failed"},
               sjob' = [sjob EXCEPT ![m] = to],
               provider' = provider \/ provider' = [provider EXCEPT ![m] = who],
               UNCHANGED <<mem, rules, confirming, waived, session, run>>
        PROVE  PackInv'
    <2>1. PackTypeOK'
      BY <1>1 DEF PackInv, PackTypeOK
    <2>2. \A n \in Memory : mem'[n].status # "absent" => sjob'[n] = "completed"
      BY <1>1, <1>job DEF PackInv
    <2>3. \A r \in Run : RunHolds(run'[r], rules')
      BY <1>1 DEF PackInv, RunHolds
    <2> QED
      BY <1>1, <2>1, <2>2, <2>3 DEF PackInv, ClosedWithMemory
  <1>2. ASSUME NEW who \in {"real", "mock"}, StartLearning(m, who)
        PROVE  PackInv'
    BY <1>1, <1>2 DEF StartLearning
  <1>3. ASSUME FailLearning(m)
        PROVE  PackInv'
    BY <1>1, <1>3 DEF FailLearning
  <1>4. ASSUME NEW f \in Feature, NEW c \in Content, NEW attached \in {"absent", "proposed"},
               FinishLearning(m, f, c, attached)
        PROVE  PackInv'
    <2> DEFINE row == [status |-> "proposed", feature |-> f, content |-> c, attached |-> attached]
    <2>1. row \in MemRow /\ row.status = "proposed"
      BY DEF MemRow, MemStatus
    <2>2. mem' = [mem EXCEPT ![m] = row]
      BY <1>4 DEF FinishLearning
    <2> HIDE DEF row
    <2>3. sjob' = [sjob EXCEPT ![m] = "completed"] /\ UNCHANGED <<provider, rules, confirming, waived, session, run>>
      BY <1>4 DEF FinishLearning
    <2> QED
      BY <1>job, <2>1, <2>2, <2>3, MemoryStep
  <1>5. ASSUME NEW c \in Content, EditMemory(m, c)
        PROVE  PackInv'
    <2> DEFINE row == [mem[m] EXCEPT !.content = c]
    <2>1. mem[m] \in MemRow /\ sjob[m] = "completed" /\ (mem[m].status # "proposed" => mem[m].attached # "proposed")
      BY <1>5, MemIsRow DEF EditMemory, PackInv, ClosedWithMemory, MemRow
    <2>2. row \in MemRow /\ (row.status # "proposed" => row.attached # "proposed")
      BY <2>1 DEF MemRow
    <2>3. mem' = [mem EXCEPT ![m] = row]
      BY <1>5 DEF EditMemory
    <2> HIDE DEF row
    <2> QED
      BY <1>5, <1>job, <2>1, <2>2, <2>3, MemoryStep DEF EditMemory
  <1>6. ASSUME NEW c \in Content, NEW verdict \in {"approved", "rejected"}, Review(m, verdict, c)
        PROVE  PackInv'
    <2> DEFINE row == [mem[m] EXCEPT !.status = verdict, !.content = c, !.attached = Closed(mem[m].attached, verdict)]
    <2>1. mem[m] \in MemRow /\ sjob[m] = "completed"
      BY <1>6, MemIsRow DEF Review
    <2>2. row \in MemRow /\ row.attached # "proposed"
      BY <2>1 DEF MemRow, MemStatus, Closed
    <2>3. mem' = [mem EXCEPT ![m] = row]
      BY <1>6 DEF Review
    <2> HIDE DEF row
    <2> QED
      BY <1>6, <1>job, <2>1, <2>2, <2>3, MemoryStep DEF Review
  <1> QED
    BY <1>2, <1>3, <1>4, <1>5, <1>6

LEMMA PackConfirms ==
  ASSUME PackInv, NEW a \in Applier, CommitConfirm(a) \/ \E m \in Memory : BeginConfirm(a, m)
  PROVE  PackInv'
  <1>1. ASSUME NEW m \in Memory, BeginConfirm(a, m)
        PROVE  PackInv'
    <2> DEFINE new == [of |-> m, content |-> mem[m].content]
    <2>1. mem[m] \in MemRow
      BY <1>1, MemIsRow DEF BeginConfirm
    <2>2. new \in [of : Memory, content : Content] /\ new.of = m
      BY <2>1 DEF MemRow
    <2>3. confirming' = [confirming EXCEPT ![a] = new]
      BY <1>1 DEF BeginConfirm
    <2> HIDE DEF new
    <2>4. PackTypeOK'
      BY <1>1, <2>2, <2>3 DEF BeginConfirm, PackInv, PackTypeOK
    <2>5. \A b \in Applier : confirming'[b] = IF b = a THEN new ELSE confirming[b]
      BY <2>3 DEF PackInv, PackTypeOK
    <2>6. \A r \in Run : RunHolds(run'[r], rules')
      BY <1>1 DEF BeginConfirm, PackInv, RunHolds
    <2> QED
      BY <1>1, <2>2, <2>4, <2>5, <2>6 DEF BeginConfirm, PackInv, ClosedWithMemory
  <1>2. ASSUME CommitConfirm(a)
        PROVE  PackInv'
    <2> DEFINE m == confirming[a].of
               row == [mem[m] EXCEPT !.status = "applied", !.attached = Closed(mem[m].attached, "applied")]
               made == [of |-> m, feature |-> mem[m].feature, content |-> confirming[a].content]
    <2>1. confirming[a] \in [of : Memory, content : Content] /\ mem[m].status # "absent"
      BY <1>2 DEF CommitConfirm, PackInv, PackTypeOK
    <2>2. m \in Memory /\ mem[m] \in MemRow /\ sjob[m] = "completed"
      BY <2>1, MemIsRow
    <2>3. row \in MemRow /\ row.attached # "proposed" /\ row.status = "applied"
      BY <2>2 DEF MemRow, MemStatus, Closed
    <2>4. made \in RuleRow
      BY <2>1, <2>2 DEF RuleRow, MemRow
    <2>5. /\ mem' = [mem EXCEPT ![m] = row] /\ rules' = rules \union {made}
          /\ confirming' = [confirming EXCEPT ![a] = NotConfirming]
          /\ UNCHANGED <<sjob, provider, waived, session, run>>
      BY <1>2 DEF CommitConfirm
    <2> HIDE DEF m, row, made
    <2>6. mem' \in [Memory -> {NoMem} \union MemRow] /\ \A n \in Memory : mem'[n] = IF n = m THEN row ELSE mem[n]
      BY <2>2, <2>3, <2>5 DEF PackInv, PackTypeOK, MemRow
    <2>7. run \in [Run -> RunRow(rules)]
      BY DEF PackInv, PackTypeOK, RunRow, RunStatus, Dispositions
    <2>8. RunRow(rules) \subseteq RunRow(rules')
      BY <2>5 DEF RunRow
    <2>9. run' \in [Run -> RunRow(rules')]
      BY <2>5, <2>7, <2>8
    <2>10. PackTypeOK'
      BY <2>4, <2>5, <2>6, <2>9 DEF PackInv, PackTypeOK, MemRow, RuleRow, RunRow, RunStatus, Dispositions
    <2>11. \A b \in Applier : confirming'[b] # NotConfirming =>
               confirming[b] = confirming'[b] /\ confirming[b].of \in Memory
      BY <2>5 DEF PackInv, PackTypeOK
    <2>12. \A b \in Applier : confirming'[b] # NotConfirming => mem'[confirming'[b].of].status # "absent"
      BY <2>3, <2>6, <2>11 DEF PackInv
    <2>13. \A n \in Memory : mem'[n].status # "absent" => sjob'[n] = "completed"
      BY <2>2, <2>5, <2>6 DEF PackInv
    <2>14. ClosedWithMemory'
      BY <2>3, <2>6 DEF PackInv, ClosedWithMemory
    <2>15. \A r \in Run : RunHolds(run'[r], rules')
      BY <2>5 DEF PackInv, RunHolds
    <2> QED
      BY <2>10, <2>12, <2>13, <2>14, <2>15 DEF PackInv
  <1> QED
    BY <1>1, <1>2

LEMMA PackInspects ==
  ASSUME PackInv, NEW r \in Run,
         \/ StartInspection(r) \/ ReadRules(r) \/ FailInspection(r)
         \/ \E answer \in [run[r].rules -> Answer] : FinishInspection(r, answer)
  PROVE  PackInv'
  <1>row. run[r] \in RunRow(rules) /\ RunHolds(run[r], rules)
    BY DEF PackInv, PackTypeOK, RunRow, RunStatus, Dispositions
  <1>1. ASSUME StartInspection(r)
        PROVE  PackInv'
    <2> DEFINE row == [run[r] EXCEPT !.status = "running", !.began = rules]
    <2>1. row \in RunRow(rules) /\ RunHolds(row, rules)
      BY <1>row, <1>1 DEF StartInspection, RunRow, RunHolds, RunStatus
    <2>2. run' = [run EXCEPT ![r] = row]
      BY <1>1 DEF StartInspection
    <2> HIDE DEF row
    <2> QED
      BY <1>1, <2>1, <2>2, RunStep DEF StartInspection
  <1>2. ASSUME ReadRules(r)
        PROVE  PackInv'
    <2> DEFINE measured == \E p \in Made : prop[p].cat = Physical /\ prop[p].status \in Confirmed
               row == [run[r] EXCEPT !.status = "asking", !.rules = rules, !.measured = measured]
    <2>1. run' = [run EXCEPT ![r] = row]
      BY <1>2 DEF ReadRules
    <2>2. measured \in BOOLEAN
      OBVIOUS
    <2> HIDE DEF measured
    <2>3. row \in RunRow(rules) /\ RunHolds(row, rules)
      BY <1>row, <1>2, <2>2 DEF ReadRules, RunRow, RunHolds, RunStatus
    <2> HIDE DEF row
    <2> QED
      BY <1>2, <2>1, <2>3, RunStep DEF ReadRules
  <1>3. ASSUME FailInspection(r)
        PROVE  PackInv'
    <2> DEFINE row == [run[r] EXCEPT !.status = "failed"]
    <2>1. row \in RunRow(rules) /\ RunHolds(row, rules)
      BY <1>row, <1>3 DEF FailInspection, RunRow, RunHolds, RunStatus
    <2>2. run' = [run EXCEPT ![r] = row]
      BY <1>3 DEF FailInspection
    <2> HIDE DEF row
    <2> QED
      BY <1>3, <2>1, <2>2, RunStep DEF FailInspection
  <1>4. ASSUME NEW answer \in [run[r].rules -> Answer], FinishInspection(r, answer)
        PROVE  PackInv'
    <2> DEFINE ds == {Coerced(answer[c]) : c \in run[r].rules}
               overall == Overall(ds, run[r].measured)
               row == [run[r] EXCEPT !.status = "completed", !.overall = overall]
    <2>1. run' = [run EXCEPT ![r] = row]
      BY <1>4 DEF FinishInspection
    <2>2. overall \in Dispositions /\ (overall = "pass" => ds = {"pass"} /\ ~ run[r].measured)
      BY DEF Overall, Dispositions
    <2>3. ds = {"pass"} => run[r].rules # {}
      OBVIOUS
    <2> HIDE DEF overall, ds
    <2>4. row \in RunRow(rules) /\ RunHolds(row, rules)
      BY <1>row, <1>4, <2>2, <2>3 DEF FinishInspection, RunRow, RunHolds, RunStatus
    <2> HIDE DEF row
    <2> QED
      BY <1>4, <2>1, <2>4, RunStep DEF FinishInspection
  <1> QED
    BY <1>1, <1>2, <1>3, <1>4

LEMMA PackInvNext == PackInv /\ [TPNext]_allPackVars => PackInv'
  <1> SUFFICES ASSUME PackInv, [TPNext]_allPackVars
               PROVE  PackInv'
    OBVIOUS
  <1>same. ASSUME UNCHANGED <<sjob, provider, mem, rules, confirming, run>>,
                  waived' \subseteq Prop, session' \in {"none", "open", "captured"}
           PROVE  PackInv'
    <2>1. PackTypeOK'
      BY <1>same DEF PackInv, PackTypeOK
    <2>2. \A r \in Run : RunHolds(run'[r], rules')
      BY <1>same DEF PackInv, RunHolds
    <2> QED
      BY <1>same, <2>1, <2>2 DEF PackInv, ClosedWithMemory
  <1>typed. waived \subseteq Prop /\ session \in {"none", "open", "captured"}
    BY DEF PackInv, PackTypeOK
  <1>1. CASE UNCHANGED packVars
    BY <1>1, <1>same, <1>typed DEF packVars
  <1>2. CASE CreateSession \/ AddCapture
    BY <1>2, <1>same, <1>typed DEF CreateSession, AddCapture
  <1>3. ASSUME NEW p \in Uncertain, Waive(p)
        PROVE  PackInv'
    BY <1>3, <1>same, <1>typed, PackAssumption DEF Waive
  <1> QED
    BY <1>1, <1>2, <1>3, PackLearns, PackConfirms, PackInspects DEF TPNext, PackStep, allPackVars

\* A production run recommends a pass only of all the rules there were at its
\* gate, with nothing left to measure (production/service.py, run_inspection),
\* for any number of memories, runs and overlapping requests.
THEOREM PassInspected == TPSpec => []PassIsInspected
  <1>1. TPInit => PackInv
    BY PackInitially
  <1>2. PackInv /\ [TPNext]_allPackVars => PackInv'
    BY PackInvNext
  <1>3. PackInv => PassIsInspected
    BY DEF PackInv, PassIsInspected, RunHolds
  <1> QED
    BY <1>1, <1>2, <1>3, PTL DEF TPSpec

\* Every row, request and run keeps its type, and no reviewed memory leaves a
\* rule open behind it (sample_learning/service.py, _close_associated_rules).
THEOREM PackClosed == TPSpec => [](PackTypeOK /\ ClosedWithMemory)
  <1>1. TPInit => PackInv
    BY PackInitially
  <1>2. PackInv /\ [TPNext]_allPackVars => PackInv'
    BY PackInvNext
  <1>3. PackInv => PackTypeOK /\ ClosedWithMemory
    BY DEF PackInv
  <1> QED
    BY <1>1, <1>2, <1>3, PTL DEF TPSpec
=============================================================================
