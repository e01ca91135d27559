------------------------------ MODULE PadDesk -------------------------------
(***************************************************************************)
(* An operator's session at the browser Pad: chat that drafts a standard,  *)
(* its confirmation, the workstation the session declares, the gates a new *)
(* job passes, and the job's workflow as the server derives it from what is *)
(* stored.  Publication, distribution and probation go on meanwhile.       *)
(***************************************************************************)
EXTENDS Naturals, Sequences, FiniteSets

CONSTANTS
  Seat,        \* operators' sessions
  Place,       \* workstations
  Release,     \* versions of distribution bundles
  Item,        \* checkpoints a message may name
  MaxDrafts, MaxStandards, MaxTasks  \* bounds

VARIABLES
  seat,        \* of each session: signed in, workstation, requests under way
  drafts,      \* intakes: [status, points]
  standards,   \* revisions of the SKU: [points, status]
  published,   \* revisions with a publish bundle
  trial,       \* probation of each revision: "none", "active" or "qualified"
  release,     \* the revision each distribution bundle carries, 0 before it is built
  place,       \* of each workstation: versions ever assigned and reported, the installed one
  work         \* jobs: [rev, gate, media, analysis, results, report]

deskVars == <<seat, drafts, standards, published, trial, release, place, work>>

Nowhere == "nowhere"
NoRelease == "none"  \* the bundle a workstation has not
ASSUME DeskAssumption == NoRelease \notin Release /\ IsFiniteSet(Item)

NoGate == [rev |-> 0, stage |-> "none", place |-> Nowhere]
Away == [in |-> FALSE, place |-> Nowhere, chat |-> 0, confirming |-> <<>>, creating |-> FALSE, gate |-> NoGate]
Unbound == [given |-> {}, assigned |-> NoRelease, installed |-> NoRelease, reported |-> {}]

DeskInit ==
  /\ seat = [s \in Seat |-> Away] /\ drafts = <<>> /\ standards = <<>>
  /\ published = {} /\ trial = [r \in 1 .. MaxStandards |-> "none"]
  /\ release = [v \in Release |-> 0] /\ place = [w \in Place |-> Unbound]
  /\ work = <<>>

\* The active revision, 0 when there is none.
Current ==
  LET active == {r \in DOMAIN standards : standards[r].status = "active"}
  IN IF active = {} THEN 0 ELSE CHOOSE r \in active : TRUE

-----------------------------------------------------------------------------
(* Sessions and chat.                                                       *)

\* Signing in again keeps the workstation the session had declared.
SignIn(s) ==
  /\ ~seat[s].in /\ seat' = [seat EXCEPT ![s].in = TRUE]
  /\ UNCHANGED <<drafts, standards, published, trial, release, place, work>>
SignOut(s) ==
  /\ seat[s].in /\ seat' = [seat EXCEPT ![s].in = FALSE, ![s].place = Nowhere]
  /\ UNCHANGED <<drafts, standards, published, trial, release, place, work>>
BindWorkstation(s, w) ==
  /\ seat[s].in /\ seat' = [seat EXCEPT ![s].place = w]
  /\ UNCHANGED <<drafts, standards, published, trial, release, place, work>>

\* A message that names two checkpoints or more is a standard; one with a
\* keyword of that intent is too, without checkpoints.
IsStandard(named, keyword) == Cardinality(named) >= 2 \/ keyword
PointsOf(named) == IF Cardinality(named) >= 2 THEN named ELSE {}

\* The intake is stored as received, ...
PadChat(s, named, keyword) ==
  /\ seat[s].in /\ seat[s].chat = 0 /\ Len(drafts) < MaxDrafts
  /\ IsStandard(named, keyword)
  /\ drafts' = Append(drafts, [status |-> "received", points |-> PointsOf(named)])
  /\ seat' = [seat EXCEPT ![s].chat = Len(drafts) + 1]
  /\ UNCHANGED <<standards, published, trial, release, place, work>>

\* ... and then offered for confirmation.
OfferDraft(s) ==
  /\ seat[s].chat # 0
  /\ drafts' = [drafts EXCEPT ![seat[s].chat].status = "pending_confirmation"]
  /\ seat' = [seat EXCEPT ![s].chat = 0]
  /\ UNCHANGED <<standards, published, trial, release, place, work>>

\* The operator confirms the checkpoints sent back, or the stored ones: a draft
\* revision is committed first, ...
ConfirmStandard(s, i, sent) ==
  LET points == IF sent = {} THEN drafts[i].points ELSE sent
  IN /\ seat[s].in /\ seat[s].confirming = <<>> /\ Len(standards) < MaxStandards
     /\ drafts[i].status = "pending_confirmation" /\ points # {}
     /\ standards' = Append(standards, [points |-> {}, status |-> "draft"])
     /\ seat' = [seat EXCEPT ![s].confirming = <<Len(standards) + 1, i, points>>]
     /\ UNCHANGED <<drafts, published, trial, release, place, work>>

\* ... then activated with its points while the active one is archived, ...
ActivateStandard(s) ==
  LET c == seat[s].confirming
  IN /\ c # <<>> /\ standards[c[1]].status = "draft"
     /\ standards' = [r \in DOMAIN standards |->
          IF r = c[1] THEN [points |-> c[3], status |-> "active"]
          ELSE IF r = Current THEN [standards[r] EXCEPT !.status = "archived"] ELSE standards[r]]
     /\ UNCHANGED <<seat, drafts, published, trial, release, place, work>>

\* ... and the intake marked confirmed last.
SettleDraft(s) ==
  LET c == seat[s].confirming
  IN /\ c # <<>> /\ standards[c[1]].status # "draft"
     /\ drafts' = [drafts EXCEPT ![c[2]].status = "confirmed"]
     /\ seat' = [seat EXCEPT ![s].confirming = <<>>]
     /\ UNCHANGED <<standards, published, trial, release, place, work>>

\* A request fails or its process dies between two of its commits.
RequestDies(s) ==
  /\ seat[s].chat # 0 \/ seat[s].confirming # <<>>
  /\ seat' = [seat EXCEPT ![s].chat = 0, ![s].confirming = <<>>]
  /\ UNCHANGED <<drafts, standards, published, trial, release, place, work>>

-----------------------------------------------------------------------------
(* Publication and distribution.                                            *)

\* The bundle is committed first, the probation then.
PublishStandard ==
  /\ Current # 0 /\ published' = published \cup {Current}
  /\ UNCHANGED <<seat, drafts, standards, trial, release, place, work>>
StartTrial(r) ==
  /\ r \in published /\ trial[r] = "none" /\ trial' = [trial EXCEPT ![r] = "active"]
  /\ UNCHANGED <<seat, drafts, standards, published, release, place, work>>
QualifyTrial(r) ==
  /\ trial[r] = "active" /\ trial' = [trial EXCEPT ![r] = "qualified"]
  /\ UNCHANGED <<seat, drafts, standards, published, release, place, work>>

BuildRelease(v, r) ==
  /\ release[v] = 0 /\ r = Current /\ r # 0 /\ release' = [release EXCEPT ![v] = r]
  /\ UNCHANGED <<seat, drafts, standards, published, trial, place, work>>
AssignRelease(w, v) ==
  /\ release[v] # 0
  /\ place' = [place EXCEPT ![w].given = @ \cup {v}, ![w].assigned = v]
  /\ UNCHANGED <<seat, drafts, standards, published, trial, release, work>>
\* Whatever version the Pad says it holds.
ReportInstalled(w, v) ==
  /\ place' = [place EXCEPT ![w].installed = v, ![w].reported = @ \cup {v}]
  /\ UNCHANGED <<seat, drafts, standards, published, trial, release, work>>

\* Mutant of InstalledAt: what is assigned counts as installed.
AssignedAt(w, r) == place[w].assigned # NoRelease /\ release[place[w].assigned] = r

\* The workstation reports a version it was once assigned, which carries r.
InstalledAt(w, r) == \E v \in place[w].given : place[w].installed = v /\ release[v] = r

\* The stage of the SKU's standard in its lifecycle.
LifecycleStage ==
  IF Current = 0
  THEN IF \E r \in DOMAIN standards : standards[r].status = "draft" THEN "ready_for_review" ELSE "draft"
  ELSE CASE trial[Current] = "qualified" -> "active_inspection"
         [] trial[Current] = "active" -> "probation"
         [] trial[Current] = "none" /\ Current \notin published -> "confirmed"
         [] OTHER -> IF \E w \in Place : InstalledAt(w, Current) THEN "installed_on_pad" ELSE "published"

-----------------------------------------------------------------------------
(* Jobs.                                                                    *)

\* The gates look at the active revision, when there is one, ...
PassGates(s) ==
  /\ seat[s].in /\ ~seat[s].creating
  /\ Current # 0 => /\ Current \in published
                    /\ seat[s].place # Nowhere => InstalledAt(seat[s].place, Current)
  /\ seat' = [seat EXCEPT ![s].creating = TRUE,
       ![s].gate = [rev |-> Current, stage |-> LifecycleStage, place |-> seat[s].place]]
  /\ UNCHANGED <<drafts, standards, published, trial, release, place, work>>

\* ... and the job takes the one active by then, if there is one.
CreateTask(s) ==
  /\ seat[s].creating /\ Len(work) < MaxTasks
  /\ work' = IF Current = 0 THEN work
             ELSE Append(work, [rev |-> Current, gate |-> seat[s].gate, media |-> FALSE,
                                analysis |-> "none", report |-> FALSE,
                                results |-> [p \in standards[Current].points |-> "none"]])
  /\ seat' = [seat EXCEPT ![s].creating = FALSE, ![s].gate = NoGate]
  /\ UNCHANGED <<drafts, standards, published, trial, release, place>>

\* Media may still be attached to a finished job.
AttachMedia(j) ==
  /\ work' = [work EXCEPT ![j].media = TRUE]
  /\ UNCHANGED <<seat, drafts, standards, published, trial, release, place>>

\* The assistant is asked before the report, and answers when it does.
AskAssistant(j) ==
  /\ ~work[j].report /\ work[j].media /\ work[j].analysis = "none"
  /\ work' = [work EXCEPT ![j].analysis = "asked"]
  /\ UNCHANGED <<seat, drafts, standards, published, trial, release, place>>
AssistantAnswers(j, answered) ==
  /\ work[j].analysis = "asked"
  /\ work' = [work EXCEPT ![j].analysis = IF answered THEN "stored" ELSE "none"]
  /\ UNCHANGED <<seat, drafts, standards, published, trial, release, place>>

\* A model's output for some points, none of which has a result.
IngestOutput(j, given) ==
  /\ given \subseteq DOMAIN work[j].results /\ \A p \in given : work[j].results[p] = "none"
  /\ work' = [work EXCEPT ![j].analysis = "stored",
       ![j].results = [p \in DOMAIN @ |-> IF p \in given THEN "model" ELSE @[p]]]
  /\ UNCHANGED <<seat, drafts, standards, published, trial, release, place>>

\* The operator judges every point at once, when none has a result yet.
SubmitBatch(j) ==
  /\ work[j].media /\ \A p \in DOMAIN work[j].results : work[j].results[p] = "none"
  /\ work' = [work EXCEPT ![j].results = [p \in DOMAIN @ |-> "operator"]]
  /\ UNCHANGED <<seat, drafts, standards, published, trial, release, place>>

\* The report completes the points without a result as missing.
FinishTask(j) ==
  /\ ~work[j].report
  /\ work' = [work EXCEPT ![j].report = TRUE,
       ![j].results = [p \in DOMAIN @ |-> IF @[p] = "none" THEN "model" ELSE @[p]]]
  /\ UNCHANGED <<seat, drafts, standards, published, trial, release, place>>

\* The checkpoints of the job.
PointsOfJob(j) == standards[work[j].rev].points

\* Mutant of StepsDone: a model's results count as reviewed.
StepsDoneByAnyone(j) ==
  LET reviewed == {p \in DOMAIN work[j].results : work[j].results[p] # "none"}
  IN {"standard_active"}
     \cup {step \in {"evidence_attached"} : work[j].media}
     \cup {step \in {"operator_reviewed"} :
             PointsOfJob(j) # {} /\ Cardinality(reviewed) = Cardinality(PointsOfJob(j))}

\* The steps of the workflow that show as done; the review by count.
StepsDone(j) ==
  LET reviewed == {p \in DOMAIN work[j].results : work[j].results[p] = "operator"}
  IN {"standard_active"}
     \cup {step \in {"evidence_attached"} : work[j].media}
     \cup {step \in {"vision_analyzed"} : work[j].analysis = "stored"}
     \cup {step \in {"operator_reviewed"} :
             PointsOfJob(j) # {} /\ Cardinality(reviewed) = Cardinality(PointsOfJob(j))}
     \cup {step \in {"finalized"} : work[j].report}

-----------------------------------------------------------------------------
DeskNext ==
  \/ \E s \in Seat :
       \/ SignIn(s) \/ SignOut(s) \/ OfferDraft(s) \/ ActivateStandard(s) \/ SettleDraft(s)
       \/ RequestDies(s) \/ PassGates(s) \/ CreateTask(s)
       \/ \E w \in Place : BindWorkstation(s, w)
       \/ \E named \in SUBSET Item, keyword \in BOOLEAN : PadChat(s, named, keyword)
       \/ \E i \in DOMAIN drafts, sent \in SUBSET Item : ConfirmStandard(s, i, sent)
  \/ PublishStandard \/ \E r \in 1 .. MaxStandards : StartTrial(r) \/ QualifyTrial(r)
  \/ \E v \in Release : \/ \E r \in DOMAIN standards : BuildRelease(v, r)
                        \/ \E w \in Place : AssignRelease(w, v) \/ ReportInstalled(w, v)
  \/ \E j \in DOMAIN work :
       \/ AttachMedia(j) \/ AskAssistant(j) \/ SubmitBatch(j) \/ FinishTask(j)
       \/ \E answered \in BOOLEAN : AssistantAnswers(j, answered)
       \/ \E given \in SUBSET DOMAIN work[j].results : IngestOutput(j, given)

DeskSpec == DeskInit /\ [][DeskNext]_deskVars

-----------------------------------------------------------------------------
\* Every job whose gate saw a standard took that one, or one confirmed in its
\* place since; the one the gate saw was published, its stage past confirmation,
\* and a declared workstation had reported a release it was assigned that
\* carries it: session, publication, distribution and confirmation move
\* between the requests.
DeskJobIsGated ==
  \A j \in DOMAIN work :
    LET g == work[j].gate
    IN g.rev # 0 =>
         /\ work[j].rev = g.rev \/ standards[g.rev].status = "archived"
         /\ g.rev \in published
         /\ g.stage \in {"published", "installed_on_pad", "probation", "active_inspection"}
         /\ g.place # Nowhere =>
              \E v \in place[g.place].given \cap place[g.place].reported : release[v] = g.rev

\* A review that shows as done is on evidence and covers each checkpoint of the
\* standard the job took, whatever was confirmed, ingested or finished since.
ReviewedOnEvidence ==
  \A j \in DOMAIN work :
    "operator_reviewed" \in StepsDone(j) =>
      /\ "evidence_attached" \in StepsDone(j)
      /\ \A p \in PointsOfJob(j) : p \in DOMAIN work[j].results /\ work[j].results[p] = "operator"
=============================================================================
