------------------------------ MODULE Standard ------------------------------
(* One SKU's inspection standard, from the draft an administrator confirms to
   the signed bundle a Pad imports: intakes (src/src/intake/service.py), the
   revisions they become (src/src/inspection/service.py), training judgments and
   their review (qc_model/qualification/training.py, training_gate.py), and
   publishing (qc_model/studio/service.py), as the routes of
   src/src/api/qc_studio_router.py drive them.

   Routes run in a thread pool over sessions that take no lock.  A request is
   split at its commits and at the reads it acts on later; a crash (or an error
   answer) may fall between two of its steps. *)
EXTENDS Integers, Sequences, FiniteSets

CONSTANTS
    Worker,          \* requests in flight at a time
    Intake,          \* the SKU's intakes
    MaxRevisions,    \* bound on the revisions ever drafted
    MaxJudgments,    \* bound on the training judgments ever recorded
    MaxEdits,        \* bound on the edits of judgment fields
    MaxBundles,      \* bound on publications begun
    Window,          \* WINDOW_SIZE, 30 in the code
    MinCorrect,      \* WINDOW_MIN_CORRECT, 29 in the code
    WriterLock       \* TRUE: a transaction that has written excludes other
                     \* writers until it commits (SQLite); FALSE: it does not

ASSUME StdAssumption ==
    /\ MaxRevisions \in Nat /\ MaxJudgments \in Nat /\ MaxEdits \in Nat /\ MaxBundles \in Nat
    /\ Window \in Nat \ {0} /\ MinCorrect \in 0 .. Window
    /\ WriterLock \in BOOLEAN

Rev == 1 .. MaxRevisions             \* in the order they are drafted
Bundle == 1 .. MaxBundles
NoRev == 0

\* ground truth and model verdict together: a qualified sample, an unqualified
\* one the model failed, an unqualified one it passed (is_false_pass)
Sample == {"qualified", "caught", "falsePass"}
Judgment == [rev : Rev, sample : Sample, decision : {"none", "correct", "incorrect"},
             reviewedAt : Nat]

VARIABLES
    intake,          \* status of each intake; "absent" before it is created
    revision,        \* status of each revision; "none" before it is drafted
    revisionNo,      \* revision_no of each revision
    origin,          \* the intake a revision was drafted from
    content,         \* how often the judgment fields of a revision were edited
    judgments,       \* training judgments, in the order they were created
    archives,        \* bundle archives on disk
    bundle,          \* QCPublishBundle rows: revision and content, or NoRev
    probation,       \* revisions with a qc_probation row
    sku,             \* QCSkuItem.status
    tx               \* what each worker is doing

stdVars == <<intake, revision, revisionNo, origin, content, judgments,
             archives, bundle, probation, sku, tx>>
revVars == <<revision, revisionNo, origin, content>>
pubVars == <<archives, bundle, probation>>

Idle == [at |-> "idle"]
\* "unpublished" stands for draft, needs_information, ready_for_review, confirmed
\* and archived
SkuStatus == {"unpublished", "published"}
IntakeStatus == {"absent", "received", "pending_confirmation", "extracted",
                 "confirmed", "rejected"}
NoBundle == [rev |-> NoRev, content |-> 0]

StdInit ==
    /\ intake = [i \in Intake |-> "absent"]
    /\ revision = [r \in Rev |-> "none"]
    /\ revisionNo = [r \in Rev |-> 0]
    /\ origin = [r \in Rev |-> {}]
    /\ content = [r \in Rev |-> 0]
    /\ judgments = <<>>
    /\ archives = {} /\ bundle = [b \in Bundle |-> NoBundle] /\ probation = {}
    /\ sku = "unpublished"
    /\ tx = [w \in Worker |-> Idle]

----------------------------------------------------------------------------
(* Helpers *)
Drafted == {r \in Rev : revision[r] # "none"}
Active == {r \in Rev : revision[r] = "active"}
Published(r) == \E b \in Bundle : bundle[b].rev = r

\* create_standard_revision: one more than the largest revision_no so far
NextNo ==
    IF Drafted = {} THEN {1}
    ELSE {revisionNo[r] + 1 : r \in {r \in Drafted :
                                       \A s \in Drafted : revisionNo[s] <= revisionNo[r]}}

\* the active revision build_bundle_manifest and _active_revision order first
Newest(r) == r \in Active /\ \A s \in Active : revisionNo[s] <= revisionNo[r]

Step(w, next) == tx' = [tx EXCEPT ![w] = next]
Writing(w) == tx[w].at = "activating"
MayWrite(w) == ~WriterLock \/ \A v \in Worker \ {w} : ~Writing(v)

\* Mutant: the gate counts the SKU's reviews, of whatever revision.
EvidenceOfSku(r) == {j \in 1 .. Len(judgments) : judgments[j].decision # "none"}

\* the reviewed judgments of r, and the Window of them reviewed last
Evidence(r) == {j \in 1 .. Len(judgments) : judgments[j].rev = r /\ judgments[j].decision # "none"}
Recent(r) ==
    {j \in Evidence(r) :
        Cardinality({k \in Evidence(r) : judgments[k].reviewedAt > judgments[j].reviewedAt}) < Window}

\* evaluate_training_gate and _window_qualifies
TrainingGate(r) ==
    /\ Cardinality(Evidence(r)) >= Window
    /\ Cardinality({j \in Recent(r) : judgments[j].decision = "correct"}) >= MinCorrect
    /\ \A j \in Recent(r) : judgments[j].sample # "falsePass"
    /\ \A kind \in {"qualified", "caught"} : \E j \in Recent(r) : judgments[j].sample = kind

----------------------------------------------------------------------------
(* Drafts *)
\* create_standard_intake, and the status process_structured_ai_turn or
\* process_studio_chat leaves: a draft with checkpoints waits for confirmation,
\* one with questions only is set aside as extracted.
CreateIntake(w, i) ==
    /\ tx[w] = Idle /\ MayWrite(w)
    /\ intake[i] = "absent"
    /\ intake' = [intake EXCEPT ![i] = "received"]
    /\ Step(w, [at |-> "drafting", intake |-> i])
    /\ UNCHANGED <<revVars, judgments, pubVars, sku>>

PersistDraft(w) ==
    /\ tx[w].at = "drafting" /\ MayWrite(w)
    /\ \E status \in {"pending_confirmation", "extracted"} :
          intake' = [intake EXCEPT ![tx[w].intake] = status]
    /\ Step(w, [at |-> "marking", sku |-> "unpublished"])
    /\ UNCHANGED <<revVars, judgments, pubVars, sku>>

\* extract_standard_draft looks at the text, not at the status: it reopens an
\* intake that was confirmed or rejected.
Extract(i) ==
    /\ \A w \in Worker : MayWrite(w)
    /\ intake[i] # "absent"
    /\ intake' = [intake EXCEPT ![i] = "pending_confirmation"]
    /\ UNCHANGED <<revVars, judgments, pubVars, sku, tx>>

\* reject_standard_intake does not look at the status either
Reject(i) ==
    /\ \A w \in Worker : MayWrite(w)
    /\ intake[i] # "absent"
    /\ intake' = [intake EXCEPT ![i] = "rejected"]
    /\ UNCHANGED <<revVars, judgments, pubVars, sku, tx>>

----------------------------------------------------------------------------
(* Confirming a draft: four commits *)
\* confirm_standard_intake up to create_standard_revision: the status check, and
\* the last revision_no.
BeginConfirm(w, i) ==
    /\ tx[w] = Idle
    /\ intake[i] \in {"pending_confirmation", "extracted"}
    /\ \E no \in NextNo : Step(w, [at |-> "confirming", intake |-> i, no |-> no])
    /\ UNCHANGED <<intake, revVars, judgments, pubVars, sku>>

\* create_standard_revision commits the draft before it has a single point
CommitDraft(w) ==
    /\ tx[w].at = "confirming" /\ MayWrite(w)
    /\ \E r \in Rev :
          /\ Drafted = 1 .. (r - 1)
          /\ revision' = [revision EXCEPT ![r] = "draft"]
          /\ revisionNo' = [revisionNo EXCEPT ![r] = tx[w].no]
          /\ origin' = [origin EXCEPT ![r] = {tx[w].intake}]
          /\ Step(w, [at |-> "pointing", intake |-> tx[w].intake, rev |-> r])
    /\ UNCHANGED <<intake, content, judgments, pubVars, sku>>

\* Mutant: the prior revision is looked for before the points are flushed.
ReadPriorEarly(w) ==
    /\ tx[w].at = "pointing"
    /\ \E prior \in IF Active = {} THEN {NoRev} ELSE Active :
          Step(w, [at |-> "activating", intake |-> tx[w].intake, rev |-> tx[w].rev,
                   prior |-> prior])
    /\ UNCHANGED <<intake, revVars, judgments, pubVars, sku>>

\* Mutant: the prior revision is the previous one, whatever its status.
ReadPriorByNumber(w) ==
    /\ tx[w].at = "pointing" /\ MayWrite(w)
    /\ Step(w, [at |-> "activating", intake |-> tx[w].intake, rev |-> tx[w].rev,
                prior |-> tx[w].rev - 1])
    /\ UNCHANGED <<intake, revVars, judgments, pubVars, sku>>

\* The points are flushed, then confirm_standard_revision looks for the prior
\* active revision.
ReadPrior(w) ==
    /\ tx[w].at = "pointing" /\ MayWrite(w)
    /\ \E prior \in IF Active = {} THEN {NoRev} ELSE Active :
          Step(w, [at |-> "activating", intake |-> tx[w].intake, rev |-> tx[w].rev,
                   prior |-> prior])
    /\ UNCHANGED <<intake, revVars, judgments, pubVars, sku>>

CommitActive(w) ==
    /\ tx[w].at = "activating"
    /\ revision' = [r \in Rev |-> IF r = tx[w].rev THEN "active"
                                  ELSE IF r = tx[w].prior THEN "archived"
                                  ELSE revision[r]]
    /\ Step(w, [at |-> "closing", intake |-> tx[w].intake])
    /\ UNCHANGED <<intake, revisionNo, origin, content, judgments, pubVars, sku>>

\* the confirmation record and the intake's status
CloseIntake(w) ==
    /\ tx[w].at = "closing" /\ MayWrite(w)
    /\ intake' = [intake EXCEPT ![tx[w].intake] = "confirmed"]
    /\ Step(w, [at |-> "marking", sku |-> "unpublished"])
    /\ UNCHANGED <<revVars, judgments, pubVars, sku>>

\* studio_confirm, studio_publish and process_structured_ai_turn write the SKU's status last
MarkSku(w) ==
    /\ tx[w].at = "marking" /\ MayWrite(w)
    /\ sku' = tx[w].sku
    /\ Step(w, Idle)
    /\ UNCHANGED <<intake, revVars, judgments, pubVars>>

----------------------------------------------------------------------------
(* Editing the points of a revision.  Region edits and descriptions do not touch
   what is judged and are not steps. *)
EditPoint(r) ==
    /\ \A w \in Worker : MayWrite(w)
    /\ revision[r] \in {"active", "archived"}
    /\ ~Published(r)
    /\ \A s \in Rev : content[s] < MaxEdits
    /\ content' = [content EXCEPT ![r] = @ + 1]
    /\ UNCHANGED <<intake, revision, revisionNo, origin, judgments, pubVars, sku, tx>>

\* POST /admin/samples/{sku}/archive
ArchiveSku ==
    /\ \A w \in Worker : MayWrite(w)
    /\ sku' = "unpublished"
    /\ UNCHANGED <<intake, revVars, judgments, pubVars, tx>>

----------------------------------------------------------------------------
(* Training *)
BeginJudgment(w) ==
    /\ tx[w] = Idle
    /\ \E r \in Rev : /\ Newest(r)
                      /\ Step(w, [at |-> "judging", rev |-> r])
    /\ UNCHANGED <<intake, revVars, judgments, pubVars, sku>>

CommitJudgment(w) ==
    /\ tx[w].at = "judging" /\ MayWrite(w)
    /\ Len(judgments) < MaxJudgments
    /\ \E s \in Sample :
          judgments' = Append(judgments, [rev |-> tx[w].rev, sample |-> s,
                                          decision |-> "none", reviewedAt |-> 0])
    /\ Step(w, Idle)
    /\ UNCHANGED <<intake, revVars, pubVars, sku>>

\* submit_training_decision: check that it is unreviewed, then write
BeginReview(w, j) ==
    /\ tx[w] = Idle
    /\ judgments[j].decision = "none"
    /\ Step(w, [at |-> "reviewing", judgment |-> j])
    /\ UNCHANGED <<intake, revVars, judgments, pubVars, sku>>

\* Only the order of the reviews matters: reviewed_at is later than every other.
CommitReview(w) ==
    /\ tx[w].at = "reviewing" /\ MayWrite(w)
    /\ LET j == tx[w].judgment
           others == {judgments[k].reviewedAt : k \in (1 .. Len(judgments)) \ {j}}
       IN  \E d \in {"correct", "incorrect"}, t \in {0} \cup others :
              /\ \A s \in others : s <= t
              /\ judgments' = [judgments EXCEPT ![j] =
                                  [rev |-> @.rev, sample |-> @.sample, decision |-> d,
                                   reviewedAt |-> t + 1]]
    /\ Step(w, Idle)
    /\ UNCHANGED <<intake, revVars, pubVars, sku>>

----------------------------------------------------------------------------
(* Publishing *)
\* build_publish_archive reads the newest active revision and its points, then
\* the training gate is evaluated for that revision.
BeginPublish(w) ==
    /\ tx[w] = Idle
    /\ \E r \in Rev : /\ Newest(r)
                      /\ TrainingGate(r)
                      /\ Step(w, [at |-> "archiving", rev |-> r, content |-> content[r]])
    /\ UNCHANGED <<intake, revVars, judgments, pubVars, sku>>

WriteArchive(w) ==
    /\ tx[w].at = "archiving"
    /\ \E b \in Bundle :
          /\ archives = 1 .. (b - 1)
          /\ archives' = archives \cup {b}
          /\ Step(w, [at |-> "publishing", rev |-> tx[w].rev, content |-> tx[w].content,
                      bundle |-> b])
    /\ UNCHANGED <<intake, revVars, judgments, bundle, probation, sku>>

CommitBundle(w) ==
    /\ tx[w].at = "publishing" /\ MayWrite(w)
    /\ bundle' = [bundle EXCEPT ![tx[w].bundle] = [rev |-> tx[w].rev, content |-> tx[w].content]]
    /\ Step(w, [at |-> "starting", rev |-> tx[w].rev])
    /\ UNCHANGED <<intake, revVars, judgments, archives, probation, sku>>

\* start_probation is get-or-create and leaves an existing row alone
StartProbation(w) ==
    /\ tx[w].at = "starting" /\ MayWrite(w)
    /\ probation' = probation \cup {tx[w].rev}
    /\ Step(w, [at |-> "marking", sku |-> "published"])
    /\ UNCHANGED <<intake, revVars, judgments, archives, bundle, sku>>

----------------------------------------------------------------------------
\* A request ends early: the process dies, or a point of the list has no code or
\* an invalid configuration, or the provider fails.  What it committed stays.
Abandon(w) ==
    /\ tx[w] # Idle
    /\ Step(w, Idle)
    /\ UNCHANGED <<intake, revVars, judgments, pubVars, sku>>

Request(w) ==
    \/ \E i \in Intake : CreateIntake(w, i) \/ BeginConfirm(w, i)
    \/ PersistDraft(w)
    \/ CommitDraft(w) \/ ReadPrior(w) \/ CommitActive(w) \/ CloseIntake(w) \/ MarkSku(w)
    \/ BeginJudgment(w) \/ CommitJudgment(w)
    \/ (\E j \in 1 .. Len(judgments) : BeginReview(w, j)) \/ CommitReview(w)
    \/ BeginPublish(w) \/ WriteArchive(w) \/ CommitBundle(w) \/ StartProbation(w)
    \/ Abandon(w)

StdNext ==
    \/ \E w \in Worker : Request(w)
    \/ \E i \in Intake : Extract(i) \/ Reject(i)
    \/ \E r \in Rev : EditPoint(r)
    \/ ArchiveSku

StdSpec == StdInit /\ [][StdNext]_stdVars

----------------------------------------------------------------------------
(* Properties *)
\* what a request has in hand, when len judgments are recorded
TxOK(t, len) ==
    \/ t = Idle
    \/ t.at \in {"drafting", "closing"} /\ t.intake \in Intake
    \/ t.at = "confirming" /\ t.intake \in Intake /\ t.no \in Nat
    \/ t.at = "marking" /\ t.sku \in SkuStatus
    \/ t.at = "pointing" /\ t.rev \in Rev /\ t.intake \in Intake
    \/ t.at = "activating" /\ t.rev \in Rev /\ t.prior \in Rev \cup {NoRev} /\ t.intake \in Intake
    \/ t.at \in {"judging", "starting"} /\ t.rev \in Rev
    \/ t.at = "reviewing" /\ t.judgment \in 1 .. len
    \/ t.at = "archiving" /\ t.rev \in Rev /\ t.content \in 0 .. MaxEdits
    \/ t.at = "publishing" /\ t.rev \in Rev /\ t.content \in 0 .. MaxEdits /\ t.bundle \in Bundle

StdTypeOK ==
    /\ intake \in [Intake -> IntakeStatus]
    /\ revision \in [Rev -> {"none", "draft", "active", "archived"}]
    /\ revisionNo \in [Rev -> Nat]
    /\ origin \in [Rev -> SUBSET Intake]
    /\ content \in [Rev -> 0 .. MaxEdits]
    /\ judgments \in Seq(Judgment)
    /\ archives \subseteq Bundle
    /\ bundle \in [Bundle -> [rev : Rev \cup {NoRev}, content : 0 .. MaxEdits]]
    /\ probation \subseteq Rev
    /\ sku \in SkuStatus
    /\ tx = [w \in Worker |-> tx[w]] /\ \A w \in Worker : TxOK(tx[w], Len(judgments))

\* A SKU has at most one active revision (db/sku_models.py:63): every job, every
\* publication and the lifecycle badge pick "the" active one.
OneActive == \A r, s \in Active : r = s

\* A bundle row is never visible without its archive on disk, whatever crash
\* falls between the two writes of publish_bundle.
RowHasPayload == \A b \in Bundle : bundle[b].rev # NoRev => b \in archives

\* A published revision was trained on reviewed samples of its own, a good one and
\* an unqualified one the model did not pass, even if reviews and publications
\* overlap.
PublishedWasTrained ==
    \A b \in Bundle : bundle[b].rev # NoRev =>
        \A kind \in {"qualified", "caught"} :
            \E j \in 1 .. Len(judgments) :
                /\ judgments[j].rev = bundle[b].rev
                /\ judgments[j].sample = kind
                /\ judgments[j].decision # "none"

\* A SKU shown as published has a bundle of a revision that runs on probation,
\* however many requests died on the way.
PublishedIsComplete ==
    sku = "published" =>
        \E b \in archives : bundle[b].rev \in probation

\* An intake is marked confirmed only after a revision drafted from it has been
\* the active standard.
ConfirmedHasRevision ==
    \A i \in Intake : intake[i] = "confirmed" =>
        \E r \in Rev : i \in origin[r] /\ revision[r] \in {"active", "archived"}

\* The requests implement the abstract life of a revision: no draft is published,
\* no published revision leaves, nothing is put on probation unpublished, and a
\* standard is retired only by its successor.
Lifecycle == INSTANCE RevisionLifecycle WITH
    stage <- revision,
    standing <- [r \in Rev |-> IF r \in probation THEN "probation"
                               ELSE IF Published(r) THEN "published" ELSE "unpublished"]
ImplementsLifecycle == Lifecycle!LifecycleSpec

(* What the code does not keep; see README.md. *)
\* "set exactly once when the administrator submits a decision" (training_models.py)
DecisionStands ==
    [][\A j \in 1 .. Len(judgments) : judgments[j].decision # "none" =>
           judgments'[j].decision = judgments[j].decision]_stdVars
\* a bundle carries the points of its revision as the server has them
BundleIsCurrent == \A b \in Bundle : bundle[b].rev # NoRev =>
                       bundle[b].content = content[bundle[b].rev]
=============================================================================
