--------------------------- MODULE StandardProofs ---------------------------
(***************************************************************************)
(* Theorems about Standard, for any number of requests, intakes,           *)
(* revisions, judgments and bundles, with a crash at any step.             *)
(***************************************************************************)
EXTENDS Standard, TLAPS

Live == {"active", "archived"}

(* What the open requests know, and what their next step relies on. *)
Drafting(w) == tx[w].at \in {"pointing", "activating"}
DraftsInHand ==
    /\ \A w \in Worker : Drafting(w) => /\ revision[tx[w].rev] = "draft"
                                        /\ tx[w].intake \in origin[tx[w].rev]
    /\ \A v, w \in Worker : v # w /\ Drafting(v) /\ Drafting(w) => tx[v].rev # tx[w].rev
    /\ \A w \in Worker : tx[w].at = "activating" /\ tx[w].prior # NoRev =>
          revision[tx[w].prior] \in Live

Backed(i) == \E r \in Rev : i \in origin[r] /\ revision[r] \in Live
Closings ==
    /\ \A w \in Worker : tx[w].at = "closing" => Backed(tx[w].intake)
    /\ ConfirmedHasRevision

TrainedOn(r) ==
    \A kind \in {"qualified", "caught"} :
        \E j \in 1 .. Len(judgments) : /\ judgments[j].rev = r
                                       /\ judgments[j].sample = kind
                                       /\ judgments[j].decision # "none"
Complete == \E b \in archives : bundle[b].rev \in probation
Publishings ==
    /\ \A w \in Worker : tx[w].at \in {"archiving", "publishing", "starting"} =>
          revision[tx[w].rev] \in Live /\ TrainedOn(tx[w].rev)
    /\ \A w \in Worker : tx[w].at = "publishing" =>
          tx[w].bundle \in archives /\ bundle[tx[w].bundle].rev = NoRev
    /\ \A v, w \in Worker : v # w /\ tx[v].at = "publishing" /\ tx[w].at = "publishing" =>
          tx[v].bundle # tx[w].bundle
    /\ \A w \in Worker : tx[w].at = "starting" => Published(tx[w].rev)
    /\ \A w \in Worker : tx[w].at = "marking" /\ tx[w].sku = "published" => Complete
    /\ \A b \in Bundle : bundle[b].rev # NoRev =>
          /\ b \in archives
          /\ revision[bundle[b].rev] \in Live
          /\ TrainedOn(bundle[b].rev)
    /\ \A r \in probation : Published(r)
    /\ PublishedIsComplete

\* Under a writer lock the one request that is activating a revision has read the
\* only active one.
Locked ==
    WriterLock =>
        /\ OneActive
        /\ \A v, w \in Worker : Writing(v) /\ Writing(w) => v = w
        /\ \A w \in Worker : Writing(w) => Active \subseteq {tx[w].prior}

-----------------------------------------------------------------------------
(* Types                                                                   *)

\* A step of one request leaves what the others have in hand.
LEMMA StepOK ==
  ASSUME StdTypeOK, NEW w \in Worker, NEW t, Step(w, t)
  PROVE  /\ tx' = [v \in Worker |-> tx'[v]]
         /\ tx'[w] = t
         /\ \A v \in Worker \ {w} : tx'[v] = tx[v]
  BY DEF StdTypeOK, Step

\* The judgments in hand stay recorded.
LEMMA TxOKGrows ==
  ASSUME NEW t, NEW m \in Nat, NEW n \in Nat, m <= n, TxOK(t, m)
  PROVE  TxOK(t, n)
  BY DEF TxOK

LEMMA TypeGrows ==
  ASSUME StdTypeOK, NEW w \in Worker, NEW t, NEW n \in Nat, Len(judgments) <= n,
         Step(w, t), TxOK(t, n)
  PROVE  tx' = [v \in Worker |-> tx'[v]] /\ \A v \in Worker : TxOK(tx'[v], n)
  <1>1. /\ tx' = [v \in Worker |-> tx'[v]]
        /\ tx'[w] = t
        /\ \A v \in Worker \ {w} : tx'[v] = tx[v]
    BY StepOK
  <1>2. \A v \in Worker : TxOK(tx[v], Len(judgments)) /\ Len(judgments) \in Nat
    BY DEF StdTypeOK
  <1>3. \A v \in Worker : TxOK(tx[v], n)
    BY <1>2, TxOKGrows
  <1> QED
    BY <1>1, <1>3, Zenon

LEMMA TypeStep ==
  ASSUME StdTypeOK, NEW w \in Worker, NEW t, Step(w, t), TxOK(t, Len(judgments)),
         judgments' = judgments
  PROVE  tx' = [v \in Worker |-> tx'[v]] /\ \A v \in Worker : TxOK(tx'[v], Len(judgments'))
  <1>1. Len(judgments) \in Nat /\ Len(judgments) <= Len(judgments)
    BY DEF StdTypeOK
  <1> QED
    BY <1>1, TypeGrows

LEMMA IdleOK == ASSUME NEW n PROVE TxOK(Idle, n)
  BY DEF TxOK

LEMMA ReviewedRow ==
  ASSUME NEW r \in Judgment, NEW d \in {"correct", "incorrect"}, NEW n \in Nat
  PROVE  [rev |-> r.rev, sample |-> r.sample, decision |-> d, reviewedAt |-> n + 1] \in Judgment
  BY DEF Judgment

\* A review changes the decision of the judgment in hand and nothing else of it.
LEMMA CommitReviewOnly ==
  ASSUME judgments \in Seq(Judgment),
         NEW w \in Worker, tx[w].judgment \in 1 .. Len(judgments), CommitReview(w)
  PROVE  /\ judgments' \in Seq(Judgment)
         /\ Len(judgments') = Len(judgments)
         /\ \A j \in 1 .. Len(judgments) :
               /\ judgments'[j].rev = judgments[j].rev
               /\ judgments'[j].sample = judgments[j].sample
               /\ judgments[j].decision # "none" => judgments'[j].decision # "none"
  <1> DEFINE J == tx[w].judgment
             others == {judgments[k].reviewedAt : k \in (1 .. Len(judgments)) \ {J}}
  <1>1. PICK d \in {"correct", "incorrect"}, t \in {0} \cup others :
           judgments' = [judgments EXCEPT ![J] = [rev |-> @.rev, sample |-> @.sample,
                                                  decision |-> d, reviewedAt |-> t + 1]]
    BY DEF CommitReview
  <1>2. t \in Nat
    <2>1. \A k \in 1 .. Len(judgments) : judgments[k] \in Judgment
      OBVIOUS
    <2>2. \A k \in 1 .. Len(judgments) : judgments[k].reviewedAt \in Nat
      BY <2>1 DEF Judgment
    <2> QED
      BY <2>2
  <1> HIDE DEF others
  <1>3. [rev |-> judgments[J].rev, sample |-> judgments[J].sample, decision |-> d,
         reviewedAt |-> t + 1] \in Judgment
    <2>1. judgments[J] \in Judgment
      <3>1. \A k \in 1 .. Len(judgments) : judgments[k] \in Judgment
        OBVIOUS
      <3> QED
        BY <3>1
    <2> QED
      BY <1>2, <2>1, ReviewedRow
  <1> QED
    BY <1>1, <1>3 DEF Judgment

LEMMA TypeInit == StdInit => StdTypeOK
  <1> SUFFICES ASSUME StdInit PROVE StdTypeOK
    OBVIOUS
  <1>1. \A w \in Worker : TxOK(tx[w], Len(judgments))
    BY IdleOK DEF StdInit
  <1> QED
    BY <1>1, StdAssumption DEF StdInit, StdTypeOK, IntakeStatus, SkuStatus, NoBundle, NoRev

LEMMA TypeNext ==
  ASSUME StdTypeOK, [StdNext]_stdVars
  PROVE  StdTypeOK'
  <1> USE StdAssumption
  <1>1. ASSUME NEW w \in Worker, NEW i \in Intake, CreateIntake(w, i)
        PROVE  StdTypeOK'
    <2>1. TxOK([at |-> "drafting", intake |-> i], Len(judgments))
      BY DEF TxOK
    <2> QED
      BY <1>1, <2>1, TypeStep DEF CreateIntake, StdTypeOK, revVars, pubVars, IntakeStatus
  <1>2. ASSUME NEW w \in Worker, NEW i \in Intake, BeginConfirm(w, i)
        PROVE  StdTypeOK'
    <2>1. PICK no \in NextNo : Step(w, [at |-> "confirming", intake |-> i, no |-> no])
      BY <1>2 DEF BeginConfirm
    <2>2. no \in Nat
      BY DEF NextNo, StdTypeOK, Drafted
    <2>3. TxOK([at |-> "confirming", intake |-> i, no |-> no], Len(judgments))
      BY <2>2 DEF TxOK
    <2> QED
      BY <1>2, <2>1, <2>3, TypeStep DEF BeginConfirm, StdTypeOK, revVars, pubVars
  <1>3. ASSUME NEW w \in Worker, PersistDraft(w)
        PROVE  StdTypeOK'
    <2>1. TxOK([at |-> "marking", sku |-> "unpublished"], Len(judgments))
      BY DEF TxOK, SkuStatus
    <2>2. TxOK(tx[w], Len(judgments)) /\ tx[w].at = "drafting"
      BY <1>3 DEF PersistDraft, StdTypeOK
    <2>3. tx[w].intake \in Intake
      BY <2>2 DEF TxOK, Idle
    <2> QED
      BY <1>3, <2>1, <2>3, TypeStep DEF PersistDraft, StdTypeOK, revVars, pubVars, IntakeStatus
  <1>4. ASSUME NEW w \in Worker, CommitDraft(w)
        PROVE  StdTypeOK'
    <2>1. TxOK(tx[w], Len(judgments)) /\ tx[w].at = "confirming"
      BY <1>4 DEF CommitDraft, StdTypeOK
    <2>2. tx[w].intake \in Intake /\ tx[w].no \in Nat
      BY <2>1 DEF TxOK, Idle
    <2>3. PICK r \in Rev :
             /\ revision' = [revision EXCEPT ![r] = "draft"]
             /\ revisionNo' = [revisionNo EXCEPT ![r] = tx[w].no]
             /\ origin' = [origin EXCEPT ![r] = {tx[w].intake}]
             /\ Step(w, [at |-> "pointing", intake |-> tx[w].intake, rev |-> r])
      BY <1>4 DEF CommitDraft
    <2>4. TxOK([at |-> "pointing", intake |-> tx[w].intake, rev |-> r], Len(judgments))
      BY <2>2 DEF TxOK
    <2>5. UNCHANGED <<intake, content, judgments, archives, bundle, probation, sku>>
      BY <1>4 DEF CommitDraft, pubVars
    <2>6. tx' = [v \in Worker |-> tx'[v]] /\ \A v \in Worker : TxOK(tx'[v], Len(judgments'))
      BY <2>3, <2>4, <2>5, TypeStep
    <2>7. /\ revision' \in [Rev -> {"none", "draft", "active", "archived"}]
          /\ revisionNo' \in [Rev -> Nat] /\ origin' \in [Rev -> SUBSET Intake]
      BY <2>2, <2>3 DEF StdTypeOK
    <2> QED
      BY <2>5, <2>6, <2>7 DEF StdTypeOK
  <1>5. ASSUME NEW w \in Worker, ReadPrior(w)
        PROVE  StdTypeOK'
    <2>1. TxOK(tx[w], Len(judgments)) /\ tx[w].at = "pointing"
      BY <1>5 DEF ReadPrior, StdTypeOK
    <2>2. tx[w].rev \in Rev /\ tx[w].intake \in Intake
      BY <2>1 DEF TxOK, Idle
    <2>3. PICK prior \in Rev \cup {NoRev} :
             Step(w, [at |-> "activating", intake |-> tx[w].intake, rev |-> tx[w].rev, prior |-> prior])
      BY <1>5 DEF ReadPrior, Active
    <2>4. TxOK([at |-> "activating", intake |-> tx[w].intake, rev |-> tx[w].rev, prior |-> prior],
              Len(judgments))
      BY <2>2 DEF TxOK
    <2> QED
      BY <1>5, <2>2, <2>3, <2>4, TypeStep DEF ReadPrior, StdTypeOK, revVars, pubVars
  <1>6. ASSUME NEW w \in Worker, CommitActive(w)
        PROVE  StdTypeOK'
    <2>1. TxOK(tx[w], Len(judgments)) /\ tx[w].at = "activating"
      BY <1>6 DEF CommitActive, StdTypeOK
    <2>2. tx[w].intake \in Intake
      BY <2>1 DEF TxOK, Idle
    <2>3. TxOK([at |-> "closing", intake |-> tx[w].intake], Len(judgments))
      BY <2>2 DEF TxOK
    <2> QED
      BY <1>6, <2>2, <2>3, TypeStep DEF CommitActive, StdTypeOK, revVars, pubVars
  <1>7. ASSUME NEW w \in Worker, CloseIntake(w)
        PROVE  StdTypeOK'
    <2>1. TxOK(tx[w], Len(judgments)) /\ tx[w].at = "closing"
      BY <1>7 DEF CloseIntake, StdTypeOK
    <2>2. tx[w].intake \in Intake
      BY <2>1 DEF TxOK, Idle
    <2>3. TxOK([at |-> "marking", sku |-> "unpublished"], Len(judgments))
      BY <2>2 DEF TxOK, SkuStatus
    <2> QED
      BY <1>7, <2>2, <2>3, TypeStep DEF CloseIntake, StdTypeOK, revVars, pubVars, IntakeStatus
  <1>8. ASSUME NEW w \in Worker, MarkSku(w)
        PROVE  StdTypeOK'
    <2>1. TxOK(tx[w], Len(judgments)) /\ tx[w].at = "marking"
      BY <1>8 DEF MarkSku, StdTypeOK
    <2>2. tx[w].sku \in SkuStatus
      BY <2>1 DEF TxOK, Idle
    <2> QED
      BY <1>8, <2>2, TypeStep, IdleOK DEF MarkSku, StdTypeOK, revVars, pubVars
  <1>9. ASSUME NEW i \in Intake, Extract(i) \/ Reject(i)
        PROVE  StdTypeOK'
    BY <1>9 DEF Extract, Reject, StdTypeOK, revVars, pubVars, IntakeStatus
  <1>10. ASSUME NEW r \in Rev, EditPoint(r)
         PROVE  StdTypeOK'
    BY <1>10, SMTT(30) DEF EditPoint, StdTypeOK, pubVars
  <1>11. ASSUME ArchiveSku
         PROVE  StdTypeOK'
    BY <1>11 DEF ArchiveSku, StdTypeOK, revVars, pubVars, SkuStatus
  <1>12. ASSUME NEW w \in Worker, BeginJudgment(w)
         PROVE  StdTypeOK'
    <2>1. PICK r \in Rev : Step(w, [at |-> "judging", rev |-> r])
      BY <1>12 DEF BeginJudgment
    <2>2. TxOK([at |-> "judging", rev |-> r], Len(judgments))
      BY DEF TxOK
    <2> QED
      BY <1>12, <2>1, <2>2, TypeStep DEF BeginJudgment, StdTypeOK, revVars, pubVars
  <1>13. ASSUME NEW w \in Worker, CommitJudgment(w)
         PROVE  StdTypeOK'
    <2>1. TxOK(tx[w], Len(judgments)) /\ tx[w].at = "judging"
      BY <1>13 DEF CommitJudgment, StdTypeOK
    <2>2. tx[w].rev \in Rev
      BY <2>1 DEF TxOK, Idle
    <2>3. PICK s \in Sample : judgments' = Append(judgments, [rev |-> tx[w].rev, sample |-> s,
                                                            decision |-> "none", reviewedAt |-> 0])
      BY <1>13 DEF CommitJudgment
    <2> DEFINE row == [rev |-> tx[w].rev, sample |-> s, decision |-> "none", reviewedAt |-> 0]
    <2>6. row \in Judgment
      BY <2>2 DEF Judgment
    <2>7. judgments' = Append(judgments, row)
      BY <2>3
    <2> HIDE DEF row
    <2>4. /\ judgments' \in Seq(Judgment)
          /\ Len(judgments) \in Nat /\ Len(judgments') = Len(judgments) + 1
      <3>1. judgments \in Seq(Judgment)
        BY DEF StdTypeOK
      <3> QED
        BY <2>6, <2>7, <3>1
    <2>5. \A v \in Worker : TxOK(tx'[v], Len(judgments'))
      <3>1. Step(w, Idle) /\ Len(judgments) <= Len(judgments') /\ Len(judgments') \in Nat
        BY <1>13, <2>4 DEF CommitJudgment
      <3> QED
        BY <3>1, TypeGrows, IdleOK
    <2> QED
      BY <1>13, <2>4, <2>5, StepOK DEF CommitJudgment, StdTypeOK, revVars, pubVars
  <1>14. ASSUME NEW w \in Worker, NEW j \in 1 .. Len(judgments), BeginReview(w, j)
         PROVE  StdTypeOK'
    <2>1. TxOK([at |-> "reviewing", judgment |-> j], Len(judgments))
      BY DEF TxOK
    <2> QED
      BY <1>14, <2>1, TypeStep DEF BeginReview, StdTypeOK, revVars, pubVars
  <1>15. ASSUME NEW w \in Worker, CommitReview(w)
         PROVE  StdTypeOK'
    <2>1. TxOK(tx[w], Len(judgments)) /\ tx[w].at = "reviewing"
      BY <1>15 DEF CommitReview, StdTypeOK
    <2>2. tx[w].judgment \in 1 .. Len(judgments)
      BY <2>1 DEF TxOK, Idle
    <2>3. /\ judgments' \in Seq(Judgment)
          /\ Len(judgments') = Len(judgments)
      BY <1>15, <2>2, CommitReviewOnly DEF StdTypeOK
    <2>4. \A v \in Worker : TxOK(tx'[v], Len(judgments'))
      <3>1. Len(judgments) \in Nat /\ Len(judgments) <= Len(judgments')
        BY <2>3 DEF StdTypeOK
      <3> QED
        BY <1>15, <2>3, <3>1, TypeGrows, IdleOK DEF CommitReview
    <2> QED
      BY <1>15, <2>3, <2>4, StepOK DEF CommitReview, StdTypeOK, revVars, pubVars
  <1>16. ASSUME NEW w \in Worker, BeginPublish(w)
        PROVE  StdTypeOK'
    <2>1. PICK r \in Rev : Step(w, [at |-> "archiving", rev |-> r, content |-> content[r]])
      BY <1>16 DEF BeginPublish
    <2>2. TxOK([at |-> "archiving", rev |-> r, content |-> content[r]], Len(judgments))
      BY DEF TxOK, StdTypeOK
    <2> QED
      BY <1>16, <2>1, <2>2, TypeStep DEF BeginPublish, StdTypeOK, revVars, pubVars
  <1>17. ASSUME NEW w \in Worker, WriteArchive(w)
        PROVE  StdTypeOK'
    <2>1. TxOK(tx[w], Len(judgments)) /\ tx[w].at = "archiving"
      BY <1>17 DEF WriteArchive, StdTypeOK
    <2>2. tx[w].rev \in Rev /\ tx[w].content \in 0 .. MaxEdits
      BY <2>1 DEF TxOK, Idle
    <2>3. PICK b \in Bundle : /\ archives' = archives \cup {b}
                         /\ Step(w, [at |-> "publishing", rev |-> tx[w].rev, content |-> tx[w].content,
                                     bundle |-> b])
      BY <1>17 DEF WriteArchive
    <2>4. TxOK([at |-> "publishing", rev |-> tx[w].rev, content |-> tx[w].content, bundle |-> b],
              Len(judgments))
      BY <2>2 DEF TxOK
    <2> QED
      BY <1>17, <2>2, <2>3, <2>4, TypeStep DEF WriteArchive, StdTypeOK, revVars, pubVars
  <1>18. ASSUME NEW w \in Worker, CommitBundle(w)
        PROVE  StdTypeOK'
    <2>1. TxOK(tx[w], Len(judgments)) /\ tx[w].at = "publishing"
      BY <1>18 DEF CommitBundle, StdTypeOK
    <2>2. tx[w].rev \in Rev /\ tx[w].content \in 0 .. MaxEdits /\ tx[w].bundle \in Bundle
      BY <2>1 DEF TxOK, Idle
    <2>3. TxOK([at |-> "starting", rev |-> tx[w].rev], Len(judgments))
      BY <2>2 DEF TxOK
    <2> QED
      BY <1>18, <2>2, <2>3, TypeStep DEF CommitBundle, StdTypeOK, revVars, pubVars
  <1>19. ASSUME NEW w \in Worker, StartProbation(w)
        PROVE  StdTypeOK'
    <2>1. TxOK(tx[w], Len(judgments)) /\ tx[w].at = "starting"
      BY <1>19 DEF StartProbation, StdTypeOK
    <2>2. tx[w].rev \in Rev
      BY <2>1 DEF TxOK, Idle
    <2>3. TxOK([at |-> "marking", sku |-> "published"], Len(judgments))
      BY <2>2 DEF TxOK, SkuStatus
    <2> QED
      BY <1>19, <2>2, <2>3, TypeStep DEF StartProbation, StdTypeOK, revVars, pubVars
  <1>20. ASSUME NEW w \in Worker, Abandon(w)
         PROVE  StdTypeOK'
    BY <1>20, TypeStep, IdleOK DEF Abandon, StdTypeOK, revVars, pubVars
  <1>21. CASE UNCHANGED stdVars
    BY <1>21 DEF stdVars, StdTypeOK
  <1> QED
    BY <1>1, <1>2, <1>3, <1>4, <1>5, <1>6, <1>7, <1>8, <1>9, <1>10, <1>11, <1>12, <1>13, <1>14,
       <1>15, <1>16, <1>17, <1>18, <1>19, <1>20, <1>21 DEF StdNext, Request

-----------------------------------------------------------------------------
(* Drafts in hand                                                          *)

\* What a request in flight has in hand, by where it is.
LEMMA InHand ==
  ASSUME StdTypeOK, NEW w \in Worker
  PROVE  /\ Drafting(w) => tx[w].rev \in Rev /\ tx[w].intake \in Intake
         /\ tx[w].at = "activating" => tx[w].prior \in Rev \cup {NoRev}
         /\ tx[w].at = "closing" => tx[w].intake \in Intake
         /\ tx[w].at \in {"judging", "archiving", "publishing", "starting"} => tx[w].rev \in Rev
         /\ tx[w].at = "publishing" => tx[w].bundle \in Bundle
         /\ tx[w].at = "reviewing" => tx[w].judgment \in 1 .. Len(judgments)
  <1>1. TxOK(tx[w], Len(judgments))
    BY DEF StdTypeOK
  <1> QED
    BY <1>1 DEF TxOK, Idle, Drafting

\* The steps that neither draft nor activate a revision: the request they belong
\* to, if any, is left without a draft in hand.
Aside ==
    /\ UNCHANGED <<revision, origin>>
    /\ \/ UNCHANGED tx
       \/ \E w \in Worker : /\ tx'[w].at \notin {"pointing", "activating"}
                            /\ \A v \in Worker \ {w} : tx'[v] = tx[v]

LEMMA Revising ==
  ASSUME StdTypeOK, [StdNext]_stdVars
  PROVE  Aside \/ \E w \in Worker : CommitDraft(w) \/ ReadPrior(w) \/ CommitActive(w)
  <1>1. ASSUME NEW w \in Worker, NEW t, Step(w, t), t.at \notin {"pointing", "activating"},
               UNCHANGED <<revision, origin>>
        PROVE  Aside
    BY <1>1, StepOK DEF Aside
  <1>2. ASSUME UNCHANGED <<revision, origin, tx>>
        PROVE  Aside
    BY <1>2 DEF Aside
  <1>3. ASSUME NEW w \in Worker, Request(w)
        PROVE  Aside \/ CommitDraft(w) \/ ReadPrior(w) \/ CommitActive(w)
    <2>1. ASSUME NEW i \in Intake, CreateIntake(w, i)
          PROVE  Aside
      BY <1>1, <2>1 DEF CreateIntake, revVars
    <2>2. ASSUME NEW i \in Intake, BeginConfirm(w, i)
          PROVE  Aside
      BY <1>1, <2>2 DEF BeginConfirm, revVars
    <2>3. ASSUME PersistDraft(w) \/ CloseIntake(w)
          PROVE  Aside
      BY <1>1, <2>3 DEF PersistDraft, CloseIntake, revVars
    <2>4. ASSUME MarkSku(w) \/ CommitJudgment(w) \/ CommitReview(w) \/ Abandon(w)
          PROVE  Aside
      <3>1. Step(w, Idle) /\ UNCHANGED <<revision, origin>>
        BY <2>4 DEF MarkSku, CommitJudgment, CommitReview, Abandon, revVars
      <3> QED
        BY <1>1, <3>1 DEF Idle
    <2>5. ASSUME BeginJudgment(w)
          PROVE  Aside
      BY <1>1, <2>5 DEF BeginJudgment, revVars
    <2>6. ASSUME NEW j \in 1 .. Len(judgments), BeginReview(w, j)
          PROVE  Aside
      BY <1>1, <2>6 DEF BeginReview, revVars
    <2>7. ASSUME BeginPublish(w)
          PROVE  Aside
      BY <1>1, <2>7 DEF BeginPublish, revVars
    <2>8. ASSUME WriteArchive(w)
          PROVE  Aside
      BY <1>1, <2>8 DEF WriteArchive, revVars
    <2>9. ASSUME CommitBundle(w)
          PROVE  Aside
      BY <1>1, <2>9 DEF CommitBundle, revVars
    <2>10. ASSUME StartProbation(w)
           PROVE  Aside
      BY <1>1, <2>10 DEF StartProbation, revVars
    <2> QED
      BY <1>3, <2>1, <2>2, <2>3, <2>4, <2>5, <2>6, <2>7, <2>8, <2>9, <2>10 DEF Request
  <1>4. ASSUME \/ \E i \in Intake : Extract(i) \/ Reject(i)
               \/ \E r \in Rev : EditPoint(r)
               \/ ArchiveSku
               \/ UNCHANGED stdVars
        PROVE  Aside
    BY <1>2, <1>4 DEF Extract, Reject, EditPoint, ArchiveSku, revVars, stdVars
  <1> QED
    BY <1>3, <1>4 DEF StdNext

\* The draft of CommitDraft is a revision no request has heard of.
LEMMA DraftIsNew ==
  ASSUME StdTypeOK, NEW w \in Worker, CommitDraft(w)
  PROVE  \E r \in Rev :
            /\ revision[r] = "none"
            /\ revision' = [revision EXCEPT ![r] = "draft"]
            /\ origin' = [origin EXCEPT ![r] = {tx[w].intake}]
            /\ Step(w, [at |-> "pointing", intake |-> tx[w].intake, rev |-> r])
  <1>1. PICK r \in Rev :
            /\ Drafted = 1 .. (r - 1)
            /\ revision' = [revision EXCEPT ![r] = "draft"]
            /\ origin' = [origin EXCEPT ![r] = {tx[w].intake}]
            /\ Step(w, [at |-> "pointing", intake |-> tx[w].intake, rev |-> r])
    BY DEF CommitDraft
  <1>2. revision[r] = "none"
    BY <1>1, StdAssumption DEF Drafted, Rev
  <1> QED
    BY <1>1, <1>2

LEMMA DraftsNext ==
  ASSUME StdTypeOK, DraftsInHand, [StdNext]_stdVars
  PROVE  DraftsInHand'
  <1>1. CASE Aside
    BY <1>1 DEF Aside, DraftsInHand, Drafting
  <1>2. ASSUME NEW w \in Worker, CommitDraft(w)
        PROVE  DraftsInHand'
    <2>1. PICK r \in Rev :
            /\ revision[r] = "none"
            /\ revision' = [revision EXCEPT ![r] = "draft"]
            /\ origin' = [origin EXCEPT ![r] = {tx[w].intake}]
            /\ Step(w, [at |-> "pointing", intake |-> tx[w].intake, rev |-> r])
      BY <1>2, DraftIsNew
    <2>2. /\ tx'[w] = [at |-> "pointing", intake |-> tx[w].intake, rev |-> r]
          /\ \A v \in Worker \ {w} : tx'[v] = tx[v]
      BY <2>1, StepOK
    <2>3. revision'[r] = "draft" /\ \A s \in Rev \ {r} : revision'[s] = revision[s]
      BY <2>1 DEF StdTypeOK
    <2>4. origin'[r] = {tx[w].intake} /\ \A s \in Rev \ {r} : origin'[s] = origin[s]
      BY <2>1 DEF StdTypeOK
    <2>5. \A v \in Worker \ {w} : Drafting(v) => tx[v].rev \in Rev \ {r}
      BY <2>1, InHand DEF DraftsInHand
    <2>6. \A v \in Worker \ {w} : tx[v].at = "activating" /\ tx[v].prior # NoRev =>
             tx[v].prior \in Rev \ {r}
      BY <2>1, InHand DEF DraftsInHand, Live
    <2> QED
      BY <2>2, <2>3, <2>4, <2>5, <2>6 DEF DraftsInHand, Drafting
  <1>3. ASSUME NEW w \in Worker, ReadPrior(w)
        PROVE  DraftsInHand'
    <2>1. PICK prior \in IF Active = {} THEN {NoRev} ELSE Active :
             Step(w, [at |-> "activating", intake |-> tx[w].intake, rev |-> tx[w].rev,
                      prior |-> prior])
      BY <1>3 DEF ReadPrior
    <2>2. prior = NoRev \/ revision[prior] \in Live
      BY <2>1 DEF Active, Live
    <2>3. /\ tx'[w] = [at |-> "activating", intake |-> tx[w].intake, rev |-> tx[w].rev,
                       prior |-> prior]
          /\ \A v \in Worker \ {w} : tx'[v] = tx[v]
      BY <2>1, StepOK
    <2>4. Drafting(w) /\ UNCHANGED <<revision, origin>>
      BY <1>3 DEF ReadPrior, Drafting, revVars
    <2> QED
      BY <2>2, <2>3, <2>4 DEF DraftsInHand, Drafting
  <1>4. ASSUME NEW w \in Worker, CommitActive(w)
        PROVE  DraftsInHand'
    <2>1. /\ tx'[w] = [at |-> "closing", intake |-> tx[w].intake]
          /\ \A v \in Worker \ {w} : tx'[v] = tx[v]
      BY <1>4, StepOK DEF CommitActive
    <2>2. \A s \in Rev : /\ s # tx[w].rev /\ s # tx[w].prior => revision'[s] = revision[s]
                         /\ revision[s] \in Live => revision'[s] \in Live
      BY <1>4 DEF CommitActive, Live
    <2>3. \A v \in Worker \ {w} : Drafting(v) => tx[v].rev # tx[w].rev /\ tx[v].rev # tx[w].prior
      BY <1>4, InHand DEF CommitActive, DraftsInHand, Drafting, Live, NoRev, Rev
    <2> QED
      BY <1>4, <2>1, <2>2, <2>3, InHand DEF CommitActive, DraftsInHand, Drafting
  <1> QED
    BY <1>1, <1>2, <1>3, <1>4, Revising

\* A revision that has been active stays active or archived, and its origin.
LEMMA LiveKept ==
  ASSUME StdTypeOK, DraftsInHand, [StdNext]_stdVars, NEW r \in Rev, revision[r] \in Live
  PROVE  revision'[r] \in Live /\ origin'[r] = origin[r]
  <1>1. CASE Aside
    BY <1>1 DEF Aside
  <1>2. ASSUME NEW w \in Worker, CommitDraft(w)
        PROVE  revision'[r] \in Live /\ origin'[r] = origin[r]
    BY <1>2, DraftIsNew DEF StdTypeOK, Live
  <1>3. ASSUME NEW w \in Worker, ReadPrior(w) \/ CommitActive(w)
        PROVE  revision'[r] \in Live /\ origin'[r] = origin[r]
    BY <1>3 DEF ReadPrior, CommitActive, revVars, Live
  <1> QED
    BY <1>1, <1>2, <1>3, Revising

-----------------------------------------------------------------------------
(* Confirmations                                                           *)

LEMMA BackedKept ==
  ASSUME StdTypeOK, DraftsInHand, [StdNext]_stdVars, NEW i, Backed(i)
  PROVE  Backed(i)'
  BY LiveKept DEF Backed

\* Only CommitActive leaves a request about to close its intake, and only
\* CloseIntake marks one as confirmed.
LEMMA Closing ==
  ASSUME StdTypeOK, [StdNext]_stdVars
  PROVE  \/ \E w \in Worker : CommitActive(w) \/ CloseIntake(w)
         \/ /\ \A i \in Intake : intake'[i] = "confirmed" => intake[i] = "confirmed"
            /\ \A w \in Worker : tx'[w].at = "closing" => tx'[w] = tx[w]
  <1> DEFINE Quiet == /\ \A i \in Intake : intake'[i] = "confirmed" => intake[i] = "confirmed"
                      /\ \A w \in Worker : tx'[w].at = "closing" => tx'[w] = tx[w]
  <1>1. ASSUME NEW w \in Worker, NEW t, Step(w, t), t.at # "closing",
               \A i \in Intake : intake'[i] = "confirmed" => intake[i] = "confirmed"
        PROVE  Quiet
    BY <1>1, StepOK
  <1>2. ASSUME UNCHANGED tx,
               \A i \in Intake : intake'[i] = "confirmed" => intake[i] = "confirmed"
        PROVE  Quiet
    BY <1>2
  <1> HIDE DEF Quiet
  <1>3. ASSUME NEW w \in Worker, Request(w)
        PROVE  Quiet \/ CommitActive(w) \/ CloseIntake(w)
    <2>1. ASSUME NEW i \in Intake, CreateIntake(w, i)
          PROVE  Quiet
      BY <1>1, <2>1 DEF CreateIntake, StdTypeOK
    <2>2. ASSUME NEW i \in Intake, BeginConfirm(w, i)
          PROVE  Quiet
      BY <1>1, <2>2 DEF BeginConfirm
    <2>3. ASSUME PersistDraft(w)
          PROVE  Quiet
      BY <1>1, <2>3 DEF PersistDraft, StdTypeOK
    <2>4. ASSUME MarkSku(w) \/ CommitJudgment(w) \/ CommitReview(w) \/ Abandon(w)
          PROVE  Quiet
      <3>1. Step(w, Idle) /\ UNCHANGED intake
        BY <2>4 DEF MarkSku, CommitJudgment, CommitReview, Abandon
      <3> QED
        BY <1>1, <3>1 DEF Idle
    <2>5. ASSUME BeginJudgment(w)
          PROVE  Quiet
      BY <1>1, <2>5 DEF BeginJudgment
    <2>6. ASSUME NEW j \in 1 .. Len(judgments), BeginReview(w, j)
          PROVE  Quiet
      BY <1>1, <2>6 DEF BeginReview
    <2>7. ASSUME BeginPublish(w)
          PROVE  Quiet
      BY <1>1, <2>7 DEF BeginPublish
    <2>8. ASSUME WriteArchive(w)
          PROVE  Quiet
      BY <1>1, <2>8 DEF WriteArchive
    <2>9. ASSUME CommitBundle(w)
          PROVE  Quiet
      BY <1>1, <2>9 DEF CommitBundle
    <2>10. ASSUME StartProbation(w)
           PROVE  Quiet
      BY <1>1, <2>10 DEF StartProbation
    <2>11. ASSUME CommitDraft(w)
           PROVE  Quiet
      BY <1>1, <2>11 DEF CommitDraft
    <2>12. ASSUME ReadPrior(w)
           PROVE  Quiet
      BY <1>1, <2>12 DEF ReadPrior
    <2> QED
      BY <1>3, <2>1, <2>2, <2>3, <2>4, <2>5, <2>6, <2>7, <2>8, <2>9, <2>10, <2>11, <2>12
         DEF Request
  <1>4. ASSUME \/ \E i \in Intake : Extract(i) \/ Reject(i)
               \/ \E r \in Rev : EditPoint(r)
               \/ ArchiveSku
               \/ UNCHANGED stdVars
        PROVE  Quiet
    BY <1>2, <1>4 DEF Extract, Reject, EditPoint, ArchiveSku, stdVars, StdTypeOK
  <1> QED
    BY <1>3, <1>4 DEF StdNext, Quiet

LEMMA ClosingsNext ==
  ASSUME StdTypeOK, DraftsInHand, Closings, [StdNext]_stdVars
  PROVE  Closings'
  <1> USE BackedKept
  <1>1. \A i \in Intake : Backed(i) => Backed(i)'
    OBVIOUS
  <1>2. ASSUME NEW w \in Worker, CommitActive(w)
        PROVE  Closings'
    <2>1. /\ tx'[w] = [at |-> "closing", intake |-> tx[w].intake]
          /\ \A v \in Worker \ {w} : tx'[v] = tx[v]
      BY <1>2, StepOK DEF CommitActive
    <2>2. tx[w].rev \in Rev /\ tx[w].intake \in origin[tx[w].rev] /\ tx[w].intake \in Intake
      BY <1>2, InHand DEF CommitActive, DraftsInHand, Drafting
    <2>3. Backed(tx[w].intake)'
      BY <1>2, <2>1, <2>2 DEF CommitActive, Backed, Live
    <2>4. intake' = intake
      BY <1>2 DEF CommitActive
    <2>5. \A v \in Worker \ {w} : tx[v].at = "closing" => tx[v].intake \in Intake
      BY InHand
    <2> QED
      BY <1>1, <2>1, <2>3, <2>4, <2>5 DEF Closings, ConfirmedHasRevision, Backed, Live
  <1>3. ASSUME NEW w \in Worker, CloseIntake(w)
        PROVE  Closings'
    <2>1. /\ tx'[w] = [at |-> "marking", sku |-> "unpublished"]
          /\ \A v \in Worker \ {w} : tx'[v] = tx[v]
      BY <1>3, StepOK DEF CloseIntake
    <2>2. tx[w].intake \in Intake /\ Backed(tx[w].intake)
      BY <1>3, InHand DEF CloseIntake, Closings
    <2>3. \A i \in Intake : intake'[i] = "confirmed" => Backed(i)
      BY <1>3, <2>2 DEF CloseIntake, Closings, ConfirmedHasRevision, StdTypeOK, Backed, Live
    <2>4. \A v \in Worker \ {w} : tx[v].at = "closing" => tx[v].intake \in Intake
      BY InHand
    <2> QED
      BY <1>1, <2>1, <2>3, <2>4 DEF Closings, ConfirmedHasRevision, Backed, Live
  <1>4. ASSUME /\ \A i \in Intake : intake'[i] = "confirmed" => intake[i] = "confirmed"
               /\ \A w \in Worker : tx'[w].at = "closing" => tx'[w] = tx[w]
        PROVE  Closings'
    <2>1. \A v \in Worker : tx[v].at = "closing" => tx[v].intake \in Intake
      BY InHand
    <2> QED
      BY <1>1, <1>4, <2>1 DEF Closings, ConfirmedHasRevision, Backed, Live
  <1> QED
    BY <1>2, <1>3, <1>4, Closing

-----------------------------------------------------------------------------
(* Publications                                                            *)

LEMMA TrainedKept ==
  ASSUME StdTypeOK, [StdNext]_stdVars, NEW r \in Rev, TrainedOn(r)
  PROVE  TrainedOn(r)'
  <1>1. CASE judgments' = judgments
    BY <1>1 DEF TrainedOn
  <1>2. ASSUME NEW w \in Worker, CommitJudgment(w)
        PROVE  TrainedOn(r)'
    <2>1. PICK row : judgments' = Append(judgments, row)
      BY <1>2 DEF CommitJudgment
    <2>2. judgments \in Seq(Judgment)
      BY DEF StdTypeOK
    <2>3. /\ \A j \in 1 .. Len(judgments) : judgments'[j] = judgments[j]
          /\ Len(judgments') = Len(judgments) + 1 /\ Len(judgments) \in Nat
      BY <2>1, <2>2
    <2> QED
      BY <2>3 DEF TrainedOn
  <1>3. ASSUME NEW w \in Worker, CommitReview(w)
        PROVE  TrainedOn(r)'
    <2>1. judgments \in Seq(Judgment) /\ tx[w].judgment \in 1 .. Len(judgments)
      BY <1>3, InHand DEF StdTypeOK, CommitReview
    <2>2. /\ Len(judgments') = Len(judgments)
          /\ \A j \in 1 .. Len(judgments) :
                /\ judgments'[j].rev = judgments[j].rev
                /\ judgments'[j].sample = judgments[j].sample
                /\ judgments[j].decision # "none" => judgments'[j].decision # "none"
      BY <1>3, <2>1, CommitReviewOnly
    <2> QED
      BY <2>2 DEF TrainedOn
  <1> QED
    <2>1. \/ judgments' = judgments
          \/ \E w \in Worker : CommitJudgment(w) \/ CommitReview(w)
      BY DEF StdNext, Request, stdVars, CreateIntake, BeginConfirm, PersistDraft, CommitDraft,
             ReadPrior, CommitActive, CloseIntake, MarkSku, BeginJudgment, BeginReview,
             BeginPublish, WriteArchive, CommitBundle, StartProbation, Abandon, Extract, Reject,
             EditPoint, ArchiveSku
    <2> QED
      BY <1>1, <1>2, <1>3, <2>1

\* The gate's window holds a good sample and an unqualified one that was caught.
LEMMA GateTrains == ASSUME NEW r \in Rev, TrainingGate(r) PROVE TrainedOn(r)
  BY DEF TrainingGate, Recent, Evidence, TrainedOn

\* The steps that touch no archive, bundle or probation leave no request further
\* on its way to a publication.
PubAt == {"archiving", "publishing", "starting"}
Unpublishing ==
    /\ UNCHANGED pubVars
    /\ sku' = "published" => sku = "published" \/ \E w \in Worker : tx[w].at = "marking" /\ tx[w].sku = "published"
    /\ \A w \in Worker : \/ tx'[w] = tx[w]
                         \/ /\ tx'[w].at \notin PubAt
                            /\ tx'[w].at = "marking" => tx'[w].sku = "unpublished"

LEMMA Publishing ==
  ASSUME StdTypeOK, [StdNext]_stdVars
  PROVE  Unpublishing \/ \E w \in Worker : BeginPublish(w) \/ WriteArchive(w) \/ CommitBundle(w)
                                           \/ StartProbation(w)
  <1>1. ASSUME NEW w \in Worker, NEW t, Step(w, t), t.at \notin PubAt,
               t.at = "marking" => t.sku = "unpublished", UNCHANGED <<pubVars, sku>>
        PROVE  Unpublishing
    BY <1>1, StepOK DEF Unpublishing
  <1>2. ASSUME UNCHANGED <<pubVars, tx>>, sku' = "published" => sku = "published"
        PROVE  Unpublishing
    BY <1>2 DEF Unpublishing
  <1>3. ASSUME NEW w \in Worker, Request(w)
        PROVE  Unpublishing \/ BeginPublish(w) \/ WriteArchive(w) \/ CommitBundle(w)
               \/ StartProbation(w)
    <2> USE DEF PubAt
    <2>1. ASSUME NEW i \in Intake, CreateIntake(w, i)
          PROVE  Unpublishing
      BY <1>1, <2>1 DEF CreateIntake
    <2>2. ASSUME NEW i \in Intake, BeginConfirm(w, i)
          PROVE  Unpublishing
      BY <1>1, <2>2 DEF BeginConfirm
    <2>3. ASSUME PersistDraft(w) \/ CloseIntake(w)
          PROVE  Unpublishing
      BY <1>1, <2>3 DEF PersistDraft, CloseIntake
    <2>4. ASSUME CommitJudgment(w) \/ CommitReview(w) \/ Abandon(w)
          PROVE  Unpublishing
      <3>1. Step(w, Idle) /\ UNCHANGED <<pubVars, sku>>
        BY <2>4 DEF CommitJudgment, CommitReview, Abandon
      <3> QED
        BY <1>1, <3>1 DEF Idle
    <2>5. ASSUME BeginJudgment(w)
          PROVE  Unpublishing
      BY <1>1, <2>5 DEF BeginJudgment
    <2>6. ASSUME NEW j \in 1 .. Len(judgments), BeginReview(w, j)
          PROVE  Unpublishing
      BY <1>1, <2>6 DEF BeginReview
    <2>7. ASSUME CommitDraft(w)
          PROVE  Unpublishing
      BY <1>1, <2>7 DEF CommitDraft
    <2>8. ASSUME ReadPrior(w)
          PROVE  Unpublishing
      BY <1>1, <2>8 DEF ReadPrior
    <2>9. ASSUME CommitActive(w)
          PROVE  Unpublishing
      BY <1>1, <2>9 DEF CommitActive
    <2>10. ASSUME MarkSku(w)
           PROVE  Unpublishing
      <3>1. /\ tx'[w] = Idle /\ \A v \in Worker \ {w} : tx'[v] = tx[v]
            /\ tx[w].at = "marking" /\ sku' = tx[w].sku /\ UNCHANGED pubVars
        BY <2>10, StepOK DEF MarkSku
      <3> QED
        BY <3>1 DEF Unpublishing, Idle
    <2> QED
      BY <1>3, <2>1, <2>2, <2>3, <2>4, <2>5, <2>6, <2>7, <2>8, <2>9, <2>10 DEF Request
  <1>4. ASSUME \/ \E i \in Intake : Extract(i) \/ Reject(i)
               \/ \E r \in Rev : EditPoint(r)
               \/ ArchiveSku
               \/ UNCHANGED stdVars
        PROVE  Unpublishing
    BY <1>2, <1>4 DEF Extract, Reject, EditPoint, ArchiveSku, stdVars, pubVars
  <1> QED
    BY <1>3, <1>4 DEF StdNext

\* The requests on their way to a publication, and the rows they leave.
Onward(w) == tx[w].at \in PubAt => revision[tx[w].rev] \in Live /\ TrainedOn(tx[w].rev)
RowOK(b) == bundle[b].rev # NoRev => /\ b \in archives
                                     /\ revision[bundle[b].rev] \in Live
                                     /\ TrainedOn(bundle[b].rev)

LEMMA OnwardKept ==
  ASSUME StdTypeOK, DraftsInHand, Publishings, [StdNext]_stdVars, NEW w \in Worker, tx'[w] = tx[w]
  PROVE  Onward(w)'
  <1>1. CASE tx[w].at \notin PubAt
    BY <1>1 DEF Onward
  <1>2. CASE tx[w].at \in PubAt
    <2>1. tx[w].rev \in Rev /\ revision[tx[w].rev] \in Live /\ TrainedOn(tx[w].rev)
      BY <1>2, InHand DEF Publishings, PubAt
    <2>2. \A r \in Rev : revision[r] \in Live /\ TrainedOn(r) =>
             revision'[r] \in Live /\ TrainedOn(r)'
      BY LiveKept, TrainedKept
    <2> QED
      BY <2>1, <2>2 DEF Onward, TrainedOn
  <1> QED
    BY <1>1, <1>2

LEMMA RowKept ==
  ASSUME StdTypeOK, DraftsInHand, Publishings, [StdNext]_stdVars, NEW b \in Bundle,
         bundle'[b] = bundle[b], archives \subseteq archives'
  PROVE  RowOK(b)'
  <1>1. CASE bundle[b].rev = NoRev
    BY <1>1 DEF RowOK
  <1>2. CASE bundle[b].rev # NoRev
    <2>1. /\ bundle[b].rev \in Rev /\ b \in archives
          /\ revision[bundle[b].rev] \in Live /\ TrainedOn(bundle[b].rev)
      BY <1>2 DEF Publishings, StdTypeOK
    <2>2. \A r \in Rev : revision[r] \in Live /\ TrainedOn(r) =>
             revision'[r] \in Live /\ TrainedOn(r)'
      BY LiveKept, TrainedKept
    <2> QED
      BY <2>1, <2>2 DEF RowOK, TrainedOn
  <1> QED
    BY <1>1, <1>2

\* Publishings, with its parts named.
Parts ==
    /\ \A w \in Worker : Onward(w)
    /\ \A w \in Worker : tx[w].at = "publishing" =>
          tx[w].bundle \in archives /\ bundle[tx[w].bundle].rev = NoRev
    /\ \A v, w \in Worker : v # w /\ tx[v].at = "publishing" /\ tx[w].at = "publishing" =>
          tx[v].bundle # tx[w].bundle
    /\ \A w \in Worker : tx[w].at = "starting" => Published(tx[w].rev)
    /\ \A w \in Worker : tx[w].at = "marking" /\ tx[w].sku = "published" => Complete
    /\ \A b \in Bundle : RowOK(b)
    /\ \A r \in probation : Published(r)
    /\ sku = "published" => Complete

LEMMA PublishingsParts == Publishings => Parts
  BY DEF Publishings, Parts, Onward, RowOK, PubAt, PublishedIsComplete, Complete

LEMMA PartsPublishings == Parts' => Publishings'
  BY DEF Publishings, Parts, Onward, RowOK, PubAt, PublishedIsComplete, Complete

LEMMA PublishingsNext ==
  ASSUME StdTypeOK, DraftsInHand, Publishings, [StdNext]_stdVars
  PROVE  Publishings'
  <1>1. CASE Unpublishing
    <2>1. bundle' = bundle /\ archives' = archives /\ probation' = probation
      BY <1>1 DEF Unpublishing, pubVars
    <2>2. \A w \in Worker : Onward(w)'
      BY <1>1, OnwardKept DEF Unpublishing, Onward
    <2>3. \A b \in Bundle : RowOK(b)'
      BY <2>1, RowKept
    <2>4. \A r : Published(r) <=> Published(r)'
      BY <2>1 DEF Published
    <2>5. Complete <=> Complete'
      BY <2>1 DEF Complete
    <2>6. \A w \in Worker : tx'[w] # tx[w] => /\ tx'[w].at \notin {"publishing", "starting"}
                                              /\ tx'[w].at = "marking" => tx'[w].sku = "unpublished"
      BY <1>1 DEF Unpublishing, PubAt
    <2>7. sku' = "published" => Complete
      BY <1>1, PublishingsParts DEF Parts, Unpublishing
    <2> QED
      BY <2>1, <2>2, <2>3, <2>4, <2>5, <2>6, <2>7, PublishingsParts, PartsPublishings DEF Parts, Published
  <1>2. ASSUME NEW w \in Worker, BeginPublish(w)
        PROVE  Publishings'
    <2>1. PICK r \in Rev : /\ Newest(r) /\ TrainingGate(r)
                           /\ Step(w, [at |-> "archiving", rev |-> r, content |-> content[r]])
      BY <1>2 DEF BeginPublish
    <2>2. /\ tx'[w] = [at |-> "archiving", rev |-> r, content |-> content[r]]
          /\ \A v \in Worker \ {w} : tx'[v] = tx[v]
      BY <2>1, StepOK
    <2>3. /\ UNCHANGED <<revision, judgments, archives, bundle, probation, sku>>
      BY <1>2 DEF BeginPublish, revVars, pubVars
    <2>4. revision[r] \in Live /\ TrainedOn(r)
      BY <2>1, GateTrains DEF Newest, Active, Live
    <2>5. Onward(w)'
      BY <2>2, <2>3, <2>4 DEF Onward, TrainedOn
    <2>6. \A v \in Worker : Onward(v)'
      BY <2>2, <2>5, OnwardKept
    <2>7. \A b \in Bundle : RowOK(b)'
      BY <2>3, RowKept
    <2> QED
      BY <2>2, <2>3, <2>6, <2>7, PublishingsParts, PartsPublishings DEF Parts, Published, Complete
  <1>3. ASSUME NEW w \in Worker, WriteArchive(w)
        PROVE  Publishings'
    <2>1. PICK b \in Bundle :
             /\ archives = 1 .. (b - 1) /\ archives' = archives \cup {b}
             /\ Step(w, [at |-> "publishing", rev |-> tx[w].rev, content |-> tx[w].content,
                         bundle |-> b])
      BY <1>3 DEF WriteArchive
    <2>2. /\ tx'[w] = [at |-> "publishing", rev |-> tx[w].rev, content |-> tx[w].content, bundle |-> b]
          /\ \A v \in Worker \ {w} : tx'[v] = tx[v]
      BY <2>1, StepOK
    <2>3. UNCHANGED <<revision, judgments, bundle, probation, sku>> /\ tx[w].at = "archiving"
      BY <1>3 DEF WriteArchive, revVars
    <2>4. b \notin archives
      BY <2>1, StdAssumption DEF Bundle
    <2>5. bundle[b].rev = NoRev
      BY <2>4, PublishingsParts DEF Parts, RowOK
    <2>6. Onward(w)'
      BY <2>2, <2>3, PublishingsParts DEF Parts, Onward, PubAt, TrainedOn
    <2>7. \A v \in Worker : Onward(v)'
      BY <2>2, <2>6, OnwardKept
    <2>8. \A c \in Bundle : RowOK(c)'
      BY <2>1, <2>3, RowKept
    <2>9. Complete => Complete'
      BY <2>1, <2>3 DEF Complete
    <2> QED
      BY <2>1, <2>2, <2>3, <2>4, <2>5, <2>7, <2>8, <2>9, PublishingsParts, PartsPublishings DEF Parts, Published
  <1>4. ASSUME NEW w \in Worker, CommitBundle(w)
        PROVE  Publishings'
    <2> PICK b : b = tx[w].bundle
      OBVIOUS
    <2>1. /\ tx'[w] = [at |-> "starting", rev |-> tx[w].rev]
          /\ \A v \in Worker \ {w} : tx'[v] = tx[v]
      BY <1>4, StepOK DEF CommitBundle
    <2>2. /\ UNCHANGED <<revision, judgments, archives, probation, sku>>
          /\ tx[w].at = "publishing" /\ b \in Bundle /\ tx[w].rev \in Rev
      BY <1>4, InHand DEF CommitBundle, revVars
    <2>3. /\ bundle'[b].rev = tx[w].rev
          /\ \A c \in Bundle \ {b} : bundle'[c] = bundle[c]
      BY <1>4, <2>2 DEF CommitBundle, StdTypeOK
    <2>4. bundle[b].rev = NoRev /\ b \in archives
      BY <2>2, PublishingsParts DEF Parts
    <2>5. \A c \in Bundle : bundle[c].rev # NoRev => bundle'[c] = bundle[c]
      BY <2>3, <2>4
    <2>6. revision[tx[w].rev] \in Live /\ TrainedOn(tx[w].rev)
      BY <2>2, PublishingsParts DEF Parts, Onward, PubAt
    <2>7. Onward(w)'
      BY <2>1, <2>2, <2>6 DEF Onward, PubAt, TrainedOn
    <2>8. \A v \in Worker : Onward(v)'
      BY <2>1, <2>7, OnwardKept
    <2>9. RowOK(b)'
      BY <2>2, <2>3, <2>4, <2>6 DEF RowOK, TrainedOn
    <2>10. \A c \in Bundle : RowOK(c)'
      BY <2>2, <2>3, <2>9, RowKept
    <2>11. \A r \in Rev : Published(r) => Published(r)'
      BY <2>5 DEF Published, Rev, NoRev
    <2>12. Published(tx[w].rev)'
      BY <2>1, <2>2, <2>3 DEF Published
    <2>13. Complete => Complete'
      BY <2>2, <2>5 DEF Complete, StdTypeOK, Rev, NoRev
    <2>14. \A v \in Worker \ {w} : tx[v].at = "starting" => tx[v].rev \in Rev
      BY InHand
    <2>15. \A v \in Worker : tx'[v].at = "publishing" =>
              /\ v # w /\ tx'[v] = tx[v]
              /\ tx[v].bundle \in Bundle /\ tx[v].bundle # b
      BY <2>1, <2>2, InHand, PublishingsParts DEF Parts
    <2>16. \A v \in Worker : tx'[v].at = "publishing" =>
              tx'[v].bundle \in archives' /\ bundle'[tx'[v].bundle].rev = NoRev
      BY <2>2, <2>3, <2>15, PublishingsParts DEF Parts
    <2>17. \A v \in Worker : (tx[v].at = "starting" => Published(tx[v].rev))'
      BY <2>1, <2>11, <2>12, <2>14, PublishingsParts DEF Parts, Published
    <2>18. \A r \in probation' : Published(r)'
      BY <2>2, <2>11, PublishingsParts DEF Parts, StdTypeOK
    <2> QED
      BY <2>1, <2>2, <2>8, <2>10, <2>13, <2>15, <2>16, <2>17, <2>18, PublishingsParts, PartsPublishings DEF Parts
  <1>5. ASSUME NEW w \in Worker, StartProbation(w)
        PROVE  Publishings'
    <2>1. /\ tx'[w] = [at |-> "marking", sku |-> "published"]
          /\ \A v \in Worker \ {w} : tx'[v] = tx[v]
      BY <1>5, StepOK DEF StartProbation
    <2>2. /\ UNCHANGED <<revision, judgments, archives, bundle, sku>>
          /\ tx[w].at = "starting" /\ probation' = probation \cup {tx[w].rev}
      BY <1>5 DEF StartProbation, revVars
    <2>3. Published(tx[w].rev) /\ tx[w].rev \in Rev
      BY <2>2, PublishingsParts, InHand DEF Parts
    <2>4. PICK b \in Bundle : bundle[b].rev = tx[w].rev
      BY <2>3 DEF Published
    <2>5. b \in archives
      BY <2>3, <2>4, PublishingsParts DEF Parts, RowOK, Rev, NoRev
    <2>6. Complete'
      BY <2>2, <2>4, <2>5 DEF Complete
    <2>7. \A v \in Worker : Onward(v)'
      BY <2>1, OnwardKept DEF Onward, PubAt
    <2>8. \A c \in Bundle : RowOK(c)'
      BY <2>2, RowKept
    <2>9. \A r : Published(r) <=> Published(r)'
      BY <2>2 DEF Published
    <2>10. \A r \in probation' : Published(r)'
      BY <2>2, <2>3, <2>9, PublishingsParts DEF Parts
    <2>11. \A v \in Worker : tx'[v].at \in {"publishing", "starting"} => v # w /\ tx'[v] = tx[v]
      BY <2>1
    <2>12. \A v \in Worker : (tx[v].at = "starting" => Published(tx[v].rev))'
      BY <2>2, <2>11, PublishingsParts DEF Parts, Published
    <2> QED
      BY <2>1, <2>2, <2>6, <2>7, <2>8, <2>10, <2>11, <2>12, PublishingsParts, PartsPublishings DEF Parts
  <1> QED
    BY <1>1, <1>2, <1>3, <1>4, <1>5, Publishing

-----------------------------------------------------------------------------
(* The writer lock                                                         *)

LEMMA LockedNext ==
  ASSUME StdTypeOK, DraftsInHand, Locked, [StdNext]_stdVars
  PROVE  Locked'
  <1> SUFFICES ASSUME WriterLock
               PROVE  /\ OneActive'
                      /\ \A v, w \in Worker : Writing(v)' /\ Writing(w)' => v = w
                      /\ \A w \in Worker : (Writing(w) => Active \subseteq {tx[w].prior})'
    BY DEF Locked
  <1>0. /\ OneActive
        /\ \A v, w \in Worker : Writing(v) /\ Writing(w) => v = w
        /\ \A w \in Worker : Writing(w) => Active \subseteq {tx[w].prior}
    BY DEF Locked
  <1>1. CASE Aside
    BY <1>0, <1>1 DEF Aside, OneActive, Active, Writing
  <1>2. ASSUME NEW w \in Worker, CommitDraft(w)
        PROVE  /\ Active' = Active
               /\ \A v \in Worker : Writing(v)' => Writing(v) /\ tx'[v] = tx[v]
    <2>1. PICK r \in Rev :
            /\ revision[r] = "none"
            /\ revision' = [revision EXCEPT ![r] = "draft"]
            /\ Step(w, [at |-> "pointing", intake |-> tx[w].intake, rev |-> r])
      BY <1>2, DraftIsNew
    <2>2. \A s \in Rev : revision'[s] = "active" <=> revision[s] = "active"
      BY <2>1 DEF StdTypeOK
    <2>3. tx'[w].at = "pointing" /\ \A v \in Worker \ {w} : tx'[v] = tx[v]
      BY <2>1, StepOK
    <2> QED
      BY <2>2, <2>3 DEF Active, Writing
  <1>3. ASSUME NEW w \in Worker, ReadPrior(w)
        PROVE  /\ OneActive'
               /\ \A u, v \in Worker : Writing(u)' /\ Writing(v)' => u = v
               /\ \A v \in Worker : (Writing(v) => Active \subseteq {tx[v].prior})'
    <2>1. PICK prior \in IF Active = {} THEN {NoRev} ELSE Active :
             Step(w, [at |-> "activating", intake |-> tx[w].intake, rev |-> tx[w].rev,
                      prior |-> prior])
      BY <1>3 DEF ReadPrior
    <2>2. /\ tx'[w] = [at |-> "activating", intake |-> tx[w].intake, rev |-> tx[w].rev,
                       prior |-> prior]
          /\ \A v \in Worker \ {w} : tx'[v] = tx[v]
      BY <2>1, StepOK
    <2>3. \A v \in Worker \ {w} : ~Writing(v)
      BY <1>3 DEF ReadPrior, MayWrite
    <2>4. Active \subseteq {prior} /\ revision' = revision
      BY <1>0, <1>3, <2>1 DEF OneActive, ReadPrior, revVars
    <2> QED
      BY <1>0, <2>2, <2>3, <2>4 DEF OneActive, Active, Writing
  <1>4. ASSUME NEW w \in Worker, CommitActive(w)
        PROVE  OneActive' /\ \A v \in Worker : ~Writing(v)'
    <2>1. /\ tx'[w].at = "closing" /\ \A v \in Worker \ {w} : tx'[v] = tx[v]
      BY <1>4, StepOK DEF CommitActive
    <2>2. \A v \in Worker : ~Writing(v)'
      BY <1>0, <1>4, <2>1 DEF CommitActive, Writing
    <2>3. Active \subseteq {tx[w].prior}
      BY <1>0, <1>4 DEF CommitActive, Writing
    <2>4. Active' \subseteq {tx[w].rev}
      BY <1>4, <2>3 DEF CommitActive, Active
    <2>5. \A r, s \in Active' : r = s
      BY <2>4
    <2> QED
      BY <2>2, <2>5 DEF OneActive
  <1>5. ASSUME NEW w \in Worker, CommitDraft(w)
        PROVE  /\ OneActive'
               /\ \A u, v \in Worker : Writing(u)' /\ Writing(v)' => u = v
               /\ \A v \in Worker : (Writing(v) => Active \subseteq {tx[v].prior})'
    BY <1>0, <1>2, <1>5 DEF OneActive
  <1> QED
    BY <1>1, <1>3, <1>4, <1>5, Revising

-----------------------------------------------------------------------------
(* The inductive invariant and what follows from it                        *)

StdInv == StdTypeOK /\ DraftsInHand /\ Closings /\ Publishings /\ Locked

\* Whatever number of requests is in flight and wherever they die, what each has
\* in hand still is what it read.
THEOREM StdInvariant == StdSpec => []StdInv
  <1>1. StdInit => StdInv
    <2> SUFFICES ASSUME StdInit PROVE StdInv
      OBVIOUS
    <2>1. /\ \A w \in Worker : tx[w] = Idle
          /\ \A r \in Rev : revision[r] = "none"
          /\ \A b \in Bundle : bundle[b].rev = NoRev
          /\ \A i \in Intake : intake[i] = "absent"
          /\ probation = {} /\ sku = "unpublished"
      BY DEF StdInit, NoBundle
    <2>2. Active = {}
      BY <2>1 DEF Active
    <2> QED
      BY <2>1, <2>2, TypeInit DEF StdInv, DraftsInHand, Drafting, Closings, ConfirmedHasRevision,
         Publishings, PublishedIsComplete, Locked, OneActive, Writing, Idle
  <1>2. StdInv /\ [StdNext]_stdVars => StdInv'
    BY TypeNext, DraftsNext, ClosingsNext, PublishingsNext, LockedNext DEF StdInv
  <1> QED
    BY <1>1, <1>2, PTL DEF StdSpec

\* Every table and every request of the standard's life keeps its type.
THEOREM StdTypeCorrect == StdSpec => []StdTypeOK
  BY StdInvariant, PTL DEF StdInv

\* Under a writer lock (SQLite), confirm_standard_revision never leaves two
\* revisions of a SKU active, however many confirmations run at once.
THEOREM OnlyOneActive == StdSpec => [](WriterLock => OneActive)
  <1>1. StdInv => (WriterLock => OneActive)
    BY DEF StdInv, Locked
  <1> QED
    BY <1>1, StdInvariant, PTL

\* publish_bundle never shows a bundle whose archive is not on disk.
THEOREM RowsHavePayload == StdSpec => []RowHasPayload
  <1>1. StdInv => RowHasPayload
    BY DEF StdInv, Publishings, RowHasPayload
  <1> QED
    BY <1>1, StdInvariant, PTL

\* Whatever is published was trained on a good sample and on a caught one.
THEOREM PublishedTrained == StdSpec => []PublishedWasTrained
  <1>1. StdInv => PublishedWasTrained
    BY DEF StdInv, Publishings, PublishedWasTrained, TrainedOn
  <1> QED
    BY <1>1, StdInvariant, PTL

\* A SKU shown as published has a bundle on disk of a revision on probation.
THEOREM PublishedComplete == StdSpec => []PublishedIsComplete
  <1>1. StdInv => PublishedIsComplete
    BY DEF StdInv, Publishings
  <1> QED
    BY <1>1, StdInvariant, PTL

\* An intake marked confirmed has given a revision that became active.
THEOREM ConfirmedHasActivated == StdSpec => []ConfirmedHasRevision
  <1>1. StdInv => ConfirmedHasRevision
    BY DEF StdInv, Closings
  <1> QED
    BY <1>1, StdInvariant, PTL

-----------------------------------------------------------------------------
(* Refinement of RevisionLifecycle                                         *)

Standing == [r \in Rev |-> IF r \in probation THEN "probation"
                           ELSE IF Published(r) THEN "published" ELSE "unpublished"]

\* Requests, crashes and edits implement the abstract life of a revision, on
\* either kind of database.
THEOREM StandardRefines == StdSpec => ImplementsLifecycle
  <1>1. StdInit => Lifecycle!LifecycleInit
    <2> SUFFICES ASSUME StdInit PROVE Lifecycle!LifecycleInit
      OBVIOUS
    <2>1. \A r \in Rev : r \notin probation /\ ~Published(r)
      BY DEF StdInit, Published, NoBundle, Rev, NoRev
    <2> QED
      BY <2>1 DEF StdInit, Lifecycle!LifecycleInit
  <1>2. StdInv /\ [StdNext]_stdVars => [Lifecycle!LifecycleNext]_Lifecycle!lifecycle
    <2> SUFFICES ASSUME StdInv, [StdNext]_stdVars
                 PROVE  Lifecycle!LifecycleNext \/ UNCHANGED <<revision, Standing>>
      BY DEF Lifecycle!lifecycle, Standing
    <2> USE DEF StdInv
    <2>1. ASSUME UNCHANGED <<bundle, probation>>
          PROVE  UNCHANGED Standing
      BY <2>1 DEF Standing, Published
    <2>2. ASSUME NEW w \in Worker, CommitDraft(w)
          PROVE  Lifecycle!LifecycleNext
      <3>1. PICK r \in Rev : revision[r] = "none" /\ revision' = [revision EXCEPT ![r] = "draft"]
        BY <2>2, DraftIsNew
      <3>2. UNCHANGED Standing
        BY <2>1, <2>2 DEF CommitDraft, pubVars
      <3>3. Lifecycle!Draft(r)
        BY <3>1, <3>2 DEF Lifecycle!Draft, Standing
      <3> QED
        BY <3>3 DEF Lifecycle!LifecycleNext
    <2>3. ASSUME NEW w \in Worker, CommitActive(w)
          PROVE  Lifecycle!LifecycleNext
      <3> DEFINE r == tx[w].rev
                 p == tx[w].prior
      <3>1. /\ r \in Rev /\ revision[r] = "draft" /\ p \in Rev \cup {NoRev}
            /\ p # NoRev => revision[p] \in Live
        BY <2>3, InHand DEF CommitActive, DraftsInHand, Drafting
      <3>2. UNCHANGED Standing
        BY <2>1, <2>3 DEF CommitActive, pubVars
      <3>3. revision' = [s \in Rev |-> IF s = r THEN "active" ELSE IF s = p THEN "archived"
                                       ELSE revision[s]]
        BY <2>3 DEF CommitActive
      <3>4. CASE p = NoRev
        <4>1. revision' = [revision EXCEPT ![r] = "active"]
          <5>1. \A s \in Rev : s # p
            BY <3>4 DEF Rev, NoRev
          <5> HIDE DEF r, p
          <5>2. revision' = [s \in Rev |-> IF s = r THEN "active" ELSE revision[s]]
            BY <3>3, <5>1
          <5> QED
            BY <3>1, <5>2 DEF StdTypeOK
        <4>2. Lifecycle!Activate(r)
          BY <3>1, <3>2, <4>1 DEF Lifecycle!Activate, Standing
        <4> QED
          BY <3>1, <4>2 DEF Lifecycle!LifecycleNext
      <3>5. CASE p # NoRev
        <4>1. p \in Rev \ {r} /\ revision[p] \in {"active", "archived"}
          BY <3>1, <3>5 DEF Live
        <4>2. revision' = [revision EXCEPT ![r] = "active", ![p] = "archived"]
          BY <3>1, <3>3, <4>1 DEF StdTypeOK
        <4>3. Lifecycle!Activate(r)
          BY <3>1, <3>2, <4>1, <4>2 DEF Lifecycle!Activate, Standing
        <4> QED
          BY <3>1, <4>3 DEF Lifecycle!LifecycleNext
      <3> QED
        BY <3>4, <3>5
    <2>4. ASSUME NEW w \in Worker, CommitBundle(w)
          PROVE  Lifecycle!LifecycleNext \/ UNCHANGED <<revision, Standing>>
      <3> PICK r : r = tx[w].rev
        OBVIOUS
      <3> PICK b : b = tx[w].bundle
        OBVIOUS
      <3>1. /\ r \in Rev /\ b \in Bundle /\ bundle[b].rev = NoRev
            /\ revision[r] \in Live
        BY <2>4, InHand DEF CommitBundle, Publishings
      <3>2. /\ bundle'[b].rev = r /\ \A c \in Bundle \ {b} : bundle'[c] = bundle[c]
            /\ UNCHANGED <<revision, probation>>
        BY <2>4, <3>1 DEF CommitBundle, StdTypeOK, revVars
      <3>3. \A s \in Rev : Published(s)' <=> Published(s) \/ s = r
        BY <3>1, <3>2 DEF Published, Rev, NoRev
      <3>4. CASE Published(r)
        <4>1. \A s \in Rev : Published(s)' <=> Published(s)
          BY <3>3, <3>4
        <4> QED
          BY <3>2, <4>1 DEF Standing
      <3>5. CASE ~Published(r)
        <4>1. r \notin probation
          BY <3>5 DEF Publishings
        <4>2. Standing' = [Standing EXCEPT ![r] = "published"]
          BY <3>1, <3>2, <3>3, <4>1 DEF Standing
        <4>3. Lifecycle!Publish(r)
          BY <3>1, <3>2, <3>5, <4>1, <4>2 DEF Lifecycle!Publish, Standing, Live
        <4> QED
          BY <3>1, <4>3 DEF Lifecycle!LifecycleNext
      <3> QED
        BY <3>4, <3>5
    <2>5. ASSUME NEW w \in Worker, StartProbation(w)
          PROVE  Lifecycle!LifecycleNext \/ UNCHANGED <<revision, Standing>>
      <3> PICK r : r = tx[w].rev
        OBVIOUS
      <3>1. r \in Rev /\ Published(r) /\ probation' = probation \cup {r}
            /\ UNCHANGED <<revision, bundle>>
        BY <2>5, InHand DEF StartProbation, Publishings, revVars
      <3>2. \A s \in Rev : Published(s)' <=> Published(s)
        BY <3>1 DEF Published
      <3>3. CASE r \in probation
        <4>1. probation' = probation
          BY <3>1, <3>3
        <4> QED
          BY <3>1, <4>1, <2>1
      <3>4. CASE r \notin probation
        <4>1. Standing' = [Standing EXCEPT ![r] = "probation"]
          BY <3>1, <3>2 DEF Standing
        <4>2. Lifecycle!EnterProbation(r)
          BY <3>1, <3>4, <4>1 DEF Lifecycle!EnterProbation, Standing
        <4> QED
          BY <3>1, <4>2 DEF Lifecycle!LifecycleNext
      <3> QED
        BY <3>3, <3>4
    <2>6. ASSUME NEW w \in Worker, BeginPublish(w) \/ WriteArchive(w)
          PROVE  UNCHANGED <<revision, Standing>>
      BY <2>1, <2>6 DEF BeginPublish, WriteArchive, revVars, pubVars
    <2>7. ASSUME NEW w \in Worker, ReadPrior(w)
          PROVE  UNCHANGED <<revision, Standing>>
      BY <2>1, <2>7 DEF ReadPrior, revVars, pubVars
    <2>8. CASE Aside /\ Unpublishing
      BY <2>1, <2>8 DEF Aside, Unpublishing, pubVars
    <2> QED
      BY <2>2, <2>3, <2>4, <2>5, <2>6, <2>7, <2>8, Revising, Publishing
  <1> QED
    BY <1>1, <1>2, StdInvariant, PTL DEF StdSpec, ImplementsLifecycle, Lifecycle!LifecycleSpec
=============================================================================
