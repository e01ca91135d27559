--------------------------- MODULE ProbationProofs ---------------------------
(***************************************************************************)
(* Theorems about Probation, for every set of job references, every        *)
(* vocabulary of verdicts and every gate start_probation accepts, and      *)
(* about ProbationTx, for every set of workers.  The gate arithmetic       *)
(* (CheckDue, ThresholdMet) is not expanded where Probation is concerned:  *)
(* those results hold for any rule that depends on the two counts alone.   *)
(***************************************************************************)
EXTENDS ProbationTx, FiniteSetTheorems, TLAPS

PInv == ProbTypeOK /\ CountersMatchRows /\ QualifiedIsEarned /\ FirstPassedCheckQualifies

\* What Record does to the sets the invariants count: the new row is the only
\* new member, and it is beyond every earlier prefix of the rows.
LEMMA RecordGrowsRows ==
  ASSUME ProbTypeOK, CountersMatchRows,
         NEW r \in Ref, NEW ai \in Verdicts, NEW human \in Verdicts, Record(r, ai, human)
  PROVE  /\ r \notin Recorded
         /\ Recorded' = Recorded \union {r}
         /\ \A q \in Recorded : rows'[q] = rows[q]
         /\ rows'[r] = [ai |-> ai, human |-> human, seq |-> jobsRecorded + 1]
         /\ \A m \in 0 .. jobsRecorded : AgreedUpTo(m)' = AgreedUpTo(m)
         /\ AgreedUpTo(jobsRecorded)' = (IF ai = human THEN AgreedUpTo(jobsRecorded) \union {r}
                                         ELSE AgreedUpTo(jobsRecorded))
  <1> USE NoRowAssumption
  <1> DEFINE new == [ai |-> ai, human |-> human, seq |-> jobsRecorded + 1]
  <1>1. jobsRecorded \in Nat /\ jobsRecorded' = jobsRecorded + 1
    BY DEF ProbTypeOK, Record
  <1>2. rows' = [rows EXCEPT ![r] = new] /\ rows[r] = NoRow /\ rows \in [Ref -> Row \union {NoRow}]
    BY DEF Record, MayRecord, ProbTypeOK
  <1>3. new \in Row
    BY <1>1 DEF Row
  <1>4. new # NoRow /\ rows'[r] = new /\ \A q \in Ref : q # r => rows'[q] = rows[q]
    BY <1>2, <1>3
  <1>5. r \notin Recorded /\ Recorded' = Recorded \union {r}
    BY <1>2, <1>4 DEF Recorded
  <1>6. \A q \in Recorded : q # r /\ rows'[q] = rows[q]
    BY <1>4, <1>5 DEF Recorded
  <1>7. \A q \in Recorded : rows[q].seq \in 1 .. jobsRecorded
    BY DEF CountersMatchRows
  <1>8. rows'[r].seq = jobsRecorded + 1 /\ rows'[r].ai = ai /\ rows'[r].human = human
    BY <1>4
  <1>9. \A m \in 0 .. jobsRecorded : AgreedUpTo(m)' = AgreedUpTo(m)
    <2> SUFFICES ASSUME NEW m \in 0 .. jobsRecorded
                 PROVE  AgreedUpTo(m)' = AgreedUpTo(m)
      OBVIOUS
    <2>1. ~(rows'[r].seq <= m)
      BY <1>1, <1>8
    <2> QED
      BY <2>1, <1>5, <1>6 DEF AgreedUpTo
  <1>10. AgreedUpTo(jobsRecorded)' = (IF ai = human THEN AgreedUpTo(jobsRecorded) \union {r}
                                      ELSE AgreedUpTo(jobsRecorded))
    <2>1. AgreedUpTo(jobsRecorded)'
            = {q \in Recorded' : rows'[q].ai = rows'[q].human /\ rows'[q].seq <= jobsRecorded'}
      BY DEF AgreedUpTo
    <2>2. AgreedUpTo(jobsRecorded) = {q \in Recorded : rows[q].ai = rows[q].human}
      BY <1>1, <1>7 DEF AgreedUpTo
    <2>3. \A q \in Recorded' : rows'[q].seq <= jobsRecorded'
      BY <1>1, <1>5, <1>6, <1>7, <1>8
    <2>4. AgreedUpTo(jobsRecorded)' = {q \in Recorded' : rows'[q].ai = rows'[q].human}
      BY <2>1, <2>3
    <2> QED
      BY <2>2, <2>4, <1>5, <1>6, <1>8
  <1> QED
    BY <1>4, <1>5, <1>6, <1>9, <1>10

\* record_probation_job preserves the invariant: the only new check is the
\* one at the new count, and it is the one the gate is evaluated at.
LEMMA RecordPreserves ==
  ASSUME PInv, NEW r \in Ref, NEW ai \in Verdicts, NEW human \in Verdicts, Record(r, ai, human)
  PROVE  PInv'
  <1> DEFINE n == jobsRecorded + 1
             a == IF ai = human THEN agreements + 1 ELSE agreements
  <1>1. ProbTypeOK /\ CountersMatchRows /\ FirstPassedCheckQualifies
    BY DEF PInv
  <1>2. /\ jobsRecorded \in Nat /\ agreements \in 0 .. jobsRecorded
        /\ jobsRecorded' = n /\ agreements' = a /\ pStatus = "active"
        /\ pStatus' = (IF CheckDue(n) /\ ThresholdMet(a, n) THEN "qualified" ELSE "active")
    BY <1>1 DEF ProbTypeOK, Record, MayRecord, StatusAt
  <1>3. /\ r \notin Recorded /\ Recorded' = Recorded \union {r}
        /\ \A q \in Recorded : rows'[q] = rows[q]
        /\ rows'[r] = [ai |-> ai, human |-> human, seq |-> n]
        /\ \A m \in 0 .. jobsRecorded : AgreedUpTo(m)' = AgreedUpTo(m)
        /\ AgreedUpTo(jobsRecorded)' = (IF ai = human THEN AgreedUpTo(jobsRecorded) \union {r}
                                        ELSE AgreedUpTo(jobsRecorded))
    BY <1>1, RecordGrowsRows
  <1>4. ProbTypeOK'
    <2>1. rows' \in [Ref -> Row \union {NoRow}]
      BY <1>1, <1>2 DEF ProbTypeOK, Record, Row
    <2>2. agreements' \in 0 .. jobsRecorded'
      BY <1>2
    <2> QED
      BY <1>2, <2>1, <2>2 DEF ProbTypeOK
  <1>5. /\ IsFiniteSet(Recorded) /\ Cardinality(Recorded) = jobsRecorded
        /\ Cardinality(AgreedUpTo(jobsRecorded)) = agreements
        /\ AgreedUpTo(jobsRecorded) \subseteq Recorded
    BY <1>1 DEF CountersMatchRows, AgreedUpTo
  <1>6. IsFiniteSet(AgreedUpTo(jobsRecorded)) /\ r \notin AgreedUpTo(jobsRecorded)
    BY <1>3, <1>5, FS_Subset
  <1>7. IsFiniteSet(Recorded') /\ Cardinality(Recorded') = n
    BY <1>3, <1>5, FS_AddElement
  <1>8. Cardinality(AgreedUpTo(jobsRecorded)') = a
    BY <1>3, <1>5, <1>6, FS_AddElement
  <1>9. CountersMatchRows'
    <2>1. \A q \in Recorded' : rows'[q].seq \in 1 .. n
      BY <1>1, <1>2, <1>3 DEF CountersMatchRows
    <2>2. \A q, p \in Recorded' : rows'[q].seq = rows'[p].seq => q = p
      <3>1. \A q \in Recorded : rows'[q].seq # rows'[r].seq
        BY <1>1, <1>2, <1>3 DEF CountersMatchRows
      <3> QED
        BY <1>1, <1>3, <3>1 DEF CountersMatchRows
    <2> QED
      BY <1>2, <1>7, <1>8, <2>1, <2>2 DEF CountersMatchRows
  <1>10. QualifiedIsEarned'
    BY <1>2, <1>7, <1>8 DEF QualifiedIsEarned
  <1>11. FirstPassedCheckQualifies'
    <2> SUFFICES ASSUME NEW m \in 1 .. n, CheckDue(m), ThresholdMet(Cardinality(AgreedUpTo(m)'), m)
                 PROVE  m = n /\ pStatus' = "qualified"
      BY <1>2 DEF FirstPassedCheckQualifies
    <2>1. CASE m = n
      BY <1>2, <1>8, <2>1
    <2>2. CASE m # n
      <3>1. m \in 1 .. jobsRecorded
        BY <1>2, <2>2
      <3>2. AgreedUpTo(m)' = AgreedUpTo(m)
        BY <1>2, <1>3, <3>1
      <3> QED
        BY <1>1, <1>2, <3>1, <3>2 DEF FirstPassedCheckQualifies
    <2> QED
      BY <2>1, <2>2
  <1> QED
    BY <1>4, <1>9, <1>10, <1>11 DEF PInv

\* A revision without a probation satisfies the invariant.
LEMMA ProbInitInv == ProbInit => PInv
  <1> SUFFICES ASSUME ProbInit
               PROVE  PInv
    OBVIOUS
  <1>1. Recorded = {} /\ AgreedUpTo(0) = {} /\ jobsRecorded = 0 /\ agreements = 0
    BY DEF ProbInit, Recorded, AgreedUpTo
  <1>2. IsFiniteSet({}) /\ Cardinality({}) = 0
    BY FS_EmptySet
  <1> QED
    BY <1>1, <1>2 DEF ProbInit, PInv, ProbTypeOK, CountersMatchRows, QualifiedIsEarned,
                      FirstPassedCheckQualifies

\* Start, pause and resume leave the rows and the counters alone.
LEMMA StatusChangePreserves ==
  ASSUME PInv, UNCHANGED <<jobsRecorded, agreements, rows>>,
         pStatus # "qualified", pStatus' \in {"active", "paused"}
  PROVE  PInv'
  <1>1. Recorded' = Recorded /\ \A m : AgreedUpTo(m)' = AgreedUpTo(m)
    BY DEF Recorded, AgreedUpTo
  <1>2. ProbTypeOK' /\ CountersMatchRows' /\ QualifiedIsEarned'
    BY <1>1 DEF PInv, ProbTypeOK, CountersMatchRows, QualifiedIsEarned
  <1>3. FirstPassedCheckQualifies'
    BY <1>1 DEF PInv, FirstPassedCheckQualifies
  <1> QED
    BY <1>2, <1>3 DEF PInv

\* Every operation, and every stutter, preserves the invariant.
LEMMA ProbNextInv == PInv /\ [ProbNext]_probVars => PInv'
  <1> SUFFICES ASSUME PInv, [ProbNext]_probVars
               PROVE  PInv'
    OBVIOUS
  <1>1. CASE StartProbation
    BY <1>1, StatusChangePreserves DEF StartProbation
  <1>2. CASE Pause
    BY <1>2, StatusChangePreserves DEF Pause
  <1>3. CASE Resume
    BY <1>3, StatusChangePreserves DEF Resume
  <1>4. ASSUME NEW r \in Ref, NEW ai \in Verdicts, NEW human \in Verdicts, Record(r, ai, human)
        PROVE  PInv'
    BY <1>4, RecordPreserves
  <1>5. CASE UNCHANGED probVars
    <2>1. Recorded' = Recorded /\ \A m : AgreedUpTo(m)' = AgreedUpTo(m)
      BY <1>5 DEF Recorded, AgreedUpTo, probVars
    <2> QED
      BY <1>5, <2>1 DEF PInv, probVars, ProbTypeOK, CountersMatchRows, QualifiedIsEarned,
                        FirstPassedCheckQualifies
  <1> QED
    BY <1>1, <1>2, <1>3, <1>4, <1>5 DEF ProbNext

\* The four invariants are inductive together.
THEOREM ProbInvariant == ProbSpec => []PInv
  BY ProbInitInv, ProbNextInv, PTL DEF ProbSpec

\* Every variable of the probation keeps its type (QCProbation, QCProbationJob).
THEOREM ProbTypeCorrect == ProbSpec => []ProbTypeOK
  BY ProbInvariant, PTL DEF PInv

\* The counters always equal what the rows say, whatever the vocabulary and
\* the number of jobs (record_probation_job keeps both in one transaction).
THEOREM CountersCorrect == ProbSpec => []CountersMatchRows
  BY ProbInvariant, PTL DEF PInv

\* A revision is qualified only at a scheduled check its rows pass.
THEOREM QualificationEarned == ProbSpec => []QualifiedIsEarned
  BY ProbInvariant, PTL DEF PInv

\* No scheduled check that passes is ever missed.
THEOREM NoCheckMissed == ProbSpec => []FirstPassedCheckQualifies
  BY ProbInvariant, PTL DEF PInv

\* Qualification is for good: record, pause and resume are refused after it.
THEOREM QualificationFinal == ProbSpec => QualifiedIsFinal
  <1>1. [ProbNext]_probVars => [pStatus # "qualified"]_probVars
    BY DEF ProbNext, StartProbation, Pause, Resume, Record, MayRecord, probVars
  <1> QED
    BY <1>1, PTL DEF ProbSpec, QualifiedIsFinal

-----------------------------------------------------------------------------
(* Concurrent transactions.  What survives them: the counters never run    *)
(* ahead of the rows.  The strengthening is about the snapshots: what a    *)
(* worker has read is never more than what the rows hold, because rows are *)
(* only ever added.                                                        *)

SnapshotsBehind ==
  \A w \in Worker : tx[w] \in RecordTx =>
    tx[w].n <= Cardinality(Recorded) /\ tx[w].a <= Cardinality(Agreed)

TxInv ==
  /\ TxTypeOK
  /\ IsFiniteSet(Recorded)
  /\ CountersNeverAhead
  /\ SnapshotsBehind
  /\ SoloHasSample

\* The cardinalities compared with the counters are naturals.
LEMMA CountsAreNat ==
  ASSUME IsFiniteSet(Recorded)
  PROVE  Cardinality(Recorded) \in Nat /\ IsFiniteSet(Agreed) /\ Cardinality(Agreed) \in Nat
  BY FS_Subset, FS_CardinalityType DEF Agreed

\* Steps that leave the rows alone, write counters within the rows and move
\* one worker, preserve the invariant.
LEMMA RowsKept ==
  ASSUME TxInv, UNCHANGED rows, TxTypeOK',
         jobsRecorded' = jobsRecorded, agreements' = agreements,
         pStatus' # pStatus => pStatus' # "qualified",
         \A w \in Worker : tx'[w] \in RecordTx =>
           tx'[w] = tx[w] \/ (tx'[w].n = jobsRecorded /\ tx'[w].a = agreements)
  PROVE  TxInv'
  <1>1. Recorded' = Recorded /\ Agreed' = Agreed
    BY DEF Recorded, Agreed
  <1>2. SnapshotsBehind'
    BY <1>1 DEF TxInv, SnapshotsBehind, CountersNeverAhead
  <1>3. CountersNeverAhead' /\ SoloHasSample'
    BY <1>1 DEF TxInv, CountersNeverAhead, SoloHasSample
  <1> QED
    BY <1>1, <1>2, <1>3 DEF TxInv

\* A commit that counts from an older snapshot stays within the rows, for it
\* adds a row of its own.
LEMMA CommitRecordPreserves ==
  ASSUME TxInv, NEW w \in Worker, CommitRecord(w)
  PROVE  TxInv'
  <1> USE NoRowAssumption, IdleAssumption, ProbationAssumption
  <1> DEFINE t == tx[w]
             r == t.ref
             new == [ai |-> t.ai, human |-> t.human, seq |-> t.n + 1]
             a == IF t.ai = t.human THEN t.a + 1 ELSE t.a
  <1>1. TxTypeOK
    BY DEF TxInv
  <1>2. t \in RecordTx
    BY <1>1 DEF TxTypeOK, CommitRecord, StatusTx
  <1>3. /\ r \in Ref /\ t.ai \in Verdicts /\ t.human \in Verdicts /\ t.n \in Nat /\ t.a \in Nat
    BY <1>2 DEF RecordTx
  <1>4. /\ rows[r] = NoRow /\ rows' = [rows EXCEPT ![r] = new]
        /\ jobsRecorded' = t.n + 1
        /\ agreements' = (IF t.ai = t.human THEN t.a + 1 ELSE agreements)
        /\ pStatus' = StatusAt(a, t.n + 1)
        /\ tx' = [tx EXCEPT ![w] = Idle]
    BY DEF CommitRecord, NewCount, NewAgreed
  <1>5. new \in Row /\ new # NoRow
    BY <1>3 DEF Row
  <1>6. TxTypeOK'
    BY <1>1, <1>3, <1>4, <1>5 DEF TxTypeOK, StatusAt
  <1>7. rows'[r] = new /\ \A q \in Ref : q # r => rows'[q] = rows[q]
    BY <1>1, <1>3, <1>4 DEF TxTypeOK
  <1>8. r \notin Recorded /\ Recorded' = Recorded \union {r}
    BY <1>3, <1>4, <1>5, <1>7 DEF Recorded
  <1>9. Agreed' = (IF t.ai = t.human THEN Agreed \union {r} ELSE Agreed) /\ r \notin Agreed
    <2>1. \A q \in Recorded : rows'[q] = rows[q]
      BY <1>7, <1>8 DEF Recorded
    <2>2. rows'[r].ai = t.ai /\ rows'[r].human = t.human
      BY <1>7
    <2> QED
      BY <1>8, <2>1, <2>2 DEF Agreed
  <1>10. /\ IsFiniteSet(Recorded) /\ Cardinality(Recorded) \in Nat
         /\ IsFiniteSet(Agreed) /\ Cardinality(Agreed) \in Nat
    BY CountsAreNat DEF TxInv
  <1>11. IsFiniteSet(Recorded') /\ Cardinality(Recorded') = Cardinality(Recorded) + 1
    BY <1>8, <1>10, FS_AddElement
  <1>12. Cardinality(Agreed') = (IF t.ai = t.human THEN Cardinality(Agreed) + 1
                                 ELSE Cardinality(Agreed))
    BY <1>9, <1>10, FS_AddElement
  <1>13. /\ t.n <= Cardinality(Recorded) /\ t.a <= Cardinality(Agreed)
         /\ agreements <= Cardinality(Agreed)
    BY <1>2 DEF TxInv, SnapshotsBehind, CountersNeverAhead
  <1>14. CountersNeverAhead'
    BY <1>3, <1>4, <1>10, <1>11, <1>12, <1>13 DEF CountersNeverAhead
  <1>15. SnapshotsBehind'
    <2> SUFFICES ASSUME NEW v \in Worker, tx'[v] \in RecordTx
                 PROVE  tx'[v].n <= Cardinality(Recorded') /\ tx'[v].a <= Cardinality(Agreed')
      BY DEF SnapshotsBehind
    <2>1. tx'[v] = tx[v]
      BY <1>1, <1>4 DEF TxTypeOK
    <2>2. tx[v].n <= Cardinality(Recorded) /\ tx[v].a <= Cardinality(Agreed)
      BY <2>1 DEF TxInv, SnapshotsBehind
    <2>3. tx[v].n \in Nat /\ tx[v].a \in Nat
      BY <2>1 DEF RecordTx
    <2> QED
      BY <1>10, <1>11, <1>12, <2>1, <2>2, <2>3
  <1>16. SoloHasSample'
    <2>1. CASE CheckDue(t.n + 1)
      BY <2>1, <1>3, <1>10, <1>11, <1>13 DEF CheckDue, SoloHasSample
    <2>2. CASE ~CheckDue(t.n + 1)
      BY <2>2, <1>4, <1>10, <1>11 DEF StatusAt, SoloHasSample, TxInv
    <2> QED
      BY <2>1, <2>2
  <1> QED
    BY <1>6, <1>11, <1>14, <1>15, <1>16 DEF TxInv

\* Without transactions the invariant holds.
LEMMA TxInitInv == TxInit => TxInv
  <1> SUFFICES ASSUME TxInit
               PROVE  TxInv
    OBVIOUS
  <1>1. Recorded = {} /\ Agreed = {}
    BY DEF TxInit, ProbInit, Recorded, Agreed
  <1>2. IsFiniteSet({}) /\ Cardinality({}) = 0
    BY FS_EmptySet
  <1>3. \A w \in Worker : tx[w] \notin RecordTx
    BY IdleAssumption DEF TxInit
  <1>4. SnapshotsBehind
    BY <1>3 DEF SnapshotsBehind
  <1> QED
    BY <1>1, <1>2, <1>4 DEF TxInit, ProbInit, TxInv, TxTypeOK, CountersNeverAhead, SoloHasSample

\* Every half of an operation, and every stutter, preserves the invariant.
LEMMA TxNextInv == TxInv /\ [TxNext]_txVars => TxInv'
  <1> SUFFICES ASSUME TxInv, [TxNext]_txVars
               PROVE  TxInv'
    OBVIOUS
  <1> USE IdleAssumption
  <1>0. TxTypeOK
    BY DEF TxInv
  <1>1. CASE TxStart
    BY <1>0, <1>1, RowsKept DEF TxStart, StartProbation, TxTypeOK
  <1>2. ASSUME NEW w \in Worker, NEW r \in Ref, NEW ai \in Verdicts, NEW human \in Verdicts,
               BeginRecord(w, r, ai, human)
        PROVE  TxInv'
    <2> DEFINE new == [op |-> "record", ref |-> r, ai |-> ai, human |-> human,
                       n |-> jobsRecorded, a |-> agreements]
    <2>1. new \in RecordTx /\ tx' = [tx EXCEPT ![w] = new] /\ UNCHANGED probVars
      BY <1>0, <1>2 DEF BeginRecord, RecordTx, TxTypeOK
    <2>2. TxTypeOK'
      BY <1>0, <2>1 DEF TxTypeOK, probVars
    <2>3. \A v \in Worker : tx'[v] = tx[v] \/ tx'[v] = new
      BY <1>0, <2>1 DEF TxTypeOK
    <2> QED
      BY <2>1, <2>2, <2>3, RowsKept DEF probVars
  <1>3. ASSUME NEW w \in Worker, CommitRecord(w)
        PROVE  TxInv'
    BY <1>3, CommitRecordPreserves
  <1>4. ASSUME NEW w \in Worker,
               Rollback(w) \/ BeginPause(w) \/ BeginResume(w) \/ CommitStatus(w)
        PROVE  TxInv'
    <2> DEFINE pause == [op |-> "pause"]
               resume == [op |-> "resume"]
    <2>1. pause \in StatusTx /\ resume \in StatusTx
      BY DEF StatusTx
    <2>2. pause \notin RecordTx /\ resume \notin RecordTx
      BY DEF RecordTx
    <2>3. /\ UNCHANGED <<jobsRecorded, agreements, rows>>
          /\ pStatus' = pStatus \/ pStatus' \in {"paused", "active"}
          /\ \/ tx' = [tx EXCEPT ![w] = Idle]
             \/ tx' = [tx EXCEPT ![w] = pause]
             \/ tx' = [tx EXCEPT ![w] = resume]
      BY <1>4 DEF Rollback, BeginPause, BeginResume, CommitStatus, probVars
    <2>4. TxTypeOK'
      BY <1>0, <2>1, <2>3 DEF TxTypeOK
    <2>5. \A v \in Worker : tx'[v] \in RecordTx => tx'[v] = tx[v]
      BY <1>0, <2>2, <2>3 DEF TxTypeOK
    <2> QED
      BY <2>3, <2>4, <2>5, RowsKept
  <1>5. CASE UNCHANGED txVars
    BY <1>0, <1>5, RowsKept DEF txVars, probVars, TxTypeOK
  <1>6. CASE TxCrash
    <2>1. TxTypeOK'
      BY <1>0, <1>6 DEF TxCrash, TxTypeOK, probVars
    <2>2. \A w \in Worker : tx'[w] \notin RecordTx
      BY <1>6 DEF TxCrash
    <2> QED
      BY <1>6, <2>1, <2>2, RowsKept DEF TxCrash, probVars
  <1> QED
    BY <1>1, <1>2, <1>3, <1>4, <1>5, <1>6 DEF TxNext

\* The snapshots of concurrent transactions never exceed what the rows hold.
THEOREM TxInvariant == TxSpec => []TxInv
  BY TxInitInv, TxNextInv, PTL DEF TxSpec

\* For any number of concurrent requests, a probation never counts a job or
\* an agreement it has no row for.
THEOREM NeverAhead == TxSpec => []CountersNeverAhead
  BY TxInvariant, PTL DEF TxInv

\* For any number of concurrent requests, a revision that runs solo has at
\* least the minimum sample of real jobs on record.
THEOREM SampleBeforeSolo == TxSpec => []SoloHasSample
  BY TxInvariant, PTL DEF TxInv

-----------------------------------------------------------------------------
(* One request at a time.  Until it commits, nobody writes what it read, so *)
(* the commit is the single-step operation and every other step stutters.   *)

OneWorker == \A v, w \in Worker : v = w

ReadsAreCurrent ==
  \A w \in Worker :
    /\ tx[w] \in RecordTx =>
         pStatus = "active" /\ tx[w].n = jobsRecorded /\ tx[w].a = agreements
    /\ tx[w] \in StatusTx =>
         pStatus = (IF tx[w].op = "pause" THEN "active" ELSE "paused")

SerialInv == TxTypeOK /\ ReadsAreCurrent

\* The step a transaction takes, for the variables of Probation and for tx.
LEMMA SerialStep ==
  ASSUME OneWorker, SerialInv, [TxNext]_txVars
  PROVE  [ProbNext]_probVars /\ ReadsAreCurrent'
  <1> USE IdleAssumption
  <1>0. TxTypeOK /\ ReadsAreCurrent
    BY DEF SerialInv
  <1>kept. ASSUME UNCHANGED probVars, \A w \in Worker : tx'[w] = tx[w] \/ tx'[w] = Idle
           PROVE  [ProbNext]_probVars /\ ReadsAreCurrent'
    BY <1>0, <1>kept DEF ReadsAreCurrent, probVars
  <1>1. CASE TxStart
    <2>1. StartProbation /\ tx' = tx /\ pStatus = "none"
      BY <1>1 DEF TxStart, StartProbation
    <2>2. \A w \in Worker : tx[w] \notin RecordTx /\ tx[w] \notin StatusTx
      BY <1>0, <2>1 DEF ReadsAreCurrent
    <2> QED
      BY <2>1, <2>2 DEF ProbNext, ReadsAreCurrent
  <1>2. ASSUME NEW w \in Worker, NEW r \in Ref, NEW ai \in Verdicts, NEW human \in Verdicts,
               BeginRecord(w, r, ai, human)
        PROVE  [ProbNext]_probVars /\ ReadsAreCurrent'
    <2> DEFINE new == [op |-> "record", ref |-> r, ai |-> ai, human |-> human,
                       n |-> jobsRecorded, a |-> agreements]
    <2>1. new \notin StatusTx /\ new.n = jobsRecorded /\ new.a = agreements
      BY DEF StatusTx
    <2>2. tx' = [tx EXCEPT ![w] = new] /\ UNCHANGED probVars /\ pStatus = "active"
      BY <1>2 DEF BeginRecord, MayRecord
    <2> HIDE DEF new
    <2>3. \A v \in Worker : tx'[v] = new
      BY <1>0, <2>2 DEF OneWorker, TxTypeOK
    <2> QED
      BY <2>1, <2>2, <2>3 DEF ReadsAreCurrent, probVars
  <1>3. ASSUME NEW w \in Worker, CommitRecord(w)
        PROVE  [ProbNext]_probVars /\ ReadsAreCurrent'
    <2>1. tx[w] \in RecordTx
      BY <1>0, <1>3 DEF TxTypeOK, CommitRecord, StatusTx
    <2>2. /\ tx[w].ref \in Ref /\ tx[w].ai \in Verdicts /\ tx[w].human \in Verdicts
          /\ pStatus = "active" /\ tx[w].n = jobsRecorded /\ tx[w].a = agreements
      BY <1>0, <2>1 DEF RecordTx, ReadsAreCurrent
    <2>3. Record(tx[w].ref, tx[w].ai, tx[w].human)
      BY <1>3, <2>2 DEF CommitRecord, Record, MayRecord, NewCount, NewAgreed
    <2>4. \A v \in Worker : tx'[v] = Idle
      BY <1>0, <1>3 DEF CommitRecord, OneWorker, TxTypeOK
    <2> QED
      BY <2>2, <2>3, <2>4 DEF ProbNext, ReadsAreCurrent
  <1>4. ASSUME NEW w \in Worker, Rollback(w)
        PROVE  [ProbNext]_probVars /\ ReadsAreCurrent'
    BY <1>0, <1>4, <1>kept DEF Rollback, TxTypeOK
  <1>5. ASSUME NEW w \in Worker, NEW op \in {"pause", "resume"},
               pStatus = (IF op = "pause" THEN "active" ELSE "paused"),
               tx' = [tx EXCEPT ![w] = [op |-> op]], UNCHANGED probVars
        PROVE  [ProbNext]_probVars /\ ReadsAreCurrent'
    <2> DEFINE new == [op |-> op]
    <2>1. new \notin RecordTx /\ new.op = op
      BY DEF RecordTx
    <2>2. tx' = [tx EXCEPT ![w] = new]
      BY <1>5
    <2> HIDE DEF new
    <2>3. \A v \in Worker : tx'[v] = new
      BY <1>0, <2>2 DEF OneWorker, TxTypeOK
    <2> QED
      BY <1>5, <2>1, <2>3 DEF ReadsAreCurrent, probVars
  <1>6. ASSUME NEW w \in Worker, BeginPause(w) \/ BeginResume(w)
        PROVE  [ProbNext]_probVars /\ ReadsAreCurrent'
    BY <1>5, <1>6 DEF BeginPause, BeginResume
  <1>7. ASSUME NEW w \in Worker, CommitStatus(w)
        PROVE  [ProbNext]_probVars /\ ReadsAreCurrent'
    <2>1. tx[w] \in StatusTx
      BY <1>0, <1>7 DEF TxTypeOK, CommitStatus, RecordTx
    <2>2. Pause \/ Resume
      BY <1>0, <1>7, <2>1 DEF CommitStatus, Pause, Resume, ReadsAreCurrent
    <2>3. \A v \in Worker : tx'[v] = Idle
      BY <1>0, <1>7 DEF CommitStatus, OneWorker, TxTypeOK
    <2> QED
      BY <2>2, <2>3 DEF ProbNext, ReadsAreCurrent
  <1>8. CASE TxCrash
    BY <1>8, <1>kept DEF TxCrash
  <1>9. CASE UNCHANGED txVars
    BY <1>9, <1>kept DEF txVars
  <1> QED
    BY <1>1, <1>2, <1>3, <1>4, <1>6, <1>7, <1>8, <1>9 DEF TxNext

LEMMA SerialInitially == TxInit => SerialInv /\ ProbInit
  BY IdleAssumption DEF TxInit, ProbInit, SerialInv, TxTypeOK, ReadsAreCurrent

\* One request at a time, the transactions are the operations: every commit is
\* the operation it belongs to and every other step leaves the probation alone.
THEOREM SerialImplementsProbation ==
  ASSUME OneWorker
  PROVE  TxSpec => ImplementsProbation
  <1>1. TxInv /\ SerialInv /\ [TxNext]_txVars => SerialInv' /\ [ProbNext]_probVars
    BY SerialStep, TxNextInv DEF SerialInv, TxInv
  <1> QED
    BY <1>1, TxInvariant, SerialInitially, PTL DEF TxSpec, ImplementsProbation, ProbSpec

\* One request at a time, no scheduled check that passes is ever missed.
THEOREM SerialMissesNoCheck ==
  ASSUME OneWorker
  PROVE  TxSpec => []FirstPassedCheckQualifies
  <1>1. TxSpec => ProbSpec
    BY SerialImplementsProbation DEF ImplementsProbation
  <1> QED
    BY <1>1, NoCheckMissed, PTL
=============================================================================
