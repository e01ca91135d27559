-------------------------- MODULE InspectionProofs --------------------------
(***************************************************************************)
(* Theorems about Inspection, for any jobs, any points and any gate.  The  *)
(* job part has an inductive invariant of its own (JobInv); with it every  *)
(* step is a step of ProbationTx or leaves it alone, so the theorems about *)
(* ProbationTx hold of the inspection flow as well.                        *)
(***************************************************************************)
EXTENDS Inspection, ProbationProofs

\* A point has a source exactly when it has a result.
Sourced == \A j \in Ref : \A p \in Point : result[j][p] = "none" <=> source[j][p] = "none"

JobInv == JobTypeOK /\ Sourced /\ ReviewIsWhole /\ ReportStandsOnResults

\* The Pad's finalize takes jobs with a report to the bridge.
BridgesFinal == bridging \subseteq Ref /\ \A j \in bridging : job[j] \in Verdict

\* A transaction open for a job holds the verdict of its report.
PairsInTx ==
  \A w \in Worker : tx[w] \in RecordTx =>
    tx[w].ref \in Ref /\ job[tx[w].ref] \in Verdict /\ tx[w].human = job[tx[w].ref]

PairInv == RecordedPairStands /\ PairsInTx /\ BridgesFinal

-----------------------------------------------------------------------------
(* Storing results.                                                        *)

\* Storing results for points that have none moves no existing result.
LEMMA StoreKeepsResults ==
  ASSUME JobTypeOK, NEW j \in Ref, NEW f \in Payload, NEW from \in {"model", "operator"},
         NoClash(j, f), Store(j, f, from)
  PROVE  /\ result' \in [Ref -> [Point -> Value \union {"none"}]]
         /\ source' \in [Ref -> [Point -> {"none", "model", "operator"}]]
         /\ \A i \in Ref : i # j => result'[i] = result[i] /\ source'[i] = source[i]
         /\ \A p \in Point : f[p] = "none" =>
              result'[j][p] = result[j][p] /\ source'[j][p] = source[j][p]
         /\ \A p \in Point : f[p] # "none" =>
              result[j][p] = "none" /\ result'[j][p] = f[p] /\ source'[j][p] = from
  <1> DEFINE newResult == [p \in Point |-> IF f[p] = "none" THEN result[j][p] ELSE f[p]]
             newSource == [p \in Point |-> IF f[p] = "none" THEN source[j][p] ELSE from]
  <1>1. /\ result' = [result EXCEPT ![j] = newResult]
        /\ source' = [source EXCEPT ![j] = newSource]
    BY DEF Store, JobTypeOK
  <1>2. newResult \in [Point -> Value \union {"none"}]
    BY DEF JobTypeOK, Payload
  <1>3. newSource \in [Point -> {"none", "model", "operator"}]
    BY DEF JobTypeOK, Payload
  <1>4. result'[j] = newResult /\ source'[j] = newSource
    BY <1>1 DEF JobTypeOK
  <1>5. \A i \in Ref : i # j => result'[i] = result[i] /\ source'[i] = source[i]
    BY <1>1 DEF JobTypeOK
  <1>6. /\ result' \in [Ref -> [Point -> Value \union {"none"}]]
        /\ source' \in [Ref -> [Point -> {"none", "model", "operator"}]]
    BY <1>1, <1>2, <1>3 DEF JobTypeOK
  <1> QED
    BY <1>4, <1>5, <1>6 DEF NoClash

\* A model's results never join an operator's: where the operator reviewed
\* one point, every point has a result already.
LEMMA StoreByModel ==
  ASSUME JobInv, NEW j \in Ref, NEW f \in Payload, NoClash(j, f), Store(j, f, "model"),
         UNCHANGED job
  PROVE  /\ result' \in [Ref -> [Point -> Value \union {"none"}]]
         /\ source' \in [Ref -> [Point -> {"none", "model", "operator"}]]
         /\ Sourced' /\ ReviewIsWhole' /\ ReportStandsOnResults'
  <1>1. /\ result' \in [Ref -> [Point -> Value \union {"none"}]]
        /\ source' \in [Ref -> [Point -> {"none", "model", "operator"}]]
        /\ \A i \in Ref : i # j => result'[i] = result[i] /\ source'[i] = source[i]
        /\ \A p \in Point : f[p] = "none" =>
             result'[j][p] = result[j][p] /\ source'[j][p] = source[j][p]
        /\ \A p \in Point : f[p] # "none" =>
             result[j][p] = "none" /\ result'[j][p] = f[p] /\ source'[j][p] = "model"
    BY StoreKeepsResults DEF JobInv
  <1>2. Sourced'
    BY <1>1 DEF JobInv, Sourced
  <1>3. ReviewIsWhole'
    <2> SUFFICES ASSUME NEW i \in Ref, NEW p \in Point, NEW q \in Point, source'[i][p] = "operator"
                 PROVE  source'[i][q] = "operator"
      BY DEF ReviewIsWhole
    <2>1. source[i][p] = "operator"
      BY <1>1
    <2>2. source[i][q] = "operator"
      BY <2>1 DEF JobInv, ReviewIsWhole
    <2>3. result[i][q] # "none"
      BY <2>2 DEF JobInv, Sourced
    <2> QED
      BY <1>1, <2>2, <2>3
  <1>4. ReportStandsOnResults'
    <2> SUFFICES ASSUME NEW i \in Ref, job[i] \in Verdict
                 PROVE  \A p \in Point : result'[i][p] = result[i][p]
      BY DEF JobInv, ReportStandsOnResults
    <2>1. \A p \in Point : result[i][p] # "none"
      BY DEF JobInv, ReportStandsOnResults
    <2> QED
      BY <1>1, <2>1
  <1> QED
    BY <1>1, <1>2, <1>3, <1>4

\* An operator's batch fills a job that had no result, so its review is whole.
LEMMA BatchPreserves ==
  ASSUME JobInv, NEW j \in Ref, NEW f \in Payload, SubmitBatch(j, f)
  PROVE  JobInv'
  <1>1. /\ Point # {} /\ \A p \in Point : f[p] # "none" /\ result[j][p] = "none"
        /\ Store(j, f, "operator") /\ UNCHANGED <<job, media, serious, ai, asking>>
    BY DEF SubmitBatch, MaySubmitBatch
  <1>2. NoClash(j, f)
    BY <1>1 DEF NoClash
  <1>3. /\ result' \in [Ref -> [Point -> Value \union {"none"}]]
        /\ source' \in [Ref -> [Point -> {"none", "model", "operator"}]]
        /\ \A i \in Ref : i # j => result'[i] = result[i] /\ source'[i] = source[i]
        /\ \A p \in Point : result'[j][p] = f[p] /\ source'[j][p] = "operator"
    BY <1>1, <1>2, StoreKeepsResults DEF JobInv
  <1>4. JobTypeOK'
    BY <1>1, <1>3 DEF JobInv, JobTypeOK
  <1>5. Sourced'
    BY <1>1, <1>3 DEF JobInv, Sourced
  <1>6. ReviewIsWhole'
    <2> SUFFICES ASSUME NEW i \in Ref, NEW p \in Point, NEW q \in Point, source'[i][p] = "operator"
                 PROVE  source'[i][q] = "operator"
      BY DEF ReviewIsWhole
    <2>1. CASE i = j
      BY <1>3, <2>1
    <2>2. CASE i # j
      BY <1>3, <2>2 DEF JobInv, ReviewIsWhole
    <2> QED
      BY <2>1, <2>2
  <1>7. job[j] \notin Verdict
    BY <1>1 DEF JobInv, ReportStandsOnResults
  <1>8. ReportStandsOnResults'
    BY <1>1, <1>3, <1>7 DEF JobInv, ReportStandsOnResults
  <1> QED
    BY <1>4, <1>5, <1>6, <1>8 DEF JobInv

-----------------------------------------------------------------------------
(* Finalising.                                                             *)

\* finalize_job gives every point a result and a report they explain.
LEMMA FinalizePreserves ==
  ASSUME JobInv, NEW j \in Ref, NEW needs \in BOOLEAN, Finalize(j, needs)
  PROVE  JobInv' /\ job'[j] \in Verdict
  <1> DEFINE f == Completed(result[j], result[j], "unclear")
             s == Completed(source[j], result[j], "model")
             values == {f[p] : p \in Point}
             verdict == Policy(f, s, j \in serious, needs)
  <1>1. /\ job[j] = "pending"
        /\ result' = [result EXCEPT ![j] = f] /\ source' = [source EXCEPT ![j] = s]
        /\ job' = [job EXCEPT ![j] = verdict]
        /\ UNCHANGED <<media, serious, ai, asking>>
    BY DEF Finalize, MayFinalize
  <1>2. JobTypeOK
    BY DEF JobInv
  <1>3. f \in [Point -> Value] /\ \A p \in Point : result[j][p] # "none" => f[p] = result[j][p]
    BY <1>2 DEF JobTypeOK, Completed, Value
  <1>4. /\ s \in [Point -> {"model", "operator"}]
        /\ \A p \in Point : s[p] = (IF result[j][p] = "none" THEN "model" ELSE source[j][p])
    BY <1>2 DEF JobTypeOK, Completed, JobInv, Sourced
  <1>5. verdict \in Verdict
    BY DEF Policy, Verdict
  <1>6. JobTypeOK'
    <2>1. result' \in [Ref -> [Point -> Value \union {"none"}]]
      BY <1>1, <1>2, <1>3 DEF JobTypeOK
    <2>2. source' \in [Ref -> [Point -> {"none", "model", "operator"}]]
      BY <1>1, <1>2, <1>4 DEF JobTypeOK
    <2> QED
      BY <1>1, <1>2, <1>5, <2>1, <2>2 DEF JobTypeOK
  <1>7. /\ result'[j] = f /\ source'[j] = s /\ job'[j] = verdict
        /\ \A i \in Ref : i # j =>
             result'[i] = result[i] /\ source'[i] = source[i] /\ job'[i] = job[i]
    BY <1>1, <1>2 DEF JobTypeOK
  <1>8. Sourced'
    BY <1>3, <1>4, <1>7 DEF JobInv, Sourced, Value
  <1>9. ReviewIsWhole'
    <2> SUFFICES ASSUME NEW i \in Ref, NEW p \in Point, NEW q \in Point, source'[i][p] = "operator"
                 PROVE  source'[i][q] = "operator"
      BY DEF ReviewIsWhole
    <2>1. source[i][p] = "operator"
      BY <1>4, <1>7
    <2>2. source[i][q] = "operator" /\ result[i][q] # "none"
      BY <2>1 DEF JobInv, ReviewIsWhole, Sourced
    <2> QED
      BY <1>4, <1>7, <2>2
  <1>10. /\ (verdict = "fail") <=> (\E p \in Point : f[p] = "fail")
         /\ (verdict = "pass") => (\A p \in Point : f[p] = "pass")
    BY <1>3 DEF Policy, Value
  <1>11. ReportStandsOnResults'
    <2> SUFFICES ASSUME NEW i \in Ref, job'[i] \in Verdict
                 PROVE  /\ \A p \in Point : result'[i][p] # "none"
                        /\ (job'[i] = "fail") <=> (\E p \in Point : result'[i][p] = "fail")
                        /\ (job'[i] = "pass") => (\A p \in Point : result'[i][p] = "pass")
      BY DEF ReportStandsOnResults
    <2>1. CASE i = j
      BY <1>3, <1>7, <1>10, <2>1 DEF Value
    <2>2. CASE i # j
      BY <1>7, <2>2 DEF JobInv, ReportStandsOnResults
    <2> QED
      BY <2>1, <2>2
  <1> QED
    BY <1>5, <1>6, <1>7, <1>8, <1>9, <1>11 DEF JobInv

-----------------------------------------------------------------------------
(* Every step.                                                             *)

\* The aggregated suggestion is one of the three verdicts.
LEMMA AggregateIsVerdict == \A S : Aggregate(S) \in Verdict
  BY DEF Aggregate, Verdict

\* A step that touches neither results nor reports.
LEMMA JobQuiet ==
  ASSUME JobInv, UNCHANGED <<job, result, source>>, JobTypeOK'
  PROVE  JobInv'
  BY DEF JobInv, Sourced, ReviewIsWhole, ReportStandsOnResults

\* Without jobs the invariant holds.
LEMMA JobInitInv == InspInit => JobInv
  BY DEF InspInit, JobInv, JobTypeOK, Sourced, ReviewIsWhole, ReportStandsOnResults, Verdict

\* Every handler, and every stutter, preserves the invariant.
LEMMA JobNextInv == JobInv /\ [InspNext]_inspVars => JobInv'
  <1> SUFFICES ASSUME JobInv, [InspNext]_inspVars
               PROVE  JobInv'
    OBVIOUS
  <1>0. JobTypeOK
    BY DEF JobInv
  <1>1. CASE Administer
    BY <1>0, <1>1, JobQuiet DEF Administer, jobVars, JobTypeOK
  <1>2. ASSUME NEW j \in Ref, CreateJob(j)
        PROVE  JobInv'
    <2>1. /\ job' = [job EXCEPT ![j] = "pending"] /\ job[j] = "absent"
          /\ UNCHANGED <<media, result, source, serious, ai, asking>>
      BY <1>2 DEF CreateJob
    <2>2. JobTypeOK' /\ \A i \in Ref : job'[i] \in Verdict => job[i] \in Verdict /\ job'[i] = job[i]
      BY <1>0, <2>1 DEF JobTypeOK, Verdict
    <2>3. ReportStandsOnResults'
      BY <2>1, <2>2 DEF JobInv, ReportStandsOnResults
    <2> QED
      BY <2>1, <2>2, <2>3 DEF JobInv, Sourced, ReviewIsWhole
  <1>3. ASSUME NEW j \in Ref,
               AttachMedia(j) \/ SubmitIncidentalFinding(j) \/ VisionStart(j) \/ VisionFail(j)
        PROVE  JobInv'
    <2>1. JobTypeOK' /\ UNCHANGED <<job, result, source>>
      BY <1>0, <1>3 DEF JobTypeOK, AttachMedia, SubmitIncidentalFinding, VisionStart, VisionFail
    <2> QED
      BY <2>1, JobQuiet
  <1>4. ASSUME NEW j \in Ref, NEW f \in Payload, NEW finding \in BOOLEAN,
               IngestModelOutput(j, f, finding)
        PROVE  JobInv'
    <2>1. /\ NoClash(j, f) /\ Store(j, f, "model") /\ UNCHANGED <<job, media, asking>>
          /\ serious' \in SUBSET Ref
          /\ ai' \in [Ref -> Verdict \union {"none"}]
      BY <1>0, <1>4, AggregateIsVerdict DEF IngestModelOutput, JobTypeOK
    <2> QED
      BY <1>0, <2>1, StoreByModel DEF JobInv, JobTypeOK
  <1>5. ASSUME NEW j \in Ref, NEW p \in Point, NEW v \in Value, SubmitCheckpointResult(j, p, v)
        PROVE  JobInv'
    <2> DEFINE f == [q \in Point |-> IF q = p THEN v ELSE "none"]
    <2>1. f \in Payload
      BY DEF Payload
    <2>2. NoClash(j, f) /\ Store(j, f, "model") /\ UNCHANGED <<job, media, serious, ai, asking>>
      BY <1>5 DEF SubmitCheckpointResult
    <2>3. /\ result' \in [Ref -> [Point -> Value \union {"none"}]]
          /\ source' \in [Ref -> [Point -> {"none", "model", "operator"}]]
          /\ Sourced' /\ ReviewIsWhole' /\ ReportStandsOnResults'
      BY <2>1, <2>2, StoreByModel
    <2> QED
      BY <1>0, <2>2, <2>3 DEF JobInv, JobTypeOK
  <1>6. ASSUME NEW j \in Ref, ApiFinalize(j) \/ PadFinalize(j)
        PROVE  JobInv'
    <2>1. CASE UNCHANGED jobVars
      BY <1>0, <2>1, JobQuiet DEF jobVars, JobTypeOK
    <2>2. CASE \E needs \in BOOLEAN : Finalize(j, needs)
      BY <2>2, FinalizePreserves
    <2> QED
      BY <1>6, <2>1, <2>2 DEF ApiFinalize, PadFinalize
  <1>7. ASSUME \/ \E j \in Ref : BridgeNot(j) \/ \E w \in Worker : Bridge(w, j)
               \/ \E w \in Worker : BridgeCommit(w) \/ BridgeRollback(w)
               \/ Crash
        PROVE  JobInv'
    <2>1. UNCHANGED <<job, media, result, source, serious, ai>> /\ asking' \in SUBSET Ref
      BY <1>0, <1>7 DEF BridgeNot, Bridge, BridgeCommit, BridgeRollback, Crash, jobVars, JobTypeOK
    <2>2. JobTypeOK'
      BY <1>0, <2>1 DEF JobTypeOK
    <2> QED
      BY <2>1, <2>2, JobQuiet
  <1>8. ASSUME NEW j \in Ref, NEW f \in Payload, SubmitBatch(j, f)
        PROVE  JobInv'
    BY <1>8, BatchPreserves
  <1>9. ASSUME NEW j \in Ref, NEW v \in Verdict, VisionStore(j, v)
        PROVE  JobInv'
    <2>1. JobTypeOK' /\ UNCHANGED <<job, result, source>>
      BY <1>0, <1>9 DEF JobTypeOK, VisionStore
    <2> QED
      BY <2>1, JobQuiet
  <1>10. CASE UNCHANGED inspVars
    BY <1>0, <1>10, JobQuiet DEF inspVars, jobVars, JobTypeOK
  <1> QED
    BY <1>1, <1>2, <1>3, <1>4, <1>5, <1>6, <1>7, <1>8, <1>9, <1>10 DEF InspNext

\* Whatever the two clients call, the jobs' invariant holds.
THEOREM JobInvariant == InspSpec => []JobInv
  BY JobInitInv, JobNextInv, PTL DEF InspSpec

-----------------------------------------------------------------------------
(* The probation under the inspection flow.                                *)

\* For the probation every step of the flow is a half of one of its own
\* operations, a rollback, or a stutter.
LEMMA StepIsProbationStep == JobInv /\ BridgesFinal /\ [InspNext]_inspVars => [TxNext]_txVars
  <1> SUFFICES ASSUME JobInv, BridgesFinal, [InspNext]_inspVars
               PROVE  [TxNext]_txVars
    OBVIOUS
  <1>1. CASE Administer
    BY <1>1 DEF Administer, TxNext
  <1>2. ASSUME NEW j \in Ref, NEW w \in Worker, Bridge(w, j)
        PROVE  [TxNext]_txVars
    <2>1. job[j] \in Verdict /\ ai[j] \in Verdict
      BY <1>2 DEF Bridge, BridgesFinal, JobInv, JobTypeOK
    <2>2. job[j] \in Verdicts /\ ai[j] \in Verdicts
      BY <2>1, InspectionAssumption
    <2> QED
      BY <1>2, <2>2 DEF Bridge, TxNext
  <1>3. ASSUME NEW w \in Worker, BridgeCommit(w) \/ BridgeRollback(w)
        PROVE  [TxNext]_txVars
    BY <1>3 DEF BridgeCommit, BridgeRollback, TxNext
  <1>4. CASE Crash
    BY <1>4 DEF Crash, TxNext
  <1>5. ASSUME NEW j \in Ref,
               \/ CreateJob(j) \/ AttachMedia(j) \/ SubmitIncidentalFinding(j)
               \/ \E f \in Payload, finding \in BOOLEAN : IngestModelOutput(j, f, finding)
               \/ \E p \in Point, v \in Value : SubmitCheckpointResult(j, p, v)
               \/ ApiFinalize(j) \/ PadFinalize(j) \/ BridgeNot(j)
               \/ \E f \in Payload : SubmitBatch(j, f)
               \/ VisionStart(j) \/ VisionFail(j)
               \/ \E v \in Verdict : VisionStore(j, v)
        PROVE  UNCHANGED txVars
    BY <1>5 DEF CreateJob, AttachMedia, SubmitIncidentalFinding, IngestModelOutput,
                SubmitCheckpointResult, ApiFinalize, PadFinalize, BridgeNot, SubmitBatch,
                VisionStart, VisionFail, VisionStore
  <1>6. CASE UNCHANGED inspVars
    BY <1>6 DEF inspVars
  <1> QED
    BY <1>1, <1>2, <1>3, <1>4, <1>5, <1>6 DEF InspNext

\* Only the commit of the bridge writes rows, and it writes the report's
\* verdict, which no step changes after the bridge has read it.
LEMMA PairsNextInv ==
  JobInv /\ TxTypeOK /\ PairInv /\ [InspNext]_inspVars => PairInv'
  <1> SUFFICES ASSUME JobInv, TxTypeOK, PairInv, [InspNext]_inspVars
               PROVE  PairInv'
    OBVIOUS
  <1> USE IdleAssumption
  <1>1. JobTypeOK
    BY DEF JobInv
  \* Rows and transactions stay or end, reports stay.
  <1>2. ASSUME UNCHANGED rows, \A w \in Worker : tx'[w] \in RecordTx => tx'[w] = tx[w],
               \A i \in Ref : job[i] \in Verdict => job'[i] = job[i],
               \A i \in bridging' : i \in bridging \/ job'[i] \in Verdict,
               bridging' \subseteq Ref
        PROVE  PairInv'
    <2>1. RecordedPairStands'
      BY <1>2 DEF PairInv, RecordedPairStands
    <2>2. PairsInTx'
      BY <1>2 DEF PairInv, PairsInTx
    <2>3. BridgesFinal'
      BY <1>2 DEF PairInv, BridgesFinal
    <2> QED
      BY <2>1, <2>2, <2>3 DEF PairInv
  <1>3. ASSUME UNCHANGED <<rows, tx>>, \A i \in Ref : job[i] \in Verdict => job'[i] = job[i],
               \A i \in bridging' : i \in bridging \/ job'[i] \in Verdict,
               bridging' \subseteq Ref
        PROVE  PairInv'
    <2>1. \A w \in Worker : tx'[w] \in RecordTx => tx'[w] = tx[w]
      BY <1>3
    <2> QED
      BY <1>2, <1>3, <2>1
  <1>4. bridging \subseteq Ref
    BY DEF PairInv, BridgesFinal
  <1>5. ASSUME NEW w \in Worker, BridgeCommit(w)
        PROVE  PairInv'
    <2> DEFINE r == tx[w].ref
               new == [ai |-> tx[w].ai, human |-> tx[w].human, seq |-> NewCount(w)]
    <2>1. tx[w] \in RecordTx
      BY <1>5 DEF TxTypeOK, BridgeCommit, CommitRecord, StatusTx
    <2>2. r \in Ref /\ job[r] \in Verdict /\ new.human = job[r]
      BY <2>1 DEF PairInv, PairsInTx
    <2>3. /\ rows' = [rows EXCEPT ![r] = new] /\ tx' = [tx EXCEPT ![w] = Idle]
          /\ UNCHANGED <<job, bridging>>
      BY <1>5 DEF BridgeCommit, CommitRecord, jobVars
    <2> HIDE DEF new, r
    <2>4. \A i \in Ref : rows'[i] = IF i = r THEN new ELSE rows[i]
      BY <2>2, <2>3 DEF TxTypeOK
    <2>5. \A v \in Worker : tx'[v] = tx[v] \/ tx'[v] = Idle
      BY <2>3 DEF TxTypeOK
    <2>6. RecordedPairStands'
      BY <2>2, <2>3, <2>4 DEF PairInv, RecordedPairStands
    <2>7. PairsInTx'
      BY <2>3, <2>5 DEF PairInv, PairsInTx
    <2>8. BridgesFinal'
      BY <2>3 DEF PairInv, BridgesFinal
    <2> QED
      BY <2>6, <2>7, <2>8 DEF PairInv
  <1>6. ASSUME NEW j \in Ref, NEW w \in Worker, Bridge(w, j)
        PROVE  PairInv'
    <2> DEFINE new == [op |-> "record", ref |-> j, ai |-> ai[j], human |-> job[j],
                       n |-> jobsRecorded, a |-> agreements]
    <2>1. job[j] \in Verdict
      BY <1>6 DEF Bridge, PairInv, BridgesFinal
    <2>2. /\ new.ref = j /\ new.human = job[j] /\ tx' = [tx EXCEPT ![w] = new]
          /\ bridging' = {} /\ UNCHANGED <<rows, job>>
      BY <1>6 DEF Bridge, BeginRecord, probVars, jobVars
    <2> HIDE DEF new
    <2>3. \A v \in Worker : tx'[v] = tx[v] \/ tx'[v] = new
      BY <2>2 DEF TxTypeOK
    <2>4. RecordedPairStands'
      BY <2>2 DEF PairInv, RecordedPairStands
    <2>5. PairsInTx'
      BY <2>1, <2>2, <2>3 DEF PairInv, PairsInTx
    <2>6. BridgesFinal'
      BY <2>2 DEF BridgesFinal
    <2> QED
      BY <2>4, <2>5, <2>6 DEF PairInv
  <1>7. ASSUME NEW w \in Worker, BridgeRollback(w)
        PROVE  PairInv'
    <2>1. UNCHANGED <<rows, job, bridging>> /\ \A v \in Worker : tx'[v] = tx[v] \/ tx'[v] = Idle
      BY <1>7 DEF BridgeRollback, Rollback, probVars, jobVars, TxTypeOK
    <2> QED
      BY <1>2, <1>4, <2>1
  <1>8. CASE Crash
    <2>1. UNCHANGED <<rows, job>> /\ bridging' = {} /\ \A w \in Worker : tx'[w] \notin RecordTx
      BY <1>8 DEF Crash, TxCrash, probVars
    <2> QED
      BY <1>2, <2>1
  <1>9. CASE Administer
    <2> DEFINE pause == [op |-> "pause"]
               resume == [op |-> "resume"]
    <2>1. pause \notin RecordTx /\ resume \notin RecordTx
      BY DEF RecordTx
    <2>2. /\ UNCHANGED <<rows, job, bridging>>
          /\ \/ tx' = tx
             \/ \E w \in Worker : \/ tx' = [tx EXCEPT ![w] = Idle]
                                  \/ tx' = [tx EXCEPT ![w] = pause]
                                  \/ tx' = [tx EXCEPT ![w] = resume]
      BY <1>9 DEF Administer, TxStart, StartProbation, BeginPause, BeginResume, CommitStatus,
                  probVars, jobVars
    <2> HIDE DEF pause, resume
    <2>3. \A w \in Worker : tx'[w] \in RecordTx => tx'[w] = tx[w]
      BY <2>1, <2>2 DEF TxTypeOK
    <2> QED
      BY <1>2, <1>4, <2>2, <2>3
  <1>10. ASSUME NEW j \in Ref, PadFinalize(j)
         PROVE  PairInv'
    <2>1. UNCHANGED <<rows, tx>> /\ bridging' = {j}
      BY <1>10 DEF PadFinalize, txVars, probVars
    <2>2. CASE Finalize(j, TRUE)
      <3>1. job'[j] \in Verdict
        BY <2>2, FinalizePreserves
      <3>2. \A i \in Ref : job[i] \in Verdict => job'[i] = job[i]
        BY <1>1, <2>2 DEF Finalize, MayFinalize, JobTypeOK, Verdict
      <3> QED
        BY <1>3, <2>1, <3>1, <3>2
    <2>3. CASE job[j] \in Verdict /\ UNCHANGED jobVars
      <3>1. UNCHANGED job
        BY <2>3 DEF jobVars
      <3> QED
        BY <1>3, <2>1, <2>3, <3>1
    <2> QED
      BY <1>10, <2>2, <2>3 DEF PadFinalize
  <1>11. ASSUME NEW j \in Ref, CreateJob(j) \/ ApiFinalize(j)
         PROVE  PairInv'
    <2>1. UNCHANGED <<rows, tx, bridging>> /\ \A i \in Ref : job[i] \in Verdict => job'[i] = job[i]
      BY <1>1, <1>11 DEF CreateJob, ApiFinalize, Finalize, MayFinalize, txVars, probVars, Verdict,
                         JobTypeOK
    <2> QED
      BY <1>3, <1>4, <2>1
  <1>12. ASSUME NEW j \in Ref,
                \/ AttachMedia(j) \/ SubmitIncidentalFinding(j) \/ BridgeNot(j)
                \/ \E f \in Payload, finding \in BOOLEAN : IngestModelOutput(j, f, finding)
                \/ \E p \in Point, v \in Value : SubmitCheckpointResult(j, p, v)
                \/ \E f \in Payload : SubmitBatch(j, f)
                \/ VisionStart(j) \/ VisionFail(j)
                \/ \E v \in Verdict : VisionStore(j, v)
         PROVE  PairInv'
    <2>1. UNCHANGED <<rows, tx, job>> /\ bridging' \subseteq bridging
      BY <1>12 DEF AttachMedia, SubmitIncidentalFinding, BridgeNot, IngestModelOutput,
                   SubmitCheckpointResult, SubmitBatch, VisionStart, VisionFail, VisionStore,
                   txVars, probVars, jobVars
    <2> QED
      BY <1>3, <1>4, <2>1
  <1>13. CASE UNCHANGED inspVars
    <2>1. UNCHANGED <<rows, tx, job, bridging>>
      BY <1>13 DEF inspVars, txVars, probVars, jobVars
    <2> QED
      BY <1>3, <1>4, <2>1
  <1> QED
    BY <1>5, <1>6, <1>7, <1>8, <1>9, <1>10, <1>11, <1>12, <1>13 DEF InspNext

\* The bridge only has jobs with a report, whatever the probation does.
LEMMA BridgesNextInv == JobInv /\ BridgesFinal /\ [InspNext]_inspVars => BridgesFinal'
  <1> SUFFICES ASSUME JobInv, BridgesFinal, [InspNext]_inspVars
               PROVE  BridgesFinal'
    OBVIOUS
  <1>1. ASSUME NEW j \in Ref, PadFinalize(j)
        PROVE  BridgesFinal'
    <2>1. job'[j] \in Verdict
      BY <1>1, FinalizePreserves DEF PadFinalize, jobVars
    <2> QED
      BY <1>1, <2>1 DEF PadFinalize, BridgesFinal
  <1>2. ASSUME NEW j \in Ref, CreateJob(j) \/ ApiFinalize(j)
        PROVE  BridgesFinal'
    BY <1>2 DEF CreateJob, ApiFinalize, Finalize, MayFinalize, BridgesFinal, Verdict, JobInv,
                JobTypeOK
  <1>3. ASSUME bridging' \subseteq bridging, UNCHANGED job
        PROVE  BridgesFinal'
    BY <1>3 DEF BridgesFinal
  <1>4. ASSUME \/ \E j \in Ref :
                    \/ AttachMedia(j) \/ SubmitIncidentalFinding(j) \/ BridgeNot(j)
                    \/ \E w \in Worker : Bridge(w, j)
                    \/ \E f \in Payload, finding \in BOOLEAN : IngestModelOutput(j, f, finding)
                    \/ \E p \in Point, v \in Value : SubmitCheckpointResult(j, p, v)
                    \/ \E f \in Payload : SubmitBatch(j, f)
                    \/ VisionStart(j) \/ VisionFail(j)
                    \/ \E v \in Verdict : VisionStore(j, v)
               \/ \E w \in Worker : BridgeCommit(w) \/ BridgeRollback(w)
               \/ Administer \/ Crash \/ UNCHANGED inspVars
        PROVE  bridging' \subseteq bridging /\ UNCHANGED job
    BY <1>4 DEF AttachMedia, SubmitIncidentalFinding, BridgeNot, Bridge, BridgeCommit,
                BridgeRollback, IngestModelOutput, SubmitCheckpointResult, SubmitBatch,
                VisionStart, VisionFail, VisionStore, Administer, Crash, inspVars, jobVars
  <1> QED
    BY <1>1, <1>2, <1>3, <1>4 DEF InspNext

\* The bridge's jobs all have a report, in every reachable state.
LEMMA BridgesInvariant == InspSpec => []BridgesFinal
  <1>1. InspInit => BridgesFinal
    BY DEF InspInit, BridgesFinal
  <1> QED
    BY <1>1, BridgesNextInv, JobInvariant, PTL DEF InspSpec

\* The inspection flow implements the split probation: whatever the two clients
\* call, in whatever order, and wherever the server crashes.
THEOREM FlowDrivesProbation == InspSpec => InspectionDrivesProbation
  <1>1. InspInit => TxInit
    BY DEF InspInit
  <1> QED
    BY <1>1, StepIsProbationStep, JobInvariant, BridgesInvariant, PTL
    DEF InspSpec, TxSpec, InspectionDrivesProbation

\* So in the inspection flow too nothing is counted that has no row of its own,
\* and a revision that runs solo has the minimum sample of recorded jobs.
THEOREM FlowNeverCountsTwice == InspSpec => [](CountersNeverAhead /\ SoloHasSample)
  BY FlowDrivesProbation, NeverAhead, SampleBeforeSolo, PTL DEF InspectionDrivesProbation

\* Types of the whole flow.
THEOREM FlowTypeCorrect == InspSpec => []InspTypeOK
  <1>1. BridgesFinal => bridging \in SUBSET Ref
    BY DEF BridgesFinal
  <1> QED
    BY <1>1, JobInvariant, BridgesInvariant, FlowDrivesProbation, TxInvariant, PTL
    DEF InspTypeOK, JobInv, TxInv, InspectionDrivesProbation

\* The human verdict of a recorded pair is for ever the verdict of a report,
\* also when the pair is committed steps after the bridge read it.
THEOREM PairsStand == InspSpec => []RecordedPairStands
  <1>1. InspInit => PairInv
    BY IdleAssumption DEF InspInit, TxInit, ProbInit, PairInv, RecordedPairStands, PairsInTx,
                          BridgesFinal
  <1>2. InspSpec => []TxTypeOK
    BY FlowDrivesProbation, TxInvariant, PTL DEF InspectionDrivesProbation, TxInv
  <1>3. PairInv => RecordedPairStands
    BY DEF PairInv
  <1> QED
    BY <1>1, <1>2, <1>3, PairsNextInv, JobInvariant, PTL DEF InspSpec

\* A report is for ever explained by the results of its job.
THEOREM ReportsStand == InspSpec => []ReportStandsOnResults
  BY JobInvariant, PTL DEF JobInv

\* An operator's review is never mixed with model results.
THEOREM ReviewsWhole == InspSpec => []ReviewIsWhole
  BY JobInvariant, PTL DEF JobInv

\* Reports and results are written once, although only the lookups for
\* existing results, and not the job's status, guard them.
THEOREM WrittenOnce == InspSpec => ReportAndResultsAreFinal
  <1> DEFINE Kept == \A j \in Ref :
        /\ job[j] \in Verdict => job'[j] = job[j]
        /\ \A p \in Point : result[j][p] # "none" =>
             result'[j][p] = result[j][p] /\ source'[j][p] = source[j][p]
  <1>1. ASSUME JobInv, [InspNext]_inspVars
        PROVE  [Kept]_jobVars
    <2>1. JobTypeOK
      BY <1>1 DEF JobInv
    <2>2. ASSUME NEW j \in Ref, NEW f \in Payload, NEW from \in {"model", "operator"},
                 NoClash(j, f), Store(j, f, from), UNCHANGED job
          PROVE  Kept
      BY <2>1, <2>2, StoreKeepsResults
    <2>3. ASSUME NEW j \in Ref, NEW needs \in BOOLEAN, Finalize(j, needs)
          PROVE  Kept
      BY <2>1, <2>3 DEF Finalize, MayFinalize, Completed, JobTypeOK, Verdict
    <2>4. ASSUME UNCHANGED <<result, source>>, \A j \in Ref : job[j] \in Verdict => job'[j] = job[j]
          PROVE  Kept
      BY <2>4
    <2>5. CASE Administer
      BY <2>4, <2>5 DEF Administer, jobVars
    <2>6. ASSUME NEW j \in Ref, CreateJob(j)
          PROVE  Kept
      BY <2>1, <2>4, <2>6 DEF CreateJob, Verdict, JobTypeOK
    <2>7. ASSUME NEW j \in Ref,
                 \/ AttachMedia(j) \/ SubmitIncidentalFinding(j) \/ VisionStart(j)
                 \/ VisionFail(j) \/ BridgeNot(j)
                 \/ \E w \in Worker : Bridge(w, j)
                 \/ \E v \in Verdict : VisionStore(j, v)
          PROVE  Kept
      <3>1. UNCHANGED <<job, result, source>>
        BY <2>7 DEF AttachMedia, SubmitIncidentalFinding, VisionStart, VisionFail,
                    BridgeNot, Bridge, VisionStore, jobVars
      <3> QED
        BY <2>4, <3>1
    <2>8. ASSUME NEW j \in Ref, NEW f \in Payload, NEW finding \in BOOLEAN,
                 IngestModelOutput(j, f, finding)
          PROVE  Kept
      BY <2>2, <2>8 DEF IngestModelOutput
    <2>9. ASSUME NEW j \in Ref, NEW p \in Point, NEW v \in Value, SubmitCheckpointResult(j, p, v)
          PROVE  Kept
      <3> DEFINE f == [q \in Point |-> IF q = p THEN v ELSE "none"]
      <3>1. f \in Payload
        BY DEF Payload
      <3>2. NoClash(j, f) /\ Store(j, f, "model") /\ UNCHANGED job
        BY <2>9 DEF SubmitCheckpointResult
      <3> QED
        BY <2>2, <3>1, <3>2
    <2>10. ASSUME NEW j \in Ref, NEW f \in Payload, SubmitBatch(j, f)
           PROVE  Kept
      BY <2>2, <2>10 DEF SubmitBatch, MaySubmitBatch, NoClash
    <2>11. ASSUME NEW j \in Ref, ApiFinalize(j) \/ PadFinalize(j)
           PROVE  [Kept]_jobVars
      BY <2>3, <2>11 DEF ApiFinalize, PadFinalize
    <2>12. ASSUME \/ \E w \in Worker : BridgeCommit(w) \/ BridgeRollback(w)
                  \/ UNCHANGED inspVars
           PROVE  UNCHANGED jobVars
      BY <2>12 DEF BridgeCommit, BridgeRollback, inspVars
    <2>13. CASE Crash
      BY <2>4, <2>13 DEF Crash
    <2> QED
      BY <1>1, <2>5, <2>6, <2>7, <2>8, <2>9, <2>10, <2>11, <2>12, <2>13 DEF InspNext
  <1> QED
    BY <1>1, JobInvariant, PTL DEF InspSpec, ReportAndResultsAreFinal
=============================================================================
