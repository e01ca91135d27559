--------------------------- MODULE VerdictProofs ---------------------------
(***************************************************************************)
(* Theorems about Verdict, for all submissions of any length, any number   *)
(* of requests between two of their commits, and crashes at any of them.   *)
(***************************************************************************)
EXTENDS Verdict, ProbationProofs, WellFoundedInduction

-----------------------------------------------------------------------------
(* The recomputation against the documented table.                         *)

\* A non-empty set of naturals has a smallest member ...
LEMMA HasSmallest ==
  ASSUME NEW S, S \subseteq Nat, S # {}
  PROVE  \E x \in S : \A y \in S : x <= y
  <1> DEFINE R == OpToRel(<, Nat)
  <1>1. PICK x \in S : \A y \in S : ~(<<y, x>> \in R)
    <2>1. IsWellFoundedOn(R, Nat)
      BY NatLessThanWellFounded, Zenon
    <2> HIDE DEF R
    <2> QED
      BY <2>1, WFMin
  <1>2. ASSUME NEW y \in S, ~(x <= y)
        PROVE  FALSE
    <2>1. y < x /\ y \in Nat /\ x \in Nat
      BY <1>2
    <2>2. <<y, x>> \in R
      BY <2>1, Zenon DEF OpToRel
    <2> QED
      BY <1>1, <2>2
  <1> QED
    BY <1>2

\* ... and one below a bound has a largest.
LEMMA HasLargest ==
  ASSUME NEW n \in Nat, NEW S, S \subseteq 0 .. n, S # {}
  PROVE  \E x \in S : \A y \in S : y <= x
  <1> DEFINE D == {n - k : k \in S}
  <1>1. \A k \in S : k \in Nat /\ n - k \in Nat /\ n - k \in D
    OBVIOUS
  <1>2. D \subseteq Nat /\ D # {}
    <2>1. \A d \in D : \E k \in S : d = n - k
      OBVIOUS
    <2> HIDE DEF D
    <2> QED
      BY <1>1, <2>1
  <1>3. PICK x \in D : \A y \in D : x <= y
    <2> HIDE DEF D
    <2> QED
      BY <1>2, HasSmallest
  <1>4. PICK k \in S : x = n - k
    OBVIOUS
  <1>5. \A y \in S : y <= k
    <2>1. \A y \in S : n - k <= n - y
      <3> HIDE DEF D
      <3> QED
        BY <1>1, <1>3, <1>4
    <2> HIDE DEF D
    <2> QED
      BY <1>1, <2>1
  <1> QED
    BY <1>5

\* What the last-one-wins dictionary keeps: some result for every checkpoint
\* named, and nothing that was not submitted.
LEMMA KeptCovers ==
  ASSUME NEW cps \in Seq([id : Cid, res : Result])
  PROVE  /\ \A i \in DOMAIN cps : \E c \in Kept(cps) : c.id = cps[i].id
         /\ \A c \in Kept(cps) : \E i \in DOMAIN cps : c = cps[i]
  <1>1. ASSUME NEW i \in DOMAIN cps
        PROVE  \E c \in Kept(cps) : c.id = cps[i].id
    <2> DEFINE S == {k \in DOMAIN cps : cps[k].id = cps[i].id}
    <2>1. Len(cps) \in Nat /\ DOMAIN cps = 1 .. Len(cps)
      OBVIOUS
    <2>2. S \subseteq 0 .. Len(cps) /\ S # {}
      BY <2>1
    <2>3. PICK k \in S : \A m \in S : m <= k
      <3> HIDE DEF S
      <3> QED
        BY <2>1, <2>2, HasLargest
    <2>4. \A m \in DOMAIN cps : m > k => cps[m].id # cps[k].id
      BY <2>1, <2>3
    <2>5. cps[k] \in Kept(cps)
      BY <2>4 DEF Kept
    <2> QED
      BY <2>5
  <1> QED
    BY <1>1 DEF Kept

\* Every verdict is one of the three.
LEMMA RecomputeIsVerdict == \A p : RecomputeVerdict(p) \in Verdict
  BY DEF RecomputeVerdict, Verdict

\* The recomputation gives what the documented table gives, for a submission
\* of any length that does not contradict itself.
LEMMA RecomputeFollowsTable ==
  ASSUME NEW p \in Payload, Consistent(p)
  PROVE  FollowsTable(p, RecomputeVerdict(p))
  <1> DEFINE has(q) == \E i \in DOMAIN p.cps : p.cps[i].id = q
             some(w) == \E i \in DOMAIN p.cps : p.cps[i].res = w
             kept == Kept(p.cps)
             keeps(w) == \E c \in kept : c.res = w
  <1>1. p.cps \in Seq([id : Cid, res : Result])
    BY VerdictAssumption
  <1>2. /\ \A i \in DOMAIN p.cps : \E c \in kept : c.id = p.cps[i].id
        /\ \A c \in kept : \E i \in DOMAIN p.cps : c = p.cps[i]
    BY <1>1, KeptCovers
  <1>3. \A w : some(w) <=> keeps(w)
    BY <1>2 DEF Consistent
  <1>4. \A q : has(q) <=> ~(\A c \in kept : c.id # q)
    BY <1>2
  <1>5. RecomputeVerdict(p) =
          IF ~p.known \/ ~p.bundleOk THEN "review_required"
          ELSE IF some("fail") THEN "fail"
          ELSE IF \E q \in Point : ~has(q) THEN "review_required"
          ELSE IF some("other") THEN "review_required"
          ELSE "pass"
    BY <1>3, <1>4, Zenon DEF RecomputeVerdict
  <1> QED
    BY <1>5 DEF FollowsTable

-----------------------------------------------------------------------------
(* The requests.                                                           *)

\* A request exists only for a submission, and is counted only after its
\* decision was committed.
RequestsOK ==
  /\ \A x \in deciding \union recording : sub[x.ref] # NoSub
  /\ \A x \in recording : decision[x.ref] # "none"

SubInv == SubTypeOK /\ RequestsOK

\* Without submissions the invariant holds.
LEMMA SubInitInv == VInit => SubInv
  BY DEF VInit, SubInv, SubTypeOK, RequestsOK, Request

\* A submission is stored with its verdict or leaves everything as it is.
LEMMA IngestPreserves ==
  ASSUME SubInv, NEW r \in Ref, NEW p \in Payload, Ingest(r, p)
  PROVE  /\ sub' \in [Ref -> Payload \union {NoSub}]
         /\ server' \in [Ref -> Verdict \union {"none"}]
         /\ \A q \in Ref : sub'[q] = NoSub <=> server'[q] = "none"
         /\ \A q \in Ref : sub[q] # NoSub => sub'[q] = sub[q] /\ server'[q] = server[q]
         /\ sub'[r] # NoSub
  <1>1. p # NoSub /\ RecomputeVerdict(p) \in Verdict /\ RecomputeVerdict(p) # "none"
    <2>1. p # NoSub
      BY VerdictAssumption
    <2>2. RecomputeVerdict(p) \in Verdict
      BY RecomputeIsVerdict
    <2> QED
      BY <2>1, <2>2 DEF Verdict
  <1>2. CASE /\ MayIngest(r, p)
             /\ sub' = [sub EXCEPT ![r] = p]
             /\ server' = [server EXCEPT ![r] = RecomputeVerdict(p)]
    BY <1>1, <1>2 DEF MayIngest, SubInv, SubTypeOK
  <1>3. CASE sub[r] # NoSub /\ UNCHANGED <<sub, server>>
    BY <1>3 DEF SubInv, SubTypeOK
  <1> QED
    BY <1>2, <1>3 DEF Ingest

\* Every commit, crash and stutter preserves the invariant.
LEMMA SubNextInv == SubInv /\ [VNext]_vVars => SubInv'
  <1> SUFFICES ASSUME SubInv, [VNext]_vVars
               PROVE  SubInv'
    OBVIOUS
  <1> USE DEF SubInv, SubTypeOK
  <1>1. ASSUME UNCHANGED <<sub, server, decision>>,
               deciding' \subseteq deciding, recording' \subseteq recording
        PROVE  SubInv'
    BY <1>1 DEF RequestsOK
  <1>2. CASE Administer
    BY <1>1, <1>2 DEF Administer, subVars
  <1>3. ASSUME NEW r \in Ref, NEW p \in Payload, Submit(r, p)
        PROVE  SubInv'
    <2>1. UNCHANGED <<decision, deciding, recording>> /\ Ingest(r, p)
      BY <1>3 DEF Submit
    <2> QED
      BY <2>1, IngestPreserves DEF RequestsOK, Request
  <1>4. ASSUME NEW r \in Ref, NEW p \in Payload, NEW d \in Decision, SubmitDecided(r, p, d)
        PROVE  SubInv'
    <2>1. UNCHANGED <<decision, recording>> /\ Ingest(r, p)
      BY <1>4 DEF SubmitDecided
    <2>2. deciding' \subseteq deciding \union {[ref |-> r, human |-> d]}
      BY <1>4 DEF SubmitDecided
    <2>3. deciding' \subseteq Request
      BY <2>2 DEF Request
    <2> QED
      BY <2>1, <2>2, <2>3, IngestPreserves DEF RequestsOK, Request
  <1>5. ASSUME NEW x \in Request, Decide(x)
        PROVE  SubInv'
    <2>1. x.ref \in Ref /\ x.human \in Decision /\ x.human # "none"
      BY VerdictAssumption DEF Request
    <2> QED
      BY <1>5, <2>1 DEF Decide, RequestsOK, Request
  <1>6. ASSUME NEW r \in Ref, NEW d \in Decision, FinalDecision(r, d)
        PROVE  SubInv'
    <2>1. d # "none" /\ [ref |-> r, human |-> d] \in Request
      BY VerdictAssumption DEF Request
    <2> QED
      BY <1>6, <2>1 DEF FinalDecision, RequestsOK, Request
  <1>7. ASSUME NEW x \in Request, Skip(x) \/ \E w \in Worker : Count(w, x)
        PROVE  SubInv'
    BY <1>1, <1>7 DEF Skip, Count
  <1>8. CASE Crash \/ \E w \in Worker : Commit(w) \/ Refused(w)
    BY <1>1, <1>8 DEF Crash, Commit, Refused, subVars
  <1>9. CASE UNCHANGED vVars
    BY <1>1, <1>9 DEF vVars, subVars
  <1> QED
    BY <1>2, <1>3, <1>4, <1>5, <1>6, <1>7, <1>8, <1>9 DEF VNext, Requests

\* The types of the flow, and that requests between commits have the
\* submission they decide, hold whatever interleaves and crashes.
THEOREM SubInvariant == VSpec => []SubInv
  BY SubInitInv, SubNextInv, PTL DEF VSpec

-----------------------------------------------------------------------------
(* The probation under the verdict flow.                                   *)

\* For the probation every step of the flow is one half of its operations, a
\* rollback or a stutter.
LEMMA StepIsProbationStep == SubInv /\ [VNext]_vVars => [TxNext]_txVars
  <1> SUFFICES ASSUME SubInv, [VNext]_vVars
               PROVE  [TxNext]_txVars
    OBVIOUS
  <1>1. CASE Administer
    BY <1>1 DEF Administer, TxNext
  <1>2. ASSUME NEW x \in Request, NEW w \in Worker, Count(w, x)
        PROVE  [TxNext]_txVars
    <2>1. x.ref \in Ref /\ sub[x.ref] # NoSub /\ decision[x.ref] # "none"
      BY <1>2 DEF Request, Count, SubInv, RequestsOK
    <2>2. server[x.ref] \in Verdicts /\ decision[x.ref] \in Verdicts
      BY <2>1, VerdictAssumption DEF SubInv, SubTypeOK
    <2> QED
      BY <1>2, <2>1, <2>2 DEF Count, TxNext
  <1>3. ASSUME NEW w \in Worker, Commit(w) \/ Refused(w)
        PROVE  [TxNext]_txVars
    BY <1>3 DEF Commit, Refused, TxNext
  <1>4. CASE Crash
    BY <1>4 DEF Crash, TxNext
  <1>5. ASSUME \/ \E r \in Ref, p \in Payload :
                    \/ Submit(r, p)
                    \/ \E d \in Decision : SubmitDecided(r, p, d)
               \/ \E r \in Ref, d \in Decision : FinalDecision(r, d)
               \/ \E x \in Request : Decide(x) \/ Skip(x)
        PROVE  UNCHANGED txVars
    BY <1>5 DEF Submit, SubmitDecided, FinalDecision, Decide, Skip
  <1>6. CASE UNCHANGED vVars
    BY <1>6 DEF vVars
  <1> QED
    BY <1>1, <1>2, <1>3, <1>4, <1>5, <1>6 DEF VNext, Requests

\* The verdict flow implements the split probation, whatever requests
\* interleave and wherever the server crashes.
THEOREM VerdictFlowDrivesProbation == VSpec => VerdictDrivesProbation
  <1>1. VInit => TxInit
    BY DEF VInit
  <1> QED
    BY <1>1, StepIsProbationStep, SubInvariant, PTL DEF VSpec, TxSpec, VerdictDrivesProbation

\* Types of the whole flow.
THEOREM VerdictTypeCorrect == VSpec => []VerdictTypeOK
  BY SubInvariant, VerdictFlowDrivesProbation, TxInvariant, PTL
  DEF VerdictTypeOK, SubInv, TxInv, VerdictDrivesProbation

\* So in the verdict flow too, with any number of requests in flight, nothing is
\* counted that has no row of its own, and a revision that runs solo has the
\* minimum sample of recorded jobs.
THEOREM VerdictNeverCountsTwice == VSpec => [](CountersNeverAhead /\ SoloHasSample)
  BY VerdictFlowDrivesProbation, NeverAhead, SampleBeforeSolo, PTL
  DEF VerdictDrivesProbation

\* Where requests are served one at a time, the flow drives the single-step
\* probation, and a revision qualifies only at a scheduled check its pairs pass.
THEOREM SerialVerdictQualifies ==
  ASSUME OneWorker
  PROVE  VSpec => [](CountersMatchRows /\ QualifiedIsEarned)
  <1>1. VSpec => ProbSpec
    BY VerdictFlowDrivesProbation, SerialImplementsProbation
    DEF VerdictDrivesProbation, ImplementsProbation
  <1> QED
    BY <1>1, CountersCorrect, QualificationEarned, PTL

\* No step changes a stored submission or verdict, or takes a decision back.
LEMMA StepKeepsVerdicts ==
  ASSUME SubInv, [VNext]_vVars, NEW r \in Ref
  PROVE  /\ sub[r] # NoSub => sub'[r] = sub[r] /\ server'[r] = server[r]
         /\ decision[r] # "none" => decision'[r] # "none"
  <1> DEFINE Keeps == /\ sub[r] # NoSub => sub'[r] = sub[r] /\ server'[r] = server[r]
                      /\ decision[r] # "none" => decision'[r] # "none"
  <1>1. CASE UNCHANGED <<sub, server, decision>>
    BY <1>1
  <1>2. ASSUME NEW q \in Ref, NEW p \in Payload, Ingest(q, p), UNCHANGED decision
        PROVE  Keeps
    BY <1>2, IngestPreserves
  <1>3. ASSUME NEW q \in Ref, NEW d \in Decision, UNCHANGED <<sub, server>>,
               decision' = [decision EXCEPT ![q] = d]
        PROVE  Keeps
    BY <1>3, VerdictAssumption DEF SubInv, SubTypeOK
  <1>4. ASSUME NEW x \in Request, Decide(x)
        PROVE  Keeps
    BY <1>3, <1>4 DEF Decide, Request
  <1>5. ASSUME \/ Administer \/ Crash \/ UNCHANGED vVars
               \/ \E x \in Request : Skip(x) \/ \E w \in Worker : Count(w, x)
               \/ \E w \in Worker : Commit(w) \/ Refused(w)
        PROVE  Keeps
    BY <1>1, <1>5 DEF Administer, Crash, Skip, Count, Commit, Refused, vVars, subVars
  <1> QED
    BY <1>2, <1>3, <1>4, <1>5 DEF VNext, Requests, Submit, SubmitDecided, FinalDecision

\* Verdicts are final.
THEOREM VerdictsFinal == VSpec => VerdictIsFinal
  <1>1. SubInv /\ [VNext]_vVars =>
          [\A r \in Ref :
             /\ sub[r] # NoSub => sub'[r] = sub[r] /\ server'[r] = server[r]
             /\ decision[r] # "none" => decision'[r] # "none"]_subVars
    BY StepKeepsVerdicts
  <1> QED
    BY <1>1, SubInvariant, PTL DEF VSpec, VerdictIsFinal

\* A stored verdict is the table's when it is stored, and never changes.
LEMMA TableNextInv == SubInv /\ VerdictFollowsTable /\ [VNext]_vVars => VerdictFollowsTable'
  <1> SUFFICES ASSUME SubInv, VerdictFollowsTable, [VNext]_vVars,
                      NEW r \in Ref, sub'[r] # NoSub, Consistent(sub'[r])
               PROVE  FollowsTable(sub'[r], server'[r])
    BY DEF VerdictFollowsTable, FollowsTable, Consistent
  <1>1. CASE sub[r] # NoSub
    <2>1. sub'[r] = sub[r] /\ server'[r] = server[r]
      BY <1>1, StepKeepsVerdicts
    <2> QED
      BY <1>1, <2>1 DEF VerdictFollowsTable
  <1>2. CASE sub[r] = NoSub
    <2>1. PICK q \in Ref, p \in Payload : Ingest(q, p)
      BY <1>2 DEF VNext, Requests, Submit, SubmitDecided, FinalDecision, Decide, Skip, Count,
                  Commit, Refused, Crash, Administer, vVars, subVars
    <2>2. q = r /\ sub'[r] = p /\ server'[r] = RecomputeVerdict(p)
      BY <1>2, <2>1 DEF Ingest, SubInv, SubTypeOK
    <2> QED
      BY <2>2, RecomputeFollowsTable
  <1> QED
    BY <1>1, <1>2

\* Every verdict stored is the one the documented table gives.
THEOREM VerdictsFollowTable == VSpec => []VerdictFollowsTable
  <1>1. VInit => VerdictFollowsTable
    BY DEF VInit, VerdictFollowsTable
  <1> QED
    BY <1>1, TableNextInv, SubInvariant, PTL DEF VSpec

\* A transaction open for a job records the pair the job's row may get.
PairsInTx ==
  \A w \in Worker : tx[w] \in RecordTx =>
    /\ tx[w].ref \in Ref /\ sub[tx[w].ref] # NoSub /\ sub[tx[w].ref].known
    /\ tx[w].ai = server[tx[w].ref]
    /\ tx[w].human \in Decision /\ decision[tx[w].ref] # "none"

PairInv == CountedPairStands /\ PairsInTx

\* Steps that leave rows and transactions alone, or only end transactions.
LEMMA PairsKept ==
  ASSUME SubInv, PairInv, [VNext]_vVars, UNCHANGED rows,
         \A w \in Worker : tx'[w] \in RecordTx => tx'[w] = tx[w]
  PROVE  PairInv'
  <1>1. \A r \in Ref : /\ sub[r] # NoSub => sub'[r] = sub[r] /\ server'[r] = server[r]
                       /\ decision[r] # "none" => decision'[r] # "none"
    BY StepKeepsVerdicts
  <1>2. CountedPairStands'
    BY <1>1 DEF PairInv, CountedPairStands
  <1>3. PairsInTx'
    BY <1>1 DEF PairInv, PairsInTx
  <1> QED
    BY <1>2, <1>3 DEF PairInv

\* Only Commit writes a row, and it writes the pair that Count read.
LEMMA PairsNextInv ==
  SubInv /\ TxTypeOK /\ PairInv /\ [VNext]_vVars => PairInv'
  <1> SUFFICES ASSUME SubInv, TxTypeOK, PairInv, [VNext]_vVars
               PROVE  PairInv'
    OBVIOUS
  <1> USE IdleAssumption
  <1>1. ASSUME NEW w \in Worker, Commit(w)
        PROVE  PairInv'
    <2> DEFINE r == tx[w].ref
               new == [ai |-> tx[w].ai, human |-> tx[w].human, seq |-> NewCount(w)]
    <2>1. tx[w] \in RecordTx
      BY <1>1 DEF TxTypeOK, Commit, CommitRecord, StatusTx
    <2>2. /\ r \in Ref /\ sub[r] # NoSub /\ sub[r].known /\ new.ai = server[r]
          /\ new.human \in Decision /\ decision[r] # "none"
      BY <2>1 DEF PairInv, PairsInTx
    <2>3. /\ rows' = [rows EXCEPT ![r] = new] /\ tx' = [tx EXCEPT ![w] = Idle]
          /\ UNCHANGED <<sub, server, decision>>
      BY <1>1 DEF Commit, CommitRecord, subVars
    <2> HIDE DEF new, r
    <2>4. \A q \in Ref : rows'[q] = IF q = r THEN new ELSE rows[q]
      BY <2>2, <2>3 DEF TxTypeOK
    <2>5. \A v \in Worker : tx'[v] = tx[v] \/ tx'[v] = Idle
      BY <2>3 DEF TxTypeOK
    <2>6. CountedPairStands'
      BY <2>2, <2>3, <2>4 DEF PairInv, CountedPairStands
    <2>7. PairsInTx'
      BY <2>3, <2>5 DEF PairInv, PairsInTx
    <2> QED
      BY <2>6, <2>7 DEF PairInv
  <1>2. ASSUME NEW x \in Request, NEW w \in Worker, Count(w, x)
        PROVE  PairInv'
    <2> DEFINE r == x.ref
               new == [op |-> "record", ref |-> r, ai |-> server[r], human |-> decision[r],
                       n |-> jobsRecorded, a |-> agreements]
    <2>1. r \in Ref /\ sub[r] # NoSub /\ sub[r].known /\ decision[r] # "none"
      BY <1>2 DEF Request, Count, SubInv, RequestsOK
    <2>2. decision[r] \in Decision
      BY <2>1 DEF SubInv, SubTypeOK
    <2>3. /\ new.ref = r /\ new.ai = server[r] /\ new.human \in Decision
          /\ tx' = [tx EXCEPT ![w] = new] /\ UNCHANGED <<rows, sub, server, decision>>
      BY <1>2, <2>2 DEF Count, BeginRecord, probVars
    <2> HIDE DEF new, r
    <2>4. \A v \in Worker : tx'[v] = tx[v] \/ tx'[v] = new
      BY <2>3 DEF TxTypeOK
    <2>5. CountedPairStands'
      BY <2>3 DEF PairInv, CountedPairStands
    <2>6. PairsInTx'
      BY <2>1, <2>3, <2>4 DEF PairInv, PairsInTx
    <2> QED
      BY <2>5, <2>6 DEF PairInv
  <1>3. ASSUME NEW w \in Worker, Refused(w)
        PROVE  PairInv'
    <2>1. UNCHANGED rows /\ \A v \in Worker : tx'[v] = tx[v] \/ tx'[v] = Idle
      BY <1>3 DEF Refused, Rollback, probVars, TxTypeOK
    <2> QED
      BY <2>1, PairsKept
  <1>4. CASE Crash
    <2>1. UNCHANGED rows /\ \A w \in Worker : tx'[w] \notin RecordTx
      BY <1>4 DEF Crash, TxCrash, probVars
    <2> QED
      BY <2>1, PairsKept
  <1>5. CASE Administer
    <2> DEFINE pause == [op |-> "pause"]
               resume == [op |-> "resume"]
    <2>1. pause \notin RecordTx /\ resume \notin RecordTx
      BY DEF RecordTx
    <2>2. /\ UNCHANGED rows
          /\ \/ tx' = tx
             \/ \E w \in Worker : \/ tx' = [tx EXCEPT ![w] = Idle]
                                  \/ tx' = [tx EXCEPT ![w] = pause]
                                  \/ tx' = [tx EXCEPT ![w] = resume]
      BY <1>5 DEF Administer, TxStart, StartProbation, BeginPause, BeginResume, CommitStatus, probVars
    <2> HIDE DEF pause, resume
    <2>3. \A w \in Worker : tx'[w] \in RecordTx => tx'[w] = tx[w]
      BY <2>1, <2>2 DEF TxTypeOK
    <2> QED
      BY <2>2, <2>3, PairsKept
  <1>6. ASSUME UNCHANGED txVars
        PROVE  PairInv'
    <2>1. UNCHANGED rows /\ tx' = tx
      BY <1>6 DEF txVars, probVars
    <2>2. \A w \in Worker : tx'[w] \in RecordTx => tx'[w] = tx[w]
      BY <2>1
    <2> QED
      BY <2>1, <2>2, PairsKept
  <1>7. ASSUME \/ \E r \in Ref, p \in Payload :
                    \/ Submit(r, p)
                    \/ \E d \in Decision : SubmitDecided(r, p, d)
               \/ \E r \in Ref, d \in Decision : FinalDecision(r, d)
               \/ \E x \in Request : Decide(x) \/ Skip(x)
               \/ UNCHANGED vVars
        PROVE  UNCHANGED txVars
    BY <1>7 DEF Submit, SubmitDecided, FinalDecision, Decide, Skip, vVars
  <1> QED
    BY <1>1, <1>2, <1>3, <1>4, <1>5, <1>6, <1>7 DEF VNext, Requests

\* A counted pair is for ever the server's verdict and a human's decision, also
\* when the pair was read in one step and committed in a later one.
THEOREM CountedPairsStand == VSpec => []CountedPairStands
  <1>1. VInit => PairInv
    BY IdleAssumption DEF VInit, TxInit, ProbInit, PairInv, CountedPairStands, PairsInTx
  <1>2. VSpec => []TxTypeOK
    BY VerdictFlowDrivesProbation, TxInvariant, PTL DEF VerdictDrivesProbation, TxInv
  <1>3. PairInv => CountedPairStands
    BY DEF PairInv
  <1> QED
    BY <1>1, <1>2, <1>3, PairsNextInv, SubInvariant, PTL DEF VSpec
=============================================================================
