---------------------------- MODULE ProbationTx ----------------------------
(***************************************************************************)
(* Probation with its operations split at their database transactions.     *)
(* The routers that call them are plain functions served by a thread pool, *)
(* each with a session of its own, so an operation reads the probation row *)
(* in one step and writes it in another.  The ORM writes the columns an    *)
(* operation assigned, with the values it computed from what it had read;  *)
(* nothing locks the row or checks a version.                              *)
(***************************************************************************)
EXTENDS Probation

CONSTANTS
  Worker,  \* concurrent request handlers
  Idle     \* a worker without an open transaction

RecordTx == [op : {"record"}, ref : Ref, ai : Verdicts, human : Verdicts, n : Nat, a : Nat]
StatusTx == [op : {"pause", "resume"}]
ASSUME IdleAssumption == Idle \notin RecordTx \union StatusTx

VARIABLE tx  \* [Worker -> RecordTx, StatusTx or Idle]: what it read, to write

txVars == <<probVars, tx>>

TxInit == ProbInit /\ tx = [w \in Worker |-> Idle]

\* Mutant of BeginRecord: the counter is committed before the row.
BeginRecordCounting(w, r, ai, human) ==
  /\ tx[w] = Idle /\ MayRecord(r)
  /\ tx' = [tx EXCEPT ![w] = [op |-> "record", ref |-> r, ai |-> ai, human |-> human,
                              n |-> jobsRecorded, a |-> agreements]]
  /\ jobsRecorded' = jobsRecorded + 1
  /\ UNCHANGED <<pStatus, agreements, rows>>

\* record_probation_job up to its flush: status, counters and the job_ref
\* lookup are read.
BeginRecord(w, r, ai, human) ==
  /\ tx[w] = Idle /\ MayRecord(r)
  /\ tx' = [tx EXCEPT ![w] = [op |-> "record", ref |-> r, ai |-> ai, human |-> human,
                              n |-> jobsRecorded, a |-> agreements]]
  /\ UNCHANGED probVars

\* The counters after worker w's transaction, as w computed them.
NewCount(w) == tx[w].n + 1
NewAgreed(w) == IF tx[w].ai = tx[w].human THEN tx[w].a + 1 ELSE tx[w].a

\* Mutant of CommitRecord: the gate is evaluated on the counters as read.
CommitRecordStaleGate(w) ==
  /\ tx[w] # Idle /\ tx[w].op = "record" /\ rows[tx[w].ref] = NoRow
  /\ tx' = [tx EXCEPT ![w] = Idle]
  /\ jobsRecorded' = NewCount(w)
  /\ agreements' = IF tx[w].ai = tx[w].human THEN NewAgreed(w) ELSE agreements
  /\ rows' = [rows EXCEPT ![tx[w].ref] =
                [ai |-> tx[w].ai, human |-> tx[w].human, seq |-> NewCount(w)]]
  /\ pStatus' = StatusAt(tx[w].a, tx[w].n)

\* Flush and commit.  `agreements` and `status` are written only when the
\* operation assigned them.
CommitRecord(w) ==
  /\ tx[w] # Idle /\ tx[w].op = "record" /\ rows[tx[w].ref] = NoRow
  /\ tx' = [tx EXCEPT ![w] = Idle]
  /\ jobsRecorded' = NewCount(w)
  /\ agreements' = IF tx[w].ai = tx[w].human THEN NewAgreed(w) ELSE agreements
  /\ rows' = [rows EXCEPT ![tx[w].ref] =
                [ai |-> tx[w].ai, human |-> tx[w].human, seq |-> NewCount(w)]]
  /\ pStatus' = StatusAt(NewAgreed(w), NewCount(w))

\* The transaction fails and is rolled back: uq_probation_job_ref refuses a
\* second row for the job, or the database refuses the commit.
Rollback(w) ==
  /\ tx[w] # Idle
  /\ tx' = [tx EXCEPT ![w] = Idle]
  /\ UNCHANGED probVars

\* The process dies with every open transaction.
TxCrash ==
  /\ tx' = [w \in Worker |-> Idle]
  /\ UNCHANGED probVars

BeginPause(w) ==
  /\ tx[w] = Idle /\ pStatus = "active"
  /\ tx' = [tx EXCEPT ![w] = [op |-> "pause"]]
  /\ UNCHANGED probVars

BeginResume(w) ==
  /\ tx[w] = Idle /\ pStatus = "paused"
  /\ tx' = [tx EXCEPT ![w] = [op |-> "resume"]]
  /\ UNCHANGED probVars

\* Pause and resume write the status and nothing else.
CommitStatus(w) ==
  /\ tx[w] # Idle /\ tx[w].op \in {"pause", "resume"}
  /\ tx' = [tx EXCEPT ![w] = Idle]
  /\ pStatus' = IF tx[w].op = "pause" THEN "paused" ELSE "active"
  /\ UNCHANGED <<jobsRecorded, agreements, rows>>

TxStart == StartProbation /\ UNCHANGED tx

TxNext ==
  \/ TxStart \/ TxCrash
  \/ \E w \in Worker :
       \/ \E r \in Ref, ai, human \in Verdicts : BeginRecord(w, r, ai, human)
       \/ CommitRecord(w) \/ Rollback(w)
       \/ BeginPause(w) \/ BeginResume(w) \/ CommitStatus(w)

TxSpec == TxInit /\ [][TxNext]_txVars

-----------------------------------------------------------------------------
(* Properties.                                                             *)

\* Types of the probation's state and of what the open transactions hold.
TxTypeOK ==
  /\ pStatus \in {"none", "active", "paused", "qualified"}
  /\ jobsRecorded \in Nat /\ agreements \in Nat
  /\ rows \in [Ref -> Row \union {NoRow}]
  /\ tx \in [Worker -> RecordTx \union StatusTx \union {Idle}]

\* The recorded jobs on which the AI and the human agreed.
Agreed == {r \in Recorded : rows[r].ai = rows[r].human}

\* With one request at a time the transactions implement the single-step
\* operations of Probation.
ImplementsProbation == ProbSpec

\* Whatever the interleaving, no counter is ever ahead of the rows: a job the
\* unique constraint refused, or a transaction that died, is never counted.
CountersNeverAhead ==
  /\ jobsRecorded <= Cardinality(Recorded)
  /\ agreements <= Cardinality(Agreed)

\* Whatever the interleaving, no revision runs solo on fewer real jobs than
\* the minimum sample.
SoloHasSample == pStatus = "qualified" => Cardinality(Recorded) >= MinSample

-----------------------------------------------------------------------------
(* What the repository says, and the interleavings refute.                 *)

\* qc_probation_models.py:71, "Running counters over recorded real jobs".
CountersAreRunningTotals == jobsRecorded = Cardinality(Recorded)

\* docs/api-contracts/probation-api.md: a qualified probation cannot be
\* paused or resumed.
QualifiedStays == [][pStatus = "qualified" => pStatus' = "qualified"]_pStatus

\* probation.py:14-17: a revision qualifies on an agreement rate over its
\* recorded jobs of at least the threshold.
SoloRateIsReal ==
  pStatus = "qualified" =>
    ThresholdMet(Cardinality(Agreed), Cardinality(Recorded))
=============================================================================
