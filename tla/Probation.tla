----------------------------- MODULE Probation -----------------------------
(***************************************************************************)
(* The probation of one standard revision                                  *)
(* (src/src/qc_model/qualification/probation.py): real jobs are recorded   *)
(* as (AI verdict, human verdict) pairs until the agreement gate, checked  *)
(* at MinSample jobs and every Interval jobs after that, lets the revision *)
(* run without mandatory human confirmation.                               *)
(*                                                                         *)
(* Every operation is one step here.  Inspection and Verdict extend this   *)
(* module with the two flows that record jobs; ProbationTx splits the      *)
(* operations at their database transactions.                              *)
(***************************************************************************)
EXTENDS Integers, FiniteSets

CONSTANTS
  Ref,        \* job references; both callers always pass one
  Verdicts,   \* normalised verdict words, the AI's and the human's
  MinSample,  \* min_sample_size
  Interval,   \* recheck_interval
  Num, Den,   \* agreement_threshold = Num / Den
  NoRow       \* a job reference that has not been recorded

\* start_probation refuses any other parameters.
ASSUME ProbationAssumption ==
  /\ MinSample \in Nat \ {0} /\ Interval \in Nat \ {0}
  /\ Num \in Nat \ {0} /\ Den \in Nat \ {0} /\ Num <= Den

Row == [ai : Verdicts, human : Verdicts, seq : Nat]
ASSUME NoRowAssumption == NoRow \notin Row

VARIABLES
  pStatus,       \* "none" before start_probation
  jobsRecorded,  \* running counter
  agreements,    \* running counter
  rows           \* [Ref -> Row or NoRow], the qc_probation_jobs rows

probVars == <<pStatus, jobsRecorded, agreements, rows>>

-----------------------------------------------------------------------------
(* The gate.  Python's agrees / n >= threshold on floats agrees with the   *)
(* rational comparison for the counts a probation reaches: both sides are  *)
(* correctly rounded.                                                      *)

ThresholdMet(a, n) == n > 0 /\ a * Den >= Num * n

CheckDue(n) == n >= MinSample /\ (n - MinSample) % Interval = 0

\* Mutant of StatusAt: the gate is evaluated before the job is counted.
StatusAtLagging(a, n) ==
  IF CheckDue(jobsRecorded) /\ ThresholdMet(agreements, jobsRecorded)
  THEN "qualified" ELSE pStatus

\* The status after a job was counted: qualify only at a check that is met.
StatusAt(a, n) ==
  IF CheckDue(n) /\ ThresholdMet(a, n) THEN "qualified" ELSE pStatus

-----------------------------------------------------------------------------
ProbInit ==
  /\ pStatus = "none"
  /\ jobsRecorded = 0
  /\ agreements = 0
  /\ rows = [r \in Ref |-> NoRow]

\* start_probation: get-or-create, so a second call changes nothing.
StartProbation ==
  /\ pStatus = "none"
  /\ pStatus' = "active"
  /\ UNCHANGED <<jobsRecorded, agreements, rows>>

\* record_probation_job accepts job r.
MayRecord(r) == pStatus = "active" /\ rows[r] = NoRow

\* record_probation_job: count the pair, and qualify at a passed check.
Record(r, ai, human) ==
  LET n == jobsRecorded + 1
      a == IF ai = human THEN agreements + 1 ELSE agreements
  IN /\ MayRecord(r)
     /\ jobsRecorded' = n
     /\ agreements' = a
     /\ rows' = [rows EXCEPT ![r] = [ai |-> ai, human |-> human, seq |-> n]]
     /\ pStatus' = StatusAt(a, n)

\* pause_probation; on a paused probation it changes nothing.
Pause ==
  /\ pStatus = "active"
  /\ pStatus' = "paused"
  /\ UNCHANGED <<jobsRecorded, agreements, rows>>

\* resume_probation; on an active probation it changes nothing.
Resume ==
  /\ pStatus = "paused"
  /\ pStatus' = "active"
  /\ UNCHANGED <<jobsRecorded, agreements, rows>>

ProbNext ==
  \/ StartProbation
  \/ Pause
  \/ Resume
  \/ \E r \in Ref, ai, human \in Verdicts : Record(r, ai, human)

ProbSpec == ProbInit /\ [][ProbNext]_probVars

-----------------------------------------------------------------------------
(* Properties.                                                             *)

Recorded == {r \in Ref : rows[r] # NoRow}
\* The recorded jobs among the first m on which the AI and the human agreed.
AgreedUpTo(m) == {r \in Recorded : rows[r].ai = rows[r].human /\ rows[r].seq <= m}

\* Types of the probation's state.
ProbTypeOK ==
  /\ pStatus \in {"none", "active", "paused", "qualified"}
  /\ jobsRecorded \in Nat
  /\ agreements \in 0 .. jobsRecorded
  /\ rows \in [Ref -> Row \union {NoRow}]

\* The running counters say what the rows say, and the rows are numbered
\* 1, 2, ..., so the recheck cadence can be audited from them.
CountersMatchRows ==
  /\ IsFiniteSet(Recorded)
  /\ Cardinality(Recorded) = jobsRecorded
  /\ Cardinality(AgreedUpTo(jobsRecorded)) = agreements
  /\ \A r \in Recorded : rows[r].seq \in 1 .. jobsRecorded
  /\ \A r, q \in Recorded : rows[r].seq = rows[q].seq => r = q

\* A revision that runs solo got there at a scheduled check, on the pairs
\* recorded: record_probation_job's qualification, judged from the rows.
QualifiedIsEarned ==
  pStatus = "qualified" =>
    /\ CheckDue(Cardinality(Recorded))
    /\ ThresholdMet(Cardinality(AgreedUpTo(jobsRecorded)), Cardinality(Recorded))

\* No passed check is ever missed: replaying the rows in order, the gate was
\* met at no scheduled check before the last row, and at the last row only if
\* the revision is qualified.
FirstPassedCheckQualifies ==
  \A m \in 1 .. jobsRecorded :
    CheckDue(m) /\ ThresholdMet(Cardinality(AgreedUpTo(m)), m) =>
      m = jobsRecorded /\ pStatus = "qualified"

\* Once qualified, nothing about the probation changes again
\* (record, pause and resume are all refused).
QualifiedIsFinal == [][pStatus # "qualified"]_probVars
=============================================================================
