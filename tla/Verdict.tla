------------------------------ MODULE Verdict ------------------------------
(***************************************************************************)
(* The server verdict: a Pad submits the checkpoint results of a job, the  *)
(* server recomputes the verdict (qc_model/verdict/recompute.py), a human  *)
(* decides, on the Pad or on the Results page, and the decision is counted *)
(* in the revision's probation (verdict/service.py, qc_verdict_router.py). *)
(*                                                                         *)
(* A request that carries a decision commits three times: the submission   *)
(* with its verdict, the decision, the probation's row.  Each commit is a  *)
(* step, and what record_probation_job reads before the last one is a step *)
(* of its own, by a worker of ProbationTx: the router's functions are      *)
(* plain def, so requests interleave in the thread pool and a crash falls  *)
(* in between.                                                             *)
(***************************************************************************)
EXTENDS ProbationTx, Sequences

CONSTANTS
  Cid,         \* checkpoint ids a Pad may name
  Point,       \* active detection points of the revision
  Payload,     \* what a Pad may submit
  Decision,    \* human decisions in use
  NoSub,       \* a job without a submission
  MaxInflight, \* bound on requests between two of their commits
  MayCrash     \* whether the server may crash

Result == {"pass", "fail", "other"}
Verdict == {"pass", "fail", "review_required"}

\* `known`: the submission names the revision on probation; `bundleOk`: its
\* bundle version is the expected one.
ASSUME VerdictAssumption ==
  /\ Verdict \subseteq Verdicts
  /\ Decision \subseteq Verdicts \ {"none"}
  /\ Point \subseteq Cid
  /\ \A p \in Payload :
       /\ p.known \in BOOLEAN /\ p.bundleOk \in BOOLEAN
       /\ p.cps \in Seq([id : Cid, res : Result])
  /\ NoSub \notin Payload
  /\ MaxInflight \in Nat /\ MayCrash \in BOOLEAN

VARIABLES
  sub,        \* [Ref -> Payload or NoSub]
  server,     \* [Ref -> Verdict or "none"]
  decision,   \* [Ref -> Decision or "none"], human_final_decision
  deciding,   \* Pad requests that found no decision and carry one
  recording   \* requests whose decision is committed, on their way to the probation

subVars == <<sub, server, decision, deciding, recording>>
vVars == <<txVars, subVars>>

VInit ==
  /\ TxInit
  /\ sub = [r \in Ref |-> NoSub]
  /\ server = [r \in Ref |-> "none"]
  /\ decision = [r \in Ref |-> "none"]
  /\ deciding = {}
  /\ recording = {}

-----------------------------------------------------------------------------
\* submitted_by_id: of several results for one checkpoint, the last is kept.
Kept(cps) == {cps[i] : i \in {k \in DOMAIN cps :
                \A m \in DOMAIN cps : m > k => cps[m].id # cps[k].id}}

\* Mutant of RecomputeVerdict: a missing checkpoint hides an observed failure.
RecomputeMissingFirst(p) ==
  LET kept == Kept(p.cps)
      Some(v) == \E c \in kept : c.res = v
  IN IF ~p.known \/ ~p.bundleOk THEN "review_required"
     ELSE IF \E q \in Point : \A c \in kept : c.id # q THEN "review_required"
     ELSE IF Some("fail") THEN "fail"
     ELSE IF Some("other") THEN "review_required"
     ELSE "pass"

\* recompute_verdict.
RecomputeVerdict(p) ==
  LET kept == Kept(p.cps)
      Some(v) == \E c \in kept : c.res = v
  IN IF ~p.known \/ ~p.bundleOk THEN "review_required"
     ELSE IF Some("fail") THEN "fail"
     ELSE IF \E q \in Point : \A c \in kept : c.id # q THEN "review_required"
     ELSE IF Some("other") THEN "review_required"
     ELSE "pass"

Occurrences(s, e) == Cardinality({i \in DOMAIN s : s[i] = e})

\* ingest_submission takes p for a repetition of q: the same fields and the
\* same checkpoint results in any order.
SameSubmission(p, q) ==
  /\ p.known = q.known /\ p.bundleOk = q.bundleOk
  /\ Len(p.cps) = Len(q.cps)
  /\ \A i \in DOMAIN p.cps : Occurrences(p.cps, p.cps[i]) = Occurrences(q.cps, p.cps[i])

\* The bound on requests between two commits; it is part of the guards.
RoomInflight ==
  Cardinality(deciding) + Cardinality(recording)
    + Cardinality({w \in Worker : tx[w] # Idle}) < MaxInflight

-----------------------------------------------------------------------------

MayIngest(r, p) == sub[r] = NoSub

\* ingest_submission: a new submission is stored with its verdict; one that
\* repeats the stored one is answered from it, any other is refused (409).
Ingest(r, p) ==
  \/ /\ MayIngest(r, p)
     /\ sub' = [sub EXCEPT ![r] = p]
     /\ server' = [server EXCEPT ![r] = RecomputeVerdict(p)]
  \/ /\ sub[r] # NoSub /\ SameSubmission(sub[r], p)
     /\ UNCHANGED <<sub, server>>

\* submit_verdict without a human decision ...
Submit(r, p) ==
  /\ Ingest(r, p)
  /\ UNCHANGED <<txVars, decision, deciding, recording>>

\* ... and with decision d, as far as its check that there is none yet.
SubmitDecided(r, p, d) ==
  /\ RoomInflight /\ Ingest(r, p)
  /\ deciding' = IF decision[r] = "none" THEN deciding \union {[ref |-> r, human |-> d]}
                 ELSE deciding
  /\ UNCHANGED <<txVars, decision, recording>>

\* record_human_decision of a Pad request x: it commits the decision.
Decide(x) ==
  /\ x \in deciding
  /\ decision' = [decision EXCEPT ![x.ref] = x.human]
  /\ deciding' = deciding \ {x}
  /\ recording' = recording \union {x}
  /\ UNCHANGED <<txVars, sub, server>>

\* final-decision on the Results page: record_human_decision, which also
\* replaces a decision.
FinalDecision(r, d) ==
  /\ RoomInflight /\ sub[r] # NoSub
  /\ decision' = [decision EXCEPT ![r] = d]
  /\ recording' = recording \union {[ref |-> r, human |-> d]}
  /\ UNCHANGED <<txVars, sub, server, deciding>>

\* Mutants of Count: only agreements are counted; the verdict the human gave
\* is counted as the AI's; the row is written past the probation's checks.
CountAgreementsOnly(w, x) ==
  /\ x \in recording /\ sub[x.ref].known /\ MayRecord(x.ref)
  /\ IF server[x.ref] = decision[x.ref]
     THEN BeginRecord(w, x.ref, server[x.ref], decision[x.ref])
     ELSE UNCHANGED txVars
  /\ recording' = recording \ {x}
  /\ UNCHANGED <<sub, server, decision, deciding>>
CountHumanTwice(w, x) ==
  /\ x \in recording /\ sub[x.ref].known
  /\ BeginRecord(w, x.ref, decision[x.ref], decision[x.ref])
  /\ recording' = recording \ {x}
  /\ UNCHANGED <<sub, server, decision, deciding>>
CountUnchecked(w, x) ==
  /\ x \in recording
  /\ rows' = [rows EXCEPT ![x.ref] =
                [ai |-> server[x.ref], human |-> decision[x.ref], seq |-> jobsRecorded + 1]]
  /\ jobsRecorded' = jobsRecorded + 1
  /\ recording' = recording \ {x}
  /\ UNCHANGED <<pStatus, agreements, tx, sub, server, decision, deciding>>

\* _maybe_record_probation_job of request x as far as record_probation_job's
\* reads, by worker w; the decision is the one the row holds now.
Count(w, x) ==
  /\ x \in recording /\ sub[x.ref].known
  /\ BeginRecord(w, x.ref, server[x.ref], decision[x.ref])
  /\ recording' = recording \ {x}
  /\ UNCHANGED <<sub, server, decision, deciding>>

\* Nothing is counted: the submission's revision is not on active probation, or
\* the job is recorded already.
Skip(x) ==
  /\ x \in recording /\ ~(sub[x.ref].known /\ MayRecord(x.ref))
  /\ recording' = recording \ {x}
  /\ UNCHANGED <<txVars, sub, server, decision, deciding>>

\* record_probation_job's commit, or its end without one: another request has
\* recorded the job meanwhile, or the database fails.
Commit(w) == CommitRecord(w) /\ UNCHANGED subVars
Refused(w) ==
  /\ tx[w] # Idle /\ tx[w].op = "record" /\ (rows[tx[w].ref] # NoRow \/ MayCrash)
  /\ Rollback(w) /\ UNCHANGED subVars

\* The server stops: what was committed stays, no request goes on.
Crash ==
  /\ MayCrash /\ TxCrash
  /\ deciding' = {} /\ recording' = {}
  /\ UNCHANGED <<sub, server, decision>>

\* Publishing, and the administrator's operations on the probation.
Administer ==
  /\ \/ TxStart
     \/ \E w \in Worker : BeginPause(w) \/ BeginResume(w) \/ CommitStatus(w)
  /\ UNCHANGED subVars

Request == [ref : Ref, human : Decision]

Requests ==
  \/ \E r \in Ref, p \in Payload :
       \/ Submit(r, p)
       \/ \E d \in Decision : SubmitDecided(r, p, d)
  \/ \E r \in Ref, d \in Decision : FinalDecision(r, d)
  \/ \E x \in Request : Decide(x) \/ Skip(x) \/ \E w \in Worker : Count(w, x)
  \/ \E w \in Worker : Commit(w) \/ Refused(w)
  \/ Crash

VNext == Administer \/ Requests

VSpec == VInit /\ [][VNext]_vVars

-----------------------------------------------------------------------------
(* Properties.                                                             *)

SubTypeOK ==
  /\ sub \in [Ref -> Payload \union {NoSub}]
  /\ server \in [Ref -> Verdict \union {"none"}]
  /\ \A r \in Ref : sub[r] = NoSub <=> server[r] = "none"
  /\ decision \in [Ref -> Decision \union {"none"}]
  /\ deciding \in SUBSET Request /\ recording \in SUBSET Request

\* Types of the submissions' and the probation's state; in particular there
\* is a verdict exactly where there is a submission.
VerdictTypeOK == TxTypeOK /\ SubTypeOK

\* The documented table (docs/SERVER_VERDICT_RECOMPUTE_S4.md), for a payload
\* that does not contradict itself: which verdict each of its lines allows.
FollowsTable(p, v) ==
  LET has(q) == \E i \in DOMAIN p.cps : p.cps[i].id = q
      some(w) == \E i \in DOMAIN p.cps : p.cps[i].res = w
      trusted == p.known /\ p.bundleOk
  IN /\ ~trusted => v = "review_required"
     /\ trusted /\ some("fail") => v = "fail"
     /\ trusted /\ ~some("fail") =>
          (v = "pass" <=> ~some("other") /\ \A q \in Point : has(q)) /\ v # "fail"

Consistent(p) ==
  \A i, m \in DOMAIN p.cps : p.cps[i].id = p.cps[m].id => p.cps[i].res = p.cps[m].res

\* Every stored verdict is the one the documented precedence table gives.
VerdictFollowsTable ==
  \A r \in Ref : sub[r] # NoSub /\ Consistent(sub[r]) => FollowsTable(sub[r], server[r])

\* A pair counted in the probation belongs to a submission against that
\* revision, its AI half is for ever the job's server verdict, and a human
\* decided the job, whatever amendments, retries and crashes came since.
CountedPairStands ==
  \A r \in Ref : rows[r] # NoRow =>
    /\ sub[r] # NoSub /\ sub[r].known
    /\ rows[r].ai = server[r]
    /\ rows[r].human \in Decision /\ decision[r] # "none"

\* No retry, decision or amendment changes a stored submission or verdict, or
\* takes a decision back.
VerdictIsFinal ==
  [][\A r \in Ref :
       /\ sub[r] # NoSub => sub'[r] = sub[r] /\ server'[r] = server[r]
       /\ decision[r] # "none" => decision'[r] # "none"]_subVars

\* Every step is, for the probation, one half of one of its own operations, its
\* rollback or nothing: whatever ProbationTx keeps, the verdict flow keeps.
VerdictDrivesProbation == TxSpec
=============================================================================
