--------------------------- MODULE RequestsProofs ---------------------------
(***************************************************************************)
(* Theorems about the components that serve requests: the inspector's      *)
(* verdict, captures and their jobs, the Pad's desk, the studio, source    *)
(* ingestion, the legacy inspection, preanalysis and video.  They share no *)
(* state; each has its own inductive invariant.                            *)
(***************************************************************************)
EXTENDS Inspector, LiveCapture, PadDesk, Studio, Sources, LegacyQC, Preanalysis, Video,
        FiniteSetTheorems, WellFoundedInduction, TLAPS

-----------------------------------------------------------------------------
\* What an appended sequence holds.
LEMMA AppendHolds ==
  ASSUME NEW S, NEW seq \in Seq(S), NEW x \in S
  PROVE  /\ Append(seq, x) \in Seq(S)
         /\ \A p \in DOMAIN Append(seq, x) :
              (p \in DOMAIN seq /\ Append(seq, x)[p] = seq[p]) \/ (p = Len(seq) + 1 /\ Append(seq, x)[p] = x)
  OBVIOUS
-----------------------------------------------------------------------------
(* The inspector's verdict.  An inspection carries the status, the points   *)
(* and the categories its caller read; what is stored is computed of those. *)

GuardInv ==
  /\ call # NoCall =>
       /\ call.reason \in {"", "precondition"}
       /\ call.reason = "" => call.status \in {"on_trial", "active", "suspended"} /\ DOMAIN call.points # {}
  /\ PassIsGuarded

\* What a model's valid answer is finalized to.
LEMMA FinalizeMeans ==
  ASSUME NEW points, NEW response
  PROVE  LET out == Finalize(points, response)
             said(p, result) == /\ ItemOn(response, p).result = result
                                /\ p \in Proves => ItemOn(response, p).evidence
         IN /\ DOMAIN out.results = DOMAIN points
            /\ out.overall = "pass" =>
                 /\ response.valid /\ response.acceptable /\ ~response.issues /\ response.incidental # "critical"
                 /\ \A p \in DOMAIN points : points[p] = "visual_defect" /\ said(p, "pass")
            /\ response.valid /\ (\E p \in DOMAIN points \cap Critical : points[p] = "visual_defect" /\ said(p, "fail"))
                 => out.overall = "fail"
  <1> DEFINE results == [p \in DOMAIN points |-> FinalizeCheckpoint(p, points[p], ItemOn(response, p))]
             overall == DeriveOverall(results, EvaluateCaptureQuality(response), response.incidental)
             out == Finalize(points, response)
             said(p, result) == /\ ItemOn(response, p).result = result
                                /\ p \in Proves => ItemOn(response, p).evidence
  <1>1. CASE ~response.valid
    BY <1>1 DEF Finalize, ReviewRequired
  <1>2. CASE response.valid
    <2>1. out.overall = overall /\ out.results = results
      BY <1>2 DEF Finalize
    <2>2. \A p \in DOMAIN points : results[p] = FinalizeCheckpoint(p, points[p], ItemOn(response, p))
      OBVIOUS
    <2>3. \A p \in DOMAIN points : results[p] = "pass" => points[p] = "visual_defect" /\ said(p, "pass")
      BY <2>2 DEF FinalizeCheckpoint, AiPrimary
    <2>4. \A p \in DOMAIN points : points[p] = "visual_defect" /\ said(p, "fail") => results[p] = "fail"
      BY <2>2 DEF FinalizeCheckpoint, AiPrimary
    <2>5. \A p \in DOMAIN points : results[p] \in {"pass", "fail", "review_required"}
      BY <2>2 DEF FinalizeCheckpoint
    <2>6. DOMAIN results = DOMAIN points
      OBVIOUS
    <2> HIDE DEF results, said
    <2>7. overall = "pass" =>
            /\ EvaluateCaptureQuality(response) /\ response.incidental # "critical"
            /\ \A p \in DOMAIN points : results[p] = "pass"
      BY <2>5, <2>6 DEF DeriveOverall
    <2>8. (\E p \in DOMAIN points \cap Critical : results[p] = "fail") => overall = "fail"
      BY <2>6 DEF DeriveOverall
    <2> HIDE DEF overall
    <2>9. out.overall = "pass" =>
            /\ response.valid /\ response.acceptable /\ ~response.issues /\ response.incidental # "critical"
            /\ \A p \in DOMAIN points : points[p] = "visual_defect" /\ said(p, "pass")
      BY <1>2, <2>1, <2>3, <2>7 DEF EvaluateCaptureQuality
    <2>10. (\E p \in DOMAIN points \cap Critical : points[p] = "visual_defect" /\ said(p, "fail")) => out.overall = "fail"
      BY <2>1, <2>4, <2>8
    <2> HIDE DEF out
    <2>11. DOMAIN out.results = DOMAIN points
      BY <2>1, <2>6
    <2> QED
      BY <2>9, <2>10, <2>11 DEF out, said
  <1> QED
    BY <1>1, <1>2

LEMMA GuardFinished ==
  ASSUME GuardInv, NEW response, FinishCall(response)
  PROVE  GuardInv'
  <1> DEFINE out == Finalize(call.points, response)
             said(p, result) == /\ ItemOn(response, p).result = result
                                /\ p \in Proves => ItemOn(response, p).evidence
  <1>1. /\ call # NoCall /\ call' = NoCall
        /\ call.reason \in {"", "precondition"}
        /\ call.reason = "" => call.status \in {"on_trial", "active", "suspended"} /\ DOMAIN call.points # {}
    BY DEF FinishCall, GuardInv
  <1>2. /\ DOMAIN out.results = DOMAIN call.points
        /\ out.overall = "pass" =>
             /\ response.valid /\ response.acceptable /\ ~response.issues /\ response.incidental # "critical"
             /\ \A p \in DOMAIN call.points : call.points[p] = "visual_defect" /\ said(p, "pass")
        /\ response.valid /\ (\E p \in DOMAIN call.points \cap Critical : call.points[p] = "visual_defect" /\ said(p, "fail"))
             => out.overall = "fail"
    BY FinalizeMeans
  <1>3. given'.call = call /\ given'.response = response
    BY DEF FinishCall
  <1>4. CASE call.reason # ""
    <2>1. given'.overall = "review_required" /\ DOMAIN given'.results = DOMAIN call.points
      BY <1>4 DEF FinishCall, ReviewRequired
    <2> QED
      BY <1>1, <1>3, <1>4, <2>1 DEF GuardInv, PassIsGuarded
  <1>5. CASE call.reason = "" /\ call.status = "suspended"
    <2>1. given'.overall = "review_required" /\ DOMAIN given'.results = DOMAIN call.points
      BY <1>2, <1>5 DEF FinishCall, ApplyLifecyclePolicy, ReviewRequired
    <2> QED
      BY <1>1, <1>3, <1>5, <2>1 DEF GuardInv, PassIsGuarded
  <1>6. CASE call.reason = "" /\ call.status \in {"on_trial", "active"}
    <2>1. given'.overall = out.overall /\ given'.results = out.results /\ (call.status = "on_trial" => given'.human)
      <3>1. \E h : out = [overall |-> out.overall, results |-> out.results, human |-> h]
        BY DEF Finalize, ReviewRequired
      <3> HIDE DEF out
      <3> QED
        BY <1>6, <3>1 DEF FinishCall, ApplyLifecyclePolicy, out
    <2> HIDE DEF out
    <2> QED
      BY <1>1, <1>2, <1>3, <1>6, <2>1, ZenonT(30) DEF GuardInv, PassIsGuarded
  <1> QED
    BY <1>1, <1>4, <1>5, <1>6

LEMMA GuardInitially == InspectorInit => GuardInv
  <1> SUFFICES ASSUME InspectorInit
               PROVE  GuardInv
    OBVIOUS
  <1>1. /\ given.call.status = "none" /\ DOMAIN given.call.points = {}
        /\ DOMAIN given.results = {} /\ given.overall = "none"
    BY DEF InspectorInit, NoneGiven, NoCall
  <1>2. call = NoCall
    BY DEF InspectorInit
  <1> QED
    BY <1>1, <1>2 DEF GuardInv, PassIsGuarded

LEMMA GuardNext == GuardInv /\ [InspectorNext]_inspectorVars => GuardInv'
  <1> SUFFICES ASSUME GuardInv, [InspectorNext]_inspectorVars
               PROVE  GuardInv'
    OBVIOUS
  <1>same. ASSUME UNCHANGED <<call, given>>
           PROVE  GuardInv'
    BY <1>same DEF GuardInv, PassIsGuarded
  <1>1. ASSUME NEW image \in BOOLEAN, BeginCall(image)
        PROVE  GuardInv'
    <2>1. /\ UNCHANGED given /\ call'.status = inspector.status /\ DOMAIN call'.points = ConfirmedPoints
          /\ call'.reason = IF Preconditions(image) THEN "" ELSE "precondition"
      BY <1>1 DEF BeginCall
    <2> QED
      BY <2>1 DEF GuardInv, PassIsGuarded, Preconditions
  <1>2. ASSUME NEW response \in Responses, FinishCall(response)
        PROVE  GuardInv'
    BY <1>2, GuardFinished
  <1>3. ASSUME \/ \E target \in DOMAIN Transitions : Move(target)
               \/ \E falsePasses \in {0, 1}, enough \in BOOLEAN : TakeExam(falsePasses, [accuracy |-> enough])
               \/ \E misjudgment \in {"none", "false_pass"}, human \in {"pass", "fail"} :
                    ProcessHumanFeedback(misjudgment, human)
        PROVE  GuardInv'
    BY <1>3, <1>same DEF Move, TakeExam, ProcessHumanFeedback
  <1>4. ASSUME \/ \E part \in {"playbook", "reference", "protocol"} : SetUpPack(part)
               \/ \E p \in DetPoint, category \in Supported \cup {"odd"} : ConfirmPoint(p, category)
               \/ \E p \in DetPoint, measured \in BOOLEAN :
                    \/ EnsureClassification(p, measured)
                    \/ \E category \in Supported : ConfirmCategory(p, category, measured)
        PROVE  GuardInv'
    BY <1>4, <1>same DEF SetUpPack, ConfirmPoint, EnsureClassification, ConfirmCategory
  <1>5. CASE UNCHANGED inspectorVars
    BY <1>5, <1>same DEF inspectorVars
  <1> QED
    BY <1>1, <1>2, <1>3, <1>4, <1>5 DEF InspectorNext

\* A pass is never more than the model's own words on visual points allow, and a
\* critical failure on an acceptable capture is softened by nothing but suspension
\* (finalizer.py), for any
\* answers, points and order of calls, moves and feedback.
THEOREM PassGuarded == InspectorSpec => []PassIsGuarded
  <1>1. GuardInv => PassIsGuarded
    BY DEF GuardInv
  <1> QED
    BY <1>1, GuardInitially, GuardNext, PTL DEF InspectorSpec
-----------------------------------------------------------------------------
(* Captures and their jobs.  Between its commits an upload is the only one   *)
(* that knows its capture: the row stays pending, no other upload is of it,  *)
(* and the jobs made of it are those the upload made.                        *)

Shot == [session : Links \cup {Nobody}, status : {"pending", "failed", "dispatched"}, job : Nat]
TicketStatus == {"queued", "leased", "completed", "manual_review", "cancelled"}
Ticket == [shot : Nat, status : TicketStatus, holder : Links \cup {Nobody}, results : SUBSET (Links \cup {Cpu})]
Stages == {"none", "accepted", "saved", "queued", "alone", "routed"}
Request == [at : Stages, session : Links \cup {Nobody}, shot : Nat, job : Nat]
Reading == [does : {"none", "lease", "store"}, job : Nat]

MadeOf(tk, n) == {j \in DOMAIN tk : tk[j].shot = n}
HasShot(g) == g.at \in {"saved", "queued", "alone", "routed"}
HasJob(g) == g.at \in {"queued", "alone", "routed"}

\* What an upload under way knows of the rows it committed.
Follows(g, sh, tk) ==
  HasShot(g) =>
    /\ g.shot \in DOMAIN sh /\ sh[g.shot].status = "pending"
    /\ MadeOf(tk, g.shot) = IF HasJob(g) THEN {g.job} ELSE {}

CaptureInv ==
  /\ shots \in Seq(Shot) /\ tickets \in Seq(Ticket)
  /\ ingest \in [Camera -> Request] /\ pulling \in [Links -> Reading]
  /\ \A j \in DOMAIN tickets : tickets[j].shot \in DOMAIN shots
  /\ \A c \in Camera : Follows(ingest[c], shots, tickets)
  /\ \A c, d \in Camera : c # d /\ HasShot(ingest[c]) /\ HasShot(ingest[d]) => ingest[c].shot # ingest[d].shot
  /\ \A s \in Links : pulling[s].does # "none" => pulling[s].job \in DOMAIN tickets
  /\ \A n \in DOMAIN shots :
       /\ shots[n].status = "dispatched" => MadeOf(tickets, n) = {shots[n].job}
       /\ shots[n].status # "dispatched" => shots[n].job = 0
       /\ \A j, k \in MadeOf(tickets, n) : j = k
  /\ \A j \in DOMAIN tickets : tickets[j].status = "completed" => tickets[j].results # {}

\* An upload keeps what it knows, gives up, or moves on with its job.
Onward(g, h) ==
  \/ h = g
  \/ ~HasShot(h)
  \/ HasJob(g) /\ HasJob(h) /\ h.shot = g.shot /\ h.job = g.job

\* A step that makes no capture and no job, and moves no capture's row.
LEMMA JobsKept ==
  ASSUME CaptureInv, UNCHANGED shots, tickets' \in Seq(Ticket), DOMAIN tickets' = DOMAIN tickets,
         \A j \in DOMAIN tickets : /\ tickets'[j].shot = tickets[j].shot
                                   /\ tickets'[j].status = "completed" => tickets'[j].results # {},
         ingest' \in [Camera -> Request], \A c \in Camera : Onward(ingest[c], ingest'[c]),
         pulling' \in [Links -> Reading],
         \A s \in Links : pulling'[s].does # "none" => pulling'[s].job \in DOMAIN tickets
  PROVE  CaptureInv'
  <1>1. \A n : MadeOf(tickets', n) = MadeOf(tickets, n)
    BY DEF MadeOf
  <1>2. \A c \in Camera : Follows(ingest'[c], shots', tickets')
    <2> SUFFICES ASSUME NEW c \in Camera, HasShot(ingest'[c])
                 PROVE  Follows(ingest'[c], shots, tickets')
      BY DEF Follows
    <2>1. /\ HasShot(ingest[c]) /\ ingest'[c].shot = ingest[c].shot
          /\ HasJob(ingest'[c]) = HasJob(ingest[c]) /\ (HasJob(ingest[c]) => ingest'[c].job = ingest[c].job)
      BY DEF Onward, HasShot, HasJob
    <2>2. Follows(ingest[c], shots, tickets)
      BY DEF CaptureInv
    <2> QED
      BY <1>1, <2>1, <2>2 DEF Follows
  <1>3. \A c, d \in Camera : c # d /\ HasShot(ingest'[c]) /\ HasShot(ingest'[d]) => ingest'[c].shot # ingest'[d].shot
    BY DEF CaptureInv, Onward, HasShot, HasJob
  <1> QED
    BY <1>1, <1>2, <1>3 DEF CaptureInv

\* One job's row is written, for the same capture.
LEMMA JobWritten ==
  ASSUME CaptureInv, NEW x \in DOMAIN tickets, NEW row \in Ticket, row.shot = tickets[x].shot,
         row.status = "completed" => row.results # {}, tickets' = [tickets EXCEPT ![x] = row]
  PROVE  /\ tickets' \in Seq(Ticket) /\ DOMAIN tickets' = DOMAIN tickets
         /\ \A j \in DOMAIN tickets : /\ tickets'[j].shot = tickets[j].shot
                                      /\ tickets'[j].status = "completed" => tickets'[j].results # {}
  <1>1. tickets \in Seq(Ticket)
    BY DEF CaptureInv
  <1>2. tickets' \in Seq(Ticket) /\ DOMAIN tickets' = DOMAIN tickets
    BY <1>1
  <1>3. \A j \in DOMAIN tickets : tickets'[j] = IF j = x THEN row ELSE tickets[j]
    BY <1>1
  <1> QED
    BY <1>2, <1>3 DEF CaptureInv

LEMMA UploadSteps ==
  ASSUME CaptureInv, NEW c \in Camera, SaveShot(c) \/ QueueTicket(c) \/ RefuseTicket(c) \/ LinkShot(c)
  PROVE  CaptureInv'
  <1> DEFINE g == ingest[c]
             n == g.shot
  <1>0. g \in Request /\ Follows(g, shots, tickets) /\ n \in Nat /\ g.job \in Nat
    BY DEF CaptureInv, Request
  <1>typed. shots \in Seq(Shot) /\ tickets \in Seq(Ticket) /\ ingest \in [Camera -> Request]
    BY DEF CaptureInv
  <1>1. ASSUME SaveShot(c)
        PROVE  CaptureInv'
    <2> DEFINE new == [session |-> g.session, status |-> "pending", job |-> 0]
               m == Len(shots) + 1
               h == [g EXCEPT !.at = "saved", !.shot = m]
    <2>1. new \in Shot /\ new.status = "pending" /\ new.job = 0
      BY <1>0 DEF Shot, Request
    <2>2. m \in Nat /\ m \notin DOMAIN shots
      BY <1>typed
    <2>3. h \in Request /\ h.shot = m /\ h.at = "saved"
      BY <1>0, <2>2 DEF Request, Stages
    <2>4. shots' = Append(shots, new) /\ ingest' = [ingest EXCEPT ![c] = h] /\ UNCHANGED <<tickets, pulling>>
      BY <1>1 DEF SaveShot
    <2> HIDE DEF new, h
    <2>5. /\ shots' \in Seq(Shot) /\ DOMAIN shots' = DOMAIN shots \cup {m} /\ shots'[m] = new
          /\ \A i \in DOMAIN shots : shots'[i] = shots[i]
      BY <1>typed, <2>1, <2>4
    <2>6. ingest' \in [Camera -> Request] /\ \A d \in Camera : ingest'[d] = IF d = c THEN h ELSE ingest[d]
      BY <1>typed, <2>3, <2>4
    <2> HIDE DEF m
    <2>7. MadeOf(tickets, m) = {}
      BY <2>2 DEF CaptureInv, MadeOf
    <2>8. \A d \in Camera : Follows(ingest'[d], shots', tickets')
      <3>1. Follows(ingest'[c], shots', tickets')
        BY <2>1, <2>3, <2>4, <2>5, <2>6, <2>7 DEF Follows, HasJob
      <3>2. ASSUME NEW d \in Camera, d # c
            PROVE  Follows(ingest'[d], shots', tickets')
        <4>1. Follows(ingest[d], shots, tickets) /\ ingest'[d] = ingest[d] /\ tickets' = tickets
          BY <2>4, <2>6, <3>2 DEF CaptureInv
        <4> QED
          BY <2>5, <4>1 DEF Follows
      <3> QED
        BY <3>1, <3>2
    <2>9. \A d, e \in Camera : d # e /\ HasShot(ingest'[d]) /\ HasShot(ingest'[e]) => ingest'[d].shot # ingest'[e].shot
      BY <2>2, <2>3, <2>6, ZenonT(40) DEF CaptureInv, Follows
    <2>10. \A i \in DOMAIN shots' :
             /\ shots'[i].status = "dispatched" => MadeOf(tickets', i) = {shots'[i].job}
             /\ shots'[i].status # "dispatched" => shots'[i].job = 0
             /\ \A j, k \in MadeOf(tickets', i) : j = k
      BY <2>1, <2>4, <2>5, <2>7 DEF CaptureInv
    <2> QED
      BY <2>4, <2>5, <2>6, <2>8, <2>9, <2>10 DEF CaptureInv
  <1>2. ASSUME QueueTicket(c)
        PROVE  CaptureInv'
    <2> DEFINE new == [shot |-> n, status |-> "queued", holder |-> Nobody, results |-> {}]
               m == Len(tickets) + 1
               h == [g EXCEPT !.at = "queued", !.job = m]
    <2>1. new \in Ticket /\ new.status = "queued" /\ new.shot = n
      BY <1>0 DEF Ticket, TicketStatus
    <2>2. m \in Nat /\ m \notin DOMAIN tickets
      BY <1>typed
    <2>3. h \in Request /\ h.shot = n /\ h.at = "queued" /\ h.job = m
      BY <1>0, <2>2 DEF Request, Stages
    <2>4. /\ tickets' = Append(tickets, new) /\ ingest' = [ingest EXCEPT ![c] = h]
          /\ g.at = "saved" /\ UNCHANGED <<shots, pulling>>
      BY <1>2 DEF QueueTicket
    <2> HIDE DEF new, h
    <2>5. /\ tickets' \in Seq(Ticket) /\ DOMAIN tickets' = DOMAIN tickets \cup {m} /\ tickets'[m] = new
          /\ \A j \in DOMAIN tickets : tickets'[j] = tickets[j]
      BY <1>typed, <2>1, <2>4
    <2>6. ingest' \in [Camera -> Request] /\ \A d \in Camera : ingest'[d] = IF d = c THEN h ELSE ingest[d]
      BY <1>typed, <2>3, <2>4
    <2> HIDE DEF m
    <2>7. n \in DOMAIN shots /\ shots[n].status = "pending" /\ MadeOf(tickets, n) = {}
      BY <1>0, <2>4 DEF Follows, HasShot, HasJob
    <2>8. MadeOf(tickets', n) = {m} /\ \A i : i # n => MadeOf(tickets', i) = MadeOf(tickets, i)
      BY <2>1, <2>2, <2>5, <2>7 DEF MadeOf
    <2>9. \A d \in Camera : HasShot(ingest'[d]) => d = c \/ ingest'[d].shot # n
      BY <2>4, <2>6 DEF CaptureInv, HasShot
    <2>10. \A d \in Camera : Follows(ingest'[d], shots', tickets')
      BY <2>3, <2>4, <2>6, <2>7, <2>8, <2>9 DEF CaptureInv, Follows, HasShot, HasJob
    <2>11. \A d, e \in Camera : d # e /\ HasShot(ingest'[d]) /\ HasShot(ingest'[e]) => ingest'[d].shot # ingest'[e].shot
      BY <2>3, <2>6, <2>9 DEF CaptureInv
    <2>12. \A i \in DOMAIN shots' :
             /\ shots'[i].status = "dispatched" => MadeOf(tickets', i) = {shots'[i].job}
             /\ shots'[i].status # "dispatched" => shots'[i].job = 0
             /\ \A j, k \in MadeOf(tickets', i) : j = k
      <3>1. \A j, k \in MadeOf(tickets', n) : j = k
        <4> HIDE DEF n
        <4> QED
          BY <2>8
      <3>2. \A i \in DOMAIN shots :
              /\ shots[i].status = "dispatched" => MadeOf(tickets, i) = {shots[i].job}
              /\ shots[i].status # "dispatched" => shots[i].job = 0
              /\ \A j, k \in MadeOf(tickets, i) : j = k
        BY DEF CaptureInv
      <3>3. shots' = shots
        BY <2>4
      <3> HIDE DEF n, m
      <3> QED
        BY <2>7, <2>8, <3>1, <3>2, <3>3
    <2>13. \A j \in DOMAIN tickets' : tickets'[j].shot \in DOMAIN shots'
                                      /\ (tickets'[j].status = "completed" => tickets'[j].results # {})
      BY <2>1, <2>4, <2>5, <2>7 DEF CaptureInv
    <2> QED
      BY <2>4, <2>5, <2>6, <2>10, <2>11, <2>12, <2>13 DEF CaptureInv
  <1>3. ASSUME NEW row \in Shot, row.status \in {"dispatched", "failed"}, HasShot(g),
               row.status = "dispatched" => HasJob(g) /\ row.job = g.job,
               row.status = "failed" => row.job = 0,
               shots' = [shots EXCEPT ![n] = row], ingest' = [ingest EXCEPT ![c] = NoRequest],
               UNCHANGED <<tickets, pulling>>
        PROVE  CaptureInv'
    <2>1. n \in DOMAIN shots /\ MadeOf(tickets, n) = (IF HasJob(g) THEN {g.job} ELSE {})
      BY <1>0, <1>3 DEF Follows
    <2>2. shots' \in Seq(Shot) /\ DOMAIN shots' = DOMAIN shots /\ \A i \in DOMAIN shots : shots'[i] = IF i = n THEN row ELSE shots[i]
      <3> HIDE DEF n
      <3> QED
        BY <1>typed, <1>3, <2>1
    <2>3. NoRequest \in Request /\ ~HasShot(NoRequest)
      BY DEF NoRequest, Request, Stages, HasShot, Nobody
    <2> HIDE DEF NoRequest
    <2>4. ingest' \in [Camera -> Request] /\ \A d \in Camera : ingest'[d] = IF d = c THEN NoRequest ELSE ingest[d]
      BY <1>typed, <1>3, <2>3
    <2>5. \A d \in Camera : HasShot(ingest'[d]) => d # c /\ ingest'[d].shot # n
      BY <1>3, <2>3, <2>4 DEF CaptureInv
    <2>6. \A d \in Camera : Follows(ingest'[d], shots', tickets')
      BY <1>3, <2>2, <2>4, <2>5 DEF CaptureInv, Follows
    <2>7. \A i \in DOMAIN shots' :
             /\ shots'[i].status = "dispatched" => MadeOf(tickets', i) = {shots'[i].job}
             /\ shots'[i].status # "dispatched" => shots'[i].job = 0
             /\ \A j, k \in MadeOf(tickets', i) : j = k
      BY <1>3, <2>1, <2>2 DEF CaptureInv
    <2>8. \A d, e \in Camera : d # e /\ HasShot(ingest'[d]) /\ HasShot(ingest'[e]) => ingest'[d].shot # ingest'[e].shot
      BY <2>4, <2>5 DEF CaptureInv
    <2> QED
      BY <1>3, <2>2, <2>4, <2>6, <2>7, <2>8 DEF CaptureInv
  <1>row. HasShot(g) => n \in DOMAIN shots /\ shots[n] \in Shot
    BY <1>0, <1>typed DEF Follows
  <1>4. ASSUME RefuseTicket(c)
        PROVE  CaptureInv'
    <2> DEFINE row == [shots[n] EXCEPT !.status = "failed"]
    <2>1. HasShot(g)
      BY <1>4 DEF RefuseTicket, HasShot
    <2>r. shots[n] \in Shot /\ shots[n].job = 0
      BY <1>0, <1>row, <2>1 DEF CaptureInv, Follows
    <2>2. row \in Shot /\ row.status = "failed" /\ row.job = 0
      BY <2>r DEF Shot
    <2>3. shots' = [shots EXCEPT ![n] = row]
      BY <1>4 DEF RefuseTicket
    <2> HIDE DEF row
    <2> QED
      BY <1>3, <1>4, <2>1, <2>2, <2>3 DEF RefuseTicket
  <1>5. ASSUME LinkShot(c)
        PROVE  CaptureInv'
    <2> DEFINE row == [shots[n] EXCEPT !.status = "dispatched", !.job = g.job]
    <2>1. HasShot(g) /\ HasJob(g)
      BY <1>5 DEF LinkShot, HasShot, HasJob
    <2>2. row \in Shot /\ row.status = "dispatched" /\ row.job = g.job
      BY <1>0, <1>row, <2>1 DEF Shot
    <2>3. shots' = [shots EXCEPT ![n] = row]
      BY <1>5 DEF LinkShot
    <2> HIDE DEF row
    <2> QED
      BY <1>3, <1>5, <2>1, <2>2, <2>3 DEF LinkShot
  <1> QED
    BY <1>1, <1>2, <1>4, <1>5

LEMMA CaptureInitially == CaptureInit => CaptureInv
  <1> SUFFICES ASSUME CaptureInit
               PROVE  CaptureInv
    OBVIOUS
  <1>1. shots = <<>> /\ tickets = <<>> /\ shots \in Seq(Shot) /\ tickets \in Seq(Ticket)
        /\ DOMAIN shots = {} /\ DOMAIN tickets = {}
    BY DEF CaptureInit
  <1>2. NoRequest \in Request /\ ~HasShot(NoRequest) /\ NoRead \in Reading /\ NoRead.does = "none"
    BY DEF NoRequest, Request, Stages, HasShot, Nobody, NoRead, Reading
  <1> QED
    BY <1>1, <1>2 DEF CaptureInit, CaptureInv, Follows

LEMMA CaptureNextInv == CaptureInv /\ [CaptureNext]_captureVars => CaptureInv'
  <1> SUFFICES ASSUME CaptureInv, [CaptureNext]_captureVars
               PROVE  CaptureInv'
    OBVIOUS
  <1>typed. /\ tickets \in Seq(Ticket) /\ ingest \in [Camera -> Request] /\ pulling \in [Links -> Reading]
            /\ \A c \in Camera : Onward(ingest[c], ingest[c])
            /\ \A s \in Links : pulling[s].does # "none" => pulling[s].job \in DOMAIN tickets
            /\ \A j \in DOMAIN tickets : tickets[j].status = "completed" => tickets[j].results # {}
    BY DEF CaptureInv, Onward
  <1>none. NoRequest \in Request /\ ~HasShot(NoRequest) /\ NoRead \in Reading /\ NoRead.does = "none"
    BY DEF NoRequest, Request, Stages, HasShot, Nobody, NoRead, Reading
  <1>same. ASSUME UNCHANGED <<shots, tickets, ingest, pulling>>
           PROVE  CaptureInv'
    BY <1>same, <1>typed, JobsKept
  <1>moved. ASSUME NEW c \in Camera, NEW h \in Request, Onward(ingest[c], h),
                   ingest' = [ingest EXCEPT ![c] = h], UNCHANGED <<shots, tickets, pulling>>
            PROVE  CaptureInv'
    <2>1. ingest' \in [Camera -> Request] /\ \A d \in Camera : Onward(ingest[d], ingest'[d])
      BY <1>moved, <1>typed
    <2> QED
      BY <1>moved, <1>typed, <2>1, JobsKept
  <1>1. ASSUME NEW s \in Links, UploadShot(s)
        PROVE  CaptureInv'
    <2> DEFINE c == s[1]
               h == [NoRequest EXCEPT !.at = "accepted", !.session = s]
    <2>1. c \in Camera
      BY DEF Links
    <2>2. h \in Request /\ ~HasShot(h)
      BY DEF NoRequest, Request, Stages, HasShot
    <2>3. ingest' = ingest \/ ingest' = [ingest EXCEPT ![c] = h]
      BY <1>1 DEF UploadShot
    <2> HIDE DEF h
    <2> QED
      BY <1>1, <1>same, <1>moved, <2>1, <2>2, <2>3 DEF UploadShot, Onward
  <1>2. ASSUME NEW c \in Camera, NEW heard, RouteTicket(c, heard)
        PROVE  CaptureInv'
    <2> DEFINE to == IF heard # {} \/ tickets[ingest[c].job].status # "queued" THEN "routed" ELSE "alone"
               h == [ingest[c] EXCEPT !.at = to]
    <2>1. h \in Request /\ HasJob(h) /\ HasJob(ingest[c]) /\ h.shot = ingest[c].shot /\ h.job = ingest[c].job
      BY <1>2, <1>typed DEF RouteTicket, HasJob, Request, Stages
    <2>2. ingest' = [ingest EXCEPT ![c] = h] /\ UNCHANGED <<shots, tickets, pulling>>
      BY <1>2 DEF RouteTicket
    <2> HIDE DEF h
    <2> QED
      BY <1>moved, <2>1, <2>2 DEF Onward
  <1>3. ASSUME NEW c \in Camera, UploadDies(c)
        PROVE  CaptureInv'
    BY <1>3, <1>moved, <1>none DEF UploadDies, Onward
  <1>4. ASSUME NEW c \in Camera, RunAlone(c)
        PROVE  CaptureInv'
    <2> DEFINE x == ingest[c].job
               row == IF Fallback THEN FallbackRow(tickets[x]) ELSE [tickets[x] EXCEPT !.status = "manual_review"]
               h == [ingest[c] EXCEPT !.at = "routed"]
    <2>1. HasShot(ingest[c]) /\ HasJob(ingest[c])
      BY <1>4 DEF RunAlone, HasShot, HasJob
    <2>2. x \in DOMAIN tickets
      BY <2>1 DEF CaptureInv, Follows, MadeOf
    <2>3. tickets[x] \in Ticket
      BY <1>typed, <2>2
    <2>4. row \in Ticket /\ row.shot = tickets[x].shot /\ (row.status = "completed" => row.results # {})
      BY <2>3 DEF Ticket, TicketStatus, FallbackRow
    <2>5. h \in Request /\ HasJob(h) /\ h.shot = ingest[c].shot /\ h.job = ingest[c].job
      BY <1>typed DEF HasJob, Request, Stages
    <2>6. tickets' = [tickets EXCEPT ![x] = row] /\ ingest' = [ingest EXCEPT ![c] = h] /\ UNCHANGED <<shots, pulling>>
      BY <1>4 DEF RunAlone
    <2> HIDE DEF row, h, x
    <2>7. /\ tickets' \in Seq(Ticket) /\ DOMAIN tickets' = DOMAIN tickets
          /\ \A j \in DOMAIN tickets : /\ tickets'[j].shot = tickets[j].shot
                                       /\ tickets'[j].status = "completed" => tickets'[j].results # {}
      BY <2>2, <2>4, <2>6, JobWritten
    <2>8. ingest' \in [Camera -> Request] /\ \A d \in Camera : Onward(ingest[d], ingest'[d])
      BY <1>typed, <2>1, <2>5, <2>6 DEF Onward
    <2> QED
      BY <1>typed, <2>6, <2>7, <2>8, JobsKept
  <1>5. ASSUME NEW x \in DOMAIN tickets, NEW row \in Ticket, row.shot = tickets[x].shot,
               row.status = "completed" => row.results # {}, tickets' = [tickets EXCEPT ![x] = row],
               pulling' \in [Links -> Reading],
               \A s \in Links : pulling'[s].does # "none" => pulling'[s] = pulling[s],
               UNCHANGED <<shots, ingest>>
        PROVE  CaptureInv'
    <2>1. /\ tickets' \in Seq(Ticket) /\ DOMAIN tickets' = DOMAIN tickets
          /\ \A j \in DOMAIN tickets : /\ tickets'[j].shot = tickets[j].shot
                                       /\ tickets'[j].status = "completed" => tickets'[j].results # {}
      BY <1>5, JobWritten
    <2>2. \A s \in Links : pulling'[s].does # "none" => pulling'[s].job \in DOMAIN tickets
      BY <1>5, <1>typed
    <2> QED
      BY <1>5, <1>typed, <2>1, <2>2, JobsKept
  <1>6. ASSUME NEW s \in Links, LeaseTicket(s)
        PROVE  CaptureInv'
    <2> DEFINE x == pulling[s].job
               row == [tickets[x] EXCEPT !.status = "leased", !.holder = s]
    <2>1. x \in DOMAIN tickets
      BY <1>6, <1>typed DEF LeaseTicket
    <2>r. tickets[x] \in Ticket
      BY <1>typed, <2>1
    <2>2. row \in Ticket /\ row.shot = tickets[x].shot /\ row.status # "completed"
      BY <2>r DEF Ticket, TicketStatus
    <2>3. tickets' = [tickets EXCEPT ![x] = row] /\ pulling' = [pulling EXCEPT ![s] = NoRead] /\ UNCHANGED <<shots, ingest>>
      BY <1>6 DEF LeaseTicket
    <2> HIDE DEF row, x
    <2>4. pulling' \in [Links -> Reading] /\ \A r \in Links : pulling'[r].does # "none" => pulling'[r] = pulling[r]
      BY <1>typed, <1>none, <2>3
    <2> QED
      BY <1>5, <2>1, <2>2, <2>3, <2>4
  <1>7. ASSUME NEW s \in Links, StoreResult(s)
        PROVE  CaptureInv'
    <2> DEFINE x == pulling[s].job
               row == [tickets[x] EXCEPT !.status = "completed", !.results = @ \cup {s}]
    <2>1. x \in DOMAIN tickets
      BY <1>7, <1>typed DEF StoreResult
    <2>r. tickets[x] \in Ticket
      BY <1>typed, <2>1
    <2>2. row \in Ticket /\ row.shot = tickets[x].shot /\ row.results # {}
      BY <2>r DEF Ticket, TicketStatus
    <2>3. tickets' = [tickets EXCEPT ![x] = row] /\ pulling' = [pulling EXCEPT ![s] = NoRead] /\ UNCHANGED <<shots, ingest>>
      BY <1>7 DEF StoreResult
    <2> HIDE DEF row, x
    <2>4. pulling' \in [Links -> Reading] /\ \A r \in Links : pulling'[r].does # "none" => pulling'[r] = pulling[r]
      BY <1>typed, <1>none, <2>3
    <2> QED
      BY <1>5, <2>1, <2>2, <2>3, <2>4
  <1>8. ASSUME NEW j \in DOMAIN tickets, CancelTicket(j)
        PROVE  CaptureInv'
    <2> DEFINE row == [tickets[j] EXCEPT !.status = "cancelled", !.holder = Nobody]
    <2>r. tickets[j] \in Ticket
      BY <1>typed
    <2>1. row \in Ticket /\ row.shot = tickets[j].shot /\ row.status # "completed"
      BY <2>r DEF Ticket, TicketStatus
    <2>2. tickets' = [tickets EXCEPT ![j] = row] /\ UNCHANGED <<shots, ingest, pulling>>
      BY <1>8 DEF CancelTicket
    <2> HIDE DEF row
    <2> QED
      BY <1>5, <1>typed, <2>1, <2>2
  <1>9. ASSUME NEW s \in Links, NEW j \in DOMAIN tickets, ReadQueue(s, j) \/ CheckResult(s, j)
        PROVE  CaptureInv'
    <2> DEFINE lease == [does |-> "lease", job |-> j]
               store == [does |-> "store", job |-> j]
    <2>1. lease \in Reading /\ lease.job = j /\ store \in Reading /\ store.job = j
      BY <1>typed DEF Reading
    <2>2. (pulling' = [pulling EXCEPT ![s] = lease] \/ pulling' = [pulling EXCEPT ![s] = store])
          /\ UNCHANGED <<shots, tickets, ingest>>
      BY <1>9 DEF ReadQueue, CheckResult
    <2> HIDE DEF lease, store
    <2>3. /\ pulling' \in [Links -> Reading]
          /\ \A r \in Links : pulling'[r].does # "none" => pulling'[r].job \in DOMAIN tickets
      BY <1>typed, <2>1, <2>2
    <2> QED
      BY <1>typed, <2>2, <2>3, JobsKept
  <1>10. ASSUME NEW c \in Camera, NEW o,
                Reconnect(c) \/ GoUnready(c) \/ Observe(c, o) \/ CooldownEnds(c, o)
         PROVE  CaptureInv'
    BY <1>10, <1>same DEF Reconnect, GoUnready, Observe, CooldownEnds
  <1>11. CASE UNCHANGED captureVars
    BY <1>11, <1>same DEF captureVars
  <1> QED
    BY <1>1, <1>2, <1>3, <1>4, <1>6, <1>7, <1>8, <1>9, <1>10, <1>11, UploadSteps DEF CaptureNext

\* What the row of a capture says of its job holds wherever uploads stop between
\* their commits (captures.py), for any number of devices, sessions and jobs.
THEOREM ShotTells == CaptureSpec => []ShotTellsItsJob
  <1>1. CaptureInv => ShotTellsItsJob
    BY DEF CaptureInv, ShotTellsItsJob, MadeOf
  <1> QED
    BY <1>1, CaptureInitially, CaptureNextInv, PTL DEF CaptureSpec
-----------------------------------------------------------------------------
(* The Pad's desk.  What a gate saw only grows: revisions are published,     *)
(* bundles built, assigned and reported for good, and an active revision     *)
(* gives way only by being archived.  A job keeps the gate it passed.        *)

InForce == {"active", "archived"}
Revision == [points : SUBSET Item, status : {"draft"} \cup InForce]
Gate == [rev : Nat, stage : {"none", "draft", "ready_for_review", "confirmed", "published",
                             "installed_on_pad", "probation", "active_inspection"},
         place : Place \cup {Nowhere}]
Session == [in : BOOLEAN, place : Place \cup {Nowhere}, chat : Nat,
            confirming : {<<>>} \cup (Nat \X Nat \X SUBSET Item), creating : BOOLEAN, gate : Gate]
Draft == [status : {"received", "pending_confirmation", "confirmed"}, points : SUBSET Item]
Station == [given : SUBSET Release, assigned : Release \cup {NoRelease},
            installed : Release \cup {NoRelease}, reported : SUBSET Release]
Mark == {"none", "model", "operator"}
Job == [rev : Nat, gate : Gate, media : BOOLEAN, analysis : {"none", "asked", "stored"},
        report : BOOLEAN, results : UNION {[P -> Mark] : P \in SUBSET Item}]

DeskTypes ==
  /\ seat \in [Seat -> Session] /\ drafts \in Seq(Draft) /\ standards \in Seq(Revision)
  /\ release \in [Release -> Nat] /\ place \in [Place -> Station] /\ work \in Seq(Job)

\* What gate g saw is so of revisions st, publications pb, stations pl and bundles rl.
GateOK(g, st, pb, pl, rl) ==
  g.rev # 0 =>
    /\ g.rev \in DOMAIN st /\ st[g.rev].status \in InForce /\ g.rev \in pb
    /\ g.stage \in {"published", "installed_on_pad", "probation", "active_inspection"}
    /\ g.place # Nowhere => \E v \in pl[g.place].given \cap pl[g.place].reported : rl[v] = g.rev

\* Job k stands on a revision in force, its own gate and, once reviewed, on media.
JobOK(k, st, pb, pl, rl) ==
  /\ k.rev \in DOMAIN st /\ st[k.rev].status \in InForce /\ DOMAIN k.results = st[k.rev].points
  /\ GateOK(k.gate, st, pb, pl, rl)
  /\ k.gate.rev # 0 => k.rev = k.gate.rev \/ st[k.gate.rev].status = "archived"
  /\ (\E p \in DOMAIN k.results : k.results[p] = "operator") => k.media

OneActive == \A r, q \in DOMAIN standards : standards[r].status = "active" /\ standards[q].status = "active" => r = q
Confirming == \A s \in Seat : seat[s].confirming # <<>> => seat[s].confirming[1] \in DOMAIN standards
Reported == \A w \in Place : place[w].installed \in place[w].reported \cup {NoRelease}

DeskInv ==
  /\ DeskTypes /\ OneActive /\ Confirming /\ Reported
  /\ \A s \in Seat : GateOK(seat[s].gate, standards, published, place, release)
  /\ \A j \in DOMAIN work : JobOK(work[j], standards, published, place, release)

\* What a step of the desk may do to what gates look at.
Grows ==
  /\ \A r \in DOMAIN standards : standards[r].status \in InForce =>
       /\ r \in DOMAIN standards' /\ standards'[r].status \in InForce /\ standards'[r].points = standards[r].points
       /\ standards[r].status = "archived" => standards'[r].status = "archived"
  /\ published \subseteq published'
  /\ \A v \in Release : release[v] # 0 => release'[v] = release[v]
  /\ \A w \in Place : place[w].given \subseteq place'[w].given /\ place[w].reported \subseteq place'[w].reported

LEMMA GateLasts ==
  ASSUME DeskTypes, Grows, NEW g \in Gate, GateOK(g, standards, published, place, release)
  PROVE  GateOK(g, standards', published', place', release')
  <1> SUFFICES ASSUME g.rev # 0
               PROVE  GateOK(g, standards', published', place', release')
    BY DEF GateOK
  <1>1. /\ g.rev \in DOMAIN standards' /\ standards'[g.rev].status \in InForce /\ g.rev \in published'
        /\ g.stage \in {"published", "installed_on_pad", "probation", "active_inspection"}
    BY DEF GateOK, Grows
  <1>2. ASSUME g.place # Nowhere
        PROVE  \E v \in place'[g.place].given \cap place'[g.place].reported : release'[v] = g.rev
    <2>1. PICK v \in place[g.place].given \cap place[g.place].reported : release[v] = g.rev
      BY <1>2 DEF GateOK
    <2>2. g.place \in Place /\ place[g.place] \in Station
      BY <1>2 DEF Gate, DeskTypes
    <2>3. v \in Release
      BY <2>2 DEF Station
    <2> QED
      BY <2>1, <2>2, <2>3 DEF Grows
  <1> QED
    BY <1>1, <1>2 DEF GateOK

LEMMA JobLasts ==
  ASSUME DeskTypes, Grows, NEW k \in Job, JobOK(k, standards, published, place, release)
  PROVE  JobOK(k, standards', published', place', release')
  <1>1. k.gate \in Gate /\ GateOK(k.gate, standards, published, place, release)
    BY DEF Job, JobOK
  <1>2. GateOK(k.gate, standards', published', place', release')
    BY <1>1, GateLasts
  <1>3. k.gate.rev # 0 => k.gate.rev \in DOMAIN standards /\ standards[k.gate.rev].status \in InForce
    BY <1>1 DEF GateOK
  <1> QED
    BY <1>2, <1>3 DEF JobOK, Grows

\* The active revision is the current one, and there is no other.
LEMMA CurrentIs ==
  ASSUME DeskTypes, OneActive
  PROVE  /\ Current # 0 => Current \in DOMAIN standards /\ standards[Current].status = "active"
         /\ \A r \in DOMAIN standards : standards[r].status = "active" => r = Current
         /\ Current \in Nat
  <1> DEFINE active == {r \in DOMAIN standards : standards[r].status = "active"}
  <1>1. Current = IF active = {} THEN 0 ELSE CHOOSE r \in active : TRUE
    BY DEF Current
  <1>2. active # {} => (CHOOSE r \in active : TRUE) \in active
    OBVIOUS
  <1>3. DOMAIN standards \subseteq Nat
    BY DEF DeskTypes
  <1> QED
    BY <1>1, <1>2, <1>3 DEF OneActive

\* A step that makes or moves no job.
LEMMA DeskGrows ==
  ASSUME DeskInv, Grows, DeskTypes', OneActive', Confirming', Reported', UNCHANGED work,
         \A s \in Seat : \/ seat'[s].gate = seat[s].gate
                         \/ GateOK(seat'[s].gate, standards, published, place, release)
  PROVE  DeskInv'
  <1>1. \A s \in Seat : GateOK(seat'[s].gate, standards', published', place', release')
    <2> TAKE s \in Seat
    <2>1. seat'[s].gate \in Gate
      BY DEF DeskTypes, Session
    <2>2. GateOK(seat'[s].gate, standards, published, place, release)
      BY DEF DeskInv
    <2> QED
      BY <2>1, <2>2, GateLasts DEF DeskInv
  <1>2. \A j \in DOMAIN work : JobOK(work[j], standards', published', place', release')
    <2> TAKE j \in DOMAIN work
    <2>1. work[j] \in Job /\ JobOK(work[j], standards, published, place, release)
      BY DEF DeskInv, DeskTypes
    <2> QED
      BY <2>1, JobLasts DEF DeskInv
  <1> QED
    BY <1>1, <1>2 DEF DeskInv

\* A step that writes one job's row and leaves what gates look at.
LEMMA JobWorked ==
  ASSUME DeskInv, NEW j \in DOMAIN work, NEW k \in Job, work' = [work EXCEPT ![j] = k],
         JobOK(k, standards, published, place, release),
         UNCHANGED <<seat, drafts, standards, published, trial, release, place>>
  PROVE  DeskInv'
  <1>1. work' \in Seq(Job) /\ DOMAIN work' = DOMAIN work /\ \A i \in DOMAIN work : work'[i] = IF i = j THEN k ELSE work[i]
    BY DEF DeskInv, DeskTypes
  <1>2. DeskTypes' /\ OneActive' /\ Confirming' /\ Reported'
    BY <1>1 DEF DeskInv, DeskTypes, OneActive, Confirming, Reported
  <1> QED
    BY <1>1, <1>2 DEF DeskInv

LEMMA DeskInitially == DeskInit => DeskInv
  <1> SUFFICES ASSUME DeskInit
               PROVE  DeskInv
    OBVIOUS
  <1>1. Away \in Session /\ Away.confirming = <<>> /\ Away.gate.rev = 0
    BY DEF Away, NoGate, Session, Gate
  <1>2. Unbound \in Station /\ Unbound.installed = NoRelease
    BY DEF Unbound, Station
  <1> HIDE DEF Away, Unbound
  <1>3. DeskTypes
    BY <1>1, <1>2 DEF DeskInit, DeskTypes
  <1>4. DOMAIN standards = {} /\ DOMAIN work = {}
    BY DEF DeskInit
  <1> QED
    BY <1>1, <1>2, <1>3, <1>4 DEF DeskInit, DeskInv, OneActive, Confirming, Reported, GateOK

\* Row k with what the requests on a job may change.
Worked(k, media, analysis, report, results) ==
  [k EXCEPT !.media = media, !.analysis = analysis, !.report = report, !.results = results]

LEMMA JobSteps ==
  ASSUME DeskInv, NEW j \in DOMAIN work,
         \/ AttachMedia(j) \/ AskAssistant(j) \/ SubmitBatch(j) \/ FinishTask(j)
         \/ \E answered \in BOOLEAN : AssistantAnswers(j, answered)
         \/ \E told \in SUBSET DOMAIN work[j].results : IngestOutput(j, told)
  PROVE  DeskInv'
  <1> DEFINE k == work[j]
             P == DOMAIN k.results
  <1>0. /\ k \in Job /\ JobOK(k, standards, published, place, release)
        /\ P \in SUBSET Item /\ k.results \in [P -> Mark] /\ k.media \in BOOLEAN /\ k.report \in BOOLEAN
        /\ k.analysis \in {"none", "asked", "stored"}
    <2>1. k \in Job /\ JobOK(k, standards, published, place, release)
      BY DEF DeskInv, DeskTypes
    <2>2. PICK Q \in SUBSET Item : k.results \in [Q -> Mark]
      BY <2>1 DEF Job
    <2> QED
      BY <2>1, <2>2 DEF Job
  <1> HIDE DEF k, P
  <1>1. ASSUME NEW media \in BOOLEAN, NEW analysis \in {"none", "asked", "stored"}, NEW report \in BOOLEAN,
               NEW results \in [P -> Mark], media = TRUE \/ media = k.media,
               media = TRUE \/ \A p \in P : results[p] = "operator" => k.results[p] = "operator",
               work' = [work EXCEPT ![j] = Worked(k, media, analysis, report, results)],
               UNCHANGED <<seat, drafts, standards, published, trial, release, place>>
        PROVE  DeskInv'
    <2> DEFINE new == Worked(k, media, analysis, report, results)
    <2>0. results \in UNION {[Q -> Mark] : Q \in SUBSET Item}
      BY <1>0, <1>1
    <2>1. /\ new \in Job /\ new.rev = k.rev /\ new.gate = k.gate /\ new.media = media /\ new.results = results
      BY <1>0, <2>0 DEF Job, Worked
    <2>2. work' = [work EXCEPT ![j] = new]
      BY <1>1
    <2> HIDE DEF new
    <2>3. JobOK(new, standards, published, place, release)
      BY <1>0, <1>1, <2>1 DEF JobOK, P
    <2> QED
      BY <1>1, <2>1, <2>2, <2>3, JobWorked
  <1>2. ASSUME AttachMedia(j)
        PROVE  DeskInv'
    <2>1. work' = [work EXCEPT ![j] = Worked(k, TRUE, k.analysis, k.report, k.results)]
      BY <1>0, <1>2 DEF AttachMedia, Job, Worked, k
    <2>2. UNCHANGED <<seat, drafts, standards, published, trial, release, place>>
      BY <1>2 DEF AttachMedia
    <2>3. TRUE \in BOOLEAN /\ k.analysis \in {"none", "asked", "stored"} /\ k.report \in BOOLEAN
          /\ k.results \in [P -> Mark]
      BY <1>0
    <2> QED
      BY <1>1, <2>1, <2>2, <2>3
  <1>3. ASSUME NEW to \in {"none", "asked", "stored"}, work' = [work EXCEPT ![j].analysis = to],
               UNCHANGED <<seat, drafts, standards, published, trial, release, place>>
        PROVE  DeskInv'
    <2> DEFINE results == k.results
    <2>1. work' = [work EXCEPT ![j] = Worked(k, k.media, to, k.report, results)]
      BY <1>0, <1>3 DEF Job, Worked, k
    <2>2. k.media \in BOOLEAN /\ k.report \in BOOLEAN /\ results \in [P -> Mark]
      BY <1>0
    <2>3. \A p \in P : results[p] = "operator" => k.results[p] = "operator"
      OBVIOUS
    <2> HIDE DEF results
    <2> QED
      BY <1>1, <1>3, <2>1, <2>2, <2>3
  <1>4. ASSUME AskAssistant(j) \/ \E answered \in BOOLEAN : AssistantAnswers(j, answered)
        PROVE  DeskInv'
    <2>1. CASE AskAssistant(j)
      BY <1>3, <2>1 DEF AskAssistant
    <2>2. ASSUME NEW answered \in BOOLEAN, AssistantAnswers(j, answered)
          PROVE  DeskInv'
      BY <1>3, <2>2 DEF AssistantAnswers
    <2> QED
      BY <1>4, <2>1, <2>2
  <1>5. ASSUME SubmitBatch(j)
        PROVE  DeskInv'
    <2> DEFINE results == [p \in P |-> "operator"]
    <2>1. work' = [work EXCEPT ![j] = Worked(k, TRUE, k.analysis, k.report, results)]
      BY <1>0, <1>5 DEF SubmitBatch, Job, Worked, k, P
    <2>2. results \in [P -> Mark]
      BY DEF Mark
    <2>3. UNCHANGED <<seat, drafts, standards, published, trial, release, place>>
      BY <1>5 DEF SubmitBatch
    <2>4. TRUE \in BOOLEAN /\ k.analysis \in {"none", "asked", "stored"} /\ k.report \in BOOLEAN
      BY <1>0
    <2> HIDE DEF results
    <2> QED
      BY <1>1, <2>1, <2>2, <2>3, <2>4
  <1>6. ASSUME FinishTask(j)
        PROVE  DeskInv'
    <2> DEFINE results == [p \in P |-> IF k.results[p] = "none" THEN "model" ELSE k.results[p]]
    <2>1. work' = [work EXCEPT ![j] = Worked(k, k.media, k.analysis, TRUE, results)]
      BY <1>0, <1>6, ZenonT(40) DEF FinishTask, Job, Worked, k, P
    <2>2. results \in [P -> Mark] /\ \A p \in P : results[p] = "operator" => k.results[p] = "operator"
      BY <1>0 DEF Mark
    <2>3. UNCHANGED <<seat, drafts, standards, published, trial, release, place>>
      BY <1>6, ZenonT(30) DEF FinishTask
    <2>4. k.media \in BOOLEAN /\ k.analysis \in {"none", "asked", "stored"} /\ TRUE \in BOOLEAN
      BY <1>0
    <2> HIDE DEF results
    <2> QED
      BY <1>1, <2>1, <2>2, <2>3, <2>4
  <1>7. ASSUME NEW told \in SUBSET P, IngestOutput(j, told)
        PROVE  DeskInv'
    <2> DEFINE results == [p \in P |-> IF p \in told THEN "model" ELSE k.results[p]]
    <2>1. work' = [work EXCEPT ![j] = Worked(k, k.media, "stored", k.report, results)]
      BY <1>0, <1>7, ZenonT(40) DEF IngestOutput, Job, Worked, k, P
    <2>2. results \in [P -> Mark] /\ \A p \in P : results[p] = "operator" => k.results[p] = "operator"
      BY <1>0 DEF Mark
    <2>3. UNCHANGED <<seat, drafts, standards, published, trial, release, place>>
      BY <1>7, ZenonT(30) DEF IngestOutput
    <2>4. k.media \in BOOLEAN /\ "stored" \in {"none", "asked", "stored"} /\ k.report \in BOOLEAN
      BY <1>0
    <2> HIDE DEF results
    <2> QED
      BY <1>1, <2>1, <2>2, <2>3, <2>4
  <1> QED
    BY <1>2, <1>4, <1>5, <1>6, <1>7 DEF k, P

LEMMA TaskCreated ==
  ASSUME DeskInv, NEW s \in Seat, CreateTask(s)
  PROVE  DeskInv'
  <1> DEFINE g == seat[s].gate
             new == [seat[s] EXCEPT !.creating = FALSE, !.gate = NoGate]
  <1>1. seat[s] \in Session /\ g \in Gate /\ GateOK(g, standards, published, place, release)
    BY DEF DeskInv, DeskTypes, Session
  <1>2. new \in Session /\ new.gate.rev = 0 /\ new.confirming = seat[s].confirming
    BY <1>1 DEF Session, Gate, NoGate
  <1>3. seat' = [seat EXCEPT ![s] = new] /\ UNCHANGED <<drafts, standards, published, trial, release, place>>
    BY DEF CreateTask
  <1> HIDE DEF new
  <1>4. seat' \in [Seat -> Session] /\ \A t \in Seat : seat'[t] = IF t = s THEN new ELSE seat[t]
    BY <1>2, <1>3 DEF DeskInv, DeskTypes
  <1>5. OneActive' /\ Confirming' /\ Reported'
    BY <1>2, <1>3, <1>4 DEF DeskInv, OneActive, Confirming, Reported
  <1>6. \A t \in Seat : GateOK(seat'[t].gate, standards, published, place, release)
    BY <1>2, <1>4 DEF DeskInv, GateOK
  <1>cur. /\ Current # 0 => Current \in DOMAIN standards /\ standards[Current].status = "active"
          /\ \A q \in DOMAIN standards : standards[q].status = "active" => q = Current
          /\ Current \in Nat
    BY CurrentIs DEF DeskInv
  <1>7. work' \in Seq(Job) /\ \A j \in DOMAIN work' : JobOK(work'[j], standards, published, place, release)
    <2>0. work \in Seq(Job) /\ \A j \in DOMAIN work : JobOK(work[j], standards, published, place, release)
      BY DEF DeskInv, DeskTypes
    <2>1. CASE Current = 0
      BY <2>0, <2>1 DEF CreateTask
    <2>2. CASE Current # 0
      <3> DEFINE r == Current
                 points == standards[r].points
                 results == [p \in points |-> "none"]
                 k == [rev |-> r, gate |-> g, media |-> FALSE, analysis |-> "none", report |-> FALSE, results |-> results]
      <3>1. /\ r \in DOMAIN standards /\ standards[r].status = "active" /\ r \in Nat
            /\ \A q \in DOMAIN standards : standards[q].status = "active" => q = r
        BY <2>2, <1>cur
      <3>2. points \in SUBSET Item
        <4>1. standards[r] \in Revision
          BY <3>1 DEF DeskInv, DeskTypes
        <4> QED
          BY <4>1 DEF Revision
      <3>3. results \in [points -> Mark] /\ DOMAIN results = points /\ \A p \in points : results[p] # "operator"
        BY DEF Mark
      <3>4. results \in UNION {[P -> Mark] : P \in SUBSET Item}
        BY <3>2, <3>3
      <3>5. work' = Append(work, k)
        BY <2>2 DEF CreateTask
      <3> HIDE DEF results, r, points
      <3>6. k \in Job
        BY <1>1, <3>1, <3>4 DEF Job
      <3>7. g.rev # 0 => r = g.rev \/ standards[g.rev].status = "archived"
        BY <1>1, <3>1 DEF GateOK, InForce
      <3>8. k.rev = r /\ k.gate = g /\ k.results = results
        OBVIOUS
      <3> HIDE DEF k, g
      <3>9. JobOK(k, standards, published, place, release)
        BY <1>1, <3>1, <3>3, <3>7, <3>8 DEF JobOK, InForce, points
      <3> QED
        BY <2>0, <3>5, <3>6, <3>9
    <2> QED
      BY <2>1, <2>2
  <1>8. DeskTypes'
    BY <1>3, <1>4, <1>7 DEF DeskInv, DeskTypes
  <1> QED
    BY <1>3, <1>5, <1>6, <1>7, <1>8 DEF DeskInv

LEMMA SeatSteps ==
  ASSUME DeskInv, NEW s \in Seat, NEW x \in Session, seat' = [seat EXCEPT ![s] = x],
         x.confirming # <<>> => x.confirming[1] \in DOMAIN standards',
         x.gate = seat[s].gate \/ GateOK(x.gate, standards, published, place, release),
         drafts' \in Seq(Draft), standards' \in Seq(Revision), OneActive',
         \A r \in DOMAIN standards : r \in DOMAIN standards' /\ standards'[r] = standards[r],
         UNCHANGED <<published, release, place, work>>
  PROVE  DeskInv'
  <1>1. seat' \in [Seat -> Session] /\ \A t \in Seat : seat'[t] = IF t = s THEN x ELSE seat[t]
    BY DEF DeskInv, DeskTypes
  <1>2. Grows /\ Reported'
    BY DEF Grows, DeskInv, Reported
  <1>3. DeskTypes'
    BY <1>1 DEF DeskInv, DeskTypes
  <1>4. Confirming'
    BY <1>1 DEF DeskInv, Confirming
  <1>5. \A t \in Seat : \/ seat'[t].gate = seat[t].gate
                        \/ GateOK(seat'[t].gate, standards, published, place, release)
    BY <1>1
  <1> QED
    BY <1>2, <1>3, <1>4, <1>5, DeskGrows

\* The status of a draft is written, of whichever draft is named.
LEMMA DraftWritten ==
  ASSUME DeskTypes, NEW x, NEW to \in {"received", "pending_confirmation", "confirmed"},
         drafts' = [drafts EXCEPT ![x].status = to]
  PROVE  drafts' \in Seq(Draft)
  <1> DEFINE row == [drafts[x] EXCEPT !.status = to]
  <1>1. drafts' = [drafts EXCEPT ![x] = row] /\ drafts \in Seq(Draft)
    BY DEF DeskTypes
  <1>2. CASE x \in DOMAIN drafts
    <2>1. drafts[x] \in Draft
      BY <1>1, <1>2
    <2>2. row \in Draft
      BY <2>1 DEF Draft
    <2> HIDE DEF row
    <2> QED
      BY <1>1, <1>2, <2>2
  <1>3. CASE x \notin DOMAIN drafts
    <2> HIDE DEF row
    <2>1. drafts' = drafts
      BY <1>1, <1>3
    <2> QED
      BY <1>1, <2>1
  <1> QED
    BY <1>2, <1>3

LEMMA StandardSteps ==
  ASSUME DeskInv, NEW s \in Seat,
         ActivateStandard(s) \/ \E i \in DOMAIN drafts, sent \in SUBSET Item : ConfirmStandard(s, i, sent)
  PROVE  DeskInv'
  <1>0. /\ seat[s] \in Session /\ drafts \in Seq(Draft) /\ standards \in Seq(Revision)
        /\ OneActive /\ Confirming /\ Reported
    BY DEF DeskInv, DeskTypes
  <1>1. ASSUME NEW i \in DOMAIN drafts, NEW sent \in SUBSET Item, ConfirmStandard(s, i, sent)
        PROVE  DeskInv'
    <2> DEFINE points == IF sent = {} THEN drafts[i].points ELSE sent
               n == Len(standards) + 1
               c == <<n, i, points>>
               new == [points |-> {}, status |-> "draft"]
               x == [seat[s] EXCEPT !.confirming = c]
    <2>1. drafts[i] \in Draft /\ i \in Nat /\ n \in Nat
      BY <1>0
    <2>2. points \in SUBSET Item
      BY <2>1 DEF Draft
    <2>3. c \in Nat \X Nat \X SUBSET Item /\ c[1] = n
      BY <2>1, <2>2
    <2>4. new \in Revision /\ new.status = "draft"
      BY DEF Revision
    <2>5. standards' = Append(standards, new) /\ seat' = [seat EXCEPT ![s] = x]
          /\ UNCHANGED <<drafts, published, release, place, work>>
      BY <1>1 DEF ConfirmStandard
    <2> HIDE DEF c, new, points
    <2>6. x \in Session /\ x.confirming = c /\ x.gate = seat[s].gate
      BY <1>0, <2>3 DEF Session
    <2> HIDE DEF x
    <2>7. /\ standards' \in Seq(Revision) /\ n \in DOMAIN standards'
          /\ \A r \in DOMAIN standards : r \in DOMAIN standards' /\ standards'[r] = standards[r]
          /\ \A r \in DOMAIN standards' : r \in DOMAIN standards \/ standards'[r] = new
      BY <1>0, <2>4, <2>5
    <2>8. OneActive'
      BY <1>0, <2>4, <2>7 DEF OneActive
    <2> QED
      BY <1>0, <2>3, <2>5, <2>6, <2>7, <2>8, SeatSteps
  <1>2. ASSUME ActivateStandard(s)
        PROVE  DeskInv'
    <2> DEFINE c == seat[s].confirming
               new == [points |-> c[3], status |-> "active"]
               old(r) == [standards[r] EXCEPT !.status = "archived"]
    <2>1. c \in Nat \X Nat \X SUBSET Item /\ c[1] \in DOMAIN standards /\ standards[c[1]].status = "draft"
      BY <1>0, <1>2 DEF ActivateStandard, Session, Confirming
    <2>2. new \in Revision /\ new.status = "active"
      BY <2>1 DEF Revision, InForce
    <2>3. standards' = [r \in DOMAIN standards |->
             IF r = c[1] THEN new ELSE IF r = Current THEN old(r) ELSE standards[r]]
          /\ UNCHANGED <<seat, drafts, published, release, place, work>>
      BY <1>2 DEF ActivateStandard
    <2>4. /\ \A r \in DOMAIN standards : standards[r].status = "active" => r = Current
          /\ Current # 0 => Current \in DOMAIN standards /\ standards[Current].status = "active"
      BY <1>0, CurrentIs DEF DeskInv
    <2>5. \A r \in DOMAIN standards : /\ standards[r] \in Revision /\ old(r) \in Revision
                                      /\ old(r).status = "archived" /\ old(r).points = standards[r].points
      <3> TAKE r \in DOMAIN standards
      <3>1. standards[r] \in Revision
        BY <1>0
      <3> QED
        BY <3>1 DEF Revision, InForce
    <2> HIDE DEF c, new, old
    <2>6. DOMAIN standards' = DOMAIN standards /\ standards' \in Seq(Revision)
      BY <1>0, <2>2, <2>3, <2>5
    <2>7. \A r \in DOMAIN standards :
            standards'[r] = IF r = c[1] THEN new ELSE IF r = Current THEN old(r) ELSE standards[r]
      BY <2>3
    <2>8. OneActive'
      BY <2>2, <2>4, <2>5, <2>6, <2>7 DEF OneActive
    <2>9. Grows
      BY <2>1, <2>3, <2>4, <2>5, <2>6, <2>7 DEF Grows, InForce
    <2>10. DeskTypes' /\ Confirming' /\ Reported'
      BY <1>0, <2>3, <2>6 DEF DeskInv, DeskTypes, Confirming, Reported
    <2> QED
      BY <2>3, <2>8, <2>9, <2>10, DeskGrows
  <1> QED
    BY <1>1, <1>2

LEMMA SessionSteps ==
  ASSUME DeskInv, NEW s \in Seat,
         \/ SignIn(s) \/ SignOut(s) \/ OfferDraft(s) \/ SettleDraft(s) \/ RequestDies(s) \/ PassGates(s)
         \/ \E w \in Place : BindWorkstation(s, w)
         \/ \E named \in SUBSET Item, keyword \in BOOLEAN : PadChat(s, named, keyword)
  PROVE  DeskInv'
  <1> DEFINE y == seat[s]
  <1>0. /\ y \in Session /\ drafts \in Seq(Draft) /\ standards \in Seq(Revision) /\ OneActive /\ DeskTypes
        /\ y.confirming # <<>> => y.confirming[1] \in DOMAIN standards
    BY DEF DeskInv, DeskTypes, Confirming
  <1>1. ASSUME NEW x \in Session, seat' = [seat EXCEPT ![s] = x],
               x.confirming \in {<<>>, y.confirming}, drafts' \in Seq(Draft),
               x.gate = y.gate \/ GateOK(x.gate, standards, published, place, release),
               UNCHANGED <<standards, published, release, place, work>>
        PROVE  DeskInv'
    <2>1. OneActive'
      BY <1>0, <1>1 DEF OneActive
    <2> HIDE DEF y
    <2>2. x.confirming # <<>> => x.confirming[1] \in DOMAIN standards'
      BY <1>0, <1>1
    <2> QED
      BY <1>0, <1>1, <2>1, <2>2, SeatSteps DEF y
  <1>2. ASSUME SignIn(s)
        PROVE  DeskInv'
    <2> DEFINE x == [y EXCEPT !.in = TRUE]
    <2>1. x \in Session /\ x.confirming = y.confirming /\ x.gate = y.gate
      BY <1>0 DEF Session
    <2>2. seat' = [seat EXCEPT ![s] = x]
      BY <1>2 DEF SignIn
    <2> HIDE DEF x
    <2> QED
      BY <1>0, <1>1, <1>2, <2>1, <2>2 DEF SignIn
  <1>3. ASSUME SignOut(s)
        PROVE  DeskInv'
    <2> DEFINE x == [y EXCEPT !.in = FALSE, !.place = Nowhere]
    <2>1. x \in Session /\ x.confirming = y.confirming /\ x.gate = y.gate
      BY <1>0 DEF Session
    <2>2. seat' = [seat EXCEPT ![s] = x]
      BY <1>3 DEF SignOut
    <2> HIDE DEF x
    <2> QED
      BY <1>0, <1>1, <1>3, <2>1, <2>2 DEF SignOut
  <1>4. ASSUME NEW w \in Place, BindWorkstation(s, w)
        PROVE  DeskInv'
    <2> DEFINE x == [y EXCEPT !.place = w]
    <2>1. x \in Session /\ x.confirming = y.confirming /\ x.gate = y.gate
      BY <1>0 DEF Session
    <2>2. seat' = [seat EXCEPT ![s] = x]
      BY <1>4 DEF BindWorkstation
    <2> HIDE DEF x
    <2> QED
      BY <1>0, <1>1, <1>4, <2>1, <2>2 DEF BindWorkstation
  <1>5. ASSUME NEW named \in SUBSET Item, NEW keyword \in BOOLEAN, PadChat(s, named, keyword)
        PROVE  DeskInv'
    <2> DEFINE n == Len(drafts) + 1
               x == [y EXCEPT !.chat = n]
               row == [status |-> "received", points |-> PointsOf(named)]
    <2>0. n \in Nat
      BY <1>0
    <2>1. x \in Session /\ x.confirming = y.confirming /\ x.gate = y.gate
      <3> HIDE DEF n
      <3> QED
        BY <1>0, <2>0 DEF Session
    <2>2. seat' = [seat EXCEPT ![s] = x] /\ drafts' = Append(drafts, row)
      BY <1>5 DEF PadChat
    <2>3. row \in Draft
      BY DEF Draft, PointsOf
    <2> HIDE DEF x, row
    <2>4. drafts' \in Seq(Draft)
      BY <1>0, <2>2, <2>3
    <2> QED
      BY <1>0, <1>1, <1>5, <2>1, <2>2, <2>4 DEF PadChat
  <1>6. ASSUME OfferDraft(s)
        PROVE  DeskInv'
    <2> DEFINE x == [y EXCEPT !.chat = 0]
    <2>1. x \in Session /\ x.confirming = y.confirming /\ x.gate = y.gate
      BY <1>0 DEF Session
    <2>2. seat' = [seat EXCEPT ![s] = x]
      BY <1>6 DEF OfferDraft
    <2>3. drafts' \in Seq(Draft)
      BY <1>0, <1>6, DraftWritten DEF OfferDraft
    <2> HIDE DEF x
    <2> QED
      BY <1>0, <1>1, <1>6, <2>1, <2>2, <2>3 DEF OfferDraft
  <1>7. ASSUME SettleDraft(s)
        PROVE  DeskInv'
    <2> DEFINE x == [y EXCEPT !.confirming = <<>>]
    <2>1. x \in Session /\ x.confirming = <<>> /\ x.gate = y.gate
      BY <1>0 DEF Session
    <2>2. seat' = [seat EXCEPT ![s] = x]
      BY <1>7 DEF SettleDraft
    <2>3. drafts' \in Seq(Draft)
      BY <1>0, <1>7, DraftWritten DEF SettleDraft
    <2> HIDE DEF x
    <2> QED
      BY <1>0, <1>1, <1>7, <2>1, <2>2, <2>3 DEF SettleDraft
  <1>8. ASSUME RequestDies(s)
        PROVE  DeskInv'
    <2> DEFINE x == [y EXCEPT !.chat = 0, !.confirming = <<>>]
    <2>1. x \in Session /\ x.confirming = <<>> /\ x.gate = y.gate
      BY <1>0 DEF Session
    <2>2. seat' = [seat EXCEPT ![s] = x]
      BY <1>8 DEF RequestDies
    <2> HIDE DEF x
    <2> QED
      BY <1>0, <1>1, <1>8, <2>1, <2>2 DEF RequestDies
  <1>9. ASSUME PassGates(s)
        PROVE  DeskInv'
    <2> DEFINE g == [rev |-> Current, stage |-> LifecycleStage, place |-> y.place]
               x == [y EXCEPT !.creating = TRUE, !.gate = g]
    <2>1. /\ Current \in Nat
          /\ Current # 0 => Current \in DOMAIN standards /\ standards[Current].status = "active"
      BY <1>0, CurrentIs
    <2>2. LifecycleStage \in {"draft", "ready_for_review", "confirmed", "published",
                              "installed_on_pad", "probation", "active_inspection"}
      BY DEF LifecycleStage
    <2>3. Current # 0 =>
            /\ Current \in published
            /\ LifecycleStage \in {"published", "installed_on_pad", "probation", "active_inspection"}
      BY <1>9 DEF PassGates, LifecycleStage
    <2>4. ASSUME Current # 0, y.place # Nowhere
          PROVE  \E v \in place[y.place].given \cap place[y.place].reported : release[v] = Current
      <3>1. PICK v \in place[y.place].given : place[y.place].installed = v /\ release[v] = Current
        BY <1>9, <2>4 DEF PassGates, InstalledAt
      <3>2. y.place \in Place
        BY <1>0, <2>4 DEF Session
      <3>3. place[y.place] \in Station /\ place[y.place].installed \in place[y.place].reported \cup {NoRelease}
        BY <1>0, <3>2 DEF DeskInv, DeskTypes, Reported
      <3>4. v # NoRelease
        BY <3>1, <3>3, DeskAssumption DEF Station, NoRelease
      <3> QED
        BY <3>1, <3>3, <3>4
    <2>5. g \in Gate
      BY <1>0, <2>1, <2>2 DEF Gate, Session
    <2>6. g.rev = Current /\ g.stage = LifecycleStage /\ g.place = y.place
      OBVIOUS
    <2>7. seat' = [seat EXCEPT ![s] = x] /\ UNCHANGED <<drafts, standards, published, release, place, work>>
      BY <1>9 DEF PassGates
    <2> HIDE DEF g
    <2>8. x \in Session /\ x.confirming = y.confirming /\ x.gate = g
      BY <1>0, <2>5 DEF Session
    <2> HIDE DEF x, y
    <2>9. GateOK(g, standards, published, place, release)
      BY <2>1, <2>3, <2>4, <2>6 DEF GateOK, InForce
    <2> QED
      BY <1>0, <1>1, <2>7, <2>8, <2>9
  <1> QED
    BY <1>2, <1>3, <1>4, <1>5, <1>6, <1>7, <1>8, <1>9

LEMMA DeskNextInv == DeskInv /\ [DeskNext]_deskVars => DeskInv'
  <1> SUFFICES ASSUME DeskInv, [DeskNext]_deskVars
               PROVE  DeskInv'
    OBVIOUS
  <1>0. DeskTypes /\ OneActive /\ Confirming /\ Reported
    BY DEF DeskInv
  <1>1. ASSUME NEW w \in Place, NEW x \in Station, place' = [place EXCEPT ![w] = x],
               place[w].given \subseteq x.given, place[w].reported \subseteq x.reported,
               x.installed \in x.reported \cup {NoRelease},
               UNCHANGED <<seat, drafts, standards, published, trial, release, work>>
        PROVE  DeskInv'
    <2>1. place' \in [Place -> Station] /\ \A u \in Place : place'[u] = IF u = w THEN x ELSE place[u]
      BY <1>0, <1>1 DEF DeskTypes
    <2>2. Grows /\ DeskTypes' /\ OneActive' /\ Confirming' /\ Reported'
      BY <1>0, <1>1, <2>1 DEF Grows, DeskTypes, OneActive, Confirming, Reported
    <2> QED
      BY <1>1, <2>2, DeskGrows
  <1>2. ASSUME NEW w \in Place, NEW v \in Release, AssignRelease(w, v)
        PROVE  DeskInv'
    <2> DEFINE x == [place[w] EXCEPT !.given = @ \cup {v}, !.assigned = v]
    <2>1. place[w] \in Station /\ place[w].installed \in place[w].reported \cup {NoRelease}
      BY <1>0 DEF DeskTypes, Reported
    <2>2. x \in Station /\ place[w].given \subseteq x.given /\ x.reported = place[w].reported /\ x.installed = place[w].installed
      BY <2>1 DEF Station
    <2>3. place' = [place EXCEPT ![w] = x]
      BY <1>2 DEF AssignRelease
    <2> HIDE DEF x
    <2> QED
      BY <1>1, <1>2, <2>1, <2>2, <2>3 DEF AssignRelease
  <1>3. ASSUME NEW w \in Place, NEW v \in Release, ReportInstalled(w, v)
        PROVE  DeskInv'
    <2> DEFINE x == [place[w] EXCEPT !.installed = v, !.reported = @ \cup {v}]
    <2>1. place[w] \in Station
      BY <1>0 DEF DeskTypes
    <2>2. /\ x \in Station /\ x.given = place[w].given /\ place[w].reported \subseteq x.reported
          /\ x.installed \in x.reported
      BY <2>1 DEF Station
    <2>3. place' = [place EXCEPT ![w] = x]
      BY <1>3 DEF ReportInstalled
    <2> HIDE DEF x
    <2> QED
      BY <1>1, <1>3, <2>2, <2>3 DEF ReportInstalled
  <1>4. ASSUME NEW v \in Release, NEW r \in DOMAIN standards, BuildRelease(v, r)
        PROVE  DeskInv'
    <2>1. r \in Nat
      BY <1>0 DEF DeskTypes
    <2>2. Grows /\ DeskTypes' /\ OneActive' /\ Confirming' /\ Reported'
      BY <1>0, <1>4, <2>1 DEF BuildRelease, Grows, DeskTypes, OneActive, Confirming, Reported
    <2> QED
      BY <1>4, <2>2, DeskGrows DEF BuildRelease
  <1>5. ASSUME UNCHANGED <<seat, drafts, standards, release, place, work>>, published \subseteq published'
        PROVE  DeskInv'
    <2>1. Grows /\ DeskTypes' /\ OneActive' /\ Confirming' /\ Reported'
      BY <1>0, <1>5 DEF Grows, DeskTypes, OneActive, Confirming, Reported
    <2> QED
      BY <1>5, <2>1, DeskGrows
  <1>6. ASSUME PublishStandard \/ \E r \in 1 .. MaxStandards : StartTrial(r) \/ QualifyTrial(r)
        PROVE  DeskInv'
    BY <1>5, <1>6 DEF PublishStandard, StartTrial, QualifyTrial
  <1>7. CASE UNCHANGED deskVars
    BY <1>5, <1>7 DEF deskVars
  <1> QED
    BY <1>2, <1>3, <1>4, <1>6, <1>7, SessionSteps, StandardSteps, TaskCreated, JobSteps DEF DeskNext

\* A job's gate was passed on a published revision, in a stage past confirmation
\* and at a workstation that reported it (pad_router.py), for any number of
\* sessions, confirmations and bundles between the requests.
THEOREM DeskGated == DeskSpec => []DeskJobIsGated
  <1>1. DeskInv => DeskJobIsGated
    BY DEF DeskInv, JobOK, GateOK, DeskJobIsGated
  <1> QED
    BY <1>1, DeskInitially, DeskNextInv, PTL DEF DeskSpec

\* A review shows as done by count; it is whole, by the operator and on evidence.
THEOREM DeskReviewed == DeskSpec => []ReviewedOnEvidence
  <1>1. ASSUME DeskInv, NEW j \in DOMAIN work, "operator_reviewed" \in StepsDone(j)
        PROVE  /\ "evidence_attached" \in StepsDone(j)
               /\ \A p \in PointsOfJob(j) : p \in DOMAIN work[j].results /\ work[j].results[p] = "operator"
    <2> DEFINE points == PointsOfJob(j)
               reviewed == {p \in DOMAIN work[j].results : work[j].results[p] = "operator"}
    <2>1. JobOK(work[j], standards, published, place, release) /\ standards \in Seq(Revision)
      BY <1>1 DEF DeskInv, DeskTypes
    <2>2. DOMAIN work[j].results = points /\ work[j].rev \in DOMAIN standards
      BY <2>1 DEF JobOK, PointsOfJob
    <2>3. points \subseteq Item
      <3>1. standards[work[j].rev] \in Revision
        BY <2>1, <2>2
      <3> QED
        BY <3>1 DEF PointsOfJob, Revision
    <2>4. IsFiniteSet(points)
      BY <2>3, DeskAssumption, FS_Subset
    <2>5. points # {} /\ Cardinality(reviewed) = Cardinality(points)
      BY <1>1 DEF StepsDone
    <2>6. reviewed \subseteq points
      BY <2>2
    <2>7. reviewed = points
      BY <2>4, <2>5, <2>6, FS_Subset
    <2>8. \A p \in points : work[j].results[p] = "operator"
      BY <2>7
    <2>9. work[j].media
      BY <2>1, <2>2, <2>5, <2>8 DEF JobOK
    <2> QED
      BY <2>2, <2>8, <2>9 DEF StepsDone
  <1>2. DeskInv => ReviewedOnEvidence
    BY <1>1 DEF ReviewedOnEvidence
  <1> QED
    BY <1>2, DeskInitially, DeskNextInv, PTL DEF DeskSpec

-----------------------------------------------------------------------------
(* Studio: a photo becomes primary only in a step that clears every other, *)
(* whatever the request that stores it read before.                         *)

\* At most one photo is primary, said without counting.
PrimaryInv ==
  /\ photos \in Seq(BOOLEAN)
  /\ \A p, q \in DOMAIN photos : photos[p] = TRUE /\ photos[q] = TRUE => p = q
  /\ \A a \in Admin : turn[a].first \in BOOLEAN
  /\ DOMAIN turn = Admin

\* Every way to add a photo leaves one primary at most.
LEMMA WithOnePrimary ==
  ASSUME PrimaryInv, NEW primary \in BOOLEAN
  PROVE  /\ WithPhoto(primary) \in Seq(BOOLEAN)
         /\ \A p, q \in DOMAIN WithPhoto(primary) :
              WithPhoto(primary)[p] = TRUE /\ WithPhoto(primary)[q] = TRUE => p = q
  <1>1. photos \in Seq(BOOLEAN)
    BY DEF PrimaryInv
  <1>2. CASE primary = TRUE
    <2>1. Demoted \in [1 .. Len(photos) -> BOOLEAN] /\ Len(photos) \in Nat
      BY <1>1 DEF Demoted
    <2>2. Demoted \in Seq(BOOLEAN)
      BY <2>1
    <2>3. \A p \in DOMAIN Demoted : Demoted[p] = FALSE
      BY DEF Demoted
    <2>4. WithPhoto(primary) = Append(Demoted, TRUE)
      BY <1>2 DEF WithPhoto
    <2>5. \A p \in DOMAIN Append(Demoted, TRUE) :
            (p \in DOMAIN Demoted /\ Append(Demoted, TRUE)[p] = Demoted[p]) \/ p = Len(Demoted) + 1
      BY <2>2, AppendHolds, ZenonT(40)
    <2>6. Append(Demoted, TRUE) \in Seq(BOOLEAN)
      BY <2>2, AppendHolds
    <2> QED
      BY <2>3, <2>4, <2>5, <2>6
  <1>3. CASE primary = FALSE
    <2>1. WithPhoto(primary) = Append(photos, FALSE)
      BY <1>3 DEF WithPhoto
    <2>2. \A p \in DOMAIN Append(photos, FALSE) :
            \/ p \in DOMAIN photos /\ Append(photos, FALSE)[p] = photos[p]
            \/ p = Len(photos) + 1 /\ Append(photos, FALSE)[p] = FALSE
      BY <1>1, AppendHolds
    <2>3. Append(photos, FALSE) \in Seq(BOOLEAN)
      BY <1>1, AppendHolds
    <2> QED
      BY <2>1, <2>2, <2>3 DEF PrimaryInv
  <1> QED
    BY <1>2, <1>3

LEMMA PrimaryInductive == PrimaryInv /\ [StudioNext]_studioVars => PrimaryInv'
  <1> SUFFICES ASSUME PrimaryInv, [StudioNext]_studioVars
               PROVE  PrimaryInv'
    OBVIOUS
  <1> USE DEF PrimaryInv
  <1>1. CASE UNCHANGED <<photos, turn>>
    BY <1>1
  <1>2. ASSUME NEW primary \in BOOLEAN, AddPhoto(primary)
        PROVE  PrimaryInv'
    <2>1. photos' = WithPhoto(primary) /\ turn' = turn
      BY <1>2 DEF AddPhoto
    <2> HIDE DEF PrimaryInv
    <2> QED
      BY <2>1, WithOnePrimary DEF PrimaryInv
  <1>3. ASSUME NEW p \in 1 .. Len(photos) + 1, SetPrimary(p)
        PROVE  PrimaryInv'
    <2>1. photos' = [i \in 1 .. Len(photos) |-> i = p] /\ turn' = turn /\ Len(photos) \in Nat
      BY <1>3 DEF SetPrimary
    <2>2. photos' \in [1 .. Len(photos) -> BOOLEAN]
      BY <2>1
    <2>3. photos' \in Seq(BOOLEAN)
      BY <2>1, <2>2
    <2> QED
      BY <2>1, <2>3
  <1>4. ASSUME NEW a \in Admin, NEW file \in Upload, BeginUpload(a, file)
        PROVE  PrimaryInv'
    <2>1. turn' = [turn EXCEPT ![a] = [NoTurn EXCEPT !.kind = "upload", !.first = (photos = <<>>)]]
      BY <1>4 DEF BeginUpload
    <2> DEFINE opened == [NoTurn EXCEPT !.kind = "upload", !.first = (photos = <<>>)]
    <2>2. opened.first \in BOOLEAN
      BY DEF NoTurn
    <2>3. photos' = photos
      BY <1>4 DEF BeginUpload
    <2> HIDE DEF opened
    <2> QED
      BY <2>1, <2>2, <2>3 DEF opened
  <1>5. ASSUME NEW a \in Admin, StorePhoto(a)
        PROVE  PrimaryInv'
    <2>1. photos' = WithPhoto(turn[a].first) /\ turn[a].first \in BOOLEAN
          /\ turn' = [turn EXCEPT ![a] = AfterUpload]
      BY <1>5 DEF StorePhoto
    <2>2. AfterUpload.first = FALSE
      BY DEF AfterUpload, NoTurn
    <2>3. /\ photos' \in Seq(BOOLEAN)
          /\ \A p, q \in DOMAIN photos' : photos'[p] = TRUE /\ photos'[q] = TRUE => p = q
      <3> HIDE DEF PrimaryInv
      <3> QED
        BY <2>1, WithOnePrimary
    <2>4. (\A b \in Admin : turn[b].first \in BOOLEAN)' /\ (DOMAIN turn)' = Admin
      BY <2>1, <2>2
    <2> QED
      BY <2>3, <2>4
  <1>6. ASSUME NEW a \in Admin, NEW text \in Messages, Chat(a, text)
        PROVE  PrimaryInv'
    <2> DEFINE asked == [NoTurn EXCEPT !.kind = "chat", !.text = text]
    <2>1. turn' = [turn EXCEPT ![a] = asked] /\ photos' = photos
      BY <1>6 DEF Chat
    <2>2. asked.first = FALSE
      BY DEF NoTurn
    <2> HIDE DEF asked
    <2> QED
      BY <2>1, <2>2
  <1>7. ASSUME NEW a \in Admin, NEW doc \in Documents, NEW text \in Messages, ImportStandard(a, doc, text)
        PROVE  PrimaryInv'
    <2> DEFINE asked == [NoTurn EXCEPT !.kind = "import", !.text = text]
    <2>1. turn' = [turn EXCEPT ![a] = asked] /\ photos' = photos
      BY <1>7 DEF ImportStandard
    <2>2. asked.first = FALSE
      BY DEF NoTurn
    <2> HIDE DEF asked
    <2> QED
      BY <2>1, <2>2
  <1>8. ASSUME NEW a \in Admin, NEW reply \in Replies, ModelReplies(a, reply)
        PROVE  PrimaryInv'
    <2>1. turn' = [turn EXCEPT ![a] = NoTurn] /\ photos' = photos
      BY <1>8 DEF ModelReplies
    <2> QED
      BY <2>1 DEF NoTurn
  <1> HIDE DEF PrimaryInv
  <1>9. CASE StudioNext
    <2>1. CASE CatalogCreate \/ StudioCreate \/ Publish
      BY <1>1, <2>1 DEF CatalogCreate, StudioCreate, Publish
    <2>2. CASE \E text \in Messages : ParserTurn(text)
      BY <1>1, <2>2 DEF ParserTurn
    <2>3. CASE \E i \in DOMAIN intakes :
                 \/ RejectDraft(i)
                 \/ \E typed \in SUBSET DOMAIN intakes[i].cps, answers \in SUBSET intakes[i].qs :
                      ConfirmDraft(i, typed, answers)
      BY <1>1, <2>3 DEF RejectDraft, ConfirmDraft
    <2>4. CASE \E k \in DOMAIN standard :
                 \/ \E regions \in SUBSET {1, 2} : SetRegions(k, regions)
                 \/ \E cv \in {"none", "matching"} : SetAnalysisConfig(k, cv)
      BY <1>1, <2>4 DEF SetRegions, SetAnalysisConfig
    <2>5. CASE \E said \in {"ok", "timeout"}, answer \in Answers, counts \in [DOMAIN standard -> CountLists] :
                 Inspect(said, answer, counts)
      BY <1>1, <2>5 DEF Inspect
    <2> QED
      BY <1>9, <1>2, <1>3, <1>4, <1>5, <1>6, <1>7, <1>8, <2>1, <2>2, <2>3, <2>4, <2>5 DEF StudioNext
  <1> QED
    BY <1>1, <1>9 DEF studioVars

\* Uploads that overlap, on any number of administrators and photos, leave at
\* most one primary photo, on a database with one writer at a time: each step that
\* clears the photos and names another is a transaction.
THEOREM OnePhotoPrimary == StudioSpec => []OnePrimary
  <1>1. StudioInit => PrimaryInv
    <2>1. <<>> \in Seq(BOOLEAN) /\ DOMAIN <<>> = {} /\ NoTurn.first = FALSE
      BY DEF NoTurn
    <2> QED
      BY <2>1 DEF StudioInit, PrimaryInv
  <1>2. PrimaryInv => OnePrimary
    <2> SUFFICES ASSUME PrimaryInv PROVE OnePrimary
      OBVIOUS
    <2> DEFINE named == {p \in DOMAIN photos : photos[p]}
    <2>1. \A p \in named : p \in DOMAIN photos /\ photos[p] = TRUE
      BY DEF PrimaryInv
    <2>2. \A p, q \in named : p = q
      BY <2>1 DEF PrimaryInv
    <2> HIDE DEF named
    <2>3. CASE named = {}
      <3>1. Cardinality(named) = 0
        BY <2>3, FS_EmptySet
      <3> QED
        BY <3>1 DEF OnePrimary, named
    <2>4. CASE named # {}
      <3>1. PICK p \in named : TRUE
        BY <2>4
      <3>2. named = {p}
        BY <2>2, <3>1
      <3>3. Cardinality(named) = 1
        BY <3>2, FS_Singleton
      <3> QED
        BY <3>3 DEF OnePrimary, named
    <2> QED
      BY <2>3, <2>4
  <1> QED
    BY <1>1, <1>2, PrimaryInductive, PTL DEF StudioSpec

\* What is inspected has been confirmed: its codes are distinct, and neither
\* regions nor analyzers set later change them.
DistinctPoints(points) ==
  /\ \A k \in DOMAIN points : DOMAIN points[k] = {"code", "method", "value", "cv", "regions"}
  /\ \A j, k \in DOMAIN points : points[j].code = points[k].code => j = k
SightInv == DistinctPoints(standard) /\ PassIsSupported

\* A point keeps its code when another of its fields is set.
LEMMA PointKept ==
  ASSUME NEW points, DistinctPoints(points), NEW k \in DOMAIN points, NEW x
  PROVE  /\ DistinctPoints([points EXCEPT ![k].regions = x])
         /\ DistinctPoints([points EXCEPT ![k].cv = x])
  <1>1. ASSUME NEW p, DOMAIN p = DOMAIN points, \A j \in DOMAIN points : DOMAIN p[j] = DOMAIN points[j],
               \A j \in DOMAIN points : p[j].code = points[j].code
        PROVE  DistinctPoints(p)
    BY <1>1 DEF DistinctPoints
  <1>2. DOMAIN points[k] = {"code", "method", "value", "cv", "regions"}
    BY DEF DistinctPoints
  <1> DEFINE p == [points EXCEPT ![k].regions = x]
             q == [points EXCEPT ![k].cv = x]
  <1>3. /\ DOMAIN p = DOMAIN points /\ \A j \in DOMAIN points : j # k => p[j] = points[j]
        /\ p[k] = [points[k] EXCEPT !.regions = x]
    OBVIOUS
  <1>4. /\ DOMAIN q = DOMAIN points /\ \A j \in DOMAIN points : j # k => q[j] = points[j]
        /\ q[k] = [points[k] EXCEPT !.cv = x]
    OBVIOUS
  <1>5. /\ DOMAIN [points[k] EXCEPT !.regions = x] = DOMAIN points[k]
        /\ [points[k] EXCEPT !.regions = x].code = points[k].code
        /\ DOMAIN [points[k] EXCEPT !.cv = x] = DOMAIN points[k]
        /\ [points[k] EXCEPT !.cv = x].code = points[k].code
    BY <1>2
  <1> HIDE DEF p, q
  <1>6. \A j \in DOMAIN points : DOMAIN p[j] = DOMAIN points[j] /\ p[j].code = points[j].code
    BY <1>3, <1>5
  <1>7. \A j \in DOMAIN points : DOMAIN q[j] = DOMAIN points[j] /\ q[j].code = points[j].code
    BY <1>4, <1>5
  <1>8. DistinctPoints(p)
    BY <1>1, <1>3, <1>6
  <1>9. DistinctPoints(q)
    BY <1>1, <1>4, <1>7
  <1> QED
    BY <1>8, <1>9 DEF p, q

\* A pass of one answered point within the scope.
LEMMA JudgedPass ==
  ASSUME NEW item, NEW method, NEW cv, Judged(item, method, cv).result = "pass"
  PROVE  /\ item.result = "pass"
         /\ method = "counting" => /\ item.code \in DOMAIN cv /\ Judged(item, method, cv).saw = cv[item.code]
                                   /\ item.cv # "disagrees"
  BY DEF Judged

LEMMA JudgedCode ==
  ASSUME NEW item, NEW method, NEW cv
  PROVE  Judged(item, method, cv).code = item.code
  BY DEF Judged

\* What the assistant returns for a point of a list with distinct codes.
LEMMA ImageInspected ==
  ASSUME NEW contract, DistinctPoints(contract), NEW said, NEW config, NEW answer, NEW points
  PROVE  LET seen == InspectImage(contract, said, config, answer, points).results
             cv == CvCounts(points)
         IN /\ DOMAIN seen = DOMAIN contract
            /\ \A k \in DOMAIN seen :
                 /\ seen[k].code = contract[k].code
                 /\ seen[k].result = "pass" =>
                      \E i \in DOMAIN answer :
                        /\ answer[i].code = contract[k].code /\ answer[i].result = "pass"
                        /\ contract[k].method \in InScope
                        /\ contract[k].method = "counting" =>
                             /\ contract[k].code \in DOMAIN cv /\ seen[k].saw = cv[contract[k].code]
                             /\ answer[i].cv # "disagrees"
  <1> DEFINE cv == CvCounts(points)
             sent == [i \in {j \in DOMAIN contract : contract[j].method \in InScope} |-> contract[i]]
             judged == NormalizeInspection(sent, answer, cv)
             at(c) == CHOOSE i \in DOMAIN sent : sent[i].code = c
             seen == [i \in DOMAIN contract |->
                        IF contract[i].method \in InScope THEN judged[at(contract[i].code)]
                        ELSE Excluded(contract[i])]
  <1>1. InspectImage(contract, said, config, answer, points).results = seen
    BY DEF InspectImage
  <1> HIDE DEF cv
  <1>2. ASSUME NEW k \in DOMAIN contract, contract[k].method \in InScope
        PROVE  seen[k] = LET replied == {a \in DOMAIN answer : answer[a].code = contract[k].code}
                         IN IF replied = {} THEN [code |-> contract[k].code, saw |-> NoCount, result |-> "not_visible"]
                            ELSE Judged(answer[CHOOSE a \in replied : TRUE], contract[k].method, cv)
    <2>1. k \in DOMAIN sent /\ sent[k].code = contract[k].code /\ sent[k] = contract[k]
      BY <1>2
    <2>2. \A i \in DOMAIN sent : i \in DOMAIN contract /\ sent[i] = contract[i]
      OBVIOUS
    <2>3. at(contract[k].code) \in DOMAIN sent /\ sent[at(contract[k].code)].code = contract[k].code
      BY <2>1
    <2> HIDE DEF sent, at, judged
    <2>4. at(contract[k].code) = k
      BY <2>2, <2>3 DEF DistinctPoints
    <2>5. seen[k] = judged[k]
      BY <1>2, <2>4
    <2>6. judged[k] = LET replied == {a \in DOMAIN answer : answer[a].code = sent[k].code}
                      IN IF replied = {} THEN [code |-> sent[k].code, saw |-> NoCount, result |-> "not_visible"]
                         ELSE Judged(answer[CHOOSE a \in replied : TRUE], sent[k].method, cv)
      BY <2>1 DEF judged, NormalizeInspection
    <2> HIDE DEF seen
    <2> QED
      BY <2>1, <2>5, <2>6
  <1> DEFINE P(k) == /\ seen[k].code = contract[k].code
                     /\ seen[k].result = "pass" =>
                          \E i \in DOMAIN answer :
                            /\ answer[i].code = contract[k].code /\ answer[i].result = "pass"
                            /\ contract[k].method \in InScope
                            /\ contract[k].method = "counting" =>
                                 /\ contract[k].code \in DOMAIN cv /\ seen[k].saw = cv[contract[k].code]
                                 /\ answer[i].cv # "disagrees"
  <1>3. ASSUME NEW k \in DOMAIN contract
        PROVE  P(k)
    <2>1. CASE contract[k].method \notin InScope
      <3>1. seen[k] = Excluded(contract[k])
        BY <2>1
      <3> HIDE DEF seen
      <3>2. seen[k].code = contract[k].code /\ seen[k].result = "low_confidence"
        BY <3>1 DEF Excluded
      <3> QED
        BY <3>2
    <2>2. CASE contract[k].method \in InScope
      <3> DEFINE replied == {a \in DOMAIN answer : answer[a].code = contract[k].code}
                 item == answer[CHOOSE a \in replied : TRUE]
      <3>1. seen[k] = IF replied = {} THEN [code |-> contract[k].code, saw |-> NoCount, result |-> "not_visible"]
                      ELSE Judged(item, contract[k].method, cv)
        BY <1>2, <2>2
      <3> HIDE DEF seen
      <3>2. CASE replied = {}
        <4> HIDE DEF replied, item
        <4>1. seen[k].code = contract[k].code /\ seen[k].result = "not_visible"
          BY <3>1, <3>2
        <4> QED
          BY <4>1
      <3>3. CASE replied # {}
        <4>1. PICK a \in replied : item = answer[a]
          BY <3>3
        <4>2. a \in DOMAIN answer /\ answer[a].code = contract[k].code
          BY <4>1
        <4> HIDE DEF replied, item
        <4>3. seen[k] = Judged(answer[a], contract[k].method, cv)
          BY <3>1, <3>3, <4>1
        <4>4. seen[k].code = contract[k].code
          BY <4>2, <4>3, JudgedCode
        <4>5. seen[k].result = "pass" =>
                /\ answer[a].result = "pass"
                /\ contract[k].method = "counting" =>
                     /\ contract[k].code \in DOMAIN cv /\ seen[k].saw = cv[contract[k].code]
                     /\ answer[a].cv # "disagrees"
          BY <4>2, <4>3, JudgedPass
        <4> QED
          BY <2>2, <4>2, <4>4, <4>5
      <3> QED
        BY <3>2, <3>3
    <2> QED
      BY <2>1, <2>2
  <1>4. DOMAIN seen = DOMAIN contract
    OBVIOUS
  <1> HIDE DEF seen
  <1>5. DOMAIN seen = DOMAIN contract /\ \A k \in DOMAIN seen : P(k)
    BY <1>3, <1>4
  <1> QED
    BY <1>1, <1>5 DEF cv

LEMMA SightInductive == SightInv /\ [StudioNext]_studioVars => SightInv'
  <1> SUFFICES ASSUME SightInv, [StudioNext]_studioVars
               PROVE  SightInv'
    OBVIOUS
  <1>1. CASE UNCHANGED <<standard, sight>>
    BY <1>1 DEF SightInv, PassIsSupported
  <1>2. ASSUME sight' = sight, DistinctPoints(standard')
        PROVE  SightInv'
    BY <1>2 DEF SightInv, PassIsSupported
  <1>3. ASSUME NEW i \in DOMAIN intakes, NEW typed, NEW answers, ConfirmDraft(i, typed, answers)
        PROVE  SightInv'
    <2> DEFINE card == Card(i, typed)
    <2>1. \A j, k \in DOMAIN card : card[j].code = card[k].code => j = k
      BY <1>3 DEF ConfirmDraft, MayConfirm
    <2>2. /\ standard' = [k \in DOMAIN card |->
                            [code |-> card[k].code, method |-> card[k].method,
                             value |-> card[k].value, cv |-> card[k].cv, regions |-> {}]]
          /\ sight' = sight
      BY <1>3 DEF ConfirmDraft
    <2> HIDE DEF card
    <2>3. DistinctPoints(standard')
      BY <2>1, <2>2 DEF DistinctPoints
    <2> QED
      BY <1>2, <2>2, <2>3
  <1>4. ASSUME NEW k \in DOMAIN standard, NEW regions, SetRegions(k, regions)
        PROVE  SightInv'
    <2>1. standard' = [standard EXCEPT ![k].regions = regions] /\ sight' = sight
      BY <1>4 DEF SetRegions
    <2>2. DistinctPoints(standard)
      BY DEF SightInv
    <2>3. DistinctPoints(standard')
      BY <2>1, <2>2, PointKept
    <2> QED
      BY <1>2, <2>1, <2>3
  <1>5. ASSUME NEW k \in DOMAIN standard, NEW cv, SetAnalysisConfig(k, cv)
        PROVE  SightInv'
    <2>1. standard' = [standard EXCEPT ![k].cv = cv] /\ sight' = sight
      BY <1>5 DEF SetAnalysisConfig
    <2>2. DistinctPoints(standard)
      BY DEF SightInv
    <2>3. DistinctPoints(standard')
      BY <2>1, <2>2, PointKept
    <2> QED
      BY <1>2, <2>1, <2>3
  <1>6. ASSUME NEW said, NEW answer, NEW counts, Inspect(said, answer, counts)
        PROVE  SightInv'
    <2> DEFINE points == [k \in DOMAIN standard |->
                            [code |-> standard[k].code,
                             counts |-> IF standard[k].cv = "none" THEN <<>> ELSE counts[k]]]
               seen == InspectImage(standard, said, configured.vision, answer, points)
               told == [contract |-> standard, answer |-> answer, cv |-> CvCounts(points),
                        results |-> seen.results]
    <2>1. standard' = standard /\ sight' = IF ~seen.ok THEN NoSight ELSE told
      BY <1>6 DEF Inspect
    <2>2. DistinctPoints(standard)
      BY DEF SightInv
    <2>3. CASE ~seen.ok
      <3>1. sight' = NoSight
        BY <2>1, <2>3
      <3>2. sight'.results = <<>> /\ sight'.contract = <<>> /\ DOMAIN <<>> = {}
        BY <3>1 DEF NoSight
      <3> QED
        BY <2>1, <2>2, <3>2 DEF SightInv, PassIsSupported
    <2>4. CASE seen.ok
      <3>1. sight' = told
        BY <2>1, <2>4
      <3>2. /\ sight'.contract = standard /\ sight'.answer = answer /\ sight'.cv = CvCounts(points)
            /\ sight'.results = seen.results
        BY <3>1
      <3> HIDE DEF told, points
      <3>3. /\ DOMAIN seen.results = DOMAIN standard
            /\ \A k \in DOMAIN seen.results :
                 /\ seen.results[k].code = standard[k].code
                 /\ seen.results[k].result = "pass" =>
                      \E i \in DOMAIN answer :
                        /\ answer[i].code = standard[k].code /\ answer[i].result = "pass"
                        /\ standard[k].method \in InScope
                        /\ standard[k].method = "counting" =>
                             /\ standard[k].code \in DOMAIN CvCounts(points)
                             /\ seen.results[k].saw = CvCounts(points)[standard[k].code]
                             /\ answer[i].cv # "disagrees"
        BY <2>2, ImageInspected
      <3> HIDE DEF seen
      <3>4. PassIsSupported'
        BY <3>2, <3>3 DEF PassIsSupported
      <3> QED
        BY <2>1, <2>2, <3>4 DEF SightInv
    <2> QED
      BY <2>3, <2>4
  <1>7. CASE StudioNext
    <2>1. CASE CatalogCreate \/ StudioCreate \/ Publish
      BY <1>1, <2>1 DEF CatalogCreate, StudioCreate, Publish
    <2>2. CASE \E text \in Messages : ParserTurn(text)
      BY <1>1, <2>2 DEF ParserTurn
    <2>3. CASE \E primary \in BOOLEAN : AddPhoto(primary)
      BY <1>1, <2>3 DEF AddPhoto
    <2>4. CASE \E p \in 1 .. Len(photos) + 1 : photos # <<>> /\ SetPrimary(p)
      BY <1>1, <2>4 DEF SetPrimary
    <2>5. CASE \E a \in Admin :
                 \/ (\E file \in Upload : BeginUpload(a, file)) \/ StorePhoto(a)
                 \/ \E text \in Messages : Chat(a, text) \/ \E doc \in Documents : ImportStandard(a, doc, text)
                 \/ \E reply \in Replies : ModelReplies(a, reply)
      BY <1>1, <2>5 DEF BeginUpload, StorePhoto, Chat, ImportStandard, ModelReplies
    <2>6. CASE \E i \in DOMAIN intakes : RejectDraft(i)
      BY <1>1, <2>6 DEF RejectDraft
    <2> QED
      BY <1>7, <1>3, <1>4, <1>5, <1>6, <2>1, <2>2, <2>3, <2>4, <2>5, <2>6 DEF StudioNext
  <1> QED
    BY <1>1, <1>7 DEF studioVars

\* Whatever the models answer, and however often drafts are confirmed anew: one
\* result for every confirmed point, and a pass only of one in scope that the
\* model passed, a counted one on a CV count the model does not dispute.
THEOREM SupportedPass == StudioSpec => []PassIsSupported
  <1>1. StudioInit => SightInv
    <2> SUFFICES ASSUME StudioInit PROVE SightInv
      OBVIOUS
    <2>1. standard = <<>> /\ sight.results = <<>> /\ sight.contract = <<>> /\ DOMAIN <<>> = {}
      BY DEF StudioInit, NoSight
    <2> QED
      BY <2>1 DEF SightInv, DistinctPoints, PassIsSupported
  <1>2. SightInv => PassIsSupported
    BY DEF SightInv
  <1> QED
    BY <1>1, <1>2, SightInductive, PTL DEF StudioSpec

\* Drafts: what is kept of a reply has one checkpoint for each fact of the text
\* that decides on one, and a draft stays as it was drafted.

\* A list without a second checkpoint that the same fact decides on.
LEMMA KeptOnce ==
  ASSUME NEW n \in Nat, NEW cps, DOMAIN cps = 1 .. n, NEW text
  PROVE  /\ \A k \in DOMAIN Kept(cps, text) : \E i \in DOMAIN cps : Kept(cps, text)[k] = cps[i]
         /\ \A j, k \in DOMAIN Kept(cps, text) :
              /\ Claim(Kept(cps, text)[j], text) # "nothing"
              /\ Claim(Kept(cps, text)[j], text) = Claim(Kept(cps, text)[k], text)
              => j = k
  <1> DEFINE claim(i) == Claim(cps[i], text)
             kept == {i \in DOMAIN cps :
                        ~(claim(i) # "nothing" /\ \E j \in 1 .. i - 1 : claim(j) = claim(i))}
             upTo(i) == {j \in kept : j <= i}
             rank == [i \in kept |-> Cardinality(upTo(i))]
             size == Cardinality(kept)
             nth(k) == CHOOSE i \in kept : Cardinality(upTo(i)) = k
             out == [k \in 1 .. size |-> cps[nth(k)]]
  <1>1. Kept(cps, text) = out
    BY DEF Kept
  <1>2. kept \subseteq 1 .. n /\ \A i \in kept : i \in Nat
    OBVIOUS
  <1>3. \A i, j \in kept : i < j => ~(claim(j) # "nothing" /\ claim(i) = claim(j))
    <2> HIDE DEF claim
    <2> QED
      OBVIOUS
  <1> HIDE DEF kept
  <1>4. IsFiniteSet(kept) /\ size \in Nat
    <2>1. IsFiniteSet(1 .. n)
      BY FS_Interval
    <2> QED
      BY <1>2, <2>1, FS_Subset, FS_CardinalityType
  <1>5. ASSUME NEW i \in kept
        PROVE  IsFiniteSet(upTo(i)) /\ Cardinality(upTo(i)) \in 1 .. size
    <2>1. upTo(i) \subseteq kept /\ i \in upTo(i)
      BY <1>2
    <2> HIDE DEF upTo
    <2>2. IsFiniteSet(upTo(i)) /\ Cardinality(upTo(i)) <= size /\ Cardinality(upTo(i)) \in Nat
      BY <1>4, <2>1, FS_Subset, FS_CardinalityType
    <2>3. Cardinality(upTo(i)) # 0
      BY <2>1, <2>2, FS_EmptySet
    <2> QED
      BY <1>4, <2>2, <2>3
  <1>6. ASSUME NEW i \in kept, NEW j \in kept, i < j
        PROVE  Cardinality(upTo(i)) # Cardinality(upTo(j))
    <2>0. i \in Nat /\ j \in Nat
      BY <1>2
    <2>3. ASSUME NEW m \in upTo(i)
          PROVE  m \in upTo(j)
      <3>1. m \in kept /\ m <= i /\ m \in Nat
        BY <1>2
      <3> QED
        BY <1>6, <2>0, <3>1
    <2>4. j \in upTo(j) /\ j \notin upTo(i)
      BY <1>6, <2>0
    <2>1. upTo(i) \subseteq upTo(j) /\ j \in upTo(j) /\ j \notin upTo(i)
      <3> HIDE DEF upTo
      <3> QED
        BY <2>3, <2>4
    <2> HIDE DEF upTo
    <2>2. IsFiniteSet(upTo(j))
      BY <1>5
    <2> QED
      BY <2>1, <2>2, FS_Subset
  <1>7. \A i, j \in kept : Cardinality(upTo(i)) = Cardinality(upTo(j)) => i = j
    <2> HIDE DEF upTo
    <2> QED
      BY <1>2, <1>6
  <1>8. rank \in Injection(kept, 1 .. size)
    <2>1. rank \in [kept -> 1 .. size]
      BY <1>5
    <2>2. \A i, j \in kept : rank[i] = rank[j] => i = j
      BY <1>7
    <2> HIDE DEF rank
    <2> QED
      BY <2>1, <2>2 DEF Injection, IsInjective
  <1>9. IsFiniteSet(1 .. size) /\ Cardinality(1 .. size) = size
    <2>1. \A m \in Nat : IsFiniteSet(1 .. m) /\ Cardinality(1 .. m) = m
      BY FS_Interval
    <2> HIDE DEF size
    <2> QED
      BY <1>4, <2>1
  <1>10. rank \in Surjection(kept, 1 .. size)
    <2> DEFINE scale == 1 .. size
    <2>1. Cardinality(kept) = Cardinality(scale) /\ IsFiniteSet(scale) /\ rank \in Injection(kept, scale)
      BY <1>8, <1>9
    <2> HIDE DEF scale, rank, size
    <2>2. rank \in Surjection(kept, scale)
      BY <2>1, FS_Injection
    <2> QED
      BY <2>2 DEF scale
  <1>11. \A k \in 1 .. size : \E i \in kept : Cardinality(upTo(i)) = k
    <2>1. \A k \in 1 .. size : \E i \in kept : rank[i] = k
      <3> HIDE DEF rank
      <3> QED
        BY <1>10 DEF Surjection
    <2> QED
      BY <2>1
  <1>12. ASSUME NEW k \in 1 .. size
         PROVE  nth(k) \in kept /\ Cardinality(upTo(nth(k))) = k
    <2> HIDE DEF upTo, size
    <2> QED
      BY <1>11
  <1>13. \A j, k \in 1 .. size : nth(j) = nth(k) => j = k
    <2> HIDE DEF upTo, size, nth
    <2> QED
      BY <1>12
  <1>14. DOMAIN out = 1 .. size /\ \A k \in 1 .. size : nth(k) \in kept /\ out[k] = cps[nth(k)]
    <2> HIDE DEF nth, size
    <2> QED
      BY <1>12
  <1> HIDE DEF out, nth, size
  <1>15. \A k \in DOMAIN out : \E i \in DOMAIN cps : out[k] = cps[i]
    BY <1>2, <1>14
  <1>16. ASSUME NEW j \in DOMAIN out, NEW k \in DOMAIN out,
                Claim(out[j], text) # "nothing", Claim(out[j], text) = Claim(out[k], text)
         PROVE  j = k
    <2>1. nth(j) \in kept /\ nth(k) \in kept /\ nth(j) \in Nat /\ nth(k) \in Nat
      BY <1>2, <1>14
    <2>2. Claim(out[j], text) = claim(nth(j)) /\ Claim(out[k], text) = claim(nth(k))
      BY <1>14
    <2> HIDE DEF claim
    <2>3. ~(nth(j) < nth(k)) /\ ~(nth(k) < nth(j))
      BY <1>3, <1>16, <2>1, <2>2
    <2>4. nth(j) = nth(k)
      BY <2>1, <2>3
    <2> QED
      BY <1>13, <1>14, <2>4
  <1> QED
    BY <1>1, <1>15, <1>16

\* What the administrator's text makes of a list of checkpoints.
Field == {"code", "label", "title", "body", "method", "value", "says", "cv"}
CountedOf(cp, text) == Mentions(cp) \cap text.counts
ToCentre(cp, text) == "centre" \in cp.title /\ CountedOf(cp, text) = {}
Heeds(cps, qs, text) ==
  /\ \A j \in DOMAIN cps : CountedOf(cps[j], text) # {} =>
       /\ cps[j].method = "counting" /\ cps[j].value \in CountedOf(cps[j], text)
       /\ \A q \in qs : q.code # cps[j].code
  /\ \A j, k \in DOMAIN cps :
       /\ CountedOf(cps[j], text) # {} /\ CountedOf(cps[k], text) # {}
       /\ cps[j].value = cps[k].value
       => j = k
  /\ text.centre # "none" =>
       \A j, k \in DOMAIN cps : ToCentre(cps[j], text) /\ ToCentre(cps[k], text) =>
         j = k /\ cps[j].value = CentreBound(text)

LEMMA Validated ==
  ASSUME NEW cp, DOMAIN cp = Field
  PROVE  DOMAIN ValidateCheckpoint(cp) = Field
  BY DEF ValidateCheckpoint

\* A fact that decides on a checkpoint is a count of something it mentions, if
\* the text counts such a thing, else the request to centre it.
LEMMA Decisive ==
  ASSUME NEW cp, NEW text, text.counts \subseteq Concept
  PROVE  /\ CountedOf(cp, text) # {} => Claim(cp, text) \in CountedOf(cp, text)
         /\ CountedOf(cp, text) = {} =>
              Claim(cp, text) = IF "centre" \in Mentions(cp) /\ text.centre # "none"
                                THEN "centre" ELSE "nothing"
  <1> DEFINE counted == {i \in 1 .. 3 : CountConcepts[i] \in text.counts \cap Mentions(cp)}
             least == CHOOSE i \in counted : \A j \in counted : i <= j
  <1>1. CountedOf(cp, text) # {} <=> counted # {}
    <2>1. \A k \in text.counts : \E i \in 1 .. 3 : k = CountConcepts[i]
      BY DEF Concept
    <2> QED
      BY <2>1 DEF CountedOf
  <1>2. ASSUME counted # {}
        PROVE  least \in counted
    <2>1. \E i \in counted : \A j \in counted : i <= j
      <3>1. counted \subseteq 1 .. 3
        OBVIOUS
      <3> HIDE DEF counted
      <3>2. \A j \in counted : j = 1 \/ j = 2 \/ j = 3
        BY <3>1
      <3>3. CASE 1 \in counted
        BY <3>2, <3>3
      <3>4. CASE 1 \notin counted /\ 2 \in counted
        BY <3>2, <3>4
      <3>5. CASE 1 \notin counted /\ 2 \notin counted
        BY <1>2, <3>2, <3>5
      <3> QED
        BY <3>3, <3>4, <3>5
    <2> HIDE DEF counted
    <2> QED
      BY <2>1
  <1>3. CASE counted # {}
    <2>1. Claim(cp, text) = CountConcepts[least]
      BY <1>3 DEF Claim
    <2>2. CountConcepts[least] \in text.counts \cap Mentions(cp)
      <3> HIDE DEF least
      <3> QED
        BY <1>2, <1>3
    <2> HIDE DEF counted, least
    <2> QED
      BY <1>1, <1>3, <2>1, <2>2 DEF CountedOf
  <1>4. CASE counted = {}
    <2>1. Claim(cp, text) = IF "centre" \in Mentions(cp) /\ text.centre # "none"
                            THEN "centre" ELSE "nothing"
      BY <1>4 DEF Claim
    <2> HIDE DEF counted
    <2> QED
      BY <1>1, <1>4, <2>1
  <1> QED
    BY <1>3, <1>4

LEMMA MadeAuthoritative ==
  ASSUME NEW cp, DOMAIN cp = Field, NEW text, text.counts \subseteq Concept
  PROVE  LET made == Authoritative(cp, text)
         IN /\ CountedOf(made, text) = CountedOf(cp, text)
            /\ CountedOf(cp, text) # {} =>
                 /\ made.method = "counting" /\ made.value = Claim(cp, text)
                 /\ Claim(cp, text) \in CountedOf(cp, text) /\ Claim(cp, text) # "nothing"
            /\ text.centre # "none" /\ ToCentre(made, text) =>
                 Claim(cp, text) = "centre" /\ made.value = CentreBound(text)
  <1> DEFINE made == Authoritative(cp, text)
             claim == Claim(cp, text)
  <1>1. \A k \in Concept : k # "centre" /\ k # "nothing"
    <2>1. Concept = {"petal", "pearl", "rhinestone"}
      <3>1. 1 .. 3 = {1, 2, 3}
        OBVIOUS
      <3> QED
        BY <3>1 DEF Concept, CountConcepts
    <2> QED
      BY <2>1
  <1>2. CASE CountedOf(cp, text) # {}
    <2>1. claim \in CountedOf(cp, text) /\ claim # "nothing" /\ claim # "centre"
      BY <1>1, <1>2, Decisive DEF CountedOf
    <2>2. made = [cp EXCEPT !.method = "counting", !.value = claim, !.cv = "matching"]
      BY <2>1 DEF Authoritative
    <2> HIDE DEF claim
    <2>3. made.method = "counting" /\ made.value = claim /\ made.title = cp.title /\ made.body = cp.body
      BY <2>2 DEF Field
    <2> HIDE DEF made
    <2>4. CountedOf(made, text) = CountedOf(cp, text)
      BY <2>3 DEF CountedOf, Mentions
    <2>5. ~ToCentre(made, text)
      BY <1>2, <2>4 DEF ToCentre
    <2> QED
      BY <2>1, <2>3, <2>4, <2>5 DEF made, claim
  <1>3. CASE CountedOf(cp, text) = {} /\ "centre" \in Mentions(cp) /\ text.centre # "none"
    <2>1. claim = "centre"
      BY <1>3, Decisive
    <2>2. made = [cp EXCEPT !.method = "alignment", !.value = CentreBound(text), !.cv = "matching", !.body = {}]
      BY <2>1 DEF Authoritative
    <2>3. made.value = CentreBound(text) /\ made.title = cp.title /\ made.body = {}
      BY <2>2 DEF Field
    <2> HIDE DEF made
    <2>4. CountedOf(made, text) = CountedOf(cp, text)
      BY <1>3, <2>3 DEF CountedOf, Mentions
    <2> QED
      BY <1>3, <2>1, <2>3, <2>4 DEF made
  <1>4. CASE CountedOf(cp, text) = {} /\ ~("centre" \in Mentions(cp) /\ text.centre # "none")
    <2>1. claim = "nothing"
      BY <1>4, Decisive
    <2>2. made = cp
      BY <2>1 DEF Authoritative
    <2>3. text.centre # "none" => ~ToCentre(cp, text)
      BY <1>4 DEF ToCentre, Mentions
    <2> QED
      BY <1>4, <2>2, <2>3
  <1> QED
    BY <1>2, <1>3, <1>4

LEMMA ReplyFollows ==
  ASSUME NEW reply \in Replies, NEW text, text.counts \subseteq Concept
  PROVE  Heeds(NormalizeResult(reply, text).cps, NormalizeResult(reply, text).qs, text)
  <1> DEFINE valid == [i \in DOMAIN reply.cps |-> ValidateCheckpoint(reply.cps[i])]
             kept == Kept(valid, text)
             cps == EnforceText(valid, text)
             qs == Questions(cps, reply.qs, text)
             claim(k) == Claim(kept[k], text)
             none(k) == CountedOf(kept[k], text) = {}
  <1>1. NormalizeResult(reply, text).cps = cps /\ NormalizeResult(reply, text).qs = qs
    BY DEF NormalizeResult
  <1>2. Len(reply.cps) \in Nat /\ DOMAIN valid = 1 .. Len(reply.cps)
    BY StudioAssumption
  <1>3. ASSUME NEW i \in DOMAIN valid
        PROVE  DOMAIN valid[i] = Field
    <2>1. DOMAIN reply.cps[i] = Field /\ valid[i] = ValidateCheckpoint(reply.cps[i])
      BY <1>3, StudioAssumption DEF Field
    <2> HIDE DEF valid
    <2> QED
      BY <2>1, Validated
  <1> HIDE DEF valid
  <1>4. /\ \A k \in DOMAIN kept : \E i \in DOMAIN valid : kept[k] = valid[i]
        /\ \A j, k \in DOMAIN kept : claim(j) # "nothing" /\ claim(j) = claim(k) => j = k
    BY <1>2, KeptOnce
  <1>5. DOMAIN cps = DOMAIN kept /\ \A k \in DOMAIN kept : cps[k] = Authoritative(kept[k], text)
    BY DEF EnforceText
  <1>6. \A k \in DOMAIN kept : DOMAIN kept[k] = Field
    BY <1>3, <1>4
  <1>7. \A q \in qs : \A i \in DOMAIN cps : ~Redundant(q, cps[i])
    BY DEF Questions
  <1> HIDE DEF kept, cps, qs
  <1>8. ASSUME NEW k \in DOMAIN cps
        PROVE  /\ CountedOf(cps[k], text) = CountedOf(kept[k], text)
               /\ CountedOf(kept[k], text) # {} =>
                    /\ cps[k].method = "counting" /\ cps[k].value = claim(k)
                    /\ claim(k) \in CountedOf(kept[k], text) /\ claim(k) # "nothing"
               /\ text.centre # "none" /\ ToCentre(cps[k], text) =>
                    claim(k) = "centre" /\ cps[k].value = CentreBound(text)
    <2>1. cps[k] = Authoritative(kept[k], text) /\ DOMAIN kept[k] = Field
      BY <1>5, <1>6
    <2> QED
      BY <2>1, MadeAuthoritative
  <1> HIDE DEF claim
  <1>9. ASSUME NEW j \in DOMAIN cps, CountedOf(cps[j], text) # {}, NEW q \in qs
        PROVE  q.code # cps[j].code
    <2>1. cps[j].value \in Concept
      BY <1>8, <1>9 DEF CountedOf
    <2>2. cps[j].value # "none"
      <3>1. 1 .. 3 = {1, 2, 3}
        OBVIOUS
      <3> QED
        BY <2>1, <3>1 DEF Concept, CountConcepts
    <2> QED
      BY <1>7, <2>2 DEF Redundant
  <1>10. Heeds(cps, qs, text)
    BY <1>4, <1>5, <1>8, <1>9 DEF Heeds
  <1> QED
    BY <1>1, <1>10

\* The drafts of an SKU follow the texts they were drafted from.
IsDraft(d) == DOMAIN d = {"cps", "qs", "text", "status"} /\ Heeds(d.cps, d.qs, d.text)
Drafted(list) == (\E S : list \in Seq(S)) /\ \A i \in DOMAIN list : IsDraft(list[i])
TurnsKept == DOMAIN turn = Admin /\ \A a \in Admin : turn[a].text \in Messages \cup {NoText}
DraftInv == Drafted(intakes) /\ TurnsKept
AuthoredInv == configured.text => DraftInv

LEMMA DraftAdded ==
  ASSUME NEW list, Drafted(list), NEW d, IsDraft(d)
  PROVE  Drafted(Append(list, d))
  <1>1. PICK S : list \in Seq(S)
    BY DEF Drafted
  <1> DEFINE T == S \cup {d}
  <1>2. list \in Seq(T) /\ d \in T
    BY <1>1
  <1> HIDE DEF T
  <1>3. /\ Append(list, d) \in Seq(T)
        /\ \A p \in DOMAIN Append(list, d) :
             (p \in DOMAIN list /\ Append(list, d)[p] = list[p]) \/ Append(list, d)[p] = d
    BY <1>2, AppendHolds
  <1> QED
    BY <1>3 DEF Drafted

LEMMA DraftMarked ==
  ASSUME NEW list, Drafted(list), NEW i \in DOMAIN list, NEW x
  PROVE  Drafted([list EXCEPT ![i].status = x])
  <1>1. PICK S : list \in Seq(S)
    BY DEF Drafted
  <1> DEFINE d == [list[i] EXCEPT !.status = x]
             new == [list EXCEPT ![i] = d]
             T == S \cup {d}
  <1>2. IsDraft(list[i])
    BY DEF Drafted
  <1>3. IsDraft(d)
    <2>1. DOMAIN d = {"cps", "qs", "text", "status"} /\ d.cps = list[i].cps /\ d.qs = list[i].qs /\ d.text = list[i].text
      BY <1>2 DEF IsDraft
    <2> HIDE DEF d
    <2> QED
      BY <1>2, <2>1 DEF IsDraft
  <1>4. [list EXCEPT ![i].status = x] = new
    OBVIOUS
  <1> HIDE DEF d
  <1>5. list \in Seq(T) /\ d \in T
    BY <1>1
  <1> HIDE DEF T
  <1>6. new \in Seq(T) /\ DOMAIN new = DOMAIN list /\ \A j \in DOMAIN list : new[j] = IF j = i THEN d ELSE list[j]
    BY <1>5
  <1> HIDE DEF new
  <1>7. Drafted(new)
    BY <1>3, <1>6 DEF Drafted
  <1> QED
    BY <1>4, <1>7

LEMMA TurnTaken ==
  ASSUME DraftInv, NEW a \in Admin, NEW t, turn' = [turn EXCEPT ![a] = t], t.text \in Messages \cup {NoText},
         Drafted(intakes')
  PROVE  DraftInv'
  BY DEF DraftInv, TurnsKept

LEMMA NoTurnSays == NoTurn.text = NoText
  BY DEF NoTurn

\* A reply adds at most one draft, which follows the text of its request.
LEMMA ReplyDrafted ==
  ASSUME DraftInv, NEW a \in Admin, NEW reply \in Replies, ModelReplies(a, reply)
  PROVE  DraftInv'
  <1> DEFINE text == turn[a].text
             draft == IF turn[a].kind = "photo" THEN AuthorImage(reply, configured.vision)
                      ELSE AuthorText(reply, text, configured.text)
  <1>1. /\ turn' = [turn EXCEPT ![a] = NoTurn]
        /\ IF draft = NoReply THEN UNCHANGED <<skuStatus, intakes>> ELSE ApplyTurn(draft, text)
    BY DEF ModelReplies
  <1>2. Drafted(intakes) /\ text \in Messages \cup {NoText}
    BY DEF DraftInv, TurnsKept
  <1>3. text.counts \subseteq Concept
    <2>1. NoText.counts = {}
      BY DEF NoText
    <2> QED
      BY <1>2, <2>1, StudioAssumption
  <1>4. ASSUME draft # NoReply
        PROVE  Heeds(draft.cps, draft.qs, text)
    <2>1. CASE turn[a].kind = "photo"
      <3>1. draft = [NormalizeResult(reply, NoText) EXCEPT !.cps = <<>>]
        BY <1>4, <2>1 DEF AuthorImage
      <3>2. draft.cps = <<>> /\ DOMAIN <<>> = {}
        BY <3>1 DEF NormalizeResult
      <3> HIDE DEF draft
      <3> QED
        BY <3>2 DEF Heeds
    <2>2. CASE turn[a].kind # "photo"
      <3>1. draft = NormalizeResult(reply, text)
        BY <1>4, <2>2 DEF AuthorText
      <3> HIDE DEF draft, text
      <3> QED
        BY <1>3, <3>1, ReplyFollows
    <2> QED
      BY <2>1, <2>2
  <1> HIDE DEF draft
  <1>5. Drafted(intakes')
    <2>1. CASE intakes' = intakes
      BY <1>2, <2>1
    <2>2. CASE draft # NoReply /\ intakes' = Append(intakes, Intake(draft, text))
      <3>1. Heeds(draft.cps, draft.qs, text)
        BY <1>4, <2>2
      <3> HIDE DEF text
      <3>2. IsDraft(Intake(draft, text))
        BY <3>1 DEF IsDraft, Intake
      <3> QED
        BY <1>2, <2>2, <3>2, DraftAdded
    <2> HIDE DEF text
    <2> QED
      BY <1>1, <2>1, <2>2 DEF ApplyTurn, PersistTurn
  <1>6. NoTurn.text \in Messages \cup {NoText}
    BY NoTurnSays
  <1> HIDE DEF text
  <1> QED
    BY <1>1, <1>5, <1>6, TurnTaken

\* Where the assistants are configured nothing is parsed, and they stay so.
LEMMA DraftInductive == AuthoredInv /\ [StudioNext]_studioVars => AuthoredInv'
  <1>0. [StudioNext]_studioVars => configured' = configured
    BY DEF StudioNext, studioVars, CatalogCreate, StudioCreate, Publish, AddPhoto, SetPrimary, BeginUpload, StorePhoto,
           Chat, ImportStandard, ModelReplies, ParserTurn, RejectDraft, ConfirmDraft, SetRegions,
           SetAnalysisConfig, Inspect
  <1> SUFFICES ASSUME configured.text, DraftInv, [StudioNext]_studioVars
               PROVE  DraftInv'
    BY <1>0 DEF AuthoredInv
  <1>1. CASE UNCHANGED <<intakes, turn>>
    BY <1>1 DEF DraftInv, TurnsKept
  <1>2. ASSUME intakes' = intakes
        PROVE  Drafted(intakes')
    BY <1>2 DEF DraftInv
  <1>3. ASSUME NEW a \in Admin, NEW file \in Upload, BeginUpload(a, file)
        PROVE  DraftInv'
    <2> DEFINE t == [NoTurn EXCEPT !.kind = "upload", !.first = (photos = <<>>)]
    <2>1. turn' = [turn EXCEPT ![a] = t] /\ intakes' = intakes
      BY <1>3 DEF BeginUpload
    <2>2. t.text = NoText
      BY DEF NoTurn
    <2> HIDE DEF t
    <2> QED
      BY <1>2, <2>1, <2>2, TurnTaken
  <1>4. ASSUME NEW a \in Admin, StorePhoto(a)
        PROVE  DraftInv'
    <2>1. turn' = [turn EXCEPT ![a] = AfterUpload] /\ intakes' = intakes
      BY <1>4 DEF StorePhoto
    <2>2. AfterUpload.text = NoText
      BY DEF AfterUpload, NoTurn
    <2> QED
      BY <1>2, <2>1, <2>2, TurnTaken
  <1>5. ASSUME NEW a \in Admin, NEW text \in Messages, Chat(a, text)
        PROVE  DraftInv'
    <2> DEFINE t == [NoTurn EXCEPT !.kind = "chat", !.text = text]
    <2>1. turn' = [turn EXCEPT ![a] = t] /\ intakes' = intakes
      BY <1>5 DEF Chat
    <2>2. t.text = text
      BY DEF NoTurn
    <2> HIDE DEF t
    <2> QED
      BY <1>2, <2>1, <2>2, TurnTaken
  <1>6. ASSUME NEW a \in Admin, NEW doc \in Documents, NEW text \in Messages, ImportStandard(a, doc, text)
        PROVE  DraftInv'
    <2> DEFINE t == [NoTurn EXCEPT !.kind = "import", !.text = text]
    <2>1. turn' = [turn EXCEPT ![a] = t] /\ intakes' = intakes
      BY <1>6 DEF ImportStandard
    <2>2. t.text = text
      BY DEF NoTurn
    <2> HIDE DEF t
    <2> QED
      BY <1>2, <2>1, <2>2, TurnTaken
  <1>7. ASSUME NEW text \in Messages, ParserTurn(text)
        PROVE  FALSE
    BY <1>7 DEF ParserTurn
  <1>8. ASSUME NEW i \in DOMAIN intakes, NEW status, intakes' = [intakes EXCEPT ![i].status = status], turn' = turn
        PROVE  DraftInv'
    <2>1. Drafted(intakes')
      BY <1>8, DraftMarked DEF DraftInv
    <2> QED
      BY <1>8, <2>1 DEF DraftInv, TurnsKept
  <1>9. CASE StudioNext
    <2>1. CASE CatalogCreate \/ StudioCreate \/ Publish
      BY <1>1, <2>1 DEF CatalogCreate, StudioCreate, Publish
    <2>2. CASE \E primary \in BOOLEAN : AddPhoto(primary)
      BY <1>1, <2>2 DEF AddPhoto
    <2>3. CASE \E p \in 1 .. Len(photos) + 1 : photos # <<>> /\ SetPrimary(p)
      BY <1>1, <2>3 DEF SetPrimary
    <2>4. ASSUME NEW i \in DOMAIN intakes, RejectDraft(i)
          PROVE  DraftInv'
      BY <1>8, <2>4 DEF RejectDraft
    <2>5. ASSUME NEW i \in DOMAIN intakes, NEW typed, NEW answers, ConfirmDraft(i, typed, answers)
          PROVE  DraftInv'
      <3>1. intakes' = [intakes EXCEPT ![i].status = "confirmed"] /\ turn' = turn
        BY <2>5 DEF ConfirmDraft
      <3> QED
        BY <1>8, <3>1
    <2>6. CASE \E k \in DOMAIN standard :
                 \/ \E regions \in SUBSET {1, 2} : SetRegions(k, regions)
                 \/ \E cv \in {"none", "matching"} : SetAnalysisConfig(k, cv)
      BY <1>1, <2>6 DEF SetRegions, SetAnalysisConfig
    <2>7. CASE \E said \in {"ok", "timeout"}, answer \in Answers, counts \in [DOMAIN standard -> CountLists] :
                 Inspect(said, answer, counts)
      BY <1>1, <2>7 DEF Inspect
    <2> QED
      BY <1>9, <1>3, <1>4, <1>5, <1>6, <1>7, <2>1, <2>2, <2>3, <2>4, <2>5, <2>6, <2>7, ReplyDrafted DEF StudioNext
  <1> QED
    BY <1>1, <1>9 DEF studioVars

\* Whatever a model replies, and whichever turns overlap: a checkpoint of a draft
\* that mentions what the administrator counted has a count of the
\* administrator's for something it mentions, no second one has the same, no
\* question is left about it, and no tolerance is one the administrator did not
\* give.
THEOREM FollowsText == StudioSpec => []DraftFollowsText
  <1>1. StudioInit => AuthoredInv
    <2> SUFFICES ASSUME StudioInit PROVE DraftInv
      BY DEF AuthoredInv
    <2>1. <<>> \in Seq({}) /\ DOMAIN <<>> = {}
      OBVIOUS
    <2>2. intakes = <<>> /\ turn = [a \in Admin |-> NoTurn]
      BY DEF StudioInit
    <2>3. Drafted(intakes)
      BY <2>1, <2>2 DEF Drafted
    <2>4. TurnsKept
      BY <2>2, NoTurnSays DEF TurnsKept
    <2> QED
      BY <2>3, <2>4 DEF DraftInv
  <1>2. AuthoredInv => DraftFollowsText
    <2> SUFFICES ASSUME AuthoredInv, configured.text, NEW i \in DOMAIN intakes
                 PROVE  LET cps == intakes[i].cps
                            text == intakes[i].text
                            counted(j) == Mentions(cps[j]) \cap text.counts
                            centred == {j \in DOMAIN cps : "centre" \in cps[j].title /\ counted(j) = {}}
                        IN /\ \A j \in DOMAIN cps : counted(j) # {} =>
                                /\ cps[j].method = "counting" /\ cps[j].value \in counted(j)
                                /\ ~\E q \in intakes[i].qs : q.code = cps[j].code
                           /\ \A j, k \in DOMAIN cps :
                                counted(j) # {} /\ counted(k) # {} /\ cps[j].value = cps[k].value => j = k
                           /\ text.centre # "none" =>
                                \A j, k \in centred : j = k /\ cps[j].value = CentreBound(text)
      BY DEF DraftFollowsText
    <2> DEFINE cps == intakes[i].cps
               qs == intakes[i].qs
               text == intakes[i].text
               counted(j) == Mentions(cps[j]) \cap text.counts
               centred == {j \in DOMAIN cps : "centre" \in cps[j].title /\ counted(j) = {}}
    <2>1. Heeds(cps, qs, text)
      BY DEF AuthoredInv, DraftInv, Drafted, IsDraft
    <2> HIDE DEF cps, qs, text
    <2>2. /\ \A j \in DOMAIN cps : counted(j) = CountedOf(cps[j], text)
          /\ \A j : j \in centred <=> j \in DOMAIN cps /\ ToCentre(cps[j], text)
      BY DEF CountedOf, ToCentre
    <2> HIDE DEF counted, centred
    <2>3. \A j \in DOMAIN cps : counted(j) # {} =>
            /\ cps[j].method = "counting" /\ cps[j].value \in counted(j)
            /\ ~\E q \in qs : q.code = cps[j].code
      BY <2>1, <2>2 DEF Heeds
    <2>4. \A j, k \in DOMAIN cps :
            counted(j) # {} /\ counted(k) # {} /\ cps[j].value = cps[k].value => j = k
      BY <2>1, <2>2 DEF Heeds
    <2>5. text.centre # "none" => \A j, k \in centred : j = k /\ cps[j].value = CentreBound(text)
      BY <2>1, <2>2 DEF Heeds
    <2> QED
      BY <2>3, <2>4, <2>5 DEF cps, qs, text, counted, centred
  <1> QED
    BY <1>1, <1>2, DraftInductive, PTL DEF StudioSpec

-----------------------------------------------------------------------------
(* Sources: a completed job has one run of consecutive fragments, as many  *)
(* as it counted, and no other job has any.  The text of a document stays. *)

Statements == Seq(SUBSET Signals)
SourceType == {"none", "process_spec", "process_card", "drawing"}
Extension == {"none", "txt", "doc", "png", "dwg"}
Uploading == [stage : {"idle", "read", "check", "store"}, type : SourceType, ext : Extension, text : Statements]
Document == [tenant : Tenant, type : SourceType, ext : Extension, text : Statements,
             status : {"draft", "reviewed", "rejected"}]
Extraction == [doc : Nat, status : {"running", "completed", "failed"}, count : Nat]
FragmentKind == {"possible_physical_measurement", "missing_tolerance_or_count", "possible_boundary_condition",
                 "possible_pseudo_defect", "requires_supervisor_review", "possible_detection_point",
                 "unclear_requirement"}
DraftKind == {"none", "boundary", "requirement"}
Fragment == [job : Nat, kind : FragmentKind, draft : DraftKind, statement : SUBSET Signals]

\* What a fragment drafts is in the text, and is no requirement on a measure.
Quotes(f, text) ==
  /\ f.draft # "none" => f.statement \in Range(text)
  /\ f.draft = "requirement" => "measure" \notin f.statement

\* The fragments of job j are those from a + 1 to a + n, and each quotes the text.
Found(j, n, fr, text) ==
  /\ \E a \in Nat : {f \in DOMAIN fr : fr[f].job = j} = a + 1 .. a + n
  /\ \A f \in DOMAIN fr : fr[f].job = j => Quotes(fr[f], text)
  /\ n = Len(text) \/ \A f \in DOMAIN fr : fr[f].job = j => fr[f].draft = "none"

\* What the model is proposed to judge is seen in a stated view.
Proposed(r, fr) ==
  /\ r.fragment \in DOMAIN fr
  /\ r.role = "primary_visual_judge" =>
       /\ "view" \in fr[r.fragment].statement
       /\ fr[r.fragment].statement \cap {"dimension", "count"} = {}

SourcesInv ==
  /\ uploading \in [Tenant -> Uploading] /\ docs \in Seq(Document)
  /\ extractions \in Seq(Extraction) /\ fragments \in Seq(Fragment)
  /\ \A j \in DOMAIN extractions :
       /\ extractions[j].doc \in DOMAIN docs
       /\ extractions[j].status = "completed" =>
            extractions[j].count > 0 /\ Found(j, extractions[j].count, fragments, docs[extractions[j].doc].text)
       /\ extractions[j].status # "completed" => extractions[j].count = 0
  /\ \A f \in DOMAIN fragments :
       /\ fragments[f].job \in DOMAIN extractions
       /\ extractions[fragments[f].job].status = "completed"
  /\ Len(rules) \in Nat /\ DOMAIN rules = 1 .. Len(rules)
  /\ \A r \in DOMAIN rules : Proposed(rules[r], fragments)

\* Extraction gives one candidate for each statement, or one that drafts nothing;
\* each quotes the text.
LEMMA ExtractQuotes ==
  ASSUME NEW doc, doc.text \in Statements
  PROVE  LET found == Extract(doc)
         IN /\ Len(found) \in Nat /\ DOMAIN found = 1 .. Len(found) /\ Len(found) > 0
            /\ \A i \in DOMAIN found :
                 /\ found[i].kind \in FragmentKind /\ found[i].draft \in DraftKind
                 /\ found[i].statement \in SUBSET Signals
                 /\ Quotes(found[i], doc.text)
            /\ Len(found) = Len(doc.text) \/ \A i \in DOMAIN found : found[i].draft = "none"
  <1>1. CASE doc.type \in TextTypes \cup {"process_card"} /\ doc.text # Unread
    <2> DEFINE found == [i \in DOMAIN doc.text |-> Candidate(ClassifyStatement(doc.text[i]), doc.text[i])]
    <2>1. Extract(doc) = found
      BY <1>1 DEF Extract
    <2>2. Len(doc.text) \in Nat /\ DOMAIN doc.text = 1 .. Len(doc.text)
      BY DEF Statements
    <2>3. Len(found) = Len(doc.text) /\ DOMAIN found = 1 .. Len(doc.text)
      BY <2>2
    <2>4. Len(doc.text) > 0
      BY <1>1, <2>2 DEF Unread, Statements
    <2>5. ASSUME NEW i \in DOMAIN doc.text
          PROVE  /\ found[i].kind \in FragmentKind /\ found[i].draft \in DraftKind
                 /\ found[i].statement \in SUBSET Signals
                 /\ Quotes(found[i], doc.text)
      <3> DEFINE s == doc.text[i]
      <3>1. s \in SUBSET Signals /\ s \in Range(doc.text)
        BY <2>2 DEF Statements, Range
      <3>2. found[i] = [kind |-> ClassifyStatement(s).kind, draft |-> ClassifyStatement(s).draft, statement |-> s]
        BY DEF Candidate
      <3> HIDE DEF found, s
      <3>3. /\ ClassifyStatement(s).kind \in FragmentKind /\ ClassifyStatement(s).draft \in DraftKind
            /\ ClassifyStatement(s).draft = "requirement" => "measure" \notin s
        BY DEF ClassifyStatement, FragmentKind, DraftKind
      <3> QED
        BY <3>1, <3>2, <3>3 DEF Quotes
    <2> HIDE DEF found
    <2> QED
      BY <2>1, <2>2, <2>3, <2>4, <2>5
  <1>2. CASE ~(doc.type \in TextTypes \cup {"process_card"} /\ doc.text # Unread)
    <2> DEFINE one == [kind |-> "requires_supervisor_review", draft |-> "none", statement |-> {}]
    <2>1. Extract(doc) = <<one>>
      <3>1. Extract(doc) = <<Candidate(ToReview("requires_supervisor_review"), {})>>
        BY <1>2 DEF Extract
      <3>2. Candidate(ToReview("requires_supervisor_review"), {}) = one
        BY DEF Candidate, ToReview
      <3> QED
        BY <3>1, <3>2
    <2>2. one.kind \in FragmentKind /\ one.draft = "none" /\ one.draft \in DraftKind /\ one.statement \in SUBSET Signals
      BY DEF FragmentKind, DraftKind
    <2>3. Quotes(one, doc.text)
      BY <2>2 DEF Quotes
    <2> HIDE DEF one
    <2>4. Len(<<one>>) = 1 /\ DOMAIN <<one>> = 1 .. 1 /\ <<one>>[1] = one
      OBVIOUS
    <2> QED
      BY <2>1, <2>2, <2>3, <2>4
  <1> QED
    BY <1>1, <1>2

\* What two joined sequences hold.
LEMMA ConcatHolds ==
  ASSUME NEW S, NEW s \in Seq(S), NEW t \in Seq(S)
  PROVE  /\ s \o t \in Seq(S) /\ Len(s \o t) = Len(s) + Len(t) /\ Len(s) \in Nat /\ Len(t) \in Nat
         /\ \A i \in 1 .. Len(s) : (s \o t)[i] = s[i]
         /\ \A i \in 1 .. Len(t) : (s \o t)[Len(s) + i] = t[i]
  OBVIOUS

\* Whatever keeps the text of the documents and grows neither jobs nor
\* fragments keeps what was found.
LEMMA SourcesKept ==
  ASSUME SourcesInv, UNCHANGED <<extractions, fragments, rules>>,
         (uploading \in [Tenant -> Uploading] /\ docs \in Seq(Document))',
         \A d \in DOMAIN docs : d \in DOMAIN docs' /\ docs'[d].text = docs[d].text
  PROVE  SourcesInv'
  <1>1. extractions' = extractions /\ fragments' = fragments /\ rules' = rules
    OBVIOUS
  <1>2. ASSUME NEW j \in DOMAIN extractions
        PROVE  /\ extractions[j].doc \in DOMAIN docs'
               /\ docs'[extractions[j].doc].text = docs[extractions[j].doc].text
    BY DEF SourcesInv
  <1> QED
    BY <1>1, <1>2 DEF SourcesInv

LEMMA UploadingSteps ==
  ASSUME SourcesInv, NEW t \in Tenant,
         \/ \E text \in Texts :
            \/ \E type \in {"process_spec", "process_card", "drawing"} : CreateSource(t, type, text)
            \/ \E ext \in {"txt", "doc", "png", "dwg"} : UploadCard(t, ext, text)
         \/ \E text \in {uploading[t].text, Unread} : RecoverText(t, text)
         \/ CheckPack(t) \/ StoreSource(t)
         \/ \E d \in DOMAIN docs, decision \in {"reviewed", "rejected"} : ReviewSource(t, d, decision)
  PROVE  SourcesInv'
  <1>1. uploading \in [Tenant -> Uploading] /\ docs \in Seq(Document) /\ uploading[t] \in Uploading
    BY DEF SourcesInv
  <1>2. Unread \in Statements /\ Texts \subseteq Statements
    BY SourcesAssumption DEF Unread, Statements
  <1>3. NotUploading \in Uploading
    BY <1>2 DEF NotUploading, Uploading, SourceType, Extension
  <1>4. ASSUME NEW u \in Uploading, uploading' = [uploading EXCEPT ![t] = u],
               UNCHANGED <<docs, extractions, fragments, rules>>
        PROVE  SourcesInv'
    <2>1. uploading' \in [Tenant -> Uploading]
      BY <1>1, <1>4
    <2> QED
      BY <1>1, <1>4, <2>1, SourcesKept
  <1>5. ASSUME NEW text \in Texts, NEW type \in {"process_spec", "process_card", "drawing"}, CreateSource(t, type, text)
        PROVE  SourcesInv'
    <2>1. [stage |-> "check", type |-> type, ext |-> "none", text |-> text] \in Uploading
      BY <1>2 DEF Uploading, SourceType, Extension
    <2> QED
      BY <1>4, <1>5, <2>1 DEF CreateSource
  <1>6. ASSUME NEW text \in Texts, NEW ext \in {"txt", "doc", "png", "dwg"}, UploadCard(t, ext, text)
        PROVE  SourcesInv'
    <2>1. [stage |-> "read", type |-> "process_card", ext |-> ext, text |-> text] \in Uploading
      BY <1>2 DEF Uploading, SourceType, Extension
    <2> QED
      BY <1>4, <1>6, <2>1 DEF UploadCard
  <1>7. ASSUME NEW text \in {uploading[t].text, Unread}, RecoverText(t, text)
        PROVE  SourcesInv'
    <2>1. text \in Statements
      BY <1>1, <1>2 DEF Uploading
    <2> DEFINE u == [uploading[t] EXCEPT !.stage = "check", !.text = text]
    <2>2. u \in Uploading
      BY <1>1, <2>1 DEF Uploading
    <2>3. uploading' = [uploading EXCEPT ![t] = u]
      BY <1>7, <1>1 DEF RecoverText
    <2> HIDE DEF u
    <2> QED
      BY <1>4, <1>7, <2>2, <2>3 DEF RecoverText
  <1>8. ASSUME CheckPack(t)
        PROVE  SourcesInv'
    <2> DEFINE u == [uploading[t] EXCEPT !.stage = "store"]
    <2>1. u \in Uploading
      BY <1>1 DEF Uploading
    <2>2. uploading' = [uploading EXCEPT ![t] = u] \/ uploading' = [uploading EXCEPT ![t] = NotUploading]
      BY <1>8 DEF CheckPack
    <2> HIDE DEF u
    <2> QED
      BY <1>3, <1>4, <1>8, <2>1, <2>2 DEF CheckPack
  <1>9. ASSUME StoreSource(t)
        PROVE  SourcesInv'
    <2> DEFINE d == [tenant |-> t, type |-> uploading[t].type, ext |-> uploading[t].ext,
                     text |-> uploading[t].text, status |-> "draft"]
    <2>1. d \in Document
      BY <1>1 DEF Document, Uploading
    <2>2. docs' = Append(docs, d) /\ uploading' = [uploading EXCEPT ![t] = NotUploading]
          /\ UNCHANGED <<extractions, fragments, rules>>
      BY <1>9 DEF StoreSource
    <2> HIDE DEF d
    <2>3. docs' \in Seq(Document) /\ uploading' \in [Tenant -> Uploading]
      BY <1>1, <1>3, <2>1, <2>2
    <2>4. \A e \in DOMAIN docs : e \in DOMAIN docs' /\ docs'[e] = docs[e]
      BY <1>1, <2>1, <2>2
    <2> QED
      BY <2>2, <2>3, <2>4, SourcesKept
  <1>10. ASSUME NEW d \in DOMAIN docs, NEW decision \in {"reviewed", "rejected"}, ReviewSource(t, d, decision)
         PROVE  SourcesInv'
    <2>1. docs[d] \in Document
      BY <1>1
    <2> DEFINE e == [docs[d] EXCEPT !.status = decision]
    <2>2. e \in Document /\ e.text = docs[d].text
      BY <2>1 DEF Document
    <2>3. docs' = [docs EXCEPT ![d] = e]
      BY <1>1, <1>10 DEF ReviewSource
    <2> HIDE DEF e
    <2>4. docs' \in Seq(Document) /\ DOMAIN docs' = DOMAIN docs /\ \A x \in DOMAIN docs : docs'[x].text = docs[x].text
      BY <1>1, <2>2, <2>3
    <2>5. UNCHANGED <<extractions, fragments, rules>> /\ uploading' = uploading
      BY <1>10 DEF ReviewSource
    <2> QED
      BY <1>1, <2>4, <2>5, SourcesKept
  <1> QED
    BY <1>5, <1>6, <1>7, <1>8, <1>9, <1>10

\* The step that completes a job gives it its fragments and leaves the others
\* theirs.
LEMMA JobFinished ==
  ASSUME SourcesInv, NEW j \in DOMAIN extractions, FinishExtraction(j)
  PROVE  SourcesInv'
  <1>1. /\ docs \in Seq(Document) /\ extractions \in Seq(Extraction) /\ fragments \in Seq(Fragment)
        /\ extractions[j] \in Extraction /\ extractions[j].doc \in DOMAIN docs
        /\ docs[extractions[j].doc] \in Document
    BY DEF SourcesInv
  <1> DEFINE text == docs[extractions[j].doc].text
             found == Extract(docs[extractions[j].doc])
             n == Len(fragments)
             added == [i \in DOMAIN found |->
                         [job |-> j, kind |-> found[i].kind, draft |-> found[i].draft,
                          statement |-> found[i].statement]]
             e == [extractions[j] EXCEPT !.status = "completed", !.count = Len(found)]
  <1>2. text \in Statements
    BY <1>1 DEF Document
  <1>3. /\ Len(found) \in Nat /\ DOMAIN found = 1 .. Len(found) /\ Len(found) > 0
        /\ \A i \in DOMAIN found :
             /\ found[i].kind \in FragmentKind /\ found[i].draft \in DraftKind
             /\ found[i].statement \in SUBSET Signals
             /\ Quotes(found[i], text)
        /\ Len(found) = Len(text) \/ \A i \in DOMAIN found : found[i].draft = "none"
    BY <1>2, ExtractQuotes
  <1>4. fragments' = fragments \o added /\ uploading' = uploading /\ docs' = docs /\ rules' = rules
    BY DEF FinishExtraction
  <1>5. extractions[j].status = "running" /\ extractions' = [extractions EXCEPT ![j] = e]
    BY <1>1 DEF FinishExtraction
  <1>6. e \in Extraction /\ e.doc = extractions[j].doc /\ e.status = "completed" /\ e.count = Len(found)
    <2> HIDE DEF found
    <2> QED
      BY <1>1, <1>3 DEF Extraction
  <1> HIDE DEF e
  <1>7. /\ added \in Seq(Fragment) /\ Len(added) = Len(found)
        /\ \A i \in 1 .. Len(found) :
             added[i].job = j /\ added[i].draft = found[i].draft /\ added[i].statement = found[i].statement
    <2> HIDE DEF found
    <2>1. \A i \in 1 .. Len(found) : added[i] \in Fragment
      BY <1>1, <1>3 DEF Fragment
    <2>2. added \in [1 .. Len(found) -> Fragment]
      BY <1>3, <2>1
    <2> QED
      BY <1>3, <2>1, <2>2
  <1>8. \A i \in 1 .. Len(found) : Quotes(added[i], text)
    <2> HIDE DEF added, found, text
    <2> QED
      BY <1>3, <1>7 DEF Quotes
  <1>17. n \in Nat /\ DOMAIN fragments = 1 .. n /\ n = Len(fragments)
    BY <1>1
  <1> HIDE DEF added, found, text, n
  <1>9. /\ fragments' \in Seq(Fragment) /\ n \in Nat /\ Len(fragments') = n + Len(found)
        /\ DOMAIN fragments' = 1 .. n + Len(found)
        /\ \A f \in 1 .. n : fragments'[f] = fragments[f]
        /\ \A f \in n + 1 .. n + Len(found) : f - n \in 1 .. Len(found) /\ fragments'[f] = added[f - n]
    <2>1. /\ fragments' \in Seq(Fragment) /\ n \in Nat /\ Len(fragments') = n + Len(found)
          /\ DOMAIN fragments' = 1 .. n + Len(found)
      <3>1. fragments' \in Seq(Fragment) /\ Len(fragments') = n + Len(found)
        <4>1. fragments \in Seq(Fragment) /\ added \in Seq(Fragment)
          BY <1>1, <1>7
        <4>2. fragments \o added \in Seq(Fragment) /\ Len(fragments \o added) = Len(fragments) + Len(added)
          BY <4>1, ConcatHolds
        <4> QED
          BY <1>4, <1>7, <1>17, <4>2
      <3> QED
        BY <1>3, <1>17, <3>1
    <2>2. \A f \in 1 .. n : fragments'[f] = fragments[f]
      BY <1>1, <1>4, <1>7, <1>17, ConcatHolds
    <2>3. ASSUME NEW f \in n + 1 .. n + Len(found)
          PROVE  f - n \in 1 .. Len(found) /\ fragments'[f] = added[f - n]
      <3>1. f - n \in 1 .. Len(added) /\ n + (f - n) = f
        BY <1>3, <1>7, <2>1
      <3> QED
        BY <1>1, <1>4, <1>7, <1>17, <3>1, ConcatHolds
    <2> QED
      BY <2>1, <2>2, <2>3
  <1>10. \A f \in 1 .. n : fragments[f].job \in DOMAIN extractions /\ fragments[f].job # j
    BY <1>5, <1>17 DEF SourcesInv
  <1>11. /\ extractions' \in Seq(Extraction) /\ DOMAIN extractions' = DOMAIN extractions
         /\ extractions'[j] = e /\ \A k \in DOMAIN extractions : k # j => extractions'[k] = extractions[k]
    BY <1>1, <1>5, <1>6
  <1>12. Found(j, Len(found), fragments', text)
    <2>1. {f \in DOMAIN fragments' : fragments'[f].job = j} = n + 1 .. n + Len(found)
      <3>1. \A f \in 1 .. n : fragments'[f].job # j
        BY <1>9, <1>10
      <3>2. \A f \in n + 1 .. n + Len(found) : fragments'[f].job = j
        BY <1>7, <1>9
      <3>3. \A f \in 1 .. n + Len(found) : f \in 1 .. n \/ f \in n + 1 .. n + Len(found)
        BY <1>3, <1>17
      <3>4. \A f \in n + 1 .. n + Len(found) : f \in 1 .. n + Len(found)
        BY <1>3, <1>17
      <3> QED
        BY <1>9, <3>1, <3>2, <3>3, <3>4
    <2>2. \A f \in DOMAIN fragments' : fragments'[f].job = j => Quotes(fragments'[f], text)
      BY <1>3, <1>8, <1>9, <2>1
    <2>3. Len(found) = Len(text) \/ \A f \in DOMAIN fragments' : fragments'[f].job = j => fragments'[f].draft = "none"
      BY <1>3, <1>7, <1>9, <2>1, ZenonT(40)
    <2> QED
      BY <1>9, <2>1, <2>2, <2>3 DEF Found
  <1>13. ASSUME NEW k \in DOMAIN extractions, k # j, NEW c, NEW tx, Found(k, c, fragments, tx)
         PROVE  Found(k, c, fragments', tx)
    <2>1. \A f \in DOMAIN fragments' : fragments'[f].job = k => f \in DOMAIN fragments /\ fragments'[f] = fragments[f]
      <3>1. \A f \in n + 1 .. n + Len(found) : fragments'[f].job = j
        BY <1>7, <1>9
      <3>2. \A f \in 1 .. n + Len(found) : f \in 1 .. n \/ f \in n + 1 .. n + Len(found)
        BY <1>3, <1>17
      <3> QED
        BY <1>9, <1>13, <1>17, <3>1, <3>2
    <2>2. \A f \in DOMAIN fragments : f \in DOMAIN fragments' /\ fragments'[f] = fragments[f]
      BY <1>3, <1>9, <1>17
    <2>3. {f \in DOMAIN fragments' : fragments'[f].job = k} = {f \in DOMAIN fragments : fragments[f].job = k}
      BY <2>1, <2>2
    <2> QED
      BY <1>13, <2>1, <2>3 DEF Found
  <1>14. ASSUME NEW r \in DOMAIN rules
         PROVE  Proposed(rules[r], fragments')
    <2>1. Proposed(rules[r], fragments)
      BY DEF SourcesInv
    <2> QED
      BY <1>3, <1>9, <1>17, <2>1 DEF Proposed
  <1>15. ASSUME NEW k \in DOMAIN extractions'
         PROVE  /\ extractions'[k].doc \in DOMAIN docs
                /\ extractions'[k].status = "completed" =>
                     extractions'[k].count > 0 /\ Found(k, extractions'[k].count, fragments', docs[extractions'[k].doc].text)
                /\ extractions'[k].status # "completed" => extractions'[k].count = 0
    <2>1. CASE k = j
      BY <1>1, <1>3, <1>6, <1>11, <1>12, <2>1 DEF text
    <2>2. CASE k # j
      BY <1>11, <1>13, <2>2 DEF SourcesInv
    <2> QED
      BY <2>1, <2>2
  <1>16. ASSUME NEW f \in DOMAIN fragments'
         PROVE  fragments'[f].job \in DOMAIN extractions' /\ extractions'[fragments'[f].job].status = "completed"
    <2>1. CASE f \in 1 .. n
      <3>1. /\ fragments'[f].job \in DOMAIN extractions /\ fragments'[f].job # j
            /\ extractions[fragments'[f].job].status = "completed"
        BY <1>9, <1>10, <1>17, <2>1 DEF SourcesInv
      <3> QED
        BY <1>11, <3>1
    <2>2. CASE f \notin 1 .. n
      <3>1. f \in n + 1 .. n + Len(found)
        BY <1>3, <1>9, <1>17, <2>2
      <3>2. fragments'[f].job = j
        BY <1>7, <1>9, <3>1
      <3> QED
        BY <1>6, <1>11, <3>2
    <2> QED
      BY <2>1, <2>2
  <1> QED
    BY <1>4, <1>9, <1>11, <1>14, <1>15, <1>16 DEF SourcesInv

LEMMA SourcesNextInv == SourcesInv /\ [SourcesNext]_sourcesVars => SourcesInv'
  <1> SUFFICES ASSUME SourcesInv, [SourcesNext]_sourcesVars
               PROVE  SourcesInv'
    OBVIOUS
  <1>1. CASE UNCHANGED sourcesVars
    BY <1>1, SourcesKept DEF sourcesVars, SourcesInv
  <1>2. /\ extractions \in Seq(Extraction) /\ fragments \in Seq(Fragment)
        /\ Len(rules) \in Nat /\ DOMAIN rules = 1 .. Len(rules)
    BY DEF SourcesInv
  <1>3. ASSUME NEW t \in Tenant, NEW d \in DOMAIN docs, StartExtraction(t, d)
        PROVE  SourcesInv'
    <2> DEFINE e == [doc |-> d, status |-> "running", count |-> 0]
    <2>1. e \in Extraction /\ e.doc = d /\ e.status = "running" /\ e.count = 0
      BY DEF Extraction, SourcesInv
    <2>2. extractions' = Append(extractions, e) /\ UNCHANGED <<uploading, docs, fragments, rules>>
      BY <1>3 DEF StartExtraction
    <2> HIDE DEF e
    <2>3. /\ extractions' \in Seq(Extraction) /\ DOMAIN extractions' = DOMAIN extractions \cup {Len(extractions) + 1}
          /\ extractions'[Len(extractions) + 1] = e /\ \A k \in DOMAIN extractions : extractions'[k] = extractions[k]
      BY <1>2, <2>1, <2>2
    <2> QED
      BY <2>1, <2>2, <2>3 DEF SourcesInv
  <1>4. ASSUME NEW j \in DOMAIN extractions, FailExtraction(j)
        PROVE  SourcesInv'
    <2>1. extractions[j] \in Extraction
      BY <1>2
    <2> DEFINE e == [extractions[j] EXCEPT !.status = "failed"]
    <2>2. e \in Extraction /\ e.doc = extractions[j].doc /\ e.status = "failed" /\ e.count = extractions[j].count
      BY <2>1 DEF Extraction
    <2>3. /\ extractions' = [extractions EXCEPT ![j] = e] /\ UNCHANGED <<uploading, docs, fragments, rules>>
          /\ extractions[j].status = "running"
      BY <1>4 DEF FailExtraction
    <2> HIDE DEF e
    <2>4. /\ extractions' \in Seq(Extraction) /\ DOMAIN extractions' = DOMAIN extractions
          /\ extractions'[j] = e /\ \A k \in DOMAIN extractions : k # j => extractions'[k] = extractions[k]
      BY <1>2, <2>2, <2>3
    <2>5. \A f \in DOMAIN fragments : fragments[f].job # j
      BY <2>3 DEF SourcesInv
    <2> QED
      BY <2>2, <2>3, <2>4, <2>5 DEF SourcesInv
  <1>5. ASSUME NEW f \in DOMAIN fragments, ProposeRules(f)
        PROVE  SourcesInv'
    <2> DEFINE class == ClassifyFragment(fragments[f].statement)
               r == [fragment |-> f, category |-> class.category, role |-> class.role]
    <2>1. class.role = "primary_visual_judge" =>
            /\ "view" \in fragments[f].statement
            /\ fragments[f].statement \cap {"dimension", "count"} = {}
      BY DEF ClassifyFragment
    <2>2. rules' = Append(rules, r) /\ UNCHANGED <<uploading, docs, extractions, fragments>>
      BY <1>5 DEF ProposeRules
    <2>3. Proposed(r, fragments)
      BY <2>1 DEF Proposed
    <2> HIDE DEF class, r
    <2>4. /\ Len(rules') \in Nat /\ DOMAIN rules' = 1 .. Len(rules')
          /\ \A q \in DOMAIN rules' : (q \in DOMAIN rules /\ rules'[q] = rules[q]) \/ rules'[q] = r
      BY <1>2, <2>2
    <2> QED
      BY <2>2, <2>3, <2>4 DEF SourcesInv
  <1>6. CASE SourcesNext
    BY <1>6, <1>3, <1>4, <1>5, UploadingSteps, JobFinished DEF SourcesNext
  <1> QED
    BY <1>1, <1>6

LEMMA SourcesInitially == SourcesInit => SourcesInv
  <1> SUFFICES ASSUME SourcesInit PROVE SourcesInv
    OBVIOUS
  <1>1. NotUploading \in Uploading
    BY DEF NotUploading, Uploading, SourceType, Extension, Unread, Statements
  <1>2. \A S : <<>> \in Seq(S)
    OBVIOUS
  <1>3. DOMAIN <<>> = {} /\ Len(<<>>) = 0 /\ 1 .. 0 = {}
    OBVIOUS
  <1> QED
    BY <1>1, <1>2, <1>3 DEF SourcesInit, SourcesInv

\* A job that finishes has one fragment for each statement of its document, a job
\* that does not has none, and no fragment or proposal claims what the text does
\* not say: for any texts, documents and overlapping jobs.
THEOREM NothingIsGuessed == SourcesSpec => []NothingGuessed
  <1>1. ASSUME SourcesInv
        PROVE  NothingGuessed
    <2>1. ASSUME NEW j \in DOMAIN extractions
          PROVE  LET of == {f \in DOMAIN fragments : fragments[f].job = j}
                     text == docs[extractions[j].doc].text
                 IN /\ Cardinality(of) = extractions[j].count
                    /\ extractions[j].status = "completed" <=> of # {}
                    /\ \A f \in of :
                         /\ fragments[f].draft # "none" => fragments[f].statement \in Range(text)
                         /\ fragments[f].draft = "requirement" => "measure" \notin fragments[f].statement
                    /\ of # {} /\ (\E f \in of : fragments[f].draft # "none") => Cardinality(of) = Len(text)
      <3> DEFINE of == {f \in DOMAIN fragments : fragments[f].job = j}
                 text == docs[extractions[j].doc].text
                 c == extractions[j].count
      <3>1. c \in Nat
        <4>1. extractions[j] \in Extraction
          BY <1>1 DEF SourcesInv
        <4> QED
          BY <4>1 DEF Extraction
      <3>2. CASE extractions[j].status = "completed"
        <4>1. c > 0 /\ Found(j, c, fragments, text)
          BY <1>1, <3>2 DEF SourcesInv
        <4>2. PICK a \in Nat : of = a + 1 .. a + c
          BY <4>1 DEF Found
        <4>3. Cardinality(a + 1 .. a + c) = c /\ a + 1 \in a + 1 .. a + c
          BY <3>1, <4>1, FS_Interval, SMTT(40)
        <4> QED
          BY <3>2, <4>1, <4>2, <4>3 DEF Found, Quotes
      <3>3. CASE extractions[j].status # "completed"
        <4>1. of = {} /\ c = 0
          BY <1>1, <3>3 DEF SourcesInv
        <4> QED
          BY <3>3, <4>1, FS_EmptySet
      <3> QED
        BY <3>2, <3>3
    <2>2. ASSUME NEW r \in DOMAIN rules
          PROVE  LET s == fragments[rules[r].fragment].statement
                 IN rules[r].role = "primary_visual_judge" =>
                      /\ "view" \in s /\ s \cap {"dimension", "count"} = {}
                      /\ extractions[fragments[rules[r].fragment].job].status = "completed"
      BY <1>1 DEF SourcesInv, Proposed
    <2> QED
      BY <2>1, <2>2 DEF NothingGuessed
  <1> QED
    BY <1>1, SourcesInitially, SourcesNextInv, PTL DEF SourcesSpec

-----------------------------------------------------------------------------
(* LegacyQC: a pass is traced through router and parser to the last item   *)
(* of each point; captures and the SKU of the standard stay as read.       *)

\* A nonempty set of indices has a last.
LEMMA LastIndex ==
  ASSUME NEW n \in Nat, NEW S, S \subseteq 1 .. n, S # {}
  PROVE  \E x \in S : \A y \in S : y <= x
  <1> DEFINE D == {m \in 0 .. n : \A y \in S : y <= m}
  <1>1. n \in D
    OBVIOUS
  <1>2. PICK m \in D : \A k \in D : m <= k
    <2>1. D # {} /\ D \subseteq Nat
      BY <1>1
    <2> DEFINE R == OpToRel(<, Nat)
    <2>2. PICK m \in D : \A k \in D : ~(<<k, m>> \in R)
      <3>1. IsWellFoundedOn(R, Nat)
        BY NatLessThanWellFounded, Zenon
      <3> HIDE DEF D, R
      <3> QED
        BY <2>1, <3>1, WFMin
    <2>3. ASSUME NEW k \in D, ~(m <= k)
          PROVE  FALSE
      <3> HIDE DEF D
      <3>1. k < m /\ k \in Nat /\ m \in Nat
        BY <2>1, <2>3
      <3>2. <<k, m>> \in R
        BY <3>1 DEF OpToRel
      <3> QED
        BY <2>2, <3>2
    <2> QED
      BY <2>3
  <1>3. m \in S
    <2> SUFFICES ASSUME m \notin S PROVE FALSE
      OBVIOUS
    <2>1. m \in 0 .. n /\ \A y \in S : y <= m /\ y # m /\ y \in 1 .. n
      OBVIOUS
    <2>2. PICK y \in S : TRUE
      OBVIOUS
    <2>3. m - 1 \in D
      BY <2>1, <2>2
    <2> QED
      BY <1>2, <2>1, <2>3
  <1> QED
    BY <1>3

\* The provider's last word on point p is a pass.
Passes(items, p) ==
  \E i \in DOMAIN items :
    /\ items[i] = [point |-> p, result |-> "pass"]
    /\ \A j \in DOMAIN items : j > i => items[j].point # p

LEMMA ItemPasses ==
  ASSUME NEW items \in Seq([point : Nat, result : STRING]), NEW points, NEW p \in points,
         ItemsFor(points, items)[p] = "pass"
  PROVE  Passes(items, p)
  <1> DEFINE on == {i \in DOMAIN items : items[i].point = p}
             last == CHOOSE i \in on : \A j \in on : j <= i
  <1>1. ItemsFor(points, items)[p] = IF on = {} THEN "review_required" ELSE Coerced(items[last].result)
    BY DEF ItemsFor
  <1>2. on # {}
    BY <1>1
  <1>3. Len(items) \in Nat /\ DOMAIN items = 1 .. Len(items) /\ on \subseteq 1 .. Len(items)
    OBVIOUS
  <1>4. last \in on /\ \A j \in on : j <= last
    <2>1. \E i \in on : \A j \in on : j <= i
      BY <1>2, <1>3, LastIndex
    <2> HIDE DEF on
    <2> QED
      BY <2>1
  <1> HIDE DEF last
  <1>5. items[last].result = "pass"
    <2> HIDE DEF on
    <2>1. Coerced(items[last].result) = "pass"
      BY <1>1, <1>2
    <2> QED
      BY <2>1 DEF Coerced
  <1>6. last \in DOMAIN items /\ items[last] \in [point : Nat, result : STRING] /\ items[last].point = p
    <2> DEFINE T == [point : Nat, result : STRING]
    <2>0. items \in Seq(T)
      OBVIOUS
    <2>1. last \in DOMAIN items /\ items[last].point = p
      BY <1>4
    <2> HIDE DEF on, T
    <2>2. items[last] \in T
      BY <1>3, <2>0, <2>1
    <2> QED
      BY <2>1, <2>2 DEF T
  <1>7. items[last] = [point |-> p, result |-> "pass"]
    BY <1>5, <1>6
  <1>8. \A j \in DOMAIN items : j > last => items[j].point # p
    BY <1>3, <1>4, <1>6
  <1> QED
    BY <1>6, <1>7, <1>8 DEF Passes

\* What an answered inspection of photos and points rests on when it passes.
Founded(number, points, outcome, answer, set) ==
  /\ number > 0 /\ points # {}
  /\ \/ set.mode = "fake" /\ set.test
     \/ /\ outcome = "ok" /\ set.images /\ answer.kind = "object"
        /\ \A p \in points : Passes(answer.items, p)

LEMMA OverallPasses ==
  ASSUME NEW items, Overall(items) = "pass"
  PROVE  DOMAIN items # {} /\ \A p \in DOMAIN items : items[p] = "pass"
  <1>1. {items[p] : p \in DOMAIN items} = {"pass"}
    BY DEF Overall
  <1> QED
    BY <1>1

\* Router and parser give a pass only for passes.
LEMMA InspectionPasses ==
  ASSUME NEW read, read.photos \in Nat, NEW outcome, NEW answer \in VlmAnswers
  PROVE  LET out == RunInspection(read, outcome, answer)
         IN /\ DOMAIN out.items = read.points
            /\ out.overall = "pass" => Founded(read.photos, read.points, outcome, answer, setting)
  <1> DEFINE points == read.points
             out == RunInspection(read, outcome, answer)
  <1>1. /\ DOMAIN Deferred(points).items = points
        /\ Deferred(points).overall = "review_required"
    BY DEF Deferred
  <1>2. CASE read.photos = 0 \/ points = {}
    BY <1>1, <1>2 DEF RunInspection
  <1>3. CASE ~(read.photos = 0 \/ points = {})
    <2>1. out = Route(read, outcome, answer) /\ read.photos > 0 /\ points # {}
      BY <1>3 DEF RunInspection
    <2>2. CASE points = {} \/ Provider = "none" \/ ~setting.cloud
      BY <1>1, <2>1, <2>2 DEF Route
    <2>3. CASE ~(points = {} \/ Provider = "none" \/ ~setting.cloud) /\ Provider = "fake"
      <3> DEFINE all == [overall |-> "pass", items |-> [p \in points |-> "pass"], fallback |-> FALSE]
      <3>1. out = NormalizeProviderOutput(points, all)
        BY <2>1, <2>3 DEF Route
      <3>2. DOMAIN out.items = points
        BY <3>1 DEF NormalizeProviderOutput
      <3>3. setting.mode = "fake" /\ setting.test
        BY <2>3 DEF Provider
      <3> QED
        BY <2>1, <3>2, <3>3 DEF Founded
    <2>4. CASE /\ ~(points = {} \/ Provider = "none" \/ ~setting.cloud) /\ Provider # "fake"
               /\ DashScopeAnswers(read, outcome)
      <3> DEFINE parsed == ParseQwenOutput(points, answer)
                 items == [p \in points |-> IF p \in DOMAIN parsed.items THEN Coerced(parsed.items[p])
                                            ELSE "review_required"]
      <3>1. out = NormalizeProviderOutput(points, parsed)
        BY <2>1, <2>4 DEF Route
      <3>2. out.items = items /\ out.overall = Overall(items)
        <4> HIDE DEF parsed, out
        <4> QED
          BY <3>1 DEF NormalizeProviderOutput
      <3>3. outcome = "ok" /\ setting.images
        BY <2>4 DEF DashScopeAnswers
      <3>4. ASSUME out.overall = "pass"
            PROVE  answer.kind = "object" /\ \A p \in points : Passes(answer.items, p)
        <4>1. \A p \in points : items[p] = "pass"
          <5> HIDE DEF parsed, out
          <5>1. DOMAIN items = points
            OBVIOUS
          <5> HIDE DEF items
          <5> QED
            BY <3>2, <3>4, <5>1, OverallPasses
        <4>2. \A p \in points : p \in DOMAIN parsed.items /\ parsed.items[p] = "pass"
          <5>1. \A x : Coerced(x) = "pass" => x = "pass"
            BY DEF Coerced
          <5> HIDE DEF parsed, out
          <5> QED
            BY <4>1, <5>1
        <4>3. answer.kind = "object" /\ parsed.items = ItemsFor(points, answer.items)
          <5>1. CASE points = {} \/ answer.kind # "object"
            <6>1. DOMAIN parsed.items = {}
              BY <5>1 DEF ParseQwenOutput
            <6> QED
              BY <2>1, <4>2, <6>1
          <5>2. CASE ~(points = {} \/ answer.kind # "object")
            BY <5>2 DEF ParseQwenOutput
          <5> QED
            BY <5>1, <5>2
        <4> QED
          BY <4>2, <4>3, ItemPasses, LegacyAssumption
      <3>5. DOMAIN out.items = points
        BY <3>2
      <3>6. ASSUME out.overall = "pass"
            PROVE  Founded(read.photos, points, outcome, answer, setting)
        <4> HIDE DEF out, points
        <4>1. \A p \in points : Passes(answer.items, p)
          BY <3>4, <3>6
        <4> QED
          BY <2>1, <3>3, <3>4, <3>6, <4>1 DEF Founded
      <3> HIDE DEF parsed, items
      <3> QED
        BY <3>5, <3>6
    <2>5. CASE /\ ~(points = {} \/ Provider = "none" \/ ~setting.cloud) /\ Provider # "fake"
               /\ ~DashScopeAnswers(read, outcome)
      BY <1>1, <2>1, <2>5 DEF Route
    <2> QED
      BY <2>2, <2>3, <2>4, <2>5
  <1> QED
    BY <1>2, <1>3

\* What an inspection has read stays so until it is stored: captures are only
\* added, and the standard keeps the SKU it has.
LegacyInv ==
  /\ DOMAIN std = {"sku", "photos", "points"} /\ Len(std.photos) \in Nat
  /\ Len(captures) \in Nat /\ DOMAIN captures = 1 .. Len(captures)
  /\ DOMAIN inspecting = Client
  /\ \A c \in Client :
       /\ inspecting[c].photos \in Nat
       /\ inspecting[c] # NotRunning =>
            /\ std.sku # NoSku /\ std.sku = inspecting[c].sku
            /\ inspecting[c].capture \in DOMAIN captures /\ captures[inspecting[c].capture] = inspecting[c].sku
  /\ Len(runs) \in Nat /\ DOMAIN runs = 1 .. Len(runs)
  /\ \A r \in DOMAIN runs :
       /\ DOMAIN runs[r].items = runs[r].read.points
       /\ runs[r].read.capture \in DOMAIN captures
       /\ captures[runs[r].read.capture] = runs[r].read.sku /\ runs[r].of = runs[r].read.sku
       /\ runs[r].overall = "pass" =>
            Founded(runs[r].read.photos, runs[r].read.points, runs[r].call, runs[r].answer, setting)

LEMMA LegacyNextInv == LegacyInv /\ [LegacyNext]_legacyVars => LegacyInv'
  <1> SUFFICES ASSUME LegacyInv, [LegacyNext]_legacyVars
               PROVE  LegacyInv'
    OBVIOUS
  <1>1. CASE UNCHANGED <<setting, std, captures, inspecting, runs>>
    BY <1>1 DEF LegacyInv
  <1>2. ASSUME UNCHANGED <<setting, captures, inspecting, runs>>,
               DOMAIN std' = {"sku", "photos", "points"}, Len(std'.photos) \in Nat,
               std.sku # NoSku => std'.sku = std.sku
        PROVE  LegacyInv'
    BY <1>2 DEF LegacyInv
  <1>3. DOMAIN std = {"sku", "photos", "points"} /\ Len(std.photos) \in Nat
    BY DEF LegacyInv
  <1>4. ASSUME NEW sku \in Skus, CreateStandard(sku) \/ AddStandardPhoto(sku) \/ CreateCapture(sku)
        PROVE  LegacyInv'
    <2>1. CASE CreateStandard(sku)
      <3>1. DOMAIN std' = {"sku", "photos", "points"} /\ std'.photos = std.photos
        BY <1>3, <2>1 DEF CreateStandard
      <3> QED
        BY <1>2, <1>3, <2>1, <3>1 DEF CreateStandard
    <2>2. CASE AddStandardPhoto(sku)
      <3>1. DOMAIN std' = {"sku", "photos", "points"} /\ std'.sku = std.sku /\ std'.photos = Append(std.photos, sku)
        BY <1>3, <2>2 DEF AddStandardPhoto
      <3>2. Len(Append(std.photos, sku)) = Len(std.photos) + 1
        BY <1>3
      <3> QED
        BY <1>2, <1>3, <2>2, <3>1, <3>2 DEF AddStandardPhoto
    <2>3. CASE CreateCapture(sku)
      <3>1. captures' = Append(captures, sku) /\ UNCHANGED <<setting, std, inspecting, runs>>
        BY <2>3 DEF CreateCapture
      <3>2. Len(captures) \in Nat /\ DOMAIN captures = 1 .. Len(captures)
        BY DEF LegacyInv
      <3>3. /\ Len(captures') \in Nat /\ DOMAIN captures' = 1 .. Len(captures')
            /\ \A k \in DOMAIN captures : k \in DOMAIN captures' /\ captures'[k] = captures[k]
        BY <3>1, <3>2
      <3> QED
        BY <3>1, <3>3 DEF LegacyInv
    <2> QED
      BY <1>4, <2>1, <2>2, <2>3
  <1>5. CASE CreateQcPoint
    <2>1. DOMAIN std' = {"sku", "photos", "points"} /\ std'.sku = std.sku /\ std'.photos = std.photos
      BY <1>3, <1>5 DEF CreateQcPoint
    <2> QED
      BY <1>2, <1>3, <1>5, <2>1 DEF CreateQcPoint
  <1>6. ASSUME NEW p \in DOMAIN std.points, NEW active \in BOOLEAN, UpdateQcPoint(p, active)
        PROVE  LegacyInv'
    <2>1. DOMAIN std' = {"sku", "photos", "points"} /\ std'.sku = std.sku /\ std'.photos = std.photos
      BY <1>3, <1>6 DEF UpdateQcPoint
    <2> QED
      BY <1>2, <1>3, <1>6, <2>1 DEF UpdateQcPoint
  <1>7. ASSUME NEW c \in Client, NEW sku \in Skus, NEW capture \in DOMAIN captures, BeginInspect(c, sku, capture)
        PROVE  LegacyInv'
    <2> DEFINE read == [sku |-> sku, capture |-> capture, photos |-> Len(std.photos), points |-> ActivePoints]
    <2>1. /\ inspecting' = [inspecting EXCEPT ![c] = read] /\ UNCHANGED <<setting, std, captures, runs>>
          /\ std.sku # NoSku /\ std.sku = sku /\ captures[capture] = sku
      BY <1>7 DEF BeginInspect
    <2>2. read.sku = sku /\ read.capture = capture /\ read.photos \in Nat
      BY <1>3
    <2> HIDE DEF read
    <2>3. DOMAIN inspecting' = Client /\ \A d \in Client : inspecting'[d] = IF d = c THEN read ELSE inspecting[d]
      BY <2>1 DEF LegacyInv
    <2> QED
      BY <2>1, <2>2, <2>3 DEF LegacyInv
  <1>8. ASSUME NEW c \in Client, inspecting' = [inspecting EXCEPT ![c] = NotRunning], UNCHANGED <<std, captures>>
        PROVE  /\ DOMAIN inspecting' = Client
               /\ \A d \in Client :
                    /\ inspecting'[d].photos \in Nat
                    /\ inspecting'[d] # NotRunning =>
                         /\ std'.sku # NoSku /\ std'.sku = inspecting'[d].sku
                         /\ inspecting'[d].capture \in DOMAIN captures'
                         /\ captures'[inspecting'[d].capture] = inspecting'[d].sku
    <2>1. NotRunning.photos = 0
      BY DEF NotRunning
    <2>2. \A d \in Client : inspecting'[d] = IF d = c THEN NotRunning ELSE inspecting[d]
      BY <1>8 DEF LegacyInv
    <2> QED
      BY <1>8, <2>1, <2>2 DEF LegacyInv
  <1>9. ASSUME NEW c \in Client, LoseInspect(c)
        PROVE  LegacyInv'
    <2>1. inspecting' = [inspecting EXCEPT ![c] = NotRunning] /\ UNCHANGED <<setting, std, captures, runs>>
      BY <1>9 DEF LoseInspect
    <2> QED
      BY <1>8, <2>1 DEF LegacyInv
  <1>10. ASSUME NEW c \in Client, NEW outcome \in {"ok", "raises"}, NEW answer \in VlmAnswers, FinishInspect(c, outcome, answer)
         PROVE  LegacyInv'
    <2> DEFINE read == inspecting[c]
               out == RunInspection(read, outcome, answer)
               run == [read |-> read, of |-> std.sku, call |-> outcome, answer |-> answer,
                       overall |-> out.overall, items |-> out.items, fallback |-> out.fallback]
    <2>1. /\ runs' = Append(runs, run) /\ UNCHANGED <<setting, std, captures>>
          /\ inspecting' = [inspecting EXCEPT ![c] = NotRunning] /\ read # NotRunning
      BY <1>10 DEF FinishInspect
    <2>2. read.photos \in Nat /\ read.capture \in DOMAIN captures /\ captures[read.capture] = read.sku
          /\ std.sku = read.sku
      BY <2>1 DEF LegacyInv
    <2>3. /\ DOMAIN out.items = read.points
          /\ out.overall = "pass" => Founded(read.photos, read.points, outcome, answer, setting)
      BY <2>2, InspectionPasses
    <2>4. /\ run.read = read /\ run.of = std.sku /\ run.call = outcome /\ run.answer = answer
          /\ run.overall = out.overall /\ run.items = out.items
      OBVIOUS
    <2> HIDE DEF run, out
    <2>5. /\ Len(runs') \in Nat /\ DOMAIN runs' = 1 .. Len(runs')
          /\ \A r \in DOMAIN runs' : (r \in DOMAIN runs /\ runs'[r] = runs[r]) \/ runs'[r] = run
      BY <2>1 DEF LegacyInv
    <2>6. ASSUME NEW r \in DOMAIN runs'
          PROVE  /\ DOMAIN runs'[r].items = runs'[r].read.points
                 /\ runs'[r].read.capture \in DOMAIN captures
                 /\ captures[runs'[r].read.capture] = runs'[r].read.sku /\ runs'[r].of = runs'[r].read.sku
                 /\ runs'[r].overall = "pass" =>
                      Founded(runs'[r].read.photos, runs'[r].read.points, runs'[r].call, runs'[r].answer, setting)
      <3>1. CASE r \in DOMAIN runs /\ runs'[r] = runs[r]
        BY <3>1 DEF LegacyInv
      <3>2. CASE runs'[r] = run
        BY <2>2, <2>3, <2>4, <3>2
      <3> QED
        BY <2>5, <3>1, <3>2
    <2> QED
      BY <1>8, <2>1, <2>5, <2>6 DEF LegacyInv
  <1>11. ASSUME NEW r \in DOMAIN runs, TriggerAssetSync(r)
         PROVE  LegacyInv'
    BY <1>1, <1>11 DEF TriggerAssetSync
  <1> QED
    BY <1>1, <1>4, <1>5, <1>6, <1>7, <1>9, <1>10, <1>11 DEF LegacyNext, legacyVars

LEMMA LegacyInitially == LegacyInit => LegacyInv
  <1> SUFFICES ASSUME LegacyInit PROVE LegacyInv
    OBVIOUS
  <1>1. DOMAIN <<>> = {} /\ Len(<<>>) = 0 /\ 1 .. 0 = {}
    OBVIOUS
  <1>2. NotRunning.photos = 0
    BY DEF NotRunning
  <1>3. DOMAIN std = {"sku", "photos", "points"} /\ std.photos = <<>>
    BY DEF LegacyInit
  <1> QED
    BY <1>1, <1>2, <1>3 DEF LegacyInit, LegacyInv

\* Whatever a provider answers and whatever is edited between, for any number of
\* clients, points and items: a stored pass compares one SKU with itself and has
\* a photo, points and a last word "pass" for each of them.
THEOREM LegacyPassWhole == LegacySpec => []LegacyPassIsWhole
  <1>1. LegacyInv => LegacyPassIsWhole
    BY DEF LegacyInv, LegacyPassIsWhole, Founded, Passes
  <1> QED
    BY <1>1, LegacyInitially, LegacyNextInv, PTL DEF LegacySpec

-----------------------------------------------------------------------------
(* Preanalysis: the cache keeps the registration that each measured region *)
(* was placed with, and a file changes only to a later record of its name. *)

Completed == {i \in DOMAIN records : records[i].status = "completed"}

\* Where the completed record of a point was taken, given the registrations.
Located(point, rec, ch) ==
  point.region # NoRegion =>
    /\ point.region[1] \in DOMAIN ch /\ ch[point.region[1]] # Lost
    /\ rec.crop # {}
    /\ \A x \in rec.crop : x - ch[point.region[1]] \in point.region[2] .. point.region[3] - 1

CvInv ==
  /\ pictures \in [Photos -> Scenes \cup {Gone}] /\ shown \in Scenes \cup {Gone}
  /\ plan \in Plans \cup {<<>>}
  /\ \A p \in DOMAIN cache : p \in Photos /\ cache[p] \in Int
  /\ Len(records) \in Nat /\ DOMAIN records = 1 .. Len(records) /\ Len(records) <= Len(plan)
  /\ prompt = {records[i].code : i \in Completed}
  /\ \A i \in Completed :
       /\ Located(plan[i], records[i], cache)
       /\ (\A k \in Completed : k > i => SafeCode[records[k].code] # SafeCode[records[i].code]) =>
            /\ SafeCode[records[i].code] \in DOMAIN files
            /\ files[SafeCode[records[i].code]] = records[i].measured

\* A registration is a displacement.
LEMMA RegistrationIsShift ==
  ASSUME CvInv, NEW p \in Photos
  PROVE  LoadRegistration(p) \in Int
  <1>1. Lost \in Int
    BY PreanalysisAssumption DEF Lost
  <1>2. Gone.view \in Int
    BY DEF Gone, Plain
  <1>3. \A s \in Scenes \cup {Gone} : s.view \in Int
    BY <1>2, PreanalysisAssumption
  <1>4. pictures[p].view \in Int /\ shown.view \in Int
    BY <1>3 DEF CvInv
  <1>5. RegisterPhoto(pictures[p], shown) \in Int
    BY <1>1, <1>4 DEF RegisterPhoto
  <1> QED
    BY <1>1, <1>5 DEF LoadRegistration, CvInv

LEMMA PointMeasured == CvInv /\ MeasurePoint => CvInv'
  <1> SUFFICES ASSUME CvInv, MeasurePoint
               PROVE  CvInv'
    OBVIOUS
  <1> DEFINE n == Len(records) + 1
             point == plan[n]
             row == RecordOf(point)
             uses == point.specs # <<>> /\ point.region # NoRegion /\ shown # Gone
  <1>1. /\ Len(records) \in Nat /\ DOMAIN records = 1 .. Len(records) /\ n \in Nat /\ n <= Len(plan)
        /\ Len(plan) \in Nat /\ DOMAIN plan = 1 .. Len(plan) /\ n \in DOMAIN plan
    <2>1. Len(plan) \in Nat /\ DOMAIN plan = 1 .. Len(plan)
      <3>1. Len(<<>>) = 0 /\ DOMAIN <<>> = {} /\ 1 .. 0 = {}
        OBVIOUS
      <3> QED
        BY <3>1, PreanalysisAssumption DEF CvInv
    <2> QED
      BY <2>1 DEF CvInv, MeasurePoint
  <1>2. /\ records' = Append(records, row) /\ UNCHANGED <<pictures, plan, shown>>
        /\ cache' = IF uses THEN [p \in DOMAIN cache \cup {point.region[1]} |-> LoadRegistration(p)] ELSE cache
        /\ row.status = "completed" => prompt' = prompt \cup {point.code} /\ WriteEvidence(row)
        /\ row.status # "completed" => prompt' = prompt /\ files' = files
    BY DEF MeasurePoint
  <1>3. point.region # NoRegion =>
          point.region[1] \in Photos /\ point.region[2] \in Int /\ point.region[3] \in Int
    <2>1. plan \in Plans
      <3>1. DOMAIN <<>> = {}
        OBVIOUS
      <3> QED
        BY <1>1, <3>1 DEF CvInv
    <2> HIDE DEF n
    <2>2. point.region \in {NoRegion} \cup (Photos \X Int \X Int)
      BY <1>1, <2>1, PreanalysisAssumption
    <2> QED
      BY <2>2
  <1>4. row.status = "completed" =>
          /\ row.code = point.code
          /\ point.region # NoRegion =>
               /\ uses /\ RegisteredCrop(point.region) # {} /\ row.crop = RegisteredCrop(point.region)
    <2> HIDE DEF n, point
    <2> DEFINE crop == IF point.region = NoRegion THEN 0 .. Wide - 1 ELSE RegisteredCrop(point.region)
               measured == [k \in DOMAIN point.specs |-> Measured(point.specs[k], shown, crop)]
    <2>1. \A status \in {"not_configured", "registration_failed", "failed"} : Unmeasured(point, status).status = status
      BY DEF Unmeasured
    <2>2. CASE point.specs = <<>>
      <3>1. row = Unmeasured(point, "not_configured")
        BY <2>2 DEF RecordOf
      <3> HIDE DEF row
      <3> QED
        BY <2>1, <3>1
    <2>3. CASE point.specs # <<>> /\ point.region # NoRegion /\ crop = {}
      <3>1. row = Unmeasured(point, "registration_failed")
        BY <2>3 DEF RecordOf
      <3> HIDE DEF row
      <3> QED
        BY <2>1, <3>1
    <2>4. CASE /\ point.specs # <<>> /\ ~(point.region # NoRegion /\ crop = {})
               /\ shown = Gone \/ \E k \in DOMAIN point.specs : ~KnownSpec(point.specs[k])
      <3>1. row = Unmeasured(point, "failed")
        BY <2>4 DEF RecordOf
      <3> HIDE DEF row
      <3> QED
        BY <2>1, <3>1
    <2>5. CASE /\ point.specs # <<>> /\ ~(point.region # NoRegion /\ crop = {})
               /\ ~(shown = Gone \/ \E k \in DOMAIN point.specs : ~KnownSpec(point.specs[k]))
      <3>1. row = [code |-> point.code, status |-> "completed", crop |-> crop, measured |-> measured,
                   deviations |-> Deviations(measured, point.expected)]
        BY <2>5 DEF RecordOf
      <3>2. row.code = point.code /\ row.crop = crop
        <4> HIDE DEF row, crop, measured
        <4> QED
          BY <3>1
      <3> HIDE DEF row
      <3> QED
        BY <2>5, <3>2
    <2> HIDE DEF row, crop
    <2> QED
      BY <2>2, <2>3, <2>4, <2>5
  <1>5. /\ \A p \in DOMAIN cache : p \in DOMAIN cache' /\ cache'[p] = cache[p]
        /\ uses => point.region[1] \in DOMAIN cache' /\ cache'[point.region[1]] = LoadRegistration(point.region[1])
        /\ \A p \in DOMAIN cache' : p \in DOMAIN cache \/ (uses /\ p = point.region[1])
    <2>1. \A p \in DOMAIN cache : LoadRegistration(p) = cache[p]
      BY DEF LoadRegistration
    <2>2. CASE uses
      <3>1. cache' = [p \in DOMAIN cache \cup {point.region[1]} |-> LoadRegistration(p)]
        BY <1>2, <2>2
      <3> HIDE DEF point, uses
      <3> QED
        BY <2>1, <2>2, <3>1
    <2>3. CASE ~uses
      <3>1. cache' = cache
        BY <1>2, <2>3
      <3> HIDE DEF point, uses
      <3> QED
        BY <2>3, <3>1
    <2> QED
      BY <2>2, <2>3
  <1>6. row.status = "completed" => Located(point, row, cache')
    <2> SUFFICES ASSUME row.status = "completed", point.region # NoRegion
                 PROVE  /\ point.region[1] \in DOMAIN cache' /\ cache'[point.region[1]] # Lost
                        /\ row.crop # {}
                        /\ \A x \in row.crop : x - cache'[point.region[1]] \in point.region[2] .. point.region[3] - 1
      BY DEF Located
    <2> DEFINE shift == LoadRegistration(point.region[1])
    <2>1. /\ point.region[1] \in DOMAIN cache' /\ cache'[point.region[1]] = shift
          /\ row.crop = RegisteredCrop(point.region) /\ row.crop # {}
      BY <1>4, <1>5
    <2> HIDE DEF row
    <2>2. shift # Lost /\ row.crop = MapRegion(point.region, shift)
      BY <2>1 DEF RegisteredCrop
    <2>3. shift \in Int
      BY <1>3, RegistrationIsShift
    <2> HIDE DEF shift, point, n
    <2>4. \A x \in row.crop : x - shift \in point.region[2] .. point.region[3] - 1
      BY <1>3, <2>2, <2>3, PreanalysisAssumption DEF MapRegion
    <2> QED
      BY <2>1, <2>2, <2>4
  <1>7. \A i \in Completed : Located(plan[i], records[i], cache')
    <2>1. \A i \in Completed : Located(plan[i], records[i], cache)
      BY DEF CvInv
    <2> HIDE DEF n, point, row, uses
    <2> QED
      BY <1>5, <2>1 DEF Located
  <1>8. \A p \in DOMAIN cache' : p \in Photos /\ cache'[p] \in Int
    <2>1. uses => point.region[1] \in Photos /\ LoadRegistration(point.region[1]) \in Int
      BY <1>3, RegistrationIsShift
    <2>2. \A p \in DOMAIN cache : p \in Photos /\ cache[p] \in Int
      BY DEF CvInv
    <2> HIDE DEF n, point, row, uses
    <2> QED
      BY <1>5, <2>1, <2>2
  <1> DEFINE done == Completed'
  <1>9. /\ Len(records') = n /\ DOMAIN records' = 1 .. n /\ records'[n] = row /\ n \notin Completed
        /\ \A i \in DOMAIN records : i < n /\ i \in DOMAIN records' /\ records'[i] = records[i]
    <2> HIDE DEF point, row
    <2> QED
      BY <1>1, <1>2 DEF Completed
  <1> HIDE DEF row, uses, point
  <1>10. Completed' = Completed \cup {i \in {n} : row.status = "completed"}
    <2>1. DOMAIN records' = DOMAIN records \cup {n}
      BY <1>1, <1>9
    <2>2. \A i \in DOMAIN records : i # n
      BY <1>1
    <2> HIDE DEF n
    <2>3. \A i \in Completed' : (i \in DOMAIN records /\ i \in Completed) \/ (i = n /\ row.status = "completed")
      BY <1>9, <2>1, <2>2 DEF Completed
    <2>4. \A i \in Completed : i \in Completed'
      BY <1>9, <2>1 DEF Completed
    <2>5. row.status = "completed" => n \in Completed'
      BY <1>9, <2>1 DEF Completed
    <2> QED
      BY <2>3, <2>4, <2>5
  <1> HIDE DEF n
  <1>11. \A i \in Completed : i < n /\ records'[i] = records[i]
    BY <1>9 DEF Completed
  <1>12. prompt = {records[i].code : i \in Completed}
    BY DEF CvInv
  <1>13. prompt' = {records'[i].code : i \in Completed'}
    <2>1. {records'[i].code : i \in Completed} = prompt
      BY <1>11, <1>12
    <2>2. CASE row.status = "completed"
      <3>1. Completed' = Completed \cup {n} /\ prompt' = prompt \cup {row.code} /\ records'[n] = row
        BY <1>2, <1>4, <1>9, <1>10, <2>2
      <3> QED
        BY <2>1, <3>1
    <2>3. CASE row.status # "completed"
      BY <1>2, <1>10, <2>1, <2>3
    <2> QED
      BY <2>2, <2>3
  <1>14. ASSUME NEW i \in Completed',
                \A k \in Completed' : k > i => SafeCode[records'[k].code] # SafeCode[records'[i].code]
         PROVE  /\ SafeCode[records'[i].code] \in DOMAIN files'
                /\ files'[SafeCode[records'[i].code]] = records'[i].measured
    <2>1. row.status = "completed" =>
            /\ SafeCode[row.code] \in DOMAIN files' /\ files'[SafeCode[row.code]] = row.measured
            /\ \A m \in DOMAIN files : m # SafeCode[row.code] => m \in DOMAIN files' /\ files'[m] = files[m]
      BY <1>2 DEF WriteEvidence
    <2>2. CASE i = n
      BY <1>9, <1>10, <2>1, <2>2
    <2>3. CASE i \in Completed
      <3>1. \A k \in Completed : k > i => SafeCode[records[k].code] # SafeCode[records[i].code]
        BY <1>10, <1>11, <1>14, <2>3
      <3>2. SafeCode[records[i].code] \in DOMAIN files /\ files[SafeCode[records[i].code]] = records[i].measured
        BY <2>3, <3>1 DEF CvInv
      <3>3. row.status = "completed" => SafeCode[row.code] # SafeCode[records[i].code]
        <4> SUFFICES ASSUME row.status = "completed" PROVE SafeCode[row.code] # SafeCode[records[i].code]
          OBVIOUS
        <4>1. n \in Completed' /\ n > i /\ records'[n] = row /\ records'[i] = records[i]
          BY <1>1, <1>9, <1>10, <1>11, <2>3 DEF Completed
        <4> QED
          BY <1>14, <4>1
      <3> QED
        BY <1>2, <1>11, <2>1, <2>3, <3>2, <3>3
    <2> QED
      BY <1>10, <2>2, <2>3
  <1>15. \A i \in Completed' : Located(plan'[i], records'[i], cache')
    <2>1. \A i \in Completed : Located(plan'[i], records'[i], cache')
      BY <1>2, <1>7, <1>11
    <2>2. row.status = "completed" => Located(plan'[n], records'[n], cache')
      BY <1>2, <1>6, <1>9 DEF point
    <2> QED
      BY <1>10, <2>1, <2>2
  <1>16. /\ pictures' \in [Photos -> Scenes \cup {Gone}] /\ shown' \in Scenes \cup {Gone}
         /\ plan' \in Plans \cup {<<>>}
         /\ Len(records') \in Nat /\ DOMAIN records' = 1 .. Len(records') /\ Len(records') <= Len(plan')
    BY <1>1, <1>2, <1>9 DEF CvInv
  <1> QED
    BY <1>8, <1>13, <1>14, <1>15, <1>16 DEF CvInv

LEMMA CvNextInv == CvInv /\ [CvNext]_cvVars => CvInv'
  <1> SUFFICES ASSUME CvInv, [CvNext]_cvVars
               PROVE  CvInv'
    OBVIOUS
  <1>1. CASE UNCHANGED cvVars
    BY <1>1 DEF cvVars, CvInv, Completed
  <1>2. ASSUME NEW ps \in Plans, NEW f \in Scenes \cup {Gone}, StartRun(ps, f)
        PROVE  CvInv'
    <2>1. /\ plan' = ps /\ shown' = f /\ cache' = <<>> /\ records' = <<>> /\ prompt' = {} /\ pictures' = pictures
      BY <1>2 DEF StartRun
    <2>2. DOMAIN <<>> = {} /\ Len(<<>>) = 0 /\ 1 .. 0 = {}
      OBVIOUS
    <2>3. Completed' = {}
      BY <2>1, <2>2 DEF Completed
    <2>4. Len(ps) \in Nat
      BY PreanalysisAssumption
    <2> QED
      BY <2>1, <2>2, <2>3, <2>4 DEF CvInv
  <1>3. ASSUME NEW p \in Photos, NEW s \in Scenes \cup {Gone}, ChangePhoto(p, s)
        PROVE  CvInv'
    <2>1. /\ pictures' = [pictures EXCEPT ![p] = s]
          /\ UNCHANGED <<plan, shown, cache, records, prompt, files>>
      BY <1>3 DEF ChangePhoto
    <2>2. pictures' \in [Photos -> Scenes \cup {Gone}]
      BY <2>1 DEF CvInv
    <2> QED
      BY <2>1, <2>2 DEF CvInv, Completed
  <1> QED
    BY <1>1, <1>2, <1>3, PointMeasured DEF CvNext

LEMMA CvInitially == CvInit => CvInv
  <1> SUFFICES ASSUME CvInit PROVE CvInv
    OBVIOUS
  <1>1. DOMAIN <<>> = {} /\ Len(<<>>) = 0 /\ 1 .. 0 = {}
    OBVIOUS
  <1>2. Completed = {} /\ records = <<>> /\ plan = <<>> /\ cache = <<>> /\ prompt = {} /\ shown = Gone
    BY <1>1 DEF CvInit, Completed
  <1> QED
    BY <1>1, <1>2 DEF CvInit, CvInv

\* Whatever is lost or replaced under a run: what the model is told was measured
\* where the run's one registration of the photo places the region, and each file
\* holds its last point's measurements; for any pictures, plans and width.
THEOREM EvidenceLocated == CvSpec => []EvidenceIsLocated
  <1>1. ASSUME CvInv
        PROVE  EvidenceIsLocated
    <2>1. ASSUME NEW i \in DOMAIN records, records[i].status = "completed"
          PROVE  /\ Located(plan[i], records[i], cache)
                 /\ (\A k \in i + 1 .. Len(records) :
                        records[k].status = "completed" => SafeCode[records[k].code] # SafeCode[records[i].code]) =>
                      files[SafeCode[records[i].code]] = records[i].measured
      <3>1. i \in Completed /\ DOMAIN records = 1 .. Len(records) /\ Len(records) \in Nat
        BY <1>1, <2>1 DEF Completed, CvInv
      <3>2. \A k \in Completed : k > i => k \in i + 1 .. Len(records) /\ records[k].status = "completed"
        BY <3>1 DEF Completed
      <3> QED
        BY <1>1, <3>1, <3>2 DEF CvInv
    <2>2. prompt = {records[i].code : i \in {k \in DOMAIN records : records[k].status = "completed"}}
      BY <1>1 DEF CvInv, Completed
    <2> QED
      BY <2>1, <2>2 DEF EvidenceIsLocated, Located
  <1> QED
    BY <1>1, CvInitially, CvNextInv, PTL DEF CvSpec

-----------------------------------------------------------------------------
(* Video: a frame that resembles a sample is one capture or the frame in   *)
(* hand, and an error is one capture without a comparison or the same.     *)

LEMMA OneRow ==
  ASSUME NEW i, NEW d \in Nat
  PROVE  IsFiniteSet({i} \X (1 .. d)) /\ Cardinality({i} \X (1 .. d)) = d
  <1>1. IsFiniteSet({i}) /\ Cardinality({i}) = 1
    BY FS_Singleton
  <1>2. IsFiniteSet(1 .. d) /\ Cardinality(1 .. d) = d
    BY FS_Interval
  <1>3. IsFiniteSet({i} \X (1 .. d)) /\ Cardinality({i} \X (1 .. d)) = 1 * d
    <2> DEFINE S == {i}
               T == 1 .. d
    <2>1. IsFiniteSet(S) /\ IsFiniteSet(T) /\ Cardinality(S) = 1 /\ Cardinality(T) = d
      BY <1>1, <1>2
    <2> HIDE DEF S, T
    <2>2. IsFiniteSet(S \X T) /\ Cardinality(S \X T) = Cardinality(S) * Cardinality(T)
      BY <2>1, FS_Product
    <2>3. IsFiniteSet(S \X T) /\ Cardinality(S \X T) = 1 * d
      BY <2>1, <2>2
    <2> QED
      BY <2>3 DEF S, T
  <1> QED
    BY <1>3

\* The defects of an image have at least the area of each of them.
LEMMA LargeDefect ==
  ASSUME NEW defects \in Seq(0 .. Whole), NEW i \in DOMAIN defects, defects[i] >= 4
  PROVE  LET all == {cell \in {k \in DOMAIN defects : defects[k] >= 4} \X (1 .. Whole) :
                       cell[2] <= defects[cell[1]]}
         IN Cardinality(all) \in Nat /\ Cardinality(all) >= defects[i]
  <1> DEFINE large == {k \in DOMAIN defects : defects[k] >= 4}
             scale == 1 .. Whole
             all == {cell \in large \X scale : cell[2] <= defects[cell[1]]}
             row == {i} \X (1 .. defects[i])
  <1>1. /\ Len(defects) \in Nat /\ DOMAIN defects = 1 .. Len(defects) /\ defects[i] \in 0 .. Whole
        /\ defects[i] \in Nat
    <2>1. Whole \in Nat
      BY DEF Whole
    <2> QED
      BY <2>1
  <1>2. IsFiniteSet(large)
    <2>1. IsFiniteSet(1 .. Len(defects))
      BY <1>1, FS_Interval
    <2>2. large \subseteq 1 .. Len(defects)
      BY <1>1
    <2> HIDE DEF large
    <2> QED
      BY <2>1, <2>2, FS_Subset
  <1>3. IsFiniteSet(scale) /\ Whole \in Nat
    <2>1. Whole \in Nat
      BY DEF Whole
    <2> QED
      BY <2>1, FS_Interval
  <1>4. IsFiniteSet(all)
    <2>1. all \subseteq large \X scale
      OBVIOUS
    <2> HIDE DEF large, scale, all
    <2>2. IsFiniteSet(large \X scale)
      BY <1>2, <1>3, FS_Product
    <2> QED
      BY <2>1, <2>2, FS_Subset
  <1>5. row \subseteq all
    <2> SUFFICES ASSUME NEW n \in 1 .. defects[i]
                 PROVE  <<i, n>> \in all
      OBVIOUS
    <2>1. i \in large /\ n \in scale /\ n <= defects[i]
      BY <1>1, <1>3
    <2> HIDE DEF large, scale
    <2> QED
      BY <2>1
  <1>6. IsFiniteSet(row) /\ Cardinality(row) = defects[i]
    BY <1>1, OneRow
  <1> HIDE DEF row, all
  <1>7. Cardinality(row) <= Cardinality(all) /\ Cardinality(all) \in Nat
    BY <1>4, <1>5, FS_Subset, FS_CardinalityType
  <1>8. Cardinality(all) \in Nat /\ Cardinality(all) >= defects[i]
    BY <1>1, <1>6, <1>7
  <1> QED
    BY <1>8 DEF all

\* A single severe defect is too much for a pass.
LEMMA PassIsMild ==
  ASSUME NEW look \in Looks, CvVerdict(look) = "pass"
  PROVE  ~SevereDeviation(look)
  <1>1. look.defects \in Seq(0 .. Whole)
    BY VideoAssumption
  <1>2. BySimilarity(look) \in {"pass", "needs_fix", "reject"}
    BY DEF BySimilarity
  <1>3. ~(look.colour < 400) /\ ~(DefectArea(look) >= 70)
    BY <1>2 DEF CvVerdict
  <1>4. ASSUME NEW i \in DOMAIN look.defects, look.defects[i] >= 70
        PROVE  FALSE
    <2> DEFINE defects == look.defects
    <2> HIDE DEF defects
    <2>1. defects \in Seq(0 .. Whole) /\ i \in DOMAIN defects /\ defects[i] >= 70
      BY <1>1, <1>4 DEF defects
    <2>7. Whole \in Nat
      BY DEF Whole
    <2>2. defects[i] \in 0 .. Whole /\ Whole \in Nat
      BY <2>1, <2>7
    <2>3. DefectArea(look) = Cardinality({cell \in {k \in DOMAIN defects : defects[k] >= 4} \X (1 .. Whole) :
                                            cell[2] <= defects[cell[1]]})
      BY DEF DefectArea, DetectDefects, defects
    <2>4. defects[i] >= 4
      BY <2>1, <2>2
    <2>5. DefectArea(look) \in Nat /\ DefectArea(look) >= defects[i]
      BY <2>1, <2>3, <2>4, LargeDefect
    <2> QED
      BY <1>3, <2>1, <2>2, <2>5
  <1> QED
    BY <1>3, <1>4 DEF SevereDeviation

VideoRecord ==
  [status : {"none", "running", "done", "failed", "partial_failed"}, provider : {"cv", "qwen"},
   total : Nat, filtered : Nat, processed : Nat, passed : Nat, errors : Nat,
   captures : Seq(Nat), samples : Seq(BOOLEAN)]
Comparison == [status : {"done", "failed"},
               result : [by : {"none", "cv", "qwen"},
                         verdict : {"none", "pass", "needs_fix", "reject", "unknown"}, severe : BOOLEAN]]
FrameInHand == [stage : {"next", "compare", "record", "stopped"}, task : Nat]

\* The captures without a comparison, and whether one refers to a result.
Missing(cs) == {i \in DOMAIN cs : cs[i] = NoTask}
Compares(t, tk) == t \in DOMAIN tk /\ tk[t].status = "done" /\ tk[t].result # NoResult

\* The counters, by captures and the frame in hand.
Counts(v, f) ==
  /\ v.passed = Len(v.captures) + (IF f.stage \in {"compare", "record"} THEN 1 ELSE 0)
  /\ v.errors = Cardinality(Missing(v.captures)) + (IF f.stage = "record" /\ f.task = NoTask THEN 1 ELSE 0)

\* What a final status says of the captures.
Finished(v) ==
  /\ Len(v.captures) = v.passed
  /\ v.status = "done" => Missing(v.captures) = {}
  /\ v.status = "failed" => Missing(v.captures) = DOMAIN v.captures
  /\ v.status = "partial_failed" => Missing(v.captures) \notin {{}, DOMAIN v.captures}

Mild(tk) ==
  \A t \in DOMAIN tk : tk[t].result.by = "cv" /\ tk[t].result.verdict = "pass" => ~tk[t].result.severe

\* Each capture refers to a comparison of its own, or to none.
Refers(cs, f, tk) ==
  /\ \A i \in DOMAIN cs : cs[i] # NoTask => Compares(cs[i], tk)
  /\ \A i, j \in DOMAIN cs : cs[i] # NoTask /\ cs[i] = cs[j] => i = j
  /\ f.stage = "record" /\ f.task # NoTask => Compares(f.task, tk) /\ \A i \in DOMAIN cs : cs[i] # f.task

VideoInv ==
  /\ samples \in Seq(BOOLEAN) /\ tasks \in Seq(Comparison) /\ video \in VideoRecord /\ frame \in FrameInHand
  /\ video.total = video.filtered + video.processed
  /\ video.status = "none" => frame = NoFrame /\ video = NoVideo
  /\ frame.stage # "stopped" => Counts(video, frame)
  /\ Refers(video.captures, frame, tasks) /\ Mild(tasks)
  /\ video.status \in {"done", "partial_failed", "failed"} /\ video.total > 0 => Finished(video)

\* What the pipeline writes to the record of the video.
Started(status, provider, known) == [NoVideo EXCEPT !.status = status, !.provider = provider, !.samples = known]
TierOne(v, a, b) == [v EXCEPT !.total = a, !.filtered = b]
TierTwo(v, a, b, c) == [v EXCEPT !.total = a, !.processed = b, !.passed = c]
WithErrors(v, a) == [v EXCEPT !.errors = a]
WithCaptures(v, cs) == [v EXCEPT !.captures = cs]
WithStatus(v, x) == [v EXCEPT !.status = x]

LEMMA VideoTyped ==
  ASSUME NEW v \in VideoRecord
  PROVE  /\ v.total \in Nat /\ v.filtered \in Nat /\ v.processed \in Nat /\ v.passed \in Nat /\ v.errors \in Nat
         /\ v.captures \in Seq(Nat)
  BY DEF VideoRecord

LEMMA Beginning ==
  ASSUME NEW status \in {"running", "failed"}, NEW provider \in {"cv", "qwen"}, NEW known \in Seq(BOOLEAN)
  PROVE  /\ Started(status, provider, known) \in VideoRecord
         /\ Started(status, provider, known).status = status /\ Started(status, provider, known).total = 0
         /\ Started(status, provider, known).filtered = 0 /\ Started(status, provider, known).processed = 0
         /\ Started(status, provider, known).passed = 0 /\ Started(status, provider, known).errors = 0
         /\ Started(status, provider, known).captures = <<>>
  <1>1. NoVideo \in VideoRecord
    BY DEF NoVideo, VideoRecord
  <1>2. /\ NoVideo.total = 0 /\ NoVideo.filtered = 0 /\ NoVideo.processed = 0 /\ NoVideo.passed = 0
        /\ NoVideo.errors = 0 /\ NoVideo.captures = <<>>
    BY DEF NoVideo
  <1> QED
    BY <1>1, <1>2 DEF VideoRecord, Started

LEMMA Unchanging ==
  ASSUME NEW v \in VideoRecord, NEW a \in Nat, NEW b \in Nat
  PROVE  /\ TierOne(v, a, b) \in VideoRecord
         /\ TierOne(v, a, b).total = a /\ TierOne(v, a, b).filtered = b
         /\ TierOne(v, a, b).processed = v.processed /\ TierOne(v, a, b).passed = v.passed
         /\ TierOne(v, a, b).errors = v.errors /\ TierOne(v, a, b).captures = v.captures
         /\ TierOne(v, a, b).status = v.status
  BY DEF VideoRecord, TierOne

LEMMA Examined ==
  ASSUME NEW v \in VideoRecord, NEW a \in Nat, NEW b \in Nat, NEW c \in Nat
  PROVE  /\ TierTwo(v, a, b, c) \in VideoRecord
         /\ TierTwo(v, a, b, c).total = a /\ TierTwo(v, a, b, c).processed = b
         /\ TierTwo(v, a, b, c).passed = c /\ TierTwo(v, a, b, c).filtered = v.filtered
         /\ TierTwo(v, a, b, c).errors = v.errors /\ TierTwo(v, a, b, c).captures = v.captures
         /\ TierTwo(v, a, b, c).status = v.status
  BY DEF VideoRecord, TierTwo

LEMMA Erred ==
  ASSUME NEW v \in VideoRecord, NEW a \in Nat
  PROVE  LET w == WithErrors(v, a)
         IN /\ w \in VideoRecord /\ w.errors = a
            /\ w.total = v.total /\ w.filtered = v.filtered /\ w.processed = v.processed /\ w.passed = v.passed
            /\ w.captures = v.captures /\ w.status = v.status
  BY DEF VideoRecord, WithErrors

LEMMA Captured ==
  ASSUME NEW v \in VideoRecord, NEW cs \in Seq(Nat)
  PROVE  LET w == WithCaptures(v, cs)
         IN /\ w \in VideoRecord /\ w.captures = cs
            /\ w.total = v.total /\ w.filtered = v.filtered /\ w.processed = v.processed /\ w.passed = v.passed
            /\ w.errors = v.errors /\ w.status = v.status
  BY DEF VideoRecord, WithCaptures

LEMMA Ended ==
  ASSUME NEW v \in VideoRecord, NEW x \in {"running", "done", "failed", "partial_failed"}
  PROVE  LET w == WithStatus(v, x)
         IN /\ w \in VideoRecord /\ w.status = x
            /\ w.total = v.total /\ w.filtered = v.filtered /\ w.processed = v.processed /\ w.passed = v.passed
            /\ w.errors = v.errors /\ w.captures = v.captures
  BY DEF VideoRecord, WithStatus

LEMMA MissingCounted ==
  ASSUME NEW cs \in Seq(Nat)
  PROVE  /\ Missing(cs) \subseteq 1 .. Len(cs) /\ IsFiniteSet(Missing(cs)) /\ Cardinality(Missing(cs)) \in Nat
         /\ Cardinality(Missing(cs)) = 0 => Missing(cs) = {}
         /\ Cardinality(Missing(cs)) = Len(cs) => Missing(cs) = DOMAIN cs
  <1>1. Missing(cs) \subseteq 1 .. Len(cs) /\ Len(cs) \in Nat /\ DOMAIN cs = 1 .. Len(cs)
    BY DEF Missing
  <1>2. IsFiniteSet(1 .. Len(cs)) /\ Cardinality(1 .. Len(cs)) = Len(cs)
    <2>1. \A n \in Nat : IsFiniteSet(1 .. n) /\ Cardinality(1 .. n) = n
      BY FS_Interval
    <2> QED
      BY <1>1, <2>1
  <1>3. IsFiniteSet(Missing(cs))
    BY <1>1, <1>2, FS_Subset
  <1> QED
    BY <1>1, <1>2, <1>3, FS_Subset, FS_EmptySet, FS_CardinalityType

LEMMA CaptureCounted ==
  ASSUME NEW cs \in Seq(Nat), NEW t \in Nat
  PROVE  Cardinality(Missing(Append(cs, t))) = Cardinality(Missing(cs)) + (IF t = NoTask THEN 1 ELSE 0)
  <1>1. /\ Len(cs) \in Nat /\ DOMAIN cs = 1 .. Len(cs) /\ DOMAIN Append(cs, t) = 1 .. Len(cs) + 1
        /\ Append(cs, t)[Len(cs) + 1] = t /\ \A i \in DOMAIN cs : Append(cs, t)[i] = cs[i]
    OBVIOUS
  <1>2. Missing(Append(cs, t)) = Missing(cs) \cup {i \in {Len(cs) + 1} : t = NoTask}
    <2> DEFINE ds == Append(cs, t)
    <2> HIDE DEF ds
    <2>1. /\ DOMAIN ds = 1 .. Len(cs) + 1 /\ ds[Len(cs) + 1] = t /\ \A i \in DOMAIN cs : ds[i] = cs[i]
      BY <1>1 DEF ds
    <2>2. Missing(ds) = Missing(cs) \cup {i \in {Len(cs) + 1} : t = NoTask}
      BY <1>1, <2>1 DEF Missing
    <2> QED
      BY <2>2 DEF ds
  <1>3. Len(cs) + 1 \notin Missing(cs) /\ IsFiniteSet(Missing(cs)) /\ Cardinality(Missing(cs)) \in Nat
    BY <1>1, MissingCounted
  <1>4. CASE t = NoTask
    <2>1. Missing(Append(cs, t)) = Missing(cs) \cup {Len(cs) + 1}
      BY <1>2, <1>4
    <2> QED
      BY <1>3, <1>4, <2>1, FS_AddElement
  <1>5. CASE t # NoTask
    <2>1. Missing(Append(cs, t)) = Missing(cs)
      BY <1>2, <1>5
    <2> QED
      BY <1>3, <1>5, <2>1
  <1> QED
    BY <1>4, <1>5

\* A step of the pipeline that starts no video.
LEMMA PipelineSteps ==
  ASSUME VideoInv,
         \/ SkipUnchanged \/ FailComparison \/ RecordCapture \/ StopVideo \/ EndVideo
         \/ \E score \in {0, 250} : Prefilter(score)
         \/ \E look \in Looks : \E result \in Compared(video.provider, look) : RunComparison(look, result)
  PROVE  VideoInv'
  <1>1. /\ samples \in Seq(BOOLEAN) /\ tasks \in Seq(Comparison) /\ video \in VideoRecord /\ frame \in FrameInHand
        /\ video.captures \in Seq(Nat) /\ Len(tasks) \in Nat /\ DOMAIN tasks = 1 .. Len(tasks)
    BY DEF VideoInv, VideoRecord
  <1>2. CASE SkipUnchanged
    <2> DEFINE v == TierOne(video, video.total + 1, video.filtered + 1)
    <2>1. video' = v /\ samples' = samples /\ tasks' = tasks /\ frame' = frame /\ video.status = "running"
      BY <1>2 DEF SkipUnchanged, Running, TierOne
    <2>2. /\ v \in VideoRecord /\ v.captures = video.captures /\ v.status = video.status
          /\ v.passed = video.passed /\ v.errors = video.errors /\ v.processed = video.processed
          /\ v.total = video.total + 1 /\ v.filtered = video.filtered + 1
      <3> DEFINE a == video.total + 1
                 b == video.filtered + 1
      <3>1. a \in Nat /\ b \in Nat
        BY <1>1, VideoTyped
      <3> HIDE DEF a, b
      <3>2. v = TierOne(video, a, b)
        BY DEF a, b
      <3> HIDE DEF v
      <3>3. /\ v \in VideoRecord /\ v.captures = video.captures /\ v.status = video.status
            /\ v.passed = video.passed /\ v.errors = video.errors /\ v.processed = video.processed
            /\ v.total = a /\ v.filtered = b
        <4>1. video \in VideoRecord
          BY <1>1
        <4> QED
          BY <3>1, <3>2, <4>1, Unchanging
      <3> QED
        BY <3>3 DEF a, b
    <2> HIDE DEF v
    <2>3. v.total = v.filtered + v.processed
      BY <1>1, <2>2, VideoTyped DEF VideoInv
    <2>4. frame.stage # "stopped" => Counts(v, frame)
      BY <2>2 DEF VideoInv, Counts
    <2> QED
      BY <2>1, <2>2, <2>3, <2>4 DEF VideoInv
  <1>3. ASSUME NEW score \in {0, 250}, Prefilter(score)
        PROVE  VideoInv'
    <2> DEFINE n == IF Resembles(score) THEN video.passed + 1 ELSE video.passed
               v == TierTwo(video, video.total + 1, video.processed + 1, n)
               f == IF Resembles(score) THEN [stage |-> "compare", task |-> NoTask] ELSE NoFrame
    <2>1. video' = v /\ frame' = f /\ samples' = samples /\ tasks' = tasks /\ video.status = "running" /\ frame = NoFrame
      BY <1>3 DEF Prefilter, Running, TierTwo
    <2>2. n \in Nat /\ n = video.passed + (IF Resembles(score) THEN 1 ELSE 0)
      BY <1>1, VideoTyped
    <2> HIDE DEF n
    <2>3. /\ v \in VideoRecord /\ v.captures = video.captures /\ v.status = video.status
          /\ v.passed = n /\ v.errors = video.errors /\ v.processed = video.processed + 1
          /\ v.total = video.total + 1 /\ v.filtered = video.filtered
      <3> DEFINE a == video.total + 1
                 b == video.processed + 1
      <3>1. a \in Nat /\ b \in Nat
        BY <1>1, VideoTyped
      <3> HIDE DEF a, b
      <3>2. v = TierTwo(video, a, b, n)
        BY DEF a, b
      <3> HIDE DEF v
      <3>3. /\ v \in VideoRecord /\ v.captures = video.captures /\ v.status = video.status
            /\ v.passed = n /\ v.errors = video.errors /\ v.filtered = video.filtered
            /\ v.total = a /\ v.processed = b
        <4>1. video \in VideoRecord /\ n \in Nat
          BY <1>1, <2>2
        <4> DEFINE w == TierTwo(video, a, b, n)
        <4>2. /\ w \in VideoRecord /\ w.total = a /\ w.processed = b /\ w.passed = n
              /\ w.filtered = video.filtered /\ w.errors = video.errors
              /\ w.captures = video.captures /\ w.status = video.status
          BY <3>1, <4>1, Examined
        <4> HIDE DEF w
        <4> QED
          BY <3>2, <4>2 DEF w
      <3> QED
        BY <3>3 DEF a, b
    <2>4. f \in FrameInHand /\ f.task = NoTask /\ f.stage = IF Resembles(score) THEN "compare" ELSE "next"
      BY DEF FrameInHand, NoFrame, NoTask
    <2> HIDE DEF v, f
    <2>5. frame.stage = "next"
      BY <2>1 DEF NoFrame
    <2>6. v.passed = Len(v.captures) + (IF f.stage \in {"compare", "record"} THEN 1 ELSE 0)
      <3>1. video.passed = Len(video.captures) /\ Len(video.captures) \in Nat
        BY <1>1, <2>5, VideoTyped DEF VideoInv, Counts
      <3>2. CASE Resembles(score)
        BY <2>2, <2>3, <2>4, <3>1, <3>2
      <3>3. CASE ~Resembles(score)
        BY <2>2, <2>3, <2>4, <3>1, <3>3
      <3> QED
        BY <3>2, <3>3
    <2>7. Counts(v, f)
      <3>1. video.errors = Cardinality(Missing(video.captures)) + 0
        BY <2>5 DEF VideoInv, Counts
      <3>2. f.stage # "record"
        BY <2>4
      <3> QED
        BY <2>3, <2>6, <3>1, <3>2 DEF Counts
    <2>8. Refers(video.captures, f, tasks)
      BY <2>4 DEF VideoInv, Refers
    <2>9. v.total = v.filtered + v.processed
      BY <1>1, <2>3, VideoTyped DEF VideoInv
    <2> QED
      BY <1>1, <2>1, <2>3, <2>4, <2>7, <2>8, <2>9 DEF VideoInv
  <1>4. ASSUME NEW look \in Looks, NEW result \in Compared(video.provider, look), RunComparison(look, result)
        PROVE  VideoInv'
    <2> DEFINE c == [status |-> "done", result |-> result]
               f == [stage |-> "record", task |-> Len(tasks) + 1]
    <2>1. /\ tasks' = Append(tasks, c) /\ frame' = f /\ video' = video /\ samples' = samples
          /\ video.status = "running" /\ frame.stage = "compare" /\ result.verdict # "null"
      BY <1>4 DEF RunComparison, Running
    <2>2. /\ result \in [by : {"cv", "qwen"}, verdict : {"pass", "needs_fix", "reject", "unknown"},
                         severe : BOOLEAN]
          /\ result.by = "cv" /\ result.verdict = "pass" => ~result.severe
      <3>1. CASE video.provider = "cv"
        <4>1. result = [by |-> "cv", verdict |-> CvVerdict(look), severe |-> SevereDeviation(look)]
          BY <3>1 DEF Compared
        <4>2. CvVerdict(look) \in {"pass", "needs_fix", "reject"}
          BY DEF CvVerdict, BySimilarity
        <4>3. SevereDeviation(look) \in BOOLEAN
          BY DEF SevereDeviation
        <4>4. result.verdict = CvVerdict(look) /\ result.severe = SevereDeviation(look)
          BY <4>1
        <4>5. result \in [by : {"cv", "qwen"}, verdict : {"pass", "needs_fix", "reject", "unknown"},
                           severe : BOOLEAN]
          BY <4>1, <4>2, <4>3
        <4> QED
          BY <4>4, <4>5, PassIsMild
      <3>2. CASE video.provider # "cv"
        <4>1. result \in [by : {video.provider}, verdict : {"pass", "reject", "unknown", "null"}, severe : BOOLEAN]
          BY <3>2 DEF Compared
        <4>2. video.provider = "qwen"
          BY <1>1, <3>2 DEF VideoRecord
        <4> QED
          BY <2>1, <4>1, <4>2
      <3> QED
        BY <3>1, <3>2
    <2>3. c \in Comparison /\ c.status = "done" /\ c.result = result /\ result # NoResult
      BY <2>2 DEF Comparison, NoResult
    <2>4. f \in FrameInHand /\ f.stage = "record" /\ f.task = Len(tasks) + 1 /\ f.task # NoTask
      BY <1>1 DEF FrameInHand, NoTask
    <2> HIDE DEF c, f
    <2>5. /\ tasks' \in Seq(Comparison) /\ DOMAIN tasks' = 1 .. Len(tasks) + 1
          /\ tasks'[Len(tasks) + 1] = c /\ \A t \in DOMAIN tasks : t \in DOMAIN tasks' /\ tasks'[t] = tasks[t]
          /\ \A t \in DOMAIN tasks' : t \in DOMAIN tasks \/ t = Len(tasks) + 1
      BY <1>1, <2>1, <2>3
    <2>6. Compares(f.task, tasks') /\ \A t \in Nat : Compares(t, tasks) => Compares(t, tasks')
      BY <2>3, <2>4, <2>5 DEF Compares
    <2>7. Refers(video.captures, f, tasks')
      <3>1. \A i \in DOMAIN video.captures : video.captures[i] # NoTask => video.captures[i] \in DOMAIN tasks
        BY DEF VideoInv, Refers, Compares
      <3>2. \A i \in DOMAIN video.captures : video.captures[i] # f.task
        BY <1>1, <2>4, <3>1
      <3>3. \A i \in DOMAIN video.captures : video.captures[i] \in Nat
        BY <1>1
      <3> QED
        BY <2>4, <2>6, <3>2, <3>3 DEF VideoInv, Refers
    <2>8. Mild(tasks')
      BY <2>2, <2>3, <2>5 DEF VideoInv, Mild
    <2>9. Counts(video, f)
      BY <2>1, <2>4 DEF VideoInv, Counts
    <2> QED
      BY <2>1, <2>4, <2>5, <2>7, <2>8, <2>9, <1>1 DEF VideoInv
  <1>5. CASE FailComparison
    <2> DEFINE c == [status |-> "failed", result |-> NoResult]
               f == [stage |-> "record", task |-> NoTask]
               v == WithErrors(video, video.errors + 1)
    <2>1. /\ tasks' = Append(tasks, c) /\ frame' = f /\ video' = v /\ samples' = samples
          /\ video.status = "running" /\ frame.stage = "compare"
      BY <1>5 DEF FailComparison, Running, WithErrors
    <2>2. c \in Comparison /\ c.result.verdict = "none"
      BY DEF Comparison, NoResult
    <2>3. f \in FrameInHand /\ f.stage = "record" /\ f.task = NoTask
      BY DEF FrameInHand, NoTask
    <2>4. /\ v \in VideoRecord /\ v.errors = video.errors + 1 /\ video.errors \in Nat
          /\ v.total = video.total /\ v.filtered = video.filtered /\ v.processed = video.processed
          /\ v.passed = video.passed /\ v.captures = video.captures /\ v.status = video.status
      <3> DEFINE a == video.errors + 1
      <3>1. a \in Nat /\ video.errors \in Nat
        BY <1>1, VideoTyped
      <3> HIDE DEF a
      <3>2. v = WithErrors(video, a)
        BY DEF a
      <3> HIDE DEF v
      <3>3. /\ v \in VideoRecord /\ v.errors = a
            /\ v.total = video.total /\ v.filtered = video.filtered /\ v.processed = video.processed
            /\ v.passed = video.passed /\ v.captures = video.captures /\ v.status = video.status
        BY <1>1, <3>1, <3>2, Erred
      <3> QED
        BY <3>1, <3>3 DEF a
    <2> HIDE DEF c, f, v
    <2>5. /\ tasks' \in Seq(Comparison) /\ DOMAIN tasks' = 1 .. Len(tasks) + 1
          /\ tasks'[Len(tasks) + 1] = c /\ \A t \in DOMAIN tasks : t \in DOMAIN tasks' /\ tasks'[t] = tasks[t]
          /\ \A t \in DOMAIN tasks' : t \in DOMAIN tasks \/ t = Len(tasks) + 1
      BY <1>1, <2>1, <2>2
    <2>6. \A t \in Nat : Compares(t, tasks) => Compares(t, tasks')
      BY <2>5 DEF Compares
    <2>7. Refers(video.captures, f, tasks')
      BY <1>1, <2>3, <2>6 DEF VideoInv, Refers
    <2>8. Mild(tasks')
      BY <2>2, <2>5 DEF VideoInv, Mild
    <2>9. Counts(v, f)
      <3>1. video.passed = Len(video.captures) + 1 /\ video.errors = Cardinality(Missing(video.captures)) + 0
        BY <2>1 DEF VideoInv, Counts
      <3>2. Cardinality(Missing(video.captures)) \in Nat
        BY <1>1, MissingCounted
      <3> QED
        BY <2>3, <2>4, <3>1, <3>2 DEF Counts
    <2>10. v.total = v.filtered + v.processed
      BY <2>4 DEF VideoInv
    <2> QED
      BY <1>1, <2>1, <2>3, <2>4, <2>5, <2>7, <2>8, <2>9, <2>10 DEF VideoInv
  <1>6. CASE RecordCapture
    <2> DEFINE cs == Append(video.captures, frame.task)
               v == WithCaptures(video, cs)
    <2>1. /\ video' = v /\ frame' = NoFrame /\ samples' = samples /\ tasks' = tasks
          /\ video.status = "running" /\ frame.stage = "record"
      BY <1>6 DEF RecordCapture, Running, WithCaptures
    <2>2. frame.task \in Nat
      BY <1>1 DEF FrameInHand
    <2>3. /\ cs \in Seq(Nat) /\ Len(cs) = Len(video.captures) + 1 /\ Len(video.captures) \in Nat
          /\ cs[Len(cs)] = frame.task
          /\ \A i \in DOMAIN cs : (i \in DOMAIN video.captures /\ cs[i] = video.captures[i]) \/ i = Len(cs)
      BY <1>1, <2>2
    <2>4. Cardinality(Missing(cs)) = Cardinality(Missing(video.captures)) + (IF frame.task = NoTask THEN 1 ELSE 0)
      BY <1>1, <2>2, CaptureCounted
    <2> HIDE DEF cs
    <2>5. /\ v \in VideoRecord /\ v.captures = cs /\ v.errors = video.errors
          /\ v.total = video.total /\ v.filtered = video.filtered /\ v.processed = video.processed
          /\ v.passed = video.passed /\ v.status = video.status
      BY <1>1, <2>3, Captured
    <2> HIDE DEF v
    <2>6. NoFrame \in FrameInHand /\ NoFrame.stage = "next"
      BY DEF FrameInHand, NoFrame, NoTask
    <2>7. Counts(v, NoFrame)
      <3>1. /\ video.passed = Len(video.captures) + 1
            /\ video.errors = Cardinality(Missing(video.captures)) + (IF frame.task = NoTask THEN 1 ELSE 0)
        BY <2>1 DEF VideoInv, Counts
      <3>2. Cardinality(Missing(cs)) \in Nat
        BY <2>3, MissingCounted
      <3>3. v.passed = Len(cs) /\ v.errors = Cardinality(Missing(cs))
        BY <2>3, <2>4, <2>5, <3>1
      <3>4. NoFrame.stage \notin {"compare", "record"}
        BY <2>6
      <3>5. Len(cs) \in Nat
        BY <2>3
      <3> QED
        BY <2>5, <3>2, <3>3, <3>4, <3>5 DEF Counts
    <2>8. Refers(cs, NoFrame, tasks)
      <3>1. \A i \in DOMAIN cs : cs[i] # NoTask => Compares(cs[i], tasks)
        BY <2>1, <2>3 DEF VideoInv, Refers
      <3>2. \A i, j \in DOMAIN cs : cs[i] # NoTask /\ cs[i] = cs[j] => i = j
        BY <2>1, <2>3 DEF VideoInv, Refers
      <3> QED
        BY <2>6, <3>1, <3>2 DEF Refers
    <2>9. v.total = v.filtered + v.processed
      BY <2>5 DEF VideoInv
    <2> QED
      BY <1>1, <2>1, <2>5, <2>6, <2>7, <2>8, <2>9 DEF VideoInv
  <1>7. CASE StopVideo
    <2> DEFINE f == [stage |-> "stopped", task |-> NoTask]
    <2>1. frame' = f /\ UNCHANGED <<samples, tasks, video>> /\ video.status = "running"
      BY <1>7 DEF StopVideo, Running
    <2>2. f \in FrameInHand /\ f.stage = "stopped"
      BY DEF FrameInHand, NoTask
    <2> HIDE DEF f
    <2>3. Refers(video.captures, f, tasks)
      BY <2>2 DEF VideoInv, Refers
    <2> QED
      BY <1>1, <2>1, <2>2, <2>3 DEF VideoInv
  <1>8. CASE EndVideo
    <2> DEFINE v == WithStatus(video, FinalStatus)
    <2>1. video' = v /\ samples' = samples /\ tasks' = tasks /\ frame' = frame /\ frame = NoFrame
      BY <1>8 DEF EndVideo, WithStatus
    <2>2. FinalStatus \in {"done", "failed", "partial_failed"}
      BY DEF FinalStatus
    <2>3. /\ v \in VideoRecord /\ v.status = FinalStatus /\ v.captures = video.captures /\ v.errors = video.errors
          /\ v.total = video.total /\ v.filtered = video.filtered /\ v.processed = video.processed
          /\ v.passed = video.passed
      BY <1>1, <2>2, Ended
    <2> HIDE DEF v
    <2>4. frame.stage = "next"
      BY <2>1 DEF NoFrame
    <2>5. video.passed = Len(video.captures) /\ video.errors = Cardinality(Missing(video.captures))
      <3>1. Len(video.captures) \in Nat /\ Cardinality(Missing(video.captures)) \in Nat
        BY <1>1, MissingCounted
      <3> QED
        BY <2>4, <3>1 DEF VideoInv, Counts
    <2>6. Finished(v)
      <3> DEFINE missing == Missing(video.captures)
      <3>1. /\ Cardinality(missing) = 0 => missing = {}
            /\ Cardinality(missing) = Len(video.captures) => missing = DOMAIN video.captures
        BY <1>1, MissingCounted
      <3>2. missing = {} => Cardinality(missing) = 0
        BY FS_EmptySet
      <3>3. missing = DOMAIN video.captures => Cardinality(missing) = Len(video.captures)
        <4>1. DOMAIN video.captures = 1 .. Len(video.captures) /\ Len(video.captures) \in Nat
          BY <1>1
        <4>2. Cardinality(1 .. Len(video.captures)) = Len(video.captures)
          <5>1. \A n \in Nat : Cardinality(1 .. n) = n
            BY FS_Interval
          <5> QED
            BY <4>1, <5>1
        <4> QED
          BY <4>1, <4>2
      <3> HIDE DEF missing
      <3>4. /\ FinalStatus = "done" => missing = {}
            /\ FinalStatus = "failed" => missing = DOMAIN video.captures
            /\ FinalStatus = "partial_failed" => missing # {} /\ missing # DOMAIN video.captures
        BY <2>5, <3>1, <3>2, <3>3 DEF FinalStatus, missing
      <3> QED
        BY <2>3, <2>5, <3>4 DEF Finished, missing
    <2>7. Counts(v, frame) /\ v.total = v.filtered + v.processed
      BY <2>3, <2>4 DEF VideoInv, Counts
    <2> QED
      BY <1>1, <2>1, <2>2, <2>3, <2>6, <2>7 DEF VideoInv
  <1> QED
    BY <1>2, <1>3, <1>4, <1>5, <1>6, <1>7, <1>8

LEMMA VideoNextInv == VideoInv /\ [VideoNext]_videoVars => VideoInv'
  <1> SUFFICES ASSUME VideoInv, [VideoNext]_videoVars
               PROVE  VideoInv'
    OBVIOUS
  <1>1. CASE UNCHANGED videoVars
    BY <1>1 DEF videoVars, VideoInv
  <1>2. ASSUME NEW readable \in BOOLEAN, ImportSample(readable)
        PROVE  VideoInv'
    <2>1. samples' = Append(samples, readable) /\ UNCHANGED <<tasks, video, frame>>
      BY <1>2 DEF ImportSample
    <2>2. samples' \in Seq(BOOLEAN)
      <3>1. samples \in Seq(BOOLEAN)
        BY DEF VideoInv
      <3> QED
        BY <2>1, <3>1, AppendHolds
    <2> QED
      BY <2>1, <2>2 DEF VideoInv
  <1>3. ASSUME NEW named \in {"cv", "qwen"}, NEW realCalls \in BOOLEAN, NEW opens \in BOOLEAN,
               StartVideo(GetProvider(named, realCalls), opens)
        PROVE  VideoInv'
    <2> DEFINE status == IF opens THEN "running" ELSE "failed"
               provider == GetProvider(named, realCalls)
               v == Started(status, provider, samples)
    <2>1. video' = v /\ UNCHANGED <<samples, tasks, frame>> /\ video.status = "none"
      BY <1>3 DEF StartVideo, Started
    <2>2. status \in {"running", "failed"} /\ provider \in {"cv", "qwen"} /\ samples \in Seq(BOOLEAN)
      BY DEF GetProvider, VideoInv
    <2> HIDE DEF status, provider
    <2>3. /\ v \in VideoRecord /\ v.status = status /\ v.total = 0 /\ v.filtered = 0 /\ v.processed = 0
          /\ v.passed = 0 /\ v.errors = 0 /\ v.captures = <<>>
      BY <2>2, Beginning
    <2> HIDE DEF v
    <2>4. <<>> \in Seq(Nat) /\ DOMAIN <<>> = {} /\ Len(<<>>) = 0
      OBVIOUS
    <2>5. /\ v.status = status /\ v.total = 0 /\ v.filtered = 0 /\ v.processed = 0 /\ v.passed = 0
          /\ v.errors = 0 /\ v.captures = <<>>
      BY <2>3
    <2>6. v \in VideoRecord
      BY <2>3
    <2>7. frame = NoFrame /\ frame.stage = "next"
      BY <2>1 DEF VideoInv, NoFrame
    <2>8. Counts(v, frame)
      <3>1. Missing(v.captures) = {}
        BY <2>4, <2>5 DEF Missing
      <3>2. Cardinality(Missing(v.captures)) = 0
        BY <3>1, FS_EmptySet
      <3> QED
        BY <2>4, <2>5, <2>7, <3>2 DEF Counts
    <2>9. Refers(v.captures, frame, tasks)
      BY <2>4, <2>5, <2>7 DEF Refers
    <2> QED
      BY <2>1, <2>2, <2>5, <2>6, <2>7, <2>8, <2>9 DEF VideoInv
  <1>4. CASE VideoNext
    BY <1>4, <1>2, <1>3, PipelineSteps DEF VideoNext
  <1> QED
    BY <1>1, <1>4

LEMMA VideoInitially == VideoInit => VideoInv
  <1> SUFFICES ASSUME VideoInit PROVE VideoInv
    OBVIOUS
  <1>1. DOMAIN <<>> = {} /\ Len(<<>>) = 0 /\ \A S : <<>> \in Seq(S)
    OBVIOUS
  <1>2. video = NoVideo /\ frame = NoFrame /\ samples = <<>> /\ tasks = <<>>
    BY DEF VideoInit
  <1>3. /\ video.status = "none" /\ video.total = 0 /\ video.filtered = 0 /\ video.processed = 0
        /\ video.passed = 0 /\ video.errors = 0 /\ video.captures = <<>>
    BY <1>2 DEF NoVideo
  <1>4. video \in VideoRecord
    BY <1>1, <1>2 DEF NoVideo, VideoRecord
  <1>5. frame \in FrameInHand /\ frame.stage = "next"
    BY <1>2 DEF NoFrame, NoTask, FrameInHand
  <1>6. Counts(video, frame)
    <2>1. Missing(video.captures) = {}
      BY <1>1, <1>3 DEF Missing
    <2>2. Cardinality(Missing(video.captures)) = 0
      BY <2>1, FS_EmptySet
    <2> QED
      BY <1>1, <1>3, <1>5, <2>2 DEF Counts
  <1>7. Refers(video.captures, frame, tasks) /\ Mild(tasks)
    BY <1>1, <1>2, <1>3, <1>5 DEF Refers, Mild
  <1> QED
    BY <1>1, <1>2, <1>3, <1>4, <1>5, <1>6, <1>7 DEF VideoInv

\* For any video, samples and images: every frame is in one tier, a final status
\* says of the captures what is so, each refers to a result of its own, and a
\* comparison that the local comparator passes has no severe deviation.
THEOREM VideoTold == VideoSpec => []VideoTellsItsCaptures
  <1>1. ASSUME VideoInv
        PROVE  VideoTellsItsCaptures
    <2> DEFINE taken == video.captures
               compared == {i \in DOMAIN taken : taken[i] # NoTask}
    <2>1. compared = DOMAIN taken \ Missing(taken) /\ Missing(taken) \subseteq DOMAIN taken
      BY DEF Missing
    <2>2. ASSUME video.status \in {"done", "partial_failed", "failed"}, video.total > 0
          PROVE  /\ Len(taken) = video.passed
                 /\ video.status = "done" => compared = DOMAIN taken
                 /\ video.status = "failed" => compared = {}
                 /\ video.status = "partial_failed" => compared \notin {{}, DOMAIN taken}
      <3>1. Finished(video)
        BY <1>1, <2>2 DEF VideoInv
      <3> HIDE DEF compared
      <3> QED
        BY <2>1, <3>1 DEF Finished
    <2>3. /\ \A i \in compared : tasks[taken[i]].status = "done" /\ tasks[taken[i]].result # NoResult
          /\ \A i, j \in compared : taken[i] = taken[j] => i = j
      BY <1>1 DEF VideoInv, Refers, Compares
    <2>4. \A t \in DOMAIN tasks :
            tasks[t].result.by = "cv" /\ tasks[t].result.verdict = "pass" => ~tasks[t].result.severe
      BY <1>1 DEF VideoInv, Mild
    <2>5. video.total = video.filtered + video.processed
      BY <1>1 DEF VideoInv
    <2> QED
      BY <2>2, <2>3, <2>4, <2>5 DEF VideoTellsItsCaptures
  <1> QED
    BY <1>1, VideoInitially, VideoNextInv, PTL DEF VideoSpec
=============================================================================
