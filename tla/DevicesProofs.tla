--------------------------- MODULE DevicesProofs ---------------------------
(***************************************************************************)
(* Theorems about the devices: the Pad's outbox and its cloud jobs, the    *)
(* Jetson runner, and the server's records of runners.  The components     *)
(* share no state; each has its own inductive invariant.                   *)
(***************************************************************************)
EXTENDS PadCloud, PadOutbox, JetsonRunner, Fleet, TLAPS

-----------------------------------------------------------------------------
(* The outbox.  A batch only ever holds results with a row, and the server  *)
(* has stored what the batch counts as accepted.  An upload that begins     *)
(* again finds the decision stored before, which is the one in the row: the *)
(* row never changes.                                                       *)

OutboxInv ==
    /\ OutboxTypeOK
    /\ \A r \in upload.todo : entry[r] # NoEntry
    /\ upload.at \in {"sending", "marking"} => \A r \in upload.accepted : stored[r] # NoEntry
    /\ UploadedIsStored

LEMMA OutboxInitially == OutboxInit => OutboxInv
  BY DEF OutboxInit, OutboxInv, OutboxTypeOK, UploadedIsStored, NoUpload

\* What a result on its way leaves on the server: its own row, if it had none.
LEMMA StoreKeeps ==
  ASSUME OutboxInv, NEW r \in upload.todo, Store(r)
  PROVE  /\ r \in Reviewed
         /\ stored' \in [Reviewed -> HumanDecision \union {NoEntry}]
         /\ stored'[r] # NoEntry
         /\ \A q \in Reviewed : stored[q] # NoEntry => stored'[q] = stored[q]
         /\ \A q \in Reviewed : stored'[q] # NoEntry => stored'[q] = entry[q]
  BY DEF OutboxInv, OutboxTypeOK, UploadedIsStored, Store

LEMMA OutboxStep ==
  ASSUME OutboxInv, [OutboxNext]_outboxVars
  PROVE  OutboxInv'
  <1> USE DEF OutboxInv, OutboxTypeOK, UploadedIsStored
  <1>1. CASE StartUpload
    BY <1>1 DEF StartUpload, NoUpload
  <1>2. CASE AllSent
    BY <1>2 DEF AllSent
  <1>3. CASE OutboxCrash
    BY <1>3 DEF OutboxCrash, NoUpload
  <1>4. ASSUME NEW r \in Reviewed, Send(r)
        PROVE  OutboxInv'
    BY <1>4, StoreKeeps DEF Send
  <1>5. ASSUME NEW r \in Reviewed, AnswerLost(r)
        PROVE  OutboxInv'
    BY <1>5, StoreKeeps DEF AnswerLost, NoUpload
  <1>6. ASSUME NEW r \in Reviewed, Fail(r)
        PROVE  OutboxInv'
    BY <1>6 DEF Fail, NoUpload
  <1>7. ASSUME NEW r \in Reviewed, Mark(r)
        PROVE  OutboxInv'
    BY <1>7 DEF Mark, NoUpload
  <1>8. ASSUME NEW r \in Reviewed, NEW d \in HumanDecision, Tap(r, d)
        PROVE  OutboxInv'
    BY <1>8 DEF Tap, Enqueue
  <1>9. CASE UNCHANGED outboxVars
    BY <1>9 DEF outboxVars
  <1> QED
    BY <1>1, <1>2, <1>3, <1>4, <1>5, <1>6, <1>7, <1>8, <1>9 DEF OutboxNext

\* Whatever is tapped, lost, sent again or cut off by the end of the app, a row
\* marked uploaded is on the server, with the decision of the Pad.
THEOREM UploadedStored == OutboxSpec => []UploadedIsStored
  <1>1. OutboxInv => UploadedIsStored
    BY DEF OutboxInv
  <1> QED
    BY OutboxInitially, OutboxStep, <1>1, PTL DEF OutboxSpec

-----------------------------------------------------------------------------
(* The Pad's cloud jobs.  A photo that is being submitted holds the network *)
(* that is selected, so that no other begins and no reading changes the     *)
(* selection; what is on disk, or was recovered from it, is of inspections  *)
(* that ended as pending.                                                   *)

NetTypeOK ==
    /\ wifi \in {"down", "slow", "fast"} /\ cell \in BOOLEAN
    /\ selected \in Network
    /\ active \in Network \union {Free} /\ deferred \in Network \union {Free}

QueuedIsPending ==
    /\ \A p \in pending \union recovered : view[p] = "PENDING_UPLOAD"
    /\ mon # Idle => mon.of \in pending

CloudInv ==
    /\ PadCloudTypeOK /\ NetTypeOK
    /\ JobHoldsNetwork
    /\ QueuedIsPending

\* The policy always has a network to propose, "none" among them.
LEMMA DesiredNetwork ==
  ASSUME NEW sel \in Network, NEW w \in {"down", "slow", "fast"}, NEW c \in BOOLEAN
  PROVE  Desired(sel, w, c) \in Network
  BY DEF Desired, Network

\* A job that ends frees the network.
LEMMA EndJobFrees ==
  ASSUME NetTypeOK, EndJob
  PROVE  NetTypeOK'
  <1>1. ASSUME NEW sel \in Network, selected' = Desired(sel, wifi, cell)
        PROVE  selected' \in Network
    BY <1>1, DesiredNetwork DEF NetTypeOK
  <1>2. selected' \in Network
    BY <1>1 DEF EndJob, NetTypeOK
  <1> QED
    BY <1>2 DEF EndJob, NetTypeOK

\* A reading taken while a job holds the network leaves the selection alone.
LEMMA ObserveDefers ==
  ASSUME NetTypeOK, NEW w \in WifiReading, NEW c \in CellReading, Observe(w, c)
  PROVE  /\ NetTypeOK' /\ active' = active
         /\ active # Free => selected' = selected
  <1>1. w \in {"down", "slow", "fast"} /\ c \in BOOLEAN
    BY NetworkAssumption
  <1>2. Desired(selected, w, c) \in Network
    BY <1>1, DesiredNetwork DEF NetTypeOK
  <1> QED
    BY <1>1, <1>2 DEF Observe, NetTypeOK

LEMMA CloudInitially == PadCloudInit => CloudInv
  BY DEF PadCloudInit, NetInit, CloudInv, PadCloudTypeOK, NetTypeOK, JobHoldsNetwork, QueuedIsPending,
         Sending, Network, Free, Idle

\* The end of a job in progress: nothing is being submitted after it, and what
\* it shows is the end of its own inspection.
LEMMA JobEnds ==
  ASSUME CloudInv, NEW p \in Photo, Sending(p), EndJob,
         NEW what \in {"PENDING_UPLOAD", "CLOUD_ERROR", "left", "ACCEPTED", "NOT_ACCEPTED", "review_required"},
         Shows(p, what), UNCHANGED <<recovered, mon, cloud, due>>,
         pending' \in {pending, pending \union {p}},
         p \in pending' => what = "PENDING_UPLOAD"
  PROVE  CloudInv'
  <1>1. NetTypeOK'
    BY EndJobFrees DEF CloudInv
  <1>2. \A q \in Photo : ~ Sending(q)'
    BY DEF CloudInv, JobHoldsNetwork, Sending, Shows, PadCloudTypeOK
  <1>3. p \notin pending \union recovered
    BY DEF CloudInv, QueuedIsPending, Sending
  <1>4. PadCloudTypeOK'
    BY DEF CloudInv, PadCloudTypeOK, Shows
  <1>5. QueuedIsPending'
    BY <1>3 DEF CloudInv, QueuedIsPending, PadCloudTypeOK, Shows
  <1> QED
    BY <1>1, <1>2, <1>4, <1>5 DEF CloudInv, JobHoldsNetwork

LEMMA CloudStep ==
  ASSUME CloudInv, [PadCloudNext]_cloudVars
  PROVE  CloudInv'
  <1> USE DEF CloudInv
  <1>net. ASSUME UNCHANGED netVars, UNCHANGED <<view, cloud>>, QueuedIsPending', PadCloudTypeOK'
          PROVE  CloudInv'
    BY <1>net DEF NetTypeOK, JobHoldsNetwork, Sending, netVars
  <1>1. ASSUME NEW w \in WifiReading, NEW c \in CellReading, Observe(w, c), UNCHANGED padVars
        PROVE  CloudInv'
    <2>1. NetTypeOK' /\ active' = active /\ (active # Free => selected' = selected)
      BY <1>1, ObserveDefers
    <2>2. JobHoldsNetwork'
      BY <1>1, <2>1 DEF JobHoldsNetwork, Sending, NetTypeOK, Network, Free, padVars
    <2> QED
      BY <1>1, <2>1, <2>2 DEF PadCloudTypeOK, QueuedIsPending, padVars
  <1>2. CASE Waiting
    BY <1>2 DEF Waiting, Elapse, PadCloudTypeOK, NetTypeOK, JobHoldsNetwork, Sending, QueuedIsPending, padVars
  <1>3. CASE Crash
    <2>1. \A p \in Photo : ~ Sending(p)'
      BY <1>3 DEF Crash, Sending, PadCloudTypeOK
    <2>2. recovered' \subseteq recovered \union pending
      BY <1>3 DEF Crash
    <2>3. \A p \in Photo : view[p] = "PENDING_UPLOAD" => view'[p] = "PENDING_UPLOAD"
      BY <1>3 DEF Crash, Sending, PadCloudTypeOK
    <2>4. PadCloudTypeOK' /\ QueuedIsPending'
      BY <1>3, <2>2, <2>3 DEF Crash, PadCloudTypeOK, QueuedIsPending
    <2>5. NetTypeOK'
      BY <1>3 DEF Crash, NetTypeOK, Network
    <2> QED
      BY <2>1, <2>4, <2>5 DEF JobHoldsNetwork
  <1>4. ASSUME NEW p \in Photo, CloudWork(p) \/ SubmitArrives(p) \/ ResubmitArrives(p)
        PROVE  CloudInv'
    BY <1>4 DEF CloudWork, SubmitArrives, ResubmitArrives, Arrive, PadCloudTypeOK, NetTypeOK,
                JobHoldsNetwork, Sending, QueuedIsPending, netVars
  <1>5. ASSUME NEW p \in Photo, InspectBusy(p)
        PROVE  CloudInv'
    BY <1>5 DEF InspectBusy, Shows, PadCloudTypeOK, NetTypeOK, JobHoldsNetwork, Sending, QueuedIsPending, netVars
  <1>6. ASSUME NEW p \in Photo, InspectOffline(p)
        PROVE  CloudInv'
    <2>1. \A q \in Photo : ~ Sending(q)
      BY <1>6 DEF InspectOffline, JobHoldsNetwork, NetTypeOK, Network, Free
    <2>2. \A q \in Photo : ~ Sending(q)'
      BY <1>6, <2>1 DEF InspectOffline, Sending, Shows, PadCloudTypeOK
    <2>3. NetTypeOK'
      BY <1>6, EndJobFrees DEF InspectOffline
    <2>4. PadCloudTypeOK' /\ QueuedIsPending'
      BY <1>6 DEF InspectOffline, Queue, Shows, PadCloudTypeOK, QueuedIsPending
    <2> QED
      BY <2>2, <2>3, <2>4 DEF JobHoldsNetwork
  <1>7. ASSUME NEW p \in Photo, Inspect(p)
        PROVE  CloudInv'
    <2>1. \A q \in Photo : ~ Sending(q)
      BY <1>7 DEF Inspect, BeginJob, JobHoldsNetwork, NetTypeOK, Network, Free
    <2>2. JobHoldsNetwork'
      BY <1>7, <2>1 DEF Inspect, BeginJob, JobHoldsNetwork, Sending, Shows, PadCloudTypeOK
    <2>3. PadCloudTypeOK' /\ QueuedIsPending' /\ NetTypeOK'
      BY <1>7 DEF Inspect, BeginJob, Shows, PadCloudTypeOK, QueuedIsPending, NetTypeOK
    <2> QED
      BY <2>2, <2>3
  <1>8. ASSUME NEW p \in Photo, Answered(p)
        PROVE  CloudInv'
    <2> DEFINE what == CASE cloud[p] = "pass" -> "ACCEPTED"
                         [] cloud[p] = "fail" -> "NOT_ACCEPTED"
                         [] cloud[p] = "review_required" -> "review_required"
    <2>1. what \in {"ACCEPTED", "NOT_ACCEPTED", "review_required"}
      BY <1>8 DEF Answered, Verdict
    <2>2. Shows(p, what)
      BY <1>8 DEF Answered
    <2>3. p \notin pending
      BY <1>8 DEF Answered, Sending, QueuedIsPending
    <2> HIDE DEF what
    <2> QED
      BY <1>8, <2>1, <2>2, <2>3, JobEnds DEF Answered
  <1>9. ASSUME NEW p \in Photo, Retry(p)
        PROVE  CloudInv'
    BY <1>9 DEF Retry, Shows, PadCloudTypeOK, NetTypeOK, JobHoldsNetwork, Sending, QueuedIsPending, netVars
  <1>10. ASSUME NEW p \in Photo, GiveUp(p)
         PROVE  CloudInv'
    BY <1>10, JobEnds DEF GiveUp, Queue
  <1>11. ASSUME NEW p \in Photo, Refused(p) \/ Leave(p)
         PROVE  CloudInv'
    <2>1. Sending(p) /\ EndJob /\ UNCHANGED <<pending, due, recovered, mon, cloud>>
      BY <1>11 DEF Refused, Leave
    <2>2. p \notin pending
      BY <2>1 DEF Sending, QueuedIsPending
    <2>3. Shows(p, "CLOUD_ERROR") \/ Shows(p, "left")
      BY <1>11 DEF Refused, Leave
    <2> QED
      BY <2>1, <2>2, <2>3, JobEnds
  <1>12. ASSUME NEW p \in Photo, RetryDue(p) \/ StartReconcile(p) \/ JobNotFound(p)
         PROVE  CloudInv'
    BY <1>12, <1>net DEF RetryDue, StartReconcile, JobNotFound, Reconciling, PadCloudTypeOK, QueuedIsPending, Idle
  <1>13. ASSUME NEW p \in Photo, Polled(p) \/ ReconcileFails(p)
         PROVE  CloudInv'
    <2>1. p \in pending /\ UNCHANGED <<netVars, view, cloud>>
      BY <1>13 DEF Polled, ReconcileFails, Reconciling, QueuedIsPending
    <2>2. Recover(p) \/ Reschedule(p)
      BY <1>13 DEF Polled, ReconcileFails
    <2>3. PadCloudTypeOK' /\ QueuedIsPending'
      BY <2>1, <2>2 DEF Recover, Reschedule, PadCloudTypeOK, QueuedIsPending
    <2> QED
      BY <2>1, <2>3, <1>net
  <1>14. CASE UNCHANGED cloudVars
    BY <1>14 DEF cloudVars, netVars, padVars, PadCloudTypeOK, NetTypeOK, JobHoldsNetwork, Sending, QueuedIsPending
  <1> QED
    BY <1>1, <1>2, <1>3, <1>4, <1>5, <1>6, <1>7, <1>8, <1>9, <1>10, <1>11, <1>12, <1>13, <1>14
       DEF PadCloudNext, Reading

LEMMA CloudInvariant == PadCloudSpec => []CloudInv
  BY CloudInitially, CloudStep, PTL DEF PadCloudSpec

\* A job being submitted holds the network alone, and no switch is made before
\* it ends.
THEOREM NetworkHeld == PadCloudSpec => []JobHoldsNetwork
  <1>1. CloudInv => JobHoldsNetwork
    BY DEF CloudInv
  <1> QED
    BY CloudInvariant, <1>1, PTL

\* A result the operator may decide on is not also a job on disk, whatever
\* answers were lost and wherever the app died.
THEOREM DecidedNotQueued == PadCloudSpec => []DecidedIsNotQueued
  <1>1. CloudInv => DecidedIsNotQueued
    BY DEF CloudInv, QueuedIsPending, DecidedIsNotQueued
  <1> QED
    BY CloudInvariant, <1>1, PTL

-----------------------------------------------------------------------------
(* Pairing on the runner.  While no request has drawn a key without naming  *)
(* its Pad, the Pad that is named either still has its key to come, or was  *)
(* given the one in force.                                                  *)

PairTypeOK ==
    /\ window \in BOOLEAN
    /\ pairing \in [PairPad -> {"idle", "usb", "wifi", "named", "closing"}]
    /\ pairedPad \in PairPad \union {NoPad}
    /\ drawn \in Nat /\ pairKey \in Nat
    /\ given \in [PairPad -> Nat]

PairInv ==
    /\ PairTypeOK
    /\ pairKey = 0 => pairedPad = NoPad /\ \A p \in PairPad : pairing[p] = "idle"
    /\ (\A p \in PairPad : pairing[p] \notin {"usb", "wifi"}) /\ pairedPad # NoPad =>
           pairing[pairedPad] \in {"named", "closing"} \/ given[pairedPad] = pairKey

LEMMA PairInitially == RunnerInit => PairInv
  <1> SUFFICES ASSUME RunnerInit
               PROVE  PairInv
    OBVIOUS
  <1>1. pairKey = 0 /\ pairedPad = NoPad /\ \A p \in PairPad : pairing[p] = "idle"
    BY DEF RunnerInit
  <1>2. PairTypeOK
    BY DEF RunnerInit, PairTypeOK
  <1> QED
    BY <1>1, <1>2 DEF PairInv

LEMMA PairStep ==
  ASSUME PairInv, [RunnerNext]_runnerVars
  PROVE  PairInv'
  <1> USE DEF PairInv, PairTypeOK
  <1>1. CASE Recognitions \/ UNCHANGED runnerVars
    <2>1. UNCHANGED pairVars
      BY <1>1 DEF Recognitions, Recognize, Busy, Acquire, Recheck, Finish, RunFails, Return, Reconcile,
                  pairVars, runnerVars
    <2> QED
      BY <2>1 DEF pairVars
  <1>2. CASE OpenWindow \/ CloseWindow
    BY <1>2 DEF OpenWindow, CloseWindow
  <1>3. ASSUME NEW p \in PairPad, NEW path \in {"usb", "wifi"}, DrawKey(p, path)
        PROVE  PairInv'
    BY <1>3 DEF DrawKey
  <1>4. ASSUME NEW p \in PairPad, NamePad(p)
        PROVE  PairInv'
    BY <1>4 DEF NamePad
  <1>5. ASSUME NEW p \in PairPad, ReturnKey(p)
        PROVE  PairInv'
    BY <1>5 DEF ReturnKey
  <1>6. CASE Restart
    BY <1>6 DEF Restart
  <1> QED
    BY <1>1, <1>2, <1>3, <1>4, <1>5, <1>6 DEF RunnerNext, Pairings

\* However pairings over USB and Wi-Fi overlap, when none is under way the Pad the
\* runner is paired with holds the key in force.
THEOREM PairedServed == RunnerSpec => []PairedPadIsServed
  <1>1. PairInv => PairedPadIsServed
    BY DEF PairInv, PairTypeOK, PairedPadIsServed, Serves
  <1> QED
    BY PairInitially, PairStep, <1>1, PTL DEF RunnerSpec

-----------------------------------------------------------------------------
(* The cache of recognitions, a dictionary in order of use: a key has one    *)
(* entry, reading it moves the entry to the end, and storing one drops the   *)
(* oldest.                                                                   *)

Kept == [id : RequestId, digest : Digest]

CacheOK ==
    /\ cache \in Seq(Kept)
    /\ \A m, n \in DOMAIN cache : cache[m].id = cache[n].id => m = n

LEMMA Removed ==
  ASSUME NEW S, NEW s \in Seq(S), NEW n \in DOMAIN s
  PROVE  /\ RemoveAt(s, n) \in Seq(S)
         /\ Len(RemoveAt(s, n)) = Len(s) - 1
         /\ \A k \in 1 .. Len(s) - 1 : RemoveAt(s, n)[k] = s[IF k < n THEN k ELSE k + 1]
  <1>1. n \in 1 .. Len(s) /\ Len(s) \in Nat
    OBVIOUS
  <1>2. /\ SubSeq(s, 1, n - 1) \in Seq(S) /\ Len(SubSeq(s, 1, n - 1)) = n - 1
        /\ \A k \in 1 .. n - 1 : SubSeq(s, 1, n - 1)[k] = s[k]
    BY <1>1
  <1>3. /\ SubSeq(s, n + 1, Len(s)) \in Seq(S) /\ Len(SubSeq(s, n + 1, Len(s))) = Len(s) - n
        /\ \A k \in 1 .. Len(s) - n : SubSeq(s, n + 1, Len(s))[k] = s[n + k]
    BY <1>1
  <1> DEFINE u == SubSeq(s, 1, n - 1)
             v == SubSeq(s, n + 1, Len(s))
  <1>4. RemoveAt(s, n) = u \o v
    BY DEF RemoveAt
  <1> HIDE DEF u, v
  <1>5. /\ u \in Seq(S) /\ Len(u) = n - 1 /\ \A k \in 1 .. n - 1 : u[k] = s[k]
        /\ v \in Seq(S) /\ Len(v) = Len(s) - n /\ \A k \in 1 .. Len(s) - n : v[k] = s[n + k]
    BY <1>2, <1>3 DEF u, v
  <1>6. u \o v \in Seq(S) /\ Len(u \o v) = Len(s) - 1
    BY <1>1, <1>5
  <1>7. \A k \in 1 .. Len(s) - 1 : (u \o v)[k] = IF k < n THEN u[k] ELSE v[k - (n - 1)]
    BY <1>1, <1>5
  <1>8. \A k \in 1 .. Len(s) - 1 : k >= n => v[k - (n - 1)] = s[k + 1]
    <2> TAKE k \in 1 .. Len(s) - 1
    <2>1. k >= n => k - (n - 1) \in 1 .. Len(s) - n /\ n + (k - (n - 1)) = k + 1
      BY <1>1
    <2> QED
      BY <1>5, <2>1
  <1> QED
    BY <1>1, <1>4, <1>5, <1>6, <1>7, <1>8

\* Without the entry of a key, the others are kept and the key is gone.
LEMMA WithoutKey ==
  ASSUME CacheOK, NEW i
  PROVE  /\ Without(i) \in Seq(Kept)
         /\ \A n \in DOMAIN Without(i) : Without(i)[n].id \in Ids \ {i}
         /\ \A m, n \in DOMAIN Without(i) : Without(i)[m].id = Without(i)[n].id => m = n
  <1>1. CASE i \notin Ids
    BY <1>1 DEF Without, Ids, CacheOK
  <1>2. CASE i \in Ids
    <2>1. At(i) \in DOMAIN cache /\ cache[At(i)].id = i
      BY <1>2 DEF At, Ids
    <2>2. Without(i) = RemoveAt(cache, At(i))
      BY <1>2 DEF Without
    <2> DEFINE a == At(i)
               s == RemoveAt(cache, a)
    <2>3. /\ s \in Seq(Kept) /\ Len(s) = Len(cache) - 1
          /\ \A k \in 1 .. Len(cache) - 1 : s[k] = cache[IF k < a THEN k ELSE k + 1]
      BY <2>1, Removed DEF CacheOK
    <2>4. Len(cache) \in Nat /\ DOMAIN cache = 1 .. Len(cache) /\ DOMAIN s = 1 .. Len(cache) - 1
      BY <2>3 DEF CacheOK
    <2> HIDE DEF a, s
    <2>5. \A k \in DOMAIN s : s[k].id \in Ids \ {i}
      <3> TAKE k \in DOMAIN s
      <3> DEFINE m == IF k < a THEN k ELSE k + 1
      <3>1. m \in DOMAIN cache /\ m # a
        BY <2>1, <2>4 DEF a
      <3>2. s[k].id = cache[m].id
        BY <2>3, <2>4
      <3>3. cache[m].id # i
        BY <2>1, <3>1 DEF CacheOK, a
      <3> QED
        BY <3>1, <3>2, <3>3 DEF Ids
    <2>6. \A k, l \in DOMAIN s : s[k].id = s[l].id => k = l
      <3> SUFFICES ASSUME NEW k \in DOMAIN s, NEW l \in DOMAIN s, s[k].id = s[l].id
                   PROVE  k = l
        OBVIOUS
      <3> DEFINE m == IF k < a THEN k ELSE k + 1
                 n == IF l < a THEN l ELSE l + 1
      <3>1. m \in DOMAIN cache /\ n \in DOMAIN cache
        BY <2>1, <2>4 DEF a
      <3>2. cache[m].id = cache[n].id
        BY <2>3, <2>4
      <3>3. m = n
        BY <3>1, <3>2 DEF CacheOK
      <3> QED
        BY <2>1, <2>4, <3>3 DEF a
    <2> QED
      BY <2>2, <2>3, <2>5, <2>6 DEF a, s
  <1> QED
    BY <1>1, <1>2

\* An entry put at the end of the others.
LEMMA Renewed ==
  ASSUME CacheOK, NEW e \in Kept
  PROVE  LET all == Append(Without(e.id), e) IN
         /\ all \in Seq(Kept)
         /\ \A n \in DOMAIN all : all[n].id \in Ids \union {e.id}
         /\ \A m, n \in DOMAIN all : all[m].id = all[n].id => m = n
  <1> DEFINE w == Without(e.id)
             all == Append(w, e)
  <1>1. /\ w \in Seq(Kept)
        /\ \A n \in DOMAIN w : w[n].id \in Ids \ {e.id}
        /\ \A m, n \in DOMAIN w : w[m].id = w[n].id => m = n
    BY WithoutKey
  <1> HIDE DEF w
  <1>2. /\ all \in Seq(Kept) /\ Len(w) \in Nat
        /\ DOMAIN w = 1 .. Len(w) /\ DOMAIN all = 1 .. Len(w) + 1
        /\ all[Len(w) + 1] = e /\ \A n \in 1 .. Len(w) : all[n] = w[n]
    BY <1>1
  <1> HIDE DEF all
  <1>3. \A n \in DOMAIN all : n = Len(w) + 1 \/ n \in DOMAIN w
    BY <1>2
  <1>4. \A n \in DOMAIN all : all[n].id \in Ids \union {e.id}
    BY <1>1, <1>2, <1>3
  <1>5. \A m, n \in DOMAIN all : all[m].id = all[n].id => m = n
    BY <1>1, <1>2, <1>3
  <1> QED
    BY <1>2, <1>4, <1>5 DEF all, w

\* An entry that is read stays, as the most recent.
LEMMA Touched ==
  ASSUME CacheOK, NEW i, Touch(i)
  PROVE  CacheOK' /\ Ids' \subseteq Ids
  <1>1. CASE i \notin Ids
    BY <1>1 DEF Touch, CacheOK, Ids
  <1>2. CASE i \in Ids
    <2>1. Entry(i) \in Kept /\ Entry(i).id = i
      <3>1. At(i) \in DOMAIN cache /\ cache[At(i)].id = i
        BY <1>2 DEF At, Ids
      <3> QED
        BY <3>1 DEF Entry, CacheOK
    <2>2. cache' = Append(Without(i), Entry(i))
      BY <1>2 DEF Touch
    <2>3. /\ cache' \in Seq(Kept)
          /\ \A n \in DOMAIN cache' : cache'[n].id \in Ids
          /\ \A m, n \in DOMAIN cache' : cache'[m].id = cache'[n].id => m = n
      BY <1>2, <2>1, <2>2, Renewed, SMTT(30)
    <2> QED
      BY <2>3 DEF CacheOK, Ids
  <1> QED
    BY <1>1, <1>2

\* A new answer is kept beside those that are left.
LEMMA Remembered ==
  ASSUME CacheOK, NEW e \in Kept, Remember(e)
  PROVE  CacheOK' /\ Ids' \subseteq Ids \union {e.id}
  <1> DEFINE all == Append(Without(e.id), e)
             first == 1 + IF Len(all) > CacheMax THEN Len(all) - CacheMax ELSE 0
  <1>1. /\ all \in Seq(Kept)
        /\ \A n \in DOMAIN all : all[n].id \in Ids \union {e.id}
        /\ \A m, n \in DOMAIN all : all[m].id = all[n].id => m = n
    BY Renewed
  <1>2. cache' = SubSeq(all, first, Len(all))
    BY DEF Remember
  <1> HIDE DEF all
  <1>3. Len(all) \in Nat /\ DOMAIN all = 1 .. Len(all) /\ first \in Nat /\ first >= 1
    BY <1>1, RunnerAssumption
  <1> HIDE DEF first
  <1>4. /\ cache' \in Seq(Kept)
        /\ \A n \in DOMAIN cache' : first - 1 + n \in DOMAIN all /\ cache'[n] = all[first - 1 + n] /\ n \in Nat
    BY <1>1, <1>2, <1>3
  <1>5. \A n \in DOMAIN cache' : cache'[n].id \in Ids \union {e.id}
    BY <1>1, <1>4
  <1>6. ASSUME NEW m \in DOMAIN cache', NEW n \in DOMAIN cache', cache'[m].id = cache'[n].id
        PROVE  m = n
    <2>1. first - 1 + m = first - 1 + n
      BY <1>1, <1>4, <1>6
    <2> QED
      BY <1>3, <1>4, <2>1
  <1> QED
    BY <1>4, <1>5, <1>6 DEF CacheOK, Ids

-----------------------------------------------------------------------------
(* Recognitions.  At most one request is past the lock, and only while it is *)
(* held; the request that runs the model found no answer kept, and no other  *)
(* can store one.                                                            *)

Calls ==
    {NoCall}
    \union [at : {"checked", "locked", "running"}, id : RequestId, digest : Digest]
    \union [at : {"answered"}, id : RequestId, digest : Digest, got : Digest]

Inside(c) == call[c].at \in {"locked", "running"}

RecInv ==
    /\ call \in [Caller -> Calls] /\ CacheOK
    /\ \A c \in Caller : Inside(c) => lock = TRUE
    /\ \A b, c \in Caller : Inside(b) /\ Inside(c) => b = c
    /\ \A c \in Caller : call[c].at = "running" => call[c].id \notin Ids
    /\ \A c \in Caller : call[c].at = "answered" => call[c].got = call[c].digest

LEMMA RecInitially == RunnerInit => RecInv
  <1> SUFFICES ASSUME RunnerInit
               PROVE  RecInv
    OBVIOUS
  <1>1. CacheOK
    BY DEF RunnerInit, CacheOK
  <1>2. \A c \in Caller : call[c].at = "idle"
    BY DEF RunnerInit, NoCall
  <1>3. call \in [Caller -> Calls]
    BY DEF RunnerInit, Calls
  <1> QED
    BY <1>1, <1>2, <1>3 DEF RecInv, Inside

LEMMA CallStep ==
  ASSUME RecInv, NEW c \in Caller, NEW what \in Calls, Goes(c, what)
  PROVE  /\ call' \in [Caller -> Calls] /\ call'[c] = what
         /\ \A b \in Caller \ {c} : call'[b] = call[b]
  BY DEF Goes, RecInv

Outside(what) ==
    /\ what.at \in {"idle", "checked", "answered"}
    /\ what.at = "answered" => what.got = what.digest

\* A request that waits or is answered; it gives up the lock only if it is inside.
LEMMA StaysOut ==
  ASSUME RecInv, NEW c \in Caller, NEW what \in Calls, Goes(c, what), Outside(what),
         CacheOK', Ids' \subseteq Ids, (lock' = lock) \/ Inside(c)
  PROVE  RecInv'
  <1>1. /\ call' \in [Caller -> Calls] /\ call'[c] = what
        /\ \A b \in Caller \ {c} : call'[b] = call[b]
    BY CallStep
  <1>2. \A b \in Caller : Inside(b)' => Inside(b) /\ b # c
    BY <1>1 DEF Inside, Outside
  <1>3. \A b \in Caller : Inside(b)' => lock' = TRUE
    BY <1>2 DEF RecInv
  <1>4. \A b \in Caller : call'[b].at = "running" => call'[b].id \notin Ids'
    BY <1>1 DEF RecInv, Outside
  <1>5. \A b \in Caller : call'[b].at = "answered" => call'[b].got = call'[b].digest
    BY <1>1 DEF RecInv, Outside
  <1>6. \A b, d \in Caller : Inside(b)' /\ Inside(d)' => b = d
    BY <1>2 DEF RecInv
  <1> QED
    BY <1>1, <1>3, <1>4, <1>5, <1>6 DEF RecInv

LEMMA Replied ==
  ASSUME NEW c \in Caller, NEW i \in RequestId, NEW d \in Digest, FromCache(c, i, d)
  PROVE  \E what \in Calls : Goes(c, what) /\ Outside(what)
  <1>1. /\ NoCall \in Calls /\ NoCall.at = "idle"
        /\ Reply(i, d, d) \in Calls /\ Reply(i, d, d).got = Reply(i, d, d).digest
        /\ Reply(i, d, d).at = "answered"
    BY DEF NoCall, Calls, Reply
  <1> QED
    BY <1>1 DEF FromCache, Outside

LEMMA RecStep ==
  ASSUME RecInv, [RunnerNext]_runnerVars
  PROVE  RecInv'
  <1>same. CacheOK /\ UNCHANGED cache => CacheOK' /\ Ids' = Ids
    BY DEF CacheOK, Ids
  <1>at. \A c \in Caller : call[c].at \in {"checked", "locked", "running"} =>
             call[c] \in [at : {"checked", "locked", "running"}, id : RequestId, digest : Digest]
    BY DEF RecInv, Calls, NoCall
  <1>no. NoCall \in Calls /\ NoCall.at = "idle" /\ Outside(NoCall)
    BY DEF NoCall, Calls, Outside
  <1>1. ASSUME NEW c \in Caller, NEW i \in RequestId, NEW d \in Digest, Recognize(c, i, d)
        PROVE  RecInv'
    <2>1. CacheOK' /\ Ids' \subseteq Ids
      BY <1>1, Touched DEF Recognize, RecInv
    <2>2. \E what \in Calls : Goes(c, what) /\ Outside(what)
      <3>1. CASE FromCache(c, i, d)
        BY <3>1, Replied
      <3>2. CASE Goes(c, [at |-> "checked", id |-> i, digest |-> d])
        BY <3>2 DEF Calls, Outside
      <3> QED
        BY <1>1, <3>1, <3>2 DEF Recognize
    <2>3. lock' = lock
      BY <1>1 DEF Recognize
    <2> QED
      BY <2>1, <2>2, <2>3, StaysOut
  <1>2. ASSUME NEW c \in Caller, Busy(c) \/ Return(c)
        PROVE  RecInv'
    <2>1. Goes(c, NoCall) /\ UNCHANGED <<cache, lock>>
      BY <1>2 DEF Busy, Return
    <2> QED
      BY <2>1, <1>same, <1>no, StaysOut DEF RecInv
  <1>3. ASSUME NEW c \in Caller, Acquire(c)
        PROVE  RecInv'
    <2> DEFINE what == [call[c] EXCEPT !.at = "locked"]
    <2>1. what \in Calls /\ what.at = "locked"
      BY <1>3, <1>at DEF Acquire, Calls
    <2>2. Goes(c, what) /\ lock = FALSE /\ lock' = TRUE /\ UNCHANGED cache
      BY <1>3 DEF Acquire
    <2> HIDE DEF what
    <2>3. call' \in [Caller -> Calls] /\ call'[c] = what /\ \A b \in Caller \ {c} : call'[b] = call[b]
      BY <2>1, <2>2, CallStep
    <2>4. \A b \in Caller : ~ Inside(b)
      BY <2>2 DEF RecInv
    <2> QED
      BY <2>1, <2>2, <2>3, <2>4, <1>same DEF RecInv, Inside
  <1>4. ASSUME NEW c \in Caller, Recheck(c)
        PROVE  RecInv'
    <2>1. call[c].id \in RequestId /\ call[c].digest \in Digest /\ Inside(c)
      BY <1>4, <1>at DEF Recheck, Inside
    <2>2. CacheOK' /\ Ids' \subseteq Ids
      BY <1>4, Touched DEF Recheck, RecInv
    <2>3. CASE FromCache(c, call[c].id, call[c].digest)
      BY <2>1, <2>2, <2>3, Replied, StaysOut
    <2>4. CASE call[c].id \notin Ids /\ Goes(c, [call[c] EXCEPT !.at = "running"]) /\ UNCHANGED lock
      <3> DEFINE what == [call[c] EXCEPT !.at = "running"]
      <3>1. what \in Calls /\ what.at = "running" /\ what.id = call[c].id
        BY <1>4, <1>at DEF Recheck, Calls
      <3> HIDE DEF what
      <3>2. call' \in [Caller -> Calls] /\ call'[c] = what /\ \A b \in Caller \ {c} : call'[b] = call[b]
        BY <2>4, <3>1, CallStep DEF what
      <3> QED
        BY <2>1, <2>2, <2>4, <3>1, <3>2 DEF RecInv, Inside
    <2> QED
      BY <1>4, <2>3, <2>4 DEF Recheck
  <1>5. ASSUME NEW c \in Caller, Finish(c)
        PROVE  RecInv'
    <2> DEFINE e == [id |-> call[c].id, digest |-> call[c].digest]
               what == Reply(call[c].id, call[c].digest, call[c].digest)
    <2>1. e \in Kept /\ what \in Calls /\ what.at = "answered" /\ what.got = what.digest
      BY <1>5, <1>at DEF Finish, Kept, Calls, Reply
    <2>2. Remember(e) /\ Goes(c, what) /\ Inside(c)
      BY <1>5 DEF Finish, Inside
    <2> HIDE DEF e, what
    <2>3. CacheOK'
      BY <2>1, <2>2, Remembered DEF RecInv
    <2>4. call' \in [Caller -> Calls] /\ call'[c] = what /\ \A b \in Caller \ {c} : call'[b] = call[b]
      BY <2>1, <2>2 DEF Goes, RecInv
    <2>5. \A b \in Caller : ~ Inside(b)'
      BY <2>1, <2>2, <2>4 DEF RecInv, Inside
    <2> QED
      BY <2>1, <2>3, <2>4, <2>5 DEF RecInv, Inside
  <1>6. ASSUME NEW c \in Caller, RunFails(c)
        PROVE  RecInv'
    <2>1. Goes(c, NoCall) /\ UNCHANGED cache /\ Inside(c)
      BY <1>6 DEF RunFails, Inside
    <2> QED
      BY <2>1, <1>same, <1>no, StaysOut DEF RecInv
  <1>7. ASSUME NEW i \in RequestId, Reconcile(i)
        PROVE  RecInv'
    <2>1. CacheOK' /\ Ids' \subseteq Ids /\ UNCHANGED <<call, lock>>
      BY <1>7, Touched DEF Reconcile, RecInv
    <2> QED
      BY <2>1 DEF RecInv, Inside
  <1>8. CASE Pairings \/ UNCHANGED runnerVars
    <2>1. UNCHANGED recVars
      BY <1>8 DEF Pairings, OpenWindow, CloseWindow, DrawKey, NamePad, ReturnKey, recVars, runnerVars
    <2> QED
      BY <2>1, <1>same DEF RecInv, Inside, recVars
  <1>9. CASE Restart
    <2>1. CacheOK'
      BY <1>9 DEF Restart, CacheOK
    <2>2. call' \in [Caller -> Calls] /\ \A c \in Caller : call'[c].at = "idle"
      BY <1>9, <1>no DEF Restart
    <2> QED
      BY <2>1, <2>2 DEF RecInv, Inside
  <1> QED
    BY <1>1, <1>2, <1>3, <1>4, <1>5, <1>6, <1>7, <1>8, <1>9 DEF RunnerNext, Recognitions

\* Two copies of one key cannot both run the model, however the threads of the
\* runner interleave and whatever the cache has dropped; an answer is the one to
\* the content that was sent.
THEOREM OneRecognition == RunnerSpec => []RecognizedOnce
  <1>1. RecInv => RecognizedOnce
    BY DEF RecInv, RecognizedOnce, Inside
  <1> QED
    BY RecInitially, RecStep, <1>1, PTL DEF RunnerSpec

-----------------------------------------------------------------------------
(* The runners of a workstation.  While the report of a binding is between   *)
(* its read and its commit, any runner still paired at the workstation is    *)
(* among those it read there, and the runner it binds is where it was read   *)
(* or has been unpaired.                                                     *)

Row == [known : BOOLEAN, paired : BOOLEAN, at : Station \union {None},
        pad : FloorPad \union {None}, readiness : {None, "connecting", "ready"}]

Bound ==
    [at : {"read"}, of : Runner, seen : Row, station : Station, pad : FloorPad, others : SUBSET Runner]

ReadHolds(b, rows) ==
    /\ b.of \notin b.others
    /\ rows[b.of].at \in {b.seen.at, None}
    /\ \A s \in Runner \ {b.of} : rows[s].paired /\ rows[s].at = b.station => s \in b.others

FleetInv ==
    /\ runner \in [Runner -> Row]
    /\ binder \in [Binder -> {Unbound} \union Bound]
    /\ \A c \in Binder : binder[c].at = "read" => ReadHolds(binder[c], runner)
    /\ OneRunnerPerStation

LEMMA FleetInitially == FleetInit => FleetInv
  <1> SUFFICES ASSUME FleetInit
               PROVE  FleetInv
    OBVIOUS
  <1>1. runner \in [Runner -> Row] /\ \A r \in Runner : runner[r].paired = FALSE
    BY DEF FleetInit, Unknown, Row
  <1>2. binder \in [Binder -> {Unbound} \union Bound] /\ \A c \in Binder : binder[c].at = "free"
    BY DEF FleetInit, Unbound
  <1> QED
    BY <1>1, <1>2 DEF FleetInv, OneRunnerPerStation

\* A row read by a request in flight.
LEMMA ReadOK ==
  ASSUME FleetInv, NEW c \in Binder, binder[c].at = "read"
  PROVE  binder[c] \in Bound /\ ReadHolds(binder[c], runner)
  BY DEF FleetInv, Unbound

\* Rows that keep where they are paired, or are unpaired, harm nothing.
LEMMA RowsFreed ==
  ASSUME FleetInv, runner' \in [Runner -> Row], UNCHANGED binder,
         \A r \in Runner : \/ runner'[r].paired = runner[r].paired /\ runner'[r].at = runner[r].at
                           \/ runner'[r].paired = FALSE /\ runner'[r].at = None
  PROVE  FleetInv'
  <1>1. OneRunnerPerStation'
    BY DEF FleetInv, OneRunnerPerStation
  <1>2. ASSUME NEW c \in Binder, binder[c].at = "read"
        PROVE  ReadHolds(binder[c], runner')
    <2>1. binder[c] \in Bound /\ ReadHolds(binder[c], runner)
      BY <1>2, ReadOK
    <2> QED
      BY <2>1 DEF ReadHolds, Bound
  <1> QED
    BY <1>1, <1>2 DEF FleetInv

LEMMA FleetStep ==
  ASSUME \A b, c \in Binder : b = c, FleetInv, [FleetNext]_fleetVars
  PROVE  FleetInv'
  <1>1. CASE UNCHANGED <<runner, binder>>
    BY <1>1, RowsFreed DEF FleetInv
  <1>2. ASSUME NEW r \in Runner, Provision(r) \/ Unpair(r)
        PROVE  FleetInv'
    <2>1. runner[r] \in Row
      BY DEF FleetInv
    <2>2. /\ [runner[r] EXCEPT !.known = TRUE] \in Row
          /\ [runner[r] EXCEPT !.known = TRUE].paired = runner[r].paired
          /\ [runner[r] EXCEPT !.known = TRUE].at = runner[r].at
      BY <2>1 DEF Row
    <2>3. Unpaired(runner[r]) \in Row /\ Unpaired(runner[r]).paired = FALSE /\ Unpaired(runner[r]).at = None
      BY <2>1 DEF Row, Unpaired
    <2>4. /\ \/ runner' = [runner EXCEPT ![r] = [runner[r] EXCEPT !.known = TRUE]]
             \/ runner' = [runner EXCEPT ![r] = Unpaired(runner[r])]
          /\ UNCHANGED binder
      BY <1>2 DEF Provision, Unpair
    <2> QED
      BY <2>2, <2>3, <2>4, RowsFreed DEF FleetInv
  <1>3. ASSUME NEW r \in Runner, NEW s \in {"connecting", "ready"}, ReportHealth(r, s)
        PROVE  FleetInv'
    BY <1>3, RowsFreed DEF ReportHealth, FleetInv, Row
  <1>4. ASSUME NEW c \in Binder, NEW r \in Runner, NEW w \in Station, NEW p \in FloorPad,
               ReadBinding(c, r, w, p)
        PROVE  FleetInv'
    <2> DEFINE b == [at |-> "read", of |-> r, seen |-> runner[r], station |-> w, pad |-> p,
                     others |-> {s \in Runner \ {r} : runner[s].paired /\ runner[s].at = w}]
    <2>1. b \in Bound /\ b.of = r /\ b.seen = runner[r] /\ b.station = w
      BY DEF Bound, FleetInv
    <2>2. /\ r \notin b.others
          /\ \A s \in Runner \ {r} : runner[s].paired /\ runner[s].at = w => s \in b.others
      OBVIOUS
    <2>3. binder' = [binder EXCEPT ![c] = b] /\ runner' = [runner EXCEPT ![r].known = TRUE]
      BY <1>4 DEF ReadBinding
    <2>c. c \in Binder /\ r \in Runner
      OBVIOUS
    <2> HIDE DEF b
    <2>4. /\ runner' \in [Runner -> Row]
          /\ \A s \in Runner : runner'[s].paired = runner[s].paired /\ runner'[s].at = runner[s].at
      BY <2>3 DEF FleetInv, Row
    <2>5. binder' \in [Binder -> {Unbound} \union Bound] /\ \A d \in Binder : binder'[d] = b
      BY <2>1, <2>3 DEF FleetInv
    <2>6. ReadHolds(b, runner')
      BY <2>1, <2>2, <2>4 DEF ReadHolds
    <2>7. OneRunnerPerStation'
      BY <2>4 DEF FleetInv, OneRunnerPerStation
    <2>8. \A d \in Binder : binder'[d].at = "read" => ReadHolds(binder'[d], runner')
      BY <2>5, <2>6 DEF ReadHolds
    <2> QED
      BY <2>4, <2>5, <2>7, <2>8 DEF FleetInv
  <1>5. ASSUME NEW c \in Binder, CommitBinding(c)
        PROVE  FleetInv'
    <2> DEFINE b == binder[c]
               new == [b.seen EXCEPT !.paired = TRUE, !.at = b.station, !.pad = b.pad]
    <2>1. b \in Bound /\ ReadHolds(b, runner)
      BY <1>5, ReadOK DEF CommitBinding
    <2>2. new \in Row /\ new.paired = TRUE /\ new.at = b.station /\ new.pad = b.pad
      BY <2>1 DEF Bound, Row
    <2>3. runner' = [s \in Runner |->
              CASE s = b.of -> Written(runner[s], b.seen, new)
                [] s \in b.others -> Unpaired(runner[s])
                [] OTHER -> runner[s]]
      BY <1>5 DEF CommitBinding
    <2>4. binder' = [binder EXCEPT ![c] = Unbound]
      BY <1>5 DEF CommitBinding
    <2> HIDE DEF b, new
    <2>5. b.of \in Runner /\ b.seen \in Row /\ b.station \in Station
      BY <2>1 DEF Bound
    <2>6. /\ runner'[b.of] = Written(runner[b.of], b.seen, new)
          /\ \A s \in Runner \ {b.of} : s \in b.others => runner'[s] = Unpaired(runner[s])
          /\ \A s \in Runner \ {b.of} : s \notin b.others => runner'[s] = runner[s]
      BY <2>1, <2>3, <2>5 DEF ReadHolds
    <2>7. runner'[b.of] \in Row /\ runner'[b.of].at \in {b.station, None}
      <3>1. runner[b.of] \in Row /\ runner[b.of].at \in {b.seen.at, None}
        BY <2>1, <2>5 DEF FleetInv, ReadHolds
      <3> DEFINE row == Written(runner[b.of], b.seen, new)
      <3>2. row \in Row
        BY <2>2, <3>1 DEF Written, Row
      <3>3. row.at = IF b.seen.at = b.station THEN runner[b.of].at ELSE b.station
        BY <2>2, <3>1 DEF Written, Row
      <3> HIDE DEF row
      <3>4. row.at \in {b.station, None}
        BY <3>1, <3>3
      <3> QED
        BY <2>6, <3>2, <3>4 DEF row
    <2>8. \A s \in Runner \ {b.of} :
             /\ runner'[s] \in Row
             /\ \/ runner'[s].paired = FALSE
                \/ s \notin b.others /\ runner'[s] = runner[s]
      <3> TAKE s \in Runner \ {b.of}
      <3>1. runner[s] \in Row
        BY DEF FleetInv
      <3>2. Unpaired(runner[s]) \in Row /\ Unpaired(runner[s]).paired = FALSE
        BY <3>1 DEF Unpaired, Row
      <3> QED
        BY <2>6, <3>1, <3>2
    <2>9. runner' \in [Runner -> Row]
      BY <2>3, <2>7, <2>8
    <2>10. OneRunnerPerStation'
      BY <2>1, <2>7, <2>8 DEF OneRunnerPerStation, FleetInv, ReadHolds
    <2>11. binder' \in [Binder -> {Unbound} \union Bound] /\ \A d \in Binder : binder'[d].at = "free"
      BY <2>4 DEF FleetInv, Unbound
    <2> QED
      BY <2>9, <2>10, <2>11 DEF FleetInv
  <1> QED
    BY <1>1, <1>2, <1>3, <1>4, <1>5
       DEF FleetNext, Registrations, Records, Bindings, fleetVars, RegisterWorkstation, RecordBundle, Alter,
           PairWorkstation, AssignBundle, ReportFromPad

\* When the reports of bindings come one at a time, no two runners are ever paired
\* at one workstation, whatever is unpaired between the read of a report and its
\* commit.
THEOREM RunnersApart ==
  ASSUME \A b, c \in Binder : b = c
  PROVE  FleetSpec => []OneRunnerPerStation
  <1>1. FleetInv => OneRunnerPerStation
    BY DEF FleetInv
  <1>2. FleetInv /\ [FleetNext]_fleetVars => FleetInv'
    BY FleetStep
  <1> QED
    BY FleetInitially, <1>1, <1>2, PTL DEF FleetSpec

=============================================================================
