---------------------------- MODULE LiveCapture -----------------------------
(***************************************************************************)
(* Photographs taken by an edge device's own lock logic, and the job the   *)
(* service makes of each.  Where EdgeCV serves one request at a time, here *)
(* a request is the reads and commits it is made of: the capture, the      *)
(* queued job, the routing decision, the fallback and the link are apart,  *)
(* and devices pull, upload and reconnect between them.                    *)
(***************************************************************************)
EXTENDS Naturals, Sequences

CONSTANTS
  Camera,         \* edge devices
  Thing,          \* items a camera tracks
  DebounceFrames, \* frames that lock a capture
  Fallback,       \* EDGE_CV_CPU_FALLBACK
  MaxLinks, MaxShots  \* bounds: sessions of a device, captures

VARIABLES
  lens,     \* of each camera: the tracked item, its streak, items cooling down, one to upload
  link,     \* of each device: sessions minted; the last one is active while up
  ready,    \* devices enabled, online or degraded, with room for a job
  shots,    \* captures: [session, status, job]
  tickets,  \* their jobs: [shot, status, holder, results]
  ingest,   \* of each device: its upload request under way
  pulling   \* of each session: the job its pull or result request has read

captureVars == <<lens, link, ready, shots, tickets, ingest, pulling>>

Links == Camera \X (1 .. MaxLinks)
Nothing == "nothing"
Watching == [on |-> Nothing, streak |-> 0, cooling |-> {}, locked |-> Nothing]
NoRequest == [at |-> "none", session |-> <<>>, shot |-> 0, job |-> 0]
NoRead == [does |-> "none", job |-> 0]
Cpu == <<"cpu_runner">>
Nobody == <<>>

CaptureInit ==
  /\ lens = [c \in Camera |-> Watching] /\ link = [c \in Camera |-> 0] /\ ready = {}
  /\ shots = <<>> /\ tickets = <<>>
  /\ ingest = [c \in Camera |-> NoRequest] /\ pulling = [s \in Links |-> NoRead]

\* Some token names the session; it is the active one of its device.
Minted(s) == s[2] <= link[s[1]]
ActiveLink(s) == link[s[1]] = s[2]

-----------------------------------------------------------------------------
(* On the device.                                                           *)

\* A frame with a confident sight of an item, or with none.  A frame of an item
\* that cools down leaves the streak of another one standing.
Observe(c, o) ==
  LET t == lens[c]
      locks == o = t.on /\ t.streak + 1 >= DebounceFrames
  IN /\ t.locked = Nothing
     /\ lens' = [lens EXCEPT ![c] =
          IF o = Nothing THEN [t EXCEPT !.on = Nothing, !.streak = 0]
          ELSE IF o \in t.cooling THEN t
          ELSE IF o # t.on THEN [t EXCEPT !.on = o, !.streak = 1]
          ELSE IF locks THEN [t EXCEPT !.on = Nothing, !.streak = 0, !.cooling = @ \cup {o}, !.locked = o]
          ELSE [t EXCEPT !.streak = @ + 1]]
     /\ UNCHANGED <<link, ready, shots, tickets, ingest, pulling>>

CooldownEnds(c, o) ==
  /\ o \in lens[c].cooling /\ lens' = [lens EXCEPT ![c].cooling = @ \ {o}]
  /\ UNCHANGED <<link, ready, shots, tickets, ingest, pulling>>

Reconnect(c) ==
  /\ link[c] < MaxLinks /\ link' = [link EXCEPT ![c] = @ + 1] /\ ready' = ready \cup {c}
  /\ UNCHANGED <<lens, shots, tickets, ingest, pulling>>
\* The device is disabled, in error or at its capacity.
GoUnready(c) ==
  /\ c \in ready /\ ready' = ready \ {c}
  /\ UNCHANGED <<lens, link, shots, tickets, ingest, pulling>>

-----------------------------------------------------------------------------
(* The upload of a capture.                                                 *)

\* An upload under any token ever minted; a session that is not active any more
\* is refused, and the frame is gone.
UploadShot(s) ==
  LET c == s[1]
  IN /\ lens[c].locked # Nothing /\ Minted(s) /\ ingest[c].at = "none" /\ Len(shots) < MaxShots
     /\ lens' = [lens EXCEPT ![c].locked = Nothing]
     /\ ingest' = IF ActiveLink(s) THEN [ingest EXCEPT ![c] = [NoRequest EXCEPT !.at = "accepted", !.session = s]]
                  ELSE ingest
     /\ UNCHANGED <<link, ready, shots, tickets, pulling>>

\* Mutant of SaveShot: the row says dispatched from the start.
SaveShotDispatched(c) ==
  /\ ingest[c].at = "accepted"
  /\ shots' = Append(shots, [session |-> ingest[c].session, status |-> "dispatched", job |-> 0])
  /\ ingest' = [ingest EXCEPT ![c].at = "saved", ![c].shot = Len(shots) + 1]
  /\ UNCHANGED <<lens, link, ready, tickets, pulling>>

\* The capture is committed before anything is made of it, ...
SaveShot(c) ==
  /\ ingest[c].at = "accepted"
  /\ shots' = Append(shots, [session |-> ingest[c].session, status |-> "pending", job |-> 0])
  /\ ingest' = [ingest EXCEPT ![c].at = "saved", ![c].shot = Len(shots) + 1]
  /\ UNCHANGED <<lens, link, ready, tickets, pulling>>

\* ... then the job as queued, ...
QueueTicket(c) ==
  /\ ingest[c].at = "saved"
  /\ tickets' = Append(tickets, [shot |-> ingest[c].shot, status |-> "queued", holder |-> Nobody, results |-> {}])
  /\ ingest' = [ingest EXCEPT ![c].at = "queued", ![c].job = Len(tickets) + 1]
  /\ UNCHANGED <<lens, link, ready, shots, pulling>>
\* ... unless its task type is unknown.  Then, and whenever an error interrupts
\* the making of the job, its routing or the fallback later, with the job as
\* committed by then, the capture is kept as failed and names no job.
RefuseTicket(c) ==
  /\ ingest[c].at \in {"saved", "queued", "alone", "routed"}
  /\ shots' = [shots EXCEPT ![ingest[c].shot].status = "failed"]
  /\ ingest' = [ingest EXCEPT ![c] = NoRequest]
  /\ UNCHANGED <<lens, link, ready, tickets, pulling>>

\* The job is left to the devices when one heard of lately could take it, or when
\* it is no longer queued.
RouteTicket(c, heard) ==
  /\ ingest[c].at = "queued"
  /\ ingest' = [ingest EXCEPT ![c].at =
       IF heard # {} \/ tickets[ingest[c].job].status # "queued" THEN "routed" ELSE "alone"]
  /\ UNCHANGED <<lens, link, ready, shots, tickets, pulling>>

\* The row the fallback writes: it does not look at the job again.
FallbackRow(t) == [t EXCEPT !.status = "completed", !.holder = Nobody, !.results = @ \cup {Cpu}]

RunAlone(c) ==
  /\ ingest[c].at = "alone"
  /\ tickets' = [tickets EXCEPT ![ingest[c].job] =
       IF Fallback THEN FallbackRow(@) ELSE [@ EXCEPT !.status = "manual_review"]]
  /\ ingest' = [ingest EXCEPT ![c].at = "routed"]
  /\ UNCHANGED <<lens, link, ready, shots, pulling>>

LinkShot(c) ==
  /\ ingest[c].at = "routed"
  /\ shots' = [shots EXCEPT ![ingest[c].shot].status = "dispatched", ![ingest[c].shot].job = ingest[c].job]
  /\ ingest' = [ingest EXCEPT ![c] = NoRequest]
  /\ UNCHANGED <<lens, link, ready, tickets, pulling>>

\* The process dies between two commits.
UploadDies(c) ==
  /\ ingest[c].at # "none" /\ ingest' = [ingest EXCEPT ![c] = NoRequest]
  /\ UNCHANGED <<lens, link, ready, shots, tickets, pulling>>

-----------------------------------------------------------------------------
(* Devices and administrators at the jobs.                                  *)

\* A pull reads the first queued job, and writes its lease over whatever the
\* row holds by then.
ReadQueue(s, j) ==
  /\ pulling[s] = NoRead /\ ActiveLink(s) /\ s[1] \in ready
  /\ tickets[j].status = "queued" /\ \A k \in 1 .. j - 1 : tickets[k].status # "queued"
  /\ pulling' = [pulling EXCEPT ![s] = [does |-> "lease", job |-> j]]
  /\ UNCHANGED <<lens, link, ready, shots, tickets, ingest>>
LeaseTicket(s) ==
  /\ pulling[s].does = "lease"
  /\ tickets' = [tickets EXCEPT ![pulling[s].job].status = "leased", ![pulling[s].job].holder = s]
  /\ pulling' = [pulling EXCEPT ![s] = NoRead]
  /\ UNCHANGED <<lens, link, ready, shots, ingest>>

\* A result is checked against the lease, and stored after.
CheckResult(s, j) ==
  /\ pulling[s] = NoRead /\ ActiveLink(s) /\ tickets[j].holder = s
  /\ tickets[j].status \notin {"cancelled", "manual_review"} /\ s \notin tickets[j].results
  /\ pulling' = [pulling EXCEPT ![s] = [does |-> "store", job |-> j]]
  /\ UNCHANGED <<lens, link, ready, shots, tickets, ingest>>
StoreResult(s) ==
  /\ pulling[s].does = "store"
  /\ tickets' = [tickets EXCEPT ![pulling[s].job].status = "completed", ![pulling[s].job].results = @ \cup {s}]
  /\ pulling' = [pulling EXCEPT ![s] = NoRead]
  /\ UNCHANGED <<lens, link, ready, shots, ingest>>

CancelTicket(j) ==
  /\ tickets[j].status \in {"queued", "leased"}
  /\ tickets' = [tickets EXCEPT ![j].status = "cancelled", ![j].holder = Nobody]
  /\ UNCHANGED <<lens, link, ready, shots, ingest, pulling>>

CaptureNext ==
  \/ \E c \in Camera :
       \/ Reconnect(c) \/ GoUnready(c) \/ SaveShot(c) \/ QueueTicket(c) \/ RefuseTicket(c)
       \/ RunAlone(c) \/ LinkShot(c) \/ UploadDies(c) \/ Observe(c, Nothing)
       \/ \E heard \in SUBSET ready : RouteTicket(c, heard)
       \/ \E o \in Thing : Observe(c, o) \/ CooldownEnds(c, o)
  \/ \E s \in Links :
       \/ UploadShot(s) \/ LeaseTicket(s) \/ StoreResult(s)
       \/ \E j \in DOMAIN tickets : ReadQueue(s, j) \/ CheckResult(s, j)
  \/ \E j \in DOMAIN tickets : CancelTicket(j)

CaptureSpec == CaptureInit /\ [][CaptureNext]_captureVars

-----------------------------------------------------------------------------
\* What the row of a capture says of its job can be relied on, wherever the
\* process dies, an error interrupts the request and whoever is at the job
\* meanwhile: a dispatched capture names the one job made of it, every other one
\* names none, no capture has two, and a job that counts as completed has a result,
\* the one left to the fallback too.
ShotTellsItsJob ==
  /\ \A n \in DOMAIN shots :
       LET made == {j \in DOMAIN tickets : tickets[j].shot = n}
       IN /\ shots[n].status = "dispatched" => made = {shots[n].job}
          /\ shots[n].status # "dispatched" => shots[n].job = 0
          /\ \A j, k \in made : j = k
  /\ \A j \in DOMAIN tickets : tickets[j].status = "completed" => tickets[j].results # {}
=============================================================================
