------------------------------- MODULE EdgeCV -------------------------------
(***************************************************************************)
(* The service side of the hot-pluggable edge-CV subsystem: the device     *)
(* service (src/src/qc_model/edge_cv/service.py), the job dispatcher       *)
(* (dispatcher.py), result ingestion (results.py) and the CPU fallback     *)
(* (cpu_fallback.py).                                                      *)
(*                                                                         *)
(* One action per request handler or sweep.  Each handler is one step:     *)
(* this module describes a service whose requests are served one at a      *)
(* time.  Clients are unconstrained: every device token ever minted may    *)
(* be presented, in any order, to any agent endpoint, for any job.         *)
(*                                                                         *)
(* Wall-clock time is abstracted to the two comparisons the code makes:    *)
(* a heartbeat is "fresh" or "stale" against the TTL, and a lease deadline *)
(* is "live" or "expired".  LeaseLapses and HeartbeatLapses let time pass. *)
(***************************************************************************)
EXTENDS Integers, FiniteSets

CONSTANTS
  Device,        \* device identities, stable across reconnects
  Tasks,         \* task types
  Runs,          \* Runs[d]: tasks whose capability and device-type needs d meets
  Capacity,      \* Capacity[d]: max_concurrent_jobs sent at registration
  Priorities,    \* ranks of PRIORITY_RANK in use: high 0, normal 1, low 2
  MaxJobs,       \* bound: jobs created in one behaviour
  MaxSessions,   \* bound: registrations of one device in one behaviour
  MaxRetries,    \* EDGE_CV_MAX_RETRIES
  CpuFallback,   \* EDGE_CV_CPU_FALLBACK
  SweepsRun,     \* TRUE: something calls expire_leases and sweep_offline_devices
  ExactReports,  \* TRUE: agents report exactly the jobs leased to their session
  NoSession,     \* a job nobody holds
  CpuRunner      \* the "session" under which CPU fallback stores a result

Job == 1 .. MaxJobs
Session == Device \X (1 .. MaxSessions)

ASSUME EdgeAssumption ==
  /\ MaxJobs \in Nat /\ MaxSessions \in Nat /\ MaxRetries \in Nat
  /\ Tasks # {} /\ Priorities \subseteq 0 .. 2 /\ 1 \in Priorities
  /\ Capacity \in [Device -> Nat \ {0}]
  /\ Runs \in [Device -> SUBSET Tasks]
  /\ CpuFallback \in BOOLEAN /\ SweepsRun \in BOOLEAN /\ ExactReports \in BOOLEAN
  /\ NoSession \notin Session
  /\ CpuRunner \notin Session
  /\ CpuRunner # NoSession

VARIABLES
  devStatus,  \* [Device -> DeviceStatus]          edge_cv_devices.status
  enabled,    \* [Device -> BOOLEAN]               is_enabled
  load,       \* [Device -> Nat]                   current_active_jobs
  beat,       \* [Device -> Beat]                  last_heartbeat_at against the TTL
  minted,     \* [Device -> 0..MaxSessions]        sessions minted so far
  live,       \* SUBSET Session                    sessions with status "active"
  created,    \* number of jobs created; job ids are in creation order
  prio,       \* [Job -> Priorities]
  task,       \* [Job -> Tasks]
  status,     \* [Job -> JobStatus]                cv_jobs.status
  owner,      \* [Job -> Session or NoSession]     lease_owner_{device,session}_id
  lease,      \* [Job -> Lease]                    lease_expires_at against now
  retries,    \* [Job -> Nat]                      retry_count
  results     \* SUBSET (Job \X Runner)            cv_results rows

devVars  == <<devStatus, enabled, load, beat, minted, live>>
specVars == <<created, prio, task>>
jobVars  == <<status, owner, lease, retries, results>>
vars     == <<devVars, specVars, jobVars>>

DeviceStatus == {"online", "busy", "degraded", "offline", "error", "maintenance"}
Dispatchable == {"online", "degraded"}
JobStatus    == {"absent", "queued", "leased", "running",
                 "completed", "cancelled", "manual_review"}
Terminal     == {"completed", "cancelled", "manual_review"}
LeasedStates == {"leased", "running"}
Lease        == {"none", "live", "expired"}
Beat         == {"never", "fresh", "stale"}
Runner       == Session \union {CpuRunner}

-----------------------------------------------------------------------------
(* Helpers of the dispatcher.                                              *)

\* Jobs of S whose lease belongs to some session of device d.
HeldBy(d, S) == {j \in S : owner[j] # NoSession /\ owner[j][1] = d}

\* _release_device_slot, once for every job of S: the counter never goes
\* below zero, and a busy device with room again is online.
LoadAfter(S) ==
  [d \in Device |-> LET k == Cardinality(HeldBy(d, S))
                    IN IF load[d] > k THEN load[d] - k ELSE 0]
\* Mutant of StatusAfter: a busy device stays busy when its slot is released.
StatusAfterStuck(S) == devStatus

StatusAfter(S) ==
  [d \in Device |-> IF /\ HeldBy(d, S) # {}
                       /\ devStatus[d] = "busy"
                       /\ LoadAfter(S)[d] < Capacity[d]
                    THEN "online" ELSE devStatus[d]]

\* _capable_devices is non-empty, given the devices' statuses st and loads ld.
HasCapableDevice(t, st, ld) ==
  \E d \in Device :
    /\ enabled[d] /\ st[d] \in Dispatchable
    /\ t \in Runs[d]
    /\ ld[d] < Capacity[d]
    /\ \E s \in live : s[1] = d
    /\ beat[d] = "fresh"

\* dispatch_job on a queued job: wait for a device, or fall back, or escalate.
Dispatched(t, st, ld) ==
  IF HasCapableDevice(t, st, ld) THEN "queued"
  ELSE IF CpuFallback THEN "completed" ELSE "manual_review"

\* The jobs of S give up their device slot and their lease.
ReleaseAll(S) ==
  /\ load' = LoadAfter(S)
  /\ devStatus' = StatusAfter(S)
  /\ owner' = [j \in Job |-> IF j \in S THEN NoSession ELSE owner[j]]
  /\ lease' = [j \in Job |-> IF j \in S THEN "none" ELSE lease[j]]

\* Mutant of RetryOutcome: one retry too many.
RetryOutcomeOffByOne(j, S, permanent) ==
  IF ~permanent /\ retries[j] <= MaxRetries
  THEN Dispatched(task[j], StatusAfter(S), LoadAfter(S))
  ELSE "manual_review"

\* Where _requeue_or_escalate, and dispatch_job after it, leave a job of S.
RetryOutcome(j, S, permanent) ==
  IF ~permanent /\ retries[j] < MaxRetries
  THEN Dispatched(task[j], StatusAfter(S), LoadAfter(S))
  ELSE "manual_review"

RequeueOrEscalate(S, permanent) ==
  /\ ReleaseAll(S)
  /\ retries' = [j \in Job |-> IF j \in S THEN retries[j] + 1 ELSE retries[j]]
  /\ status' = [j \in Job |-> IF j \in S THEN RetryOutcome(j, S, permanent)
                              ELSE status[j]]
  /\ results' = results \union
       {<<j, CpuRunner>> : j \in {k \in S : RetryOutcome(k, S, permanent) = "completed"}}
  /\ UNCHANGED <<enabled, beat, minted, live, specVars>>

-----------------------------------------------------------------------------
Init ==
  /\ devStatus = [d \in Device |-> "offline"]     \* seeded profiles
  /\ enabled = [d \in Device |-> TRUE]
  /\ load = [d \in Device |-> 0]
  /\ beat = [d \in Device |-> "never"]
  /\ minted = [d \in Device |-> 0]
  /\ live = {}
  /\ created = 0
  /\ prio = [j \in Job |-> 1]
  /\ task = [j \in Job |-> CHOOSE t \in Tasks : TRUE]
  /\ status = [j \in Job |-> "absent"]
  /\ owner = [j \in Job |-> NoSession]
  /\ lease = [j \in Job |-> "none"]
  /\ retries = [j \in Job |-> 0]
  /\ results = {}

-----------------------------------------------------------------------------
(* Device service.                                                         *)

\* register_device: every earlier session of the device ends, a fresh one is
\* minted, and the device is online with an empty load, whatever it was.
RegisterDevice(d) ==
  /\ minted[d] < MaxSessions
  /\ minted' = [minted EXCEPT ![d] = @ + 1]
  /\ live' = {s \in live : s[1] # d} \union {<<d, minted[d] + 1>>}
  /\ devStatus' = [devStatus EXCEPT ![d] = "online"]
  /\ load' = [load EXCEPT ![d] = 0]
  /\ beat' = [beat EXCEPT ![d] = "fresh"]
  /\ UNCHANGED <<enabled, specVars, jobVars>>

\* What an agent may put in active_job_count.
Reports(s) ==
  IF ExactReports
  THEN {Cardinality({j \in Job : owner[j] = s /\ status[j] \in LeasedStates})}
  ELSE 0 .. Capacity[s[1]]

\* _derive_status
DerivedStatus(d, n, pressure) ==
  IF n >= Capacity[d] THEN "busy" ELSE IF pressure THEN "degraded" ELSE "online"

\* heartbeat on an active session; n is active_job_count, pressure a metric
\* past a degraded threshold, failed the report status = "error".
Heartbeat(s, n, pressure, failed) ==
  LET d == s[1] IN
  /\ s \in live
  /\ beat' = [beat EXCEPT ![d] = "fresh"]
  /\ load' = [load EXCEPT ![d] = n]
  /\ devStatus' = [devStatus EXCEPT ![d] =
       IF @ \in {"maintenance", "error"} THEN @
       ELSE IF failed THEN "error" ELSE DerivedStatus(d, n, pressure)]
  /\ UNCHANGED <<enabled, minted, live, specVars, jobVars>>

\* Devices sweep_offline_devices moves to offline.
Overdue == {d \in Device : /\ devStatus[d] \notin {"offline", "maintenance"}
                           /\ beat[d] # "fresh"}

SweepOfflineDevices ==
  /\ Overdue # {}
  /\ devStatus' = [d \in Device |-> IF d \in Overdue THEN "offline" ELSE devStatus[d]]
  /\ live' = {s \in live : s[1] \notin Overdue}
  /\ UNCHANGED <<enabled, load, beat, minted, specVars, jobVars>>

DisableDevice(d) ==
  /\ enabled' = [enabled EXCEPT ![d] = FALSE]
  /\ devStatus' = [devStatus EXCEPT ![d] = "maintenance"]
  /\ UNCHANGED <<load, beat, minted, live, specVars, jobVars>>

EnableDevice(d) ==
  /\ enabled' = [enabled EXCEPT ![d] = TRUE]
  /\ devStatus' = [devStatus EXCEPT ![d] = "offline"]
  /\ UNCHANGED <<load, beat, minted, live, specVars, jobVars>>

-----------------------------------------------------------------------------
(* Dispatcher and result ingestion.                                        *)

\* create_job with auto_dispatch
CreateJob(t, p) ==
  LET j == created + 1 IN
  /\ created < MaxJobs
  /\ created' = j
  /\ task' = [task EXCEPT ![j] = t]
  /\ prio' = [prio EXCEPT ![j] = p]
  /\ status' = [status EXCEPT ![j] = Dispatched(t, devStatus, load)]
  /\ results' = IF Dispatched(t, devStatus, load) = "completed"
                THEN results \union {<<j, CpuRunner>>} ELSE results
  /\ UNCHANGED <<devVars, owner, lease, retries>>

\* Queued jobs device d may run, and the order in which they are handed out.
Candidates(d) == {j \in Job : status[j] = "queued" /\ task[j] \in Runs[d]}
Before(j, k) == prio[j] < prio[k] \/ (prio[j] = prio[k] /\ j <= k)

\* lease_next_job_for_device: the first candidate, when there is one.
LeaseNextJob(s, j) ==
  LET d == s[1] IN
  /\ s \in live
  /\ enabled[d] /\ devStatus[d] \in Dispatchable
  /\ load[d] < Capacity[d]
  /\ j \in Candidates(d)
  /\ \A k \in Candidates(d) : Before(j, k)
  /\ status' = [status EXCEPT ![j] = "leased"]
  /\ owner' = [owner EXCEPT ![j] = s]
  /\ lease' = [lease EXCEPT ![j] = "live"]
  /\ load' = [load EXCEPT ![d] = @ + 1]
  /\ devStatus' = [devStatus EXCEPT ![d] =
       IF @ = "online" /\ load[d] + 1 >= Capacity[d] THEN "busy" ELSE @]
  /\ UNCHANGED <<enabled, beat, minted, live, specVars, retries, results>>

\* mark_started; starting a running job again changes nothing.
MarkStarted(s, j) ==
  /\ owner[j] = s
  /\ status[j] = "leased"
  /\ status' = [status EXCEPT ![j] = "running"]
  /\ UNCHANGED <<devVars, specVars, owner, lease, retries, results>>

\* Mutant of MayUpload: the session's own state is not checked.
MayUploadUnfenced(s, j) ==
  /\ owner[j] = s
  /\ status[j] \notin Terminal \ {"completed"}
  /\ lease[j] # "expired" \/ status[j] = "completed"
  /\ <<j, s>> \notin results

\* The checks of upload_result that come before the payload is looked at.
MayUpload(s, j) ==
  /\ owner[j] = s
  /\ s \in live
  /\ status[j] \notin Terminal \ {"completed"}
  /\ lease[j] # "expired" \/ status[j] = "completed"
  /\ <<j, s>> \notin results      \* a duplicate returns the stored row

\* upload_result with a valid payload: the result is stored and the job is
\* completed; the lease owner stays on the row.
UploadResult(s, j) ==
  /\ MayUpload(s, j)
  /\ results' = results \union {<<j, s>>}
  /\ status' = [status EXCEPT ![j] = "completed"]
  /\ lease' = [lease EXCEPT ![j] = "none"]
  /\ load' = LoadAfter({j})
  /\ devStatus' = StatusAfter({j})
  /\ UNCHANGED <<enabled, beat, minted, live, specVars, owner, retries>>

\* upload_result with a wrong model hash or a bad payload: _fail_to_manual_review.
RejectPayload(s, j) ==
  /\ MayUpload(s, j)
  /\ ReleaseAll({j})
  /\ status' = [status EXCEPT ![j] = "manual_review"]
  /\ UNCHANGED <<enabled, beat, minted, live, specVars, retries, results>>

\* fail_job; permanent: the error code is in PERMANENT_ERROR_CODES.
FailJob(s, j, permanent) ==
  /\ owner[j] = s
  /\ RequeueOrEscalate({j}, permanent)

CancelJob(j) ==
  /\ status[j] \notin Terminal \union {"absent"}
  /\ ReleaseAll({j})
  /\ status' = [status EXCEPT ![j] = "cancelled"]
  /\ UNCHANGED <<enabled, beat, minted, live, specVars, retries, results>>

\* Jobs expire_leases recovers.
Expired == {j \in Job : status[j] \in LeasedStates /\ lease[j] = "expired"}

ExpireLeases ==
  /\ Expired # {}
  /\ RequeueOrEscalate(Expired, FALSE)

-----------------------------------------------------------------------------
(* The passage of time.                                                    *)

LeaseLapses(j) ==
  /\ lease[j] = "live"
  /\ lease' = [lease EXCEPT ![j] = "expired"]
  /\ UNCHANGED <<devVars, specVars, status, owner, retries, results>>

HeartbeatLapses(d) ==
  /\ beat[d] = "fresh"
  /\ beat' = [beat EXCEPT ![d] = "stale"]
  /\ UNCHANGED <<devStatus, enabled, load, minted, live, specVars, jobVars>>

-----------------------------------------------------------------------------
DeviceNext ==
  \/ \E d \in Device : RegisterDevice(d) \/ DisableDevice(d) \/ EnableDevice(d)
  \/ \E s \in live, pressure, failed \in BOOLEAN :
       \E n \in Reports(s) : Heartbeat(s, n, pressure, failed)

JobNext ==
  \/ \E t \in Tasks, p \in Priorities : CreateJob(t, p)
  \/ \E s \in Session, j \in Job :
       \/ LeaseNextJob(s, j) \/ MarkStarted(s, j)
       \/ UploadResult(s, j) \/ RejectPayload(s, j)
       \/ \E permanent \in BOOLEAN : FailJob(s, j, permanent)
  \/ \E j \in Job : CancelJob(j)

\* Nothing under src/ calls the two sweeps: they run when something outside
\* the service schedules them.
Sweeps == SweepsRun /\ (ExpireLeases \/ SweepOfflineDevices)

Time == (\E j \in Job : LeaseLapses(j)) \/ (\E d \in Device : HeartbeatLapses(d))

Next == DeviceNext \/ JobNext \/ Sweeps \/ Time

Spec == Init /\ [][Next]_vars

\* Fairness: the clock advances and the sweeps, where scheduled, keep
\* running.  Nothing is assumed of devices or operators.
Fairness ==
  /\ \A j \in Job : WF_vars(LeaseLapses(j))
  /\ \A d \in Device : WF_vars(HeartbeatLapses(d))
  /\ WF_vars(SweepsRun /\ ExpireLeases)
  /\ WF_vars(SweepsRun /\ SweepOfflineDevices)

FairSpec == Spec /\ Fairness
-----------------------------------------------------------------------------
(* Safety.                                                                 *)

\* Every variable has its type.
TypeOK ==
  /\ devStatus \in [Device -> DeviceStatus]
  /\ enabled \in [Device -> BOOLEAN]
  /\ load \in [Device -> Nat]
  /\ beat \in [Device -> Beat]
  /\ minted \in [Device -> 0 .. MaxSessions]
  /\ live \in SUBSET Session
  /\ created \in 0 .. MaxJobs
  /\ prio \in [Job -> Priorities]
  /\ task \in [Job -> Tasks]
  /\ status \in [Job -> JobStatus]
  /\ owner \in [Job -> Session \union {NoSession}]
  /\ lease \in [Job -> Lease]
  /\ retries \in [Job -> Nat]
  /\ results \in SUBSET (Job \X Runner)

\* A job in a leased state has an owner and a deadline, which is what makes
\* it visible to expire_leases; a job in any other state has no deadline, and
\* only a job completed by an edge device still names an owner.
LeaseMatchesStatus ==
  \A j \in Job :
    /\ status[j] \in LeasedStates => owner[j] # NoSession /\ lease[j] # "none"
    /\ status[j] \notin LeasedStates => lease[j] = "none"
    /\ status[j] \notin LeasedStates \union {"completed"} => owner[j] = NoSession

\* Only the session minted last for a device can be active: what the §8.4
\* fencing of an earlier life of the device rests on.
OnlyNewestSessionLive == \A s \in live : s[2] = minted[s[1]]

\* Status and counter of a device agree: "busy" means no free slot, "online"
\* means at least one.  A device stuck busy with room would never be offered
\* work, one shown online without room would hold jobs in the queue.
BusyMatchesLoad ==
  \A d \in Device :
    /\ devStatus[d] = "busy" => load[d] >= Capacity[d]
    /\ devStatus[d] = "online" => load[d] < Capacity[d]

\* A completed job has a stored result: that of the session it still names,
\* or the CPU runner's when it names none.
CompletedHasResult ==
  \A j \in Job : status[j] = "completed" =>
    <<j, IF owner[j] = NoSession THEN CpuRunner ELSE owner[j]>> \in results

\* A job that can still be worked on is within its retry budget, and no job
\* is charged more than one attempt beyond it.
RetryBudget ==
  \A j \in Job :
    /\ status[j] \in {"queued"} \union LeasedStates => retries[j] <= MaxRetries
    /\ owner[j] = NoSession => retries[j] <= MaxRetries + 1
    /\ owner[j] # NoSession => retries[j] <= MaxRetries

\* A result of the CPU runner closes its job for good: no device is ever
\* handed a job the fallback has answered.
FallbackIsFinal ==
  \A j \in Job : <<j, CpuRunner>> \in results =>
    status[j] = "completed" /\ owner[j] = NoSession

-----------------------------------------------------------------------------
(* What no step may do.                                                    *)

\* manual_review_required and cancelled are never left.
ClosedStaysClosed ==
  \A j \in Job : status[j] \in {"cancelled", "manual_review"} => status'[j] = status[j]
ReviewAndCancelAreFinal == [][ClosedStaysClosed]_vars

\* A session other than the active one, or one whose lease has run out, never
\* gets a result stored and never completes a job.
ResultIsFenced ==
  \A j \in Job, s \in Session :
    <<j, s>> \in results' \ results =>
      /\ owner[j] = s /\ s \in live /\ lease[j] = "live"
      /\ status'[j] = "completed"
OnlyLiveLeaseCompletes == [][ResultIsFenced]_vars

\* A lease never passes from one session to another directly: it is given up
\* first, in a step that charges a retry or closes the job.
LeaseIsGivenUp ==
  \A j \in Job : owner[j] # NoSession /\ owner'[j] # owner[j] =>
    /\ owner'[j] = NoSession
    /\ retries'[j] = retries[j] + 1 \/ status'[j] \in Terminal
LeaseIsExclusive == [][LeaseIsGivenUp]_vars

-----------------------------------------------------------------------------
(* Liveness, under FairSpec.                                               *)

\* docs/cv-job-lifecycle.md:26-33, "A periodic sweep (expire_leases) finds jobs
\* in leased / running / uploading_result whose lease_expires_at has passed":
\* a job whose device vanishes is not stranded in a leased state.  Nothing in
\* the application calls the sweep, so the code keeps it only where SweepsRun.
LeaseIsRecovered ==
  \A j \in Job : status[j] \in LeasedStates ~> status[j] \notin LeasedStates
=============================================================================
