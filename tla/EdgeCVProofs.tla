---------------------------- MODULE EdgeCVProofs ----------------------------
(***************************************************************************)
(* Proofs about EdgeCV: its safety invariants hold for every number of     *)
(* devices, jobs and registrations, every capacity, every retry budget and *)
(* both settings of the CPU fallback; and about EdgeAgent, that no agent   *)
(* forgets a job it holds.                                                 *)
(***************************************************************************)
EXTENDS EdgeAgent, TLAPS, FiniteSetTheorems

\* A job not created yet has no history: what keeps CreateJob from reusing
\* the id of a job that has one.
Unborn == \A j \in Job : j > created => status[j] = "absent" /\ retries[j] = 0

\* The inductive invariant.
IInv ==
  /\ TypeOK
  /\ LeaseMatchesStatus
  /\ OnlyNewestSessionLive
  /\ BusyMatchesLoad
  /\ CompletedHasResult
  /\ RetryBudget
  /\ FallbackIsFinal
  /\ Unborn

-----------------------------------------------------------------------------
\* The number of slots a device gives back is a natural number.
LEMMA HeldByFinite ==
  ASSUME NEW d \in Device, NEW S \in SUBSET Job
  PROVE  Cardinality(HeldBy(d, S)) \in Nat
<1>1. IsFiniteSet(Job)
  BY EdgeAssumption, FS_Interval DEF Job
<1>2. HeldBy(d, S) \subseteq Job
  BY DEF HeldBy
<1>3. QED
  BY <1>1, <1>2, FS_Subset, FS_CardinalityType

\* Releasing slots keeps the devices' types and their agreement of status and
\* counter.
LEMMA ReleaseKeepsDevices ==
  ASSUME TypeOK, BusyMatchesLoad, NEW S \in SUBSET Job
  PROVE  /\ LoadAfter(S) \in [Device -> Nat]
         /\ StatusAfter(S) \in [Device -> DeviceStatus]
         /\ \A d \in Device :
              /\ StatusAfter(S)[d] = "busy" => LoadAfter(S)[d] >= Capacity[d]
              /\ StatusAfter(S)[d] = "online" => LoadAfter(S)[d] < Capacity[d]
<1>1. ASSUME NEW d \in Device
      PROVE  LoadAfter(S)[d] \in Nat /\ LoadAfter(S)[d] <= load[d]
  BY HeldByFinite DEF LoadAfter, TypeOK
<1>2. ASSUME NEW d \in Device, HeldBy(d, S) = {}
      PROVE  LoadAfter(S)[d] = load[d]
  <2>1. Cardinality(HeldBy(d, S)) = 0
    BY <1>2, FS_EmptySet
  <2>2. QED
    BY <2>1 DEF LoadAfter, TypeOK
<1>3. LoadAfter(S) \in [Device -> Nat]
  BY <1>1 DEF LoadAfter
<1>4. StatusAfter(S) \in [Device -> DeviceStatus]
  BY DEF StatusAfter, TypeOK, DeviceStatus
<1>5. ASSUME NEW d \in Device
      PROVE  /\ StatusAfter(S)[d] = "busy" => LoadAfter(S)[d] >= Capacity[d]
             /\ StatusAfter(S)[d] = "online" => LoadAfter(S)[d] < Capacity[d]
  <2>0. Capacity[d] \in Nat
    BY EdgeAssumption
  <2>1. CASE HeldBy(d, S) = {}
    BY <1>2, <2>1 DEF StatusAfter, BusyMatchesLoad
  <2>2. CASE HeldBy(d, S) # {}
    BY <1>1, <2>0, <2>2 DEF StatusAfter, BusyMatchesLoad, TypeOK
  <2>3. QED
    BY <2>1, <2>2
<1>6. QED
  BY <1>3, <1>4, <1>5

\* dispatch_job leaves a job queued, completed or escalated.
LEMMA DispatchedType ==
  ASSUME NEW t, NEW st, NEW ld
  PROVE  Dispatched(t, st, ld) \in {"queued", "completed", "manual_review"}
BY DEF Dispatched

\* Requeueing or escalating jobs that have an owner preserves the invariant:
\* the heart of fail_job and of expire_leases.
LEMMA RequeuePreservesInv ==
  ASSUME IInv, NEW S \in SUBSET Job, NEW permanent \in BOOLEAN,
         \A j \in S : owner[j] # NoSession,
         RequeueOrEscalate(S, permanent)
  PROVE  IInv'
<1> DEFINE out(j) == RetryOutcome(j, S, permanent)
<1>1. \A j \in S : /\ out(j) \in {"queued", "completed", "manual_review"}
                   /\ out(j) = "queued" => retries[j] < MaxRetries
  BY DispatchedType DEF RetryOutcome
<1> HIDE DEF out
<1>2. /\ owner' = [j \in Job |-> IF j \in S THEN NoSession ELSE owner[j]]
      /\ lease' = [j \in Job |-> IF j \in S THEN "none" ELSE lease[j]]
      /\ retries' = [j \in Job |-> IF j \in S THEN retries[j] + 1 ELSE retries[j]]
      /\ status' = [j \in Job |-> IF j \in S THEN out(j) ELSE status[j]]
      /\ results' = results \union {<<j, CpuRunner>> : j \in {k \in S : out(k) = "completed"}}
      /\ load' = LoadAfter(S) /\ devStatus' = StatusAfter(S)
      /\ UNCHANGED <<enabled, beat, minted, live, created, prio, task>>
  BY DEF RequeueOrEscalate, ReleaseAll, specVars, out
<1>3. TypeOK'
  <2>1. /\ load' \in [Device -> Nat] /\ devStatus' \in [Device -> DeviceStatus]
        /\ enabled' \in [Device -> BOOLEAN] /\ beat' \in [Device -> Beat]
        /\ minted' \in [Device -> 0 .. MaxSessions] /\ live' \in SUBSET Session
        /\ created' \in 0 .. MaxJobs /\ prio' \in [Job -> Priorities] /\ task' \in [Job -> Tasks]
    BY <1>2, ReleaseKeepsDevices DEF IInv, TypeOK
  <2>2. status' \in [Job -> JobStatus]
    BY <1>1, <1>2 DEF IInv, TypeOK, JobStatus
  <2>3. owner' \in [Job -> Session \union {NoSession}] /\ lease' \in [Job -> Lease]
    BY <1>2 DEF IInv, TypeOK, Lease
  <2>4. retries' \in [Job -> Nat]
    BY <1>2 DEF IInv, TypeOK
  <2>5. results' \in SUBSET (Job \X Runner)
    BY <1>2 DEF IInv, TypeOK, Runner
  <2>6. QED
    BY <2>1, <2>2, <2>3, <2>4, <2>5 DEF TypeOK
<1>4. LeaseMatchesStatus'
  BY <1>1, <1>2 DEF IInv, TypeOK, LeaseMatchesStatus, LeasedStates
<1>5. OnlyNewestSessionLive'
  BY <1>2 DEF IInv, OnlyNewestSessionLive
<1>6. BusyMatchesLoad'
  BY <1>2, ReleaseKeepsDevices DEF IInv, BusyMatchesLoad
<1>7. CompletedHasResult'
  BY <1>1, <1>2 DEF IInv, TypeOK, CompletedHasResult
<1>8. RetryBudget'
  BY <1>1, <1>2, EdgeAssumption DEF IInv, TypeOK, RetryBudget, LeasedStates
<1>9. FallbackIsFinal'
  BY <1>1, <1>2 DEF IInv, TypeOK, FallbackIsFinal
<1>10. Unborn'
  <2>1. \A j \in S : j <= created
    <3> SUFFICES ASSUME NEW j \in S, ~(j <= created) PROVE FALSE
      OBVIOUS
    <3>1. j \in Int /\ created \in Int
      BY EdgeAssumption DEF IInv, TypeOK, Job
    <3>2. status[j] = "absent"
      BY <3>1 DEF IInv, Unborn
    <3>3. owner[j] = NoSession
      BY <3>2 DEF IInv, LeaseMatchesStatus, LeasedStates
    <3>4. QED
      BY <3>3
  <2>2. QED
    BY <1>2, <2>1, EdgeAssumption DEF IInv, TypeOK, Unborn, Job
<1>11. QED
  BY <1>3, <1>4, <1>5, <1>6, <1>7, <1>8, <1>9, <1>10 DEF IInv

-----------------------------------------------------------------------------
\* A heartbeat, whatever count it reports.
LEMMA HeartbeatPreservesInv ==
  ASSUME IInv, NEW s \in live, NEW n \in Nat, NEW pressure \in BOOLEAN, NEW failed \in BOOLEAN,
         Heartbeat(s, n, pressure, failed)
  PROVE  IInv'
<1>1. s \in Session /\ s[1] \in Device /\ n \in Nat
  BY DEF IInv, TypeOK, Session
<1>2. /\ beat' = [beat EXCEPT ![s[1]] = "fresh"]
      /\ load' = [load EXCEPT ![s[1]] = n]
      /\ devStatus' = [devStatus EXCEPT ![s[1]] =
           IF @ \in {"maintenance", "error"} THEN @
           ELSE IF failed THEN "error" ELSE DerivedStatus(s[1], n, pressure)]
      /\ UNCHANGED <<enabled, minted, live, specVars, jobVars>>
  BY DEF Heartbeat
<1> USE <1>1, <1>2 DEF IInv, jobVars, specVars
<1>3. TypeOK'
  BY DEF TypeOK, DeviceStatus, Beat, DerivedStatus
<1>4. BusyMatchesLoad'
  <2> SUFFICES ASSUME NEW d \in Device
               PROVE  /\ devStatus'[d] = "busy" => load'[d] >= Capacity[d]
                      /\ devStatus'[d] = "online" => load'[d] < Capacity[d]
    BY DEF BusyMatchesLoad
  <2>1. Capacity[d] \in Nat
    BY EdgeAssumption
  <2>2. CASE d # s[1]
    BY <2>1, <2>2 DEF BusyMatchesLoad, TypeOK
  <2>3. CASE d = s[1]
    <3>1. load'[d] = n
      BY <2>3 DEF TypeOK
    <3>2. devStatus'[d] \in {"maintenance", "error", DerivedStatus(d, n, pressure)}
      BY <2>3 DEF TypeOK
    <3>3. QED
      BY <2>1, <3>1, <3>2 DEF DerivedStatus
  <2>4. QED
    BY <2>2, <2>3
<1>5. OnlyNewestSessionLive' /\ LeaseMatchesStatus' /\ CompletedHasResult' /\ RetryBudget' /\ FallbackIsFinal' /\ Unborn'
  BY DEF OnlyNewestSessionLive, LeaseMatchesStatus, CompletedHasResult, RetryBudget, FallbackIsFinal, Unborn
<1>6. QED
  BY <1>3, <1>4, <1>5

\* Device handlers touch no job.
LEMMA DeviceStepPreservesInv ==
  ASSUME IInv, DeviceNext
  PROVE  IInv'
<1>1. ASSUME NEW d \in Device, RegisterDevice(d)
      PROVE  IInv'
  <2> USE <1>1 DEF RegisterDevice, IInv, jobVars, specVars
  <2>1. TypeOK'
    BY EdgeAssumption DEF TypeOK, Session, DeviceStatus, Beat
  <2>2. OnlyNewestSessionLive'
    BY EdgeAssumption DEF OnlyNewestSessionLive, TypeOK, Session
  <2>3. BusyMatchesLoad'
    <3> SUFFICES ASSUME NEW e \in Device
                 PROVE  /\ devStatus'[e] = "busy" => load'[e] >= Capacity[e]
                        /\ devStatus'[e] = "online" => load'[e] < Capacity[e]
      BY DEF BusyMatchesLoad
    <3>1. Capacity[e] \in Nat \ {0}
      BY EdgeAssumption
    <3>2. CASE e # d
      BY <3>2 DEF BusyMatchesLoad, TypeOK
    <3>3. CASE e = d
      BY <3>1, <3>3 DEF TypeOK
    <3>4. QED
      BY <3>2, <3>3
  <2>4. LeaseMatchesStatus' /\ CompletedHasResult' /\ RetryBudget' /\ FallbackIsFinal' /\ Unborn'
    BY DEF LeaseMatchesStatus, CompletedHasResult, RetryBudget, FallbackIsFinal, Unborn
  <2>5. QED
    BY <2>1, <2>2, <2>3, <2>4
<1>2. ASSUME NEW d \in Device, DisableDevice(d) \/ EnableDevice(d)
      PROVE  IInv'
  <2> USE <1>2 DEF DisableDevice, EnableDevice, IInv, jobVars, specVars
  <2>1. TypeOK'
    BY DEF TypeOK, DeviceStatus
  <2>2. OnlyNewestSessionLive' /\ BusyMatchesLoad'
    BY DEF OnlyNewestSessionLive, BusyMatchesLoad, TypeOK
  <2>3. LeaseMatchesStatus' /\ CompletedHasResult' /\ RetryBudget' /\ FallbackIsFinal' /\ Unborn'
    BY DEF LeaseMatchesStatus, CompletedHasResult, RetryBudget, FallbackIsFinal, Unborn
  <2>4. QED
    BY <2>1, <2>2, <2>3
<1>3. ASSUME NEW s \in live, NEW pressure \in BOOLEAN, NEW failed \in BOOLEAN,
             NEW n \in Reports(s), Heartbeat(s, n, pressure, failed)
      PROVE  IInv'
  <2>1. s \in Session /\ s[1] \in Device
    BY DEF IInv, TypeOK, Session
  <2>2. Cardinality({j \in Job : owner[j] = s /\ status[j] \in LeasedStates}) \in Nat
    <3>1. IsFiniteSet(Job)
      BY EdgeAssumption, FS_Interval DEF Job
    <3>2. {j \in Job : owner[j] = s /\ status[j] \in LeasedStates} \subseteq Job
      OBVIOUS
    <3>3. QED
      BY <3>1, <3>2, FS_Subset, FS_CardinalityType
  <2>3. n \in Nat
    BY <2>1, <2>2, EdgeAssumption DEF Reports
  <2>4. QED
    BY <1>3, <2>3, HeartbeatPreservesInv
<1>4. QED
  BY <1>1, <1>2, <1>3 DEF DeviceNext

-----------------------------------------------------------------------------
\* Closing one existing job that the CPU fallback has not answered, its lease
\* and slot given up, preserves the invariant: cancel_job and
\* _fail_to_manual_review.
LEMMA ClosePreservesInv ==
  ASSUME IInv, NEW j \in Job, NEW x \in {"cancelled", "manual_review"},
         status[j] # "absent", <<j, CpuRunner>> \notin results,
         ReleaseAll({j}),
         status' = [status EXCEPT ![j] = x],
         UNCHANGED <<enabled, beat, minted, live, specVars, retries, results>>
  PROVE  IInv'
<1>1. /\ owner' = [i \in Job |-> IF i = j THEN NoSession ELSE owner[i]]
      /\ lease' = [i \in Job |-> IF i = j THEN "none" ELSE lease[i]]
      /\ status' = [i \in Job |-> IF i = j THEN x ELSE status[i]]
      /\ load' = LoadAfter({j}) /\ devStatus' = StatusAfter({j})
      /\ UNCHANGED <<enabled, beat, minted, live, created, prio, task, retries, results>>
  BY DEF ReleaseAll, specVars, IInv, TypeOK
<1>2. {j} \in SUBSET Job
  OBVIOUS
<1>3. TypeOK'
  <2>1. load' \in [Device -> Nat] /\ devStatus' \in [Device -> DeviceStatus]
    BY <1>1, <1>2, ReleaseKeepsDevices DEF IInv
  <2>2. status' \in [Job -> JobStatus] /\ lease' \in [Job -> Lease]
        /\ owner' \in [Job -> Session \union {NoSession}]
    BY <1>1 DEF IInv, TypeOK, JobStatus, Lease
  <2>3. QED
    BY <1>1, <2>1, <2>2 DEF IInv, TypeOK
<1>4. LeaseMatchesStatus'
  BY <1>1 DEF IInv, TypeOK, LeaseMatchesStatus, LeasedStates
<1>5. OnlyNewestSessionLive'
  BY <1>1 DEF IInv, OnlyNewestSessionLive
<1>6. BusyMatchesLoad'
  BY <1>1, <1>2, ReleaseKeepsDevices DEF IInv, BusyMatchesLoad
<1>7. CompletedHasResult'
  BY <1>1 DEF IInv, CompletedHasResult
<1>8. RetryBudget'
  BY <1>1, EdgeAssumption DEF IInv, TypeOK, RetryBudget, LeasedStates
<1>9. FallbackIsFinal'
  BY <1>1 DEF IInv, FallbackIsFinal
<1>10. Unborn'
  BY <1>1 DEF IInv, Unborn
<1>11. QED
  BY <1>3, <1>4, <1>5, <1>6, <1>7, <1>8, <1>9, <1>10 DEF IInv

\* create_job gives an unborn job its first status.
LEMMA CreatePreservesInv ==
  ASSUME IInv, NEW t \in Tasks, NEW p \in Priorities, CreateJob(t, p)
  PROVE  IInv'
<1> DEFINE j == created + 1
           x == Dispatched(t, devStatus, load)
<1>1. j \in Job /\ j > created /\ created \in Nat
  BY EdgeAssumption DEF CreateJob, IInv, TypeOK, Job
<1>2. x \in {"queued", "completed", "manual_review"}
  BY DispatchedType
<1>3. status[j] = "absent" /\ retries[j] = 0 /\ owner[j] = NoSession /\ lease[j] = "none"
  BY <1>1 DEF IInv, Unborn, LeaseMatchesStatus, LeasedStates
<1> HIDE DEF x
<1>4. /\ status' = [i \in Job |-> IF i = j THEN x ELSE status[i]]
      /\ results' = IF x = "completed" THEN results \union {<<j, CpuRunner>>} ELSE results
      /\ created' = j
      /\ task' \in [Job -> Tasks] /\ prio' \in [Job -> Priorities]
      /\ UNCHANGED <<devStatus, enabled, load, beat, minted, live, owner, lease, retries>>
  BY <1>1 DEF CreateJob, devVars, IInv, TypeOK, x
<1>5. created' \in 0 .. MaxJobs
  BY <1>1, <1>4, EdgeAssumption DEF Job
<1> HIDE DEF j
<1>6. TypeOK'
  <2>1. status' \in [Job -> JobStatus]
    BY <1>2, <1>4 DEF IInv, TypeOK, JobStatus
  <2>2. results' \in SUBSET (Job \X Runner)
    BY <1>1, <1>4 DEF IInv, TypeOK, Runner
  <2>3. QED
    BY <1>4, <1>5, <2>1, <2>2 DEF IInv, TypeOK
<1>7. LeaseMatchesStatus'
  BY <1>2, <1>3, <1>4 DEF IInv, LeaseMatchesStatus, LeasedStates
<1>8. OnlyNewestSessionLive' /\ BusyMatchesLoad'
  BY <1>4 DEF IInv, OnlyNewestSessionLive, BusyMatchesLoad
<1>9. CompletedHasResult'
  BY <1>1, <1>3, <1>4 DEF IInv, CompletedHasResult
<1>10. RetryBudget'
  BY <1>3, <1>4, EdgeAssumption DEF IInv, TypeOK, RetryBudget, LeasedStates
<1>11. FallbackIsFinal'
  BY <1>1, <1>3, <1>4 DEF IInv, FallbackIsFinal
<1>12. Unborn'
  BY <1>1, <1>4 DEF IInv, Unborn, Job, j
<1>13. QED
  BY <1>6, <1>7, <1>8, <1>9, <1>10, <1>11, <1>12 DEF IInv

\* lease_next_job_for_device moves a queued job to the caller's session and
\* takes one slot of a device that had one.
LEMMA LeasePreservesInv ==
  ASSUME IInv, NEW s \in Session, NEW j \in Job, LeaseNextJob(s, j)
  PROVE  IInv'
<1>1. s[1] \in Device
  BY DEF Session
<1>2. /\ status[j] = "queued" /\ load[s[1]] < Capacity[s[1]]
      /\ status' = [i \in Job |-> IF i = j THEN "leased" ELSE status[i]]
      /\ owner' = [i \in Job |-> IF i = j THEN s ELSE owner[i]]
      /\ lease' = [i \in Job |-> IF i = j THEN "live" ELSE lease[i]]
      /\ load' = [d \in Device |-> IF d = s[1] THEN load[d] + 1 ELSE load[d]]
      /\ devStatus' = [d \in Device |->
           IF d = s[1] /\ devStatus[d] = "online" /\ load[d] + 1 >= Capacity[d]
           THEN "busy" ELSE devStatus[d]]
      /\ devStatus[s[1]] # "busy"
      /\ UNCHANGED <<enabled, beat, minted, live, created, prio, task, retries, results>>
  BY <1>1 DEF LeaseNextJob, Candidates, specVars, IInv, TypeOK, Dispatchable
<1>3. TypeOK'
  <2>1. load' \in [Device -> Nat] /\ devStatus' \in [Device -> DeviceStatus]
    BY <1>1, <1>2 DEF IInv, TypeOK, DeviceStatus
  <2>2. status' \in [Job -> JobStatus] /\ lease' \in [Job -> Lease]
        /\ owner' \in [Job -> Session \union {NoSession}]
    BY <1>2 DEF IInv, TypeOK, JobStatus, Lease
  <2>3. QED
    BY <1>2, <2>1, <2>2 DEF IInv, TypeOK
<1>4. LeaseMatchesStatus'
  BY <1>2, EdgeAssumption DEF IInv, LeaseMatchesStatus, LeasedStates
<1>5. OnlyNewestSessionLive'
  BY <1>2 DEF IInv, OnlyNewestSessionLive
<1>6. BusyMatchesLoad'
  <2> SUFFICES ASSUME NEW d \in Device
               PROVE  /\ devStatus'[d] = "busy" => load'[d] >= Capacity[d]
                      /\ devStatus'[d] = "online" => load'[d] < Capacity[d]
    BY DEF BusyMatchesLoad
  <2>1. Capacity[d] \in Nat /\ load[d] \in Nat
    BY EdgeAssumption DEF IInv, TypeOK
  <2>2. CASE d = s[1]
    BY <1>2, <2>1, <2>2
  <2>3. CASE d # s[1]
    BY <1>2, <2>3 DEF IInv, BusyMatchesLoad
  <2>4. QED
    BY <2>2, <2>3
<1>7. CompletedHasResult'
  BY <1>2 DEF IInv, CompletedHasResult
<1>8. RetryBudget'
  BY <1>2, EdgeAssumption DEF IInv, TypeOK, RetryBudget, LeasedStates
<1>9. FallbackIsFinal'
  BY <1>2 DEF IInv, FallbackIsFinal
<1>10. Unborn'
  BY <1>2 DEF IInv, Unborn
<1>11. QED
  BY <1>3, <1>4, <1>5, <1>6, <1>7, <1>8, <1>9, <1>10 DEF IInv

\* mark_started only changes which leased state the job is in.
LEMMA StartPreservesInv ==
  ASSUME IInv, NEW s \in Session, NEW j \in Job, MarkStarted(s, j)
  PROVE  IInv'
<1>1. /\ status[j] = "leased" /\ owner[j] = s
      /\ status' = [i \in Job |-> IF i = j THEN "running" ELSE status[i]]
      /\ UNCHANGED <<devStatus, enabled, load, beat, minted, live, created, prio,
                     task, owner, lease, retries, results>>
  BY DEF MarkStarted, devVars, specVars, IInv, TypeOK
<1>2. TypeOK'
  BY <1>1 DEF IInv, TypeOK, JobStatus
<1>3. LeaseMatchesStatus' /\ OnlyNewestSessionLive' /\ BusyMatchesLoad' /\ CompletedHasResult'
  BY <1>1 DEF IInv, LeaseMatchesStatus, LeasedStates, OnlyNewestSessionLive,
              BusyMatchesLoad, CompletedHasResult
<1>4. RetryBudget' /\ FallbackIsFinal' /\ Unborn'
  BY <1>1 DEF IInv, RetryBudget, LeasedStates, FallbackIsFinal, Unborn
<1>5. QED
  BY <1>2, <1>3, <1>4 DEF IInv

\* upload_result stores the caller's result with the completion of the job.
LEMMA UploadPreservesInv ==
  ASSUME IInv, NEW s \in Session, NEW j \in Job, UploadResult(s, j)
  PROVE  IInv'
<1>1. /\ owner[j] = s
      /\ results' = results \union {<<j, s>>}
      /\ status' = [i \in Job |-> IF i = j THEN "completed" ELSE status[i]]
      /\ lease' = [i \in Job |-> IF i = j THEN "none" ELSE lease[i]]
      /\ load' = LoadAfter({j}) /\ devStatus' = StatusAfter({j})
      /\ UNCHANGED <<enabled, beat, minted, live, created, prio, task, owner, retries>>
  BY DEF UploadResult, MayUpload, specVars, IInv, TypeOK
<1>2. {j} \in SUBSET Job /\ s # CpuRunner /\ s # NoSession
  BY EdgeAssumption
<1>3. TypeOK'
  <2>1. load' \in [Device -> Nat] /\ devStatus' \in [Device -> DeviceStatus]
    BY <1>1, <1>2, ReleaseKeepsDevices DEF IInv
  <2>2. status' \in [Job -> JobStatus] /\ lease' \in [Job -> Lease]
        /\ results' \in SUBSET (Job \X Runner)
    BY <1>1 DEF IInv, TypeOK, JobStatus, Lease, Runner
  <2>3. QED
    BY <1>1, <2>1, <2>2 DEF IInv, TypeOK
<1>4. LeaseMatchesStatus'
  BY <1>1 DEF IInv, LeaseMatchesStatus, LeasedStates
<1>5. OnlyNewestSessionLive'
  BY <1>1 DEF IInv, OnlyNewestSessionLive
<1>6. BusyMatchesLoad'
  BY <1>1, <1>2, ReleaseKeepsDevices DEF IInv, BusyMatchesLoad
<1>7. CompletedHasResult'
  BY <1>1, <1>2 DEF IInv, CompletedHasResult
<1>8. RetryBudget'
  BY <1>1, <1>2 DEF IInv, RetryBudget, LeasedStates
<1>9. FallbackIsFinal'
  BY <1>1, <1>2 DEF IInv, FallbackIsFinal
<1>10. Unborn'
  <2>1. status[j] # "absent"
    BY <1>1, <1>2 DEF IInv, LeaseMatchesStatus, LeasedStates
  <2>2. QED
    BY <1>1, <2>1 DEF IInv, Unborn
<1>11. QED
  BY <1>3, <1>4, <1>5, <1>6, <1>7, <1>8, <1>9, <1>10 DEF IInv

-----------------------------------------------------------------------------
\* Every handler of the dispatcher and of result ingestion.
LEMMA JobStepPreservesInv ==
  ASSUME IInv, JobNext
  PROVE  IInv'
<1>1. ASSUME NEW t \in Tasks, NEW p \in Priorities, CreateJob(t, p)
      PROVE  IInv'
  BY <1>1, CreatePreservesInv
<1>2. ASSUME NEW s \in Session, NEW j \in Job,
             LeaseNextJob(s, j) \/ MarkStarted(s, j) \/ UploadResult(s, j)
      PROVE  IInv'
  BY <1>2, LeasePreservesInv, StartPreservesInv, UploadPreservesInv
<1>3. ASSUME NEW s \in Session, NEW j \in Job, RejectPayload(s, j)
      PROVE  IInv'
  <2>1. owner[j] # NoSession
    BY <1>3, EdgeAssumption DEF RejectPayload, MayUpload
  <2>2. status[j] # "absent" /\ <<j, CpuRunner>> \notin results
    BY <2>1 DEF IInv, LeaseMatchesStatus, LeasedStates, FallbackIsFinal
  <2>3. QED
    BY <1>3, <2>2, ClosePreservesInv DEF RejectPayload
<1>4. ASSUME NEW s \in Session, NEW j \in Job, NEW permanent \in BOOLEAN,
             FailJob(s, j, permanent)
      PROVE  IInv'
  <2>1. owner[j] # NoSession
    BY <1>4, EdgeAssumption DEF FailJob
  <2>2. QED
    BY <1>4, <2>1, RequeuePreservesInv DEF FailJob
<1>5. ASSUME NEW j \in Job, CancelJob(j)
      PROVE  IInv'
  <2>1. status[j] # "absent" /\ <<j, CpuRunner>> \notin results
    BY <1>5 DEF CancelJob, Terminal, IInv, FallbackIsFinal
  <2>2. QED
    BY <1>5, <2>1, ClosePreservesInv DEF CancelJob
<1>6. QED
  BY <1>1, <1>2, <1>3, <1>4, <1>5 DEF JobNext

\* The sweeps: expired leases are requeued, overdue devices go offline.
LEMMA SweepPreservesInv ==
  ASSUME IInv, Sweeps
  PROVE  IInv'
<1>1. CASE ExpireLeases
  <2>1. Expired \in SUBSET Job /\ \A j \in Expired : owner[j] # NoSession
    BY DEF Expired, IInv, LeaseMatchesStatus
  <2>2. QED
    BY <1>1, <2>1, RequeuePreservesInv DEF ExpireLeases
<1>2. CASE SweepOfflineDevices
  <2> USE <1>2 DEF SweepOfflineDevices, IInv, jobVars, specVars
  <2>1. TypeOK'
    BY DEF TypeOK, DeviceStatus
  <2>2. OnlyNewestSessionLive' /\ BusyMatchesLoad'
    BY DEF OnlyNewestSessionLive, BusyMatchesLoad
  <2>3. LeaseMatchesStatus' /\ CompletedHasResult' /\ RetryBudget' /\ FallbackIsFinal' /\ Unborn'
    BY DEF LeaseMatchesStatus, CompletedHasResult, RetryBudget, FallbackIsFinal, Unborn
  <2>4. QED
    BY <2>1, <2>2, <2>3
<1>3. QED
  BY <1>1, <1>2 DEF Sweeps

\* Time only ages heartbeats and running leases.
LEMMA TimePreservesInv ==
  ASSUME IInv, Time
  PROVE  IInv'
<1>1. ASSUME NEW j \in Job, LeaseLapses(j)
      PROVE  IInv'
  <2> USE <1>1 DEF LeaseLapses, IInv, devVars, specVars
  <2>1. TypeOK'
    BY DEF TypeOK, Lease
  <2>2. LeaseMatchesStatus'
    BY DEF LeaseMatchesStatus, TypeOK
  <2>3. OnlyNewestSessionLive' /\ BusyMatchesLoad' /\ CompletedHasResult' /\ RetryBudget'
        /\ FallbackIsFinal' /\ Unborn'
    BY DEF OnlyNewestSessionLive, BusyMatchesLoad, CompletedHasResult, RetryBudget,
           FallbackIsFinal, Unborn
  <2>4. QED
    BY <2>1, <2>2, <2>3
<1>2. ASSUME NEW d \in Device, HeartbeatLapses(d)
      PROVE  IInv'
  <2> USE <1>2 DEF HeartbeatLapses, IInv, jobVars, specVars
  <2>1. TypeOK'
    BY DEF TypeOK, Beat
  <2>2. LeaseMatchesStatus' /\ OnlyNewestSessionLive' /\ BusyMatchesLoad' /\ CompletedHasResult'
        /\ RetryBudget' /\ FallbackIsFinal' /\ Unborn'
    BY DEF LeaseMatchesStatus, OnlyNewestSessionLive, BusyMatchesLoad, CompletedHasResult,
           RetryBudget, FallbackIsFinal, Unborn
  <2>3. QED
    BY <2>1, <2>2
<1>3. QED
  BY <1>1, <1>2 DEF Time

-----------------------------------------------------------------------------
\* A fresh database satisfies the invariant.
LEMMA InitEstablishesInv == Init => IInv
<1> SUFFICES ASSUME Init PROVE IInv
  OBVIOUS
<1> USE DEF Init
<1>1. TypeOK
  <2>1. (CHOOSE t \in Tasks : TRUE) \in Tasks
    BY EdgeAssumption
  <2>2. task \in [Job -> Tasks]
    BY <2>1
  <2>3. QED
    BY <2>2, EdgeAssumption DEF TypeOK, DeviceStatus, Beat, JobStatus, Lease
<1>2. OnlyNewestSessionLive /\ BusyMatchesLoad /\ LeaseMatchesStatus
  BY DEF OnlyNewestSessionLive, BusyMatchesLoad, LeaseMatchesStatus, LeasedStates
<1>3. CompletedHasResult /\ FallbackIsFinal /\ Unborn
  BY DEF CompletedHasResult, FallbackIsFinal, Unborn
<1>4. RetryBudget
  BY EdgeAssumption DEF RetryBudget, LeasedStates
<1>5. QED
  BY <1>1, <1>2, <1>3, <1>4 DEF IInv

\* Every step, and every stutter, preserves the invariant.
LEMMA StepPreservesInv == IInv /\ [Next]_vars => IInv'
<1> SUFFICES ASSUME IInv, [Next]_vars PROVE IInv'
  OBVIOUS
<1>1. CASE Next
  BY <1>1, DeviceStepPreservesInv, JobStepPreservesInv, SweepPreservesInv,
     TimePreservesInv DEF Next
<1>2. CASE UNCHANGED vars
  BY <1>2 DEF vars, devVars, specVars, jobVars, IInv, TypeOK, LeaseMatchesStatus,
     OnlyNewestSessionLive, BusyMatchesLoad, CompletedHasResult, RetryBudget,
     FallbackIsFinal, Unborn
<1>3. QED
  BY <1>1, <1>2

\* The invariant holds in every reachable state of the service, whatever its
\* clients send.
THEOREM InductiveInvariant == Spec => []IInv
<1>1. Init => IInv
  BY InitEstablishesInv
<1>2. IInv /\ [Next]_vars => IInv'
  BY StepPreservesInv
<1>3. QED
  BY <1>1, <1>2, PTL DEF Spec

\* Type correctness.
THEOREM TypeCorrect == Spec => []TypeOK
BY InductiveInvariant, PTL DEF IInv

\* Owner, deadline and status of a job always agree.
THEOREM LeasesMatch == Spec => []LeaseMatchesStatus
BY InductiveInvariant, PTL DEF IInv

\* No session of an earlier life of a device is ever active.
THEOREM SessionsFenced == Spec => []OnlyNewestSessionLive
BY InductiveInvariant, PTL DEF IInv

\* Device status and slot counter always agree.
THEOREM StatusAgrees == Spec => []BusyMatchesLoad
BY InductiveInvariant, PTL DEF IInv

\* A completed job always has the result of the runner it names.
THEOREM CompletedStored == Spec => []CompletedHasResult
BY InductiveInvariant, PTL DEF IInv

\* No job is charged beyond its retry budget.
THEOREM RetriesBounded == Spec => []RetryBudget
BY InductiveInvariant, PTL DEF IInv

\* The CPU fallback's answer closes its job.
THEOREM FallbackFinal == Spec => []FallbackIsFinal
BY InductiveInvariant, PTL DEF IInv

-----------------------------------------------------------------------------
\* The jobs a step may touch, and how: an unborn job is created, a queued one
\* leased, a leased one started, an owned one completed, requeued or closed,
\* an open one cancelled.  Every other job keeps its row.
LEMMA JobRowSteps ==
  ASSUME IInv, [Next]_vars, NEW j \in Job
  PROVE  \/ UNCHANGED <<status[j], owner[j], retries[j]>>
         \/ status[j] = "absent" /\ UNCHANGED owner[j]
         \/ status[j] = "queued"
         \/ status[j] = "leased" /\ status'[j] = "running" /\ UNCHANGED owner[j]
         \/ owner[j] # NoSession /\ status'[j] = "completed" /\ UNCHANGED owner[j]
         \/ owner[j] # NoSession /\ owner'[j] = NoSession /\ retries'[j] = retries[j] + 1
         \/ /\ status[j] \notin {"cancelled", "manual_review"}
            /\ owner'[j] = NoSession /\ status'[j] \in Terminal
<1>1. ASSUME NEW S \in SUBSET Job, NEW permanent \in BOOLEAN,
             \A k \in S : owner[k] # NoSession, RequeueOrEscalate(S, permanent)
      PROVE  \/ UNCHANGED <<status[j], owner[j], retries[j]>>
             \/ owner[j] # NoSession /\ owner'[j] = NoSession /\ retries'[j] = retries[j] + 1
  BY <1>1 DEF RequeueOrEscalate, ReleaseAll
<1>2. ASSUME NEW t \in Tasks, NEW p \in Priorities, CreateJob(t, p)
      PROVE  \/ UNCHANGED <<status[j], owner[j], retries[j]>>
             \/ status[j] = "absent" /\ UNCHANGED owner[j]
  <2>1. created + 1 \in Job /\ status[created + 1] = "absent"
    BY <1>2, EdgeAssumption DEF CreateJob, IInv, TypeOK, Job, Unborn
  <2>2. QED
    BY <1>2, <2>1 DEF CreateJob, IInv, TypeOK
<1>3. ASSUME NEW s \in Session, NEW k \in Job, LeaseNextJob(s, k)
      PROVE  UNCHANGED <<status[j], owner[j], retries[j]>> \/ status[j] = "queued"
  BY <1>3 DEF LeaseNextJob, Candidates, IInv, TypeOK
<1>4. ASSUME NEW s \in Session, NEW k \in Job, MarkStarted(s, k)
      PROVE  \/ UNCHANGED <<status[j], owner[j], retries[j]>>
             \/ status[j] = "leased" /\ status'[j] = "running" /\ UNCHANGED owner[j]
  BY <1>4 DEF MarkStarted, IInv, TypeOK
<1>5. ASSUME NEW s \in Session, NEW k \in Job, UploadResult(s, k)
      PROVE  \/ UNCHANGED <<status[j], owner[j], retries[j]>>
             \/ owner[j] # NoSession /\ status'[j] = "completed" /\ UNCHANGED owner[j]
  BY <1>5, EdgeAssumption DEF UploadResult, MayUpload, IInv, TypeOK
<1>6. ASSUME NEW s \in Session, NEW k \in Job, RejectPayload(s, k)
      PROVE  \/ UNCHANGED <<status[j], owner[j], retries[j]>>
             \/ /\ status[j] \notin {"cancelled", "manual_review"}
                /\ owner'[j] = NoSession /\ status'[j] \in Terminal
  BY <1>6 DEF RejectPayload, MayUpload, ReleaseAll, Terminal, IInv, TypeOK
<1>7. ASSUME NEW k \in Job, CancelJob(k)
      PROVE  \/ UNCHANGED <<status[j], owner[j], retries[j]>>
             \/ /\ status[j] \notin {"cancelled", "manual_review"}
                /\ owner'[j] = NoSession /\ status'[j] \in Terminal
  BY <1>7 DEF CancelJob, ReleaseAll, Terminal, IInv, TypeOK
<1>8. ASSUME NEW s \in Session, NEW k \in Job, NEW permanent \in BOOLEAN,
             FailJob(s, k, permanent)
      PROVE  \/ UNCHANGED <<status[j], owner[j], retries[j]>>
             \/ owner[j] # NoSession /\ owner'[j] = NoSession /\ retries'[j] = retries[j] + 1
  <2>1. \A i \in {k} : owner[i] # NoSession
    BY <1>8, EdgeAssumption DEF FailJob
  <2>2. QED
    BY <1>1, <1>8, <2>1 DEF FailJob
<1>9. CASE Sweeps
  <2>1. Expired \in SUBSET Job /\ \A k \in Expired : owner[k] # NoSession
    BY DEF Expired, IInv, LeaseMatchesStatus
  <2>2. QED
    BY <1>1, <1>9, <2>1 DEF Sweeps, ExpireLeases, SweepOfflineDevices, jobVars
<1>10. CASE DeviceNext \/ Time \/ UNCHANGED vars
  BY <1>10 DEF DeviceNext, Time, RegisterDevice, DisableDevice, EnableDevice, Heartbeat,
     LeaseLapses, HeartbeatLapses, vars, jobVars
<1>11. CASE JobNext
  BY <1>2, <1>3, <1>4, <1>5, <1>6, <1>7, <1>8, <1>11 DEF JobNext
<1>12. QED
  BY <1>9, <1>10, <1>11 DEF Next

\* manual_review_required and cancelled jobs are closed for good.
THEOREM ClosedForGood == Spec => ReviewAndCancelAreFinal
<1>1. IInv /\ [Next]_vars => [ClosedStaysClosed]_vars
  <2> SUFFICES ASSUME IInv, [Next]_vars, NEW j \in Job,
                      status[j] \in {"cancelled", "manual_review"}
               PROVE  status'[j] = status[j]
    BY DEF ClosedStaysClosed
  <2>1. owner[j] = NoSession
    BY DEF IInv, LeaseMatchesStatus, LeasedStates
  <2>2. QED
    BY <2>1, JobRowSteps
<1>2. QED
  BY <1>1, InductiveInvariant, PTL DEF Spec, ReviewAndCancelAreFinal

\* A lease is given up before another session gets it.
THEOREM ExclusiveLease == Spec => LeaseIsExclusive
<1>1. IInv /\ [Next]_vars => [LeaseIsGivenUp]_vars
  <2> SUFFICES ASSUME IInv, [Next]_vars, NEW j \in Job,
                      owner[j] # NoSession, owner'[j] # owner[j]
               PROVE  /\ owner'[j] = NoSession
                      /\ retries'[j] = retries[j] + 1 \/ status'[j] \in Terminal
    BY DEF LeaseIsGivenUp
  <2>1. status[j] # "queued"
    BY DEF IInv, LeaseMatchesStatus, LeasedStates
  <2>2. QED
    BY <2>1, JobRowSteps
<1>2. QED
  BY <1>1, InductiveInvariant, PTL DEF Spec, LeaseIsExclusive

\* Only the active session, on a lease that still runs, gets a result stored.
THEOREM FencedResults == Spec => OnlyLiveLeaseCompletes
<1>1. IInv /\ [Next]_vars => [ResultIsFenced]_vars
  <2> SUFFICES ASSUME IInv, [Next]_vars, NEW j \in Job, NEW s \in Session,
                      <<j, s>> \in results', <<j, s>> \notin results
               PROVE  /\ owner[j] = s /\ s \in live /\ lease[j] = "live"
                      /\ status'[j] = "completed"
    BY DEF ResultIsFenced
  <2>0. s # CpuRunner /\ s # NoSession
    BY EdgeAssumption
  <2>1. ASSUME NEW S \in SUBSET Job, NEW permanent \in BOOLEAN, RequeueOrEscalate(S, permanent)
        PROVE  FALSE
    BY <2>0, <2>1 DEF RequeueOrEscalate
  <2>2. ASSUME NEW t \in Tasks, NEW p \in Priorities, CreateJob(t, p)
        PROVE  FALSE
    BY <2>0, <2>2 DEF CreateJob
  <2>3. ASSUME NEW r \in Session, NEW k \in Job, UploadResult(r, k)
        PROVE  /\ owner[j] = s /\ s \in live /\ lease[j] = "live"
               /\ status'[j] = "completed"
    <3>1. r = s /\ k = j
      BY <2>3 DEF UploadResult
    <3>2. owner[j] = s /\ s \in live /\ status'[j] = "completed"
      BY <2>3, <3>1 DEF UploadResult, MayUpload, IInv, TypeOK
    <3>3. status[j] # "completed"
      BY <2>0, <3>2 DEF IInv, CompletedHasResult
    <3>4. status[j] \in LeasedStates /\ lease[j] # "expired"
      BY <2>0, <2>3, <3>1, <3>2, <3>3 DEF UploadResult, MayUpload, IInv, LeaseMatchesStatus
    <3>5. lease[j] = "live"
      BY <3>4 DEF IInv, TypeOK, LeaseMatchesStatus, Lease
    <3>6. QED
      BY <3>2, <3>5
  <2>4. CASE JobNext
    <3>1. ASSUME NEW r \in Session, NEW k \in Job,
                 LeaseNextJob(r, k) \/ MarkStarted(r, k) \/ RejectPayload(r, k)
          PROVE  FALSE
      BY <3>1 DEF LeaseNextJob, MarkStarted, RejectPayload
    <3>2. ASSUME NEW r \in Session, NEW k \in Job, NEW permanent \in BOOLEAN,
                 FailJob(r, k, permanent)
          PROVE  FALSE
      BY <2>1, <3>2 DEF FailJob
    <3>3. ASSUME NEW k \in Job, CancelJob(k)
          PROVE  FALSE
      BY <3>3 DEF CancelJob
    <3>4. QED
      BY <2>2, <2>3, <2>4, <3>1, <3>2, <3>3 DEF JobNext
  <2>5. CASE Sweeps
    BY <2>1, <2>5 DEF Sweeps, ExpireLeases, Expired, SweepOfflineDevices, jobVars
  <2>6. CASE DeviceNext \/ Time \/ UNCHANGED vars
    BY <2>6 DEF DeviceNext, Time, RegisterDevice, DisableDevice, EnableDevice, Heartbeat,
       LeaseLapses, HeartbeatLapses, vars, jobVars
  <2>7. QED
    BY <2>4, <2>5, <2>6 DEF Next
<1>2. QED
  BY <1>1, InductiveInvariant, PTL DEF Spec, OnlyLiveLeaseCompletes

-----------------------------------------------------------------------------
(* The agents.  Between two registrations an agent works with one session:  *)
(* a result stored under it belongs to a job that is completed, still names *)
(* the session and is not the one in hand, and no other job is on a live    *)
(* lease of it.  No row names a session that was not minted, which is what  *)
(* a new registration starts from.                                          *)

Busy == {"pulled", "running", "output", "failure"}
Working(d) == agent[d].at \in Busy \union {"idle"}

AgentRec ==
  {r \in [at : Busy \union {"off", "lost", "idle"}, n : 0 .. MaxSessions, job : 0 .. MaxJobs, due : BOOLEAN] :
     /\ r.at # "off" => r.n \in 1 .. MaxSessions
     /\ r.at = "idle" => r.job = 0
     /\ r.at \in Busy => r.job \in Job}

SessionsMinted ==
  /\ \A j \in Job : owner[j] # NoSession => owner[j][2] <= minted[owner[j][1]]
  /\ \A j \in Job, s \in Session : <<j, s>> \in results => s[2] <= minted[s[1]]

Works(d) ==
  Working(d) =>
    /\ \A k \in Job : <<k, Mine(d)>> \in results =>
         status[k] = "completed" /\ owner[k] = Mine(d) /\ agent[d].job # k
    /\ Mine(d) \in live =>
         \A k \in Job : owner[k] = Mine(d) /\ lease[k] = "live" => agent[d].job = k

AgentInv ==
  /\ IInv
  /\ agent \in [Device -> AgentRec]
  /\ SessionsMinted
  /\ \A d \in Device : Works(d)

\* What every step leaves of the rows, unless it leases, completes or mints.
RowsKept ==
  /\ minted' = minted /\ live' \subseteq live
  /\ \A k \in Job : owner'[k] \in {owner[k], NoSession}
  /\ \A k \in Job : owner'[k] # NoSession /\ lease'[k] = "live" => lease[k] = "live"
  /\ \A k \in Job : status[k] = "completed" /\ owner[k] # NoSession =>
                       status'[k] = "completed" /\ owner'[k] = owner[k]
  /\ \A k \in Job, s \in Session : <<k, s>> \in results' => <<k, s>> \in results

LEMMA MineOK ==
  ASSUME AgentInv, NEW d \in Device, agent[d].at # "off"
  PROVE  /\ Mine(d) \in Session /\ Mine(d) # NoSession /\ Mine(d) # CpuRunner
         /\ Mine(d)[1] = d /\ Mine(d)[2] = agent[d].n
         /\ agent[d].at \in Busy => agent[d].job \in Job
<1>1. agent[d] \in AgentRec
  BY DEF AgentInv
<1>2. agent[d].n \in 1 .. MaxSessions
  BY <1>1 DEF AgentRec
<1>3. QED
  BY <1>1, <1>2, EdgeAssumption DEF AgentRec, Mine, Session

\* Requeueing a job that its session still works on, or the jobs whose leases
\* ran out.
LEMMA RequeueKeepsRows ==
  ASSUME IInv, NEW S \in SUBSET Job, NEW permanent \in BOOLEAN,
         \A k \in S : status[k] # "completed", RequeueOrEscalate(S, permanent)
  PROVE  RowsKept
<1>1. \A s \in Session : s # CpuRunner
  BY EdgeAssumption
<1>2. QED
  BY <1>1 DEF RequeueOrEscalate, ReleaseAll, RowsKept

LEMMA CloseKeepsRows ==
  ASSUME IInv, NEW j \in Job, NEW x, status[j] # "completed", ReleaseAll({j}),
         status' = [status EXCEPT ![j] = x], UNCHANGED <<enabled, beat, minted, live, specVars, retries, results>>
  PROVE  RowsKept
BY DEF ReleaseAll, RowsKept, IInv, TypeOK

LEMMA ServiceKeepsRows ==
  ASSUME IInv, ServiceNext
  PROVE  RowsKept /\ IInv'
<1>1. IInv'
  BY DeviceStepPreservesInv, JobStepPreservesInv, SweepPreservesInv, TimePreservesInv
     DEF ServiceNext, DeviceNext, JobNext
<1>2. ASSUME NEW t \in Tasks, NEW p \in Priorities, CreateJob(t, p)
      PROVE  RowsKept
  <2>1. created + 1 \in Job /\ status[created + 1] = "absent"
    BY <1>2, EdgeAssumption DEF CreateJob, IInv, TypeOK, Job, Unborn
  <2>2. \A s \in Session : s # CpuRunner
    BY EdgeAssumption
  <2>3. QED
    BY <1>2, <2>1, <2>2 DEF CreateJob, RowsKept, devVars, IInv, TypeOK
<1>3. ASSUME NEW j \in Job, CancelJob(j)
      PROVE  RowsKept
  BY <1>3, CloseKeepsRows DEF CancelJob, Terminal
<1>4. ASSUME NEW d \in Device, DisableDevice(d) \/ EnableDevice(d)
      PROVE  RowsKept
  BY <1>4 DEF DisableDevice, EnableDevice, jobVars, RowsKept
<1>5. ASSUME Sweeps
      PROVE  RowsKept
  <2>1. CASE ExpireLeases
    <3>1. Expired \in SUBSET Job /\ \A k \in Expired : status[k] # "completed"
      BY DEF Expired, LeasedStates
    <3>2. QED
      BY <2>1, <3>1, RequeueKeepsRows DEF ExpireLeases
  <2>2. CASE SweepOfflineDevices
    <3>1. UNCHANGED <<minted, status, owner, lease, results>> /\ live' \subseteq live
      BY <2>2 DEF SweepOfflineDevices, jobVars
    <3>2. QED
      BY <3>1 DEF RowsKept
  <2>3. QED
    BY <1>5, <2>1, <2>2 DEF Sweeps
<1>6. ASSUME Time
      PROVE  RowsKept
  <2>1. UNCHANGED <<minted, live, status, owner, results>>
    BY <1>6 DEF Time, LeaseLapses, HeartbeatLapses, devVars, jobVars
  <2>2. \A k \in Job : lease'[k] = "live" => lease[k] = "live"
    BY <1>6 DEF Time, LeaseLapses, HeartbeatLapses, jobVars, IInv, TypeOK
  <2>3. QED
    BY <2>1, <2>2 DEF RowsKept
<1>7. QED
  BY <1>1, <1>2, <1>3, <1>4, <1>5, <1>6 DEF ServiceNext

\* An agent whose own rows are left alone goes on with its work.
LEMMA KeepsWorking ==
  ASSUME AgentInv, NEW e \in Device, agent'[e] = agent[e],
         agent[e].at # "off" =>
           /\ Mine(e) \in live' => Mine(e) \in live
           /\ \A k \in Job : owner'[k] = Mine(e) => owner[k] = Mine(e)
           /\ \A k \in Job : owner'[k] = Mine(e) /\ lease'[k] = "live" => lease[k] = "live"
           /\ \A k \in Job : status[k] = "completed" /\ owner[k] = Mine(e) =>
                               status'[k] = "completed" /\ owner'[k] = Mine(e)
           /\ \A k \in Job : <<k, Mine(e)>> \in results' => <<k, Mine(e)>> \in results
  PROVE  Works(e)'
BY DEF AgentInv, Works, Working, Busy, Mine

LEMMA RowsKeepWorking ==
  ASSUME AgentInv, RowsKept, NEW e \in Device, agent'[e] = agent[e]
  PROVE  Works(e)'
<1>1. CASE agent[e].at = "off"
  BY <1>1, KeepsWorking
<1>2. CASE agent[e].at # "off"
  <2>1. Mine(e) \in Session /\ Mine(e) # NoSession
    BY <1>2, MineOK
  <2>2. QED
    BY <2>1, KeepsWorking DEF RowsKept
<1>3. QED
  BY <1>1, <1>2

LEMMA RowsKeepMinted ==
  ASSUME AgentInv, RowsKept
  PROVE  SessionsMinted'
BY DEF AgentInv, SessionsMinted, RowsKept

\* The loop of d moves on with the job and the session it had, or stops.
LEMMA AgentMoves ==
  ASSUME AgentInv, IInv', RowsKept, NEW d \in Device, NEW r \in AgentRec, agent' = [agent EXCEPT ![d] = r],
         r.at \in {"off", "lost"} \/ (Working(d) /\ r.n = agent[d].n /\ r.job = agent[d].job)
  PROVE  AgentInv'
<1>1. agent' \in [Device -> AgentRec] /\ agent'[d] = r /\ \A e \in Device \ {d} : agent'[e] = agent[e]
  BY DEF AgentInv
<1>2. \A e \in Device \ {d} : Works(e)'
  BY <1>1, RowsKeepWorking
<1>3. Works(d)'
  <2>1. CASE r.at \in {"off", "lost"}
    BY <1>1, <2>1 DEF Works, Working, Busy
  <2>2. CASE Working(d) /\ r.n = agent[d].n /\ r.job = agent[d].job
    <3>1. Mine(d) \in Session /\ Mine(d) # NoSession
      BY <2>2, MineOK DEF Working, Busy
    <3>2. Mine(d)' = Mine(d) /\ agent'[d].job = agent[d].job
      BY <1>1, <2>2 DEF Mine
    <3>3. QED
      BY <2>2, <3>1, <3>2 DEF AgentInv, Works, RowsKept
  <2>3. QED
    BY <2>1, <2>2
<1>4. QED
  BY <1>1, <1>2, <1>3, RowsKeepMinted DEF AgentInv

\* The session of another device is not the caller's.
LEMMA MineApart ==
  ASSUME NEW d \in Device, NEW e \in Device, d # e
  PROVE  Mine(d) # Mine(e)
BY DEF Mine

LEMMA OffOK == Off \in AgentRec /\ Off.at = "off"
BY EdgeAssumption DEF Off, AgentRec, Busy

\* The job in hand is given up or completed and the loop is idle, or stops.
LEMMA AgentLetsGo ==
  ASSUME AgentInv, IInv', NEW d \in Device, agent[d].at \in Busy,
         Hears(d, Idles(d)), minted' = minted, live' = live,
         owner'[agent[d].job] # Mine(d) \/ lease'[agent[d].job] # "live" \/ Mine(d) \notin live,
         <<agent[d].job, Mine(d)>> \in results' =>
             status'[agent[d].job] = "completed" /\ owner'[agent[d].job] = Mine(d),
         owner[agent[d].job] = Mine(d) \/ UNCHANGED <<status, owner, lease, results>>,
         owner'[agent[d].job] \in {owner[agent[d].job], NoSession},
         \A k \in Job \ {agent[d].job} : UNCHANGED <<status[k], owner[k], lease[k]>>,
         \A k \in Job, s \in Session : <<k, s>> \in results' =>
             <<k, s>> \in results \/ (k = agent[d].job /\ s = Mine(d) /\ s \in live)
  PROVE  AgentInv'
<1> DEFINE j == agent[d].job
           idle == [[agent[d] EXCEPT !.at = "idle"] EXCEPT !.job = 0]
<1>1. /\ Mine(d) \in Session /\ Mine(d) # NoSession /\ Mine(d)[1] = d /\ Mine(d)[2] = agent[d].n /\ j \in Job
      /\ agent[d].at # "off"
  BY MineOK DEF Busy
<1>2. agent[d] \in AgentRec
  BY DEF AgentInv
<1>3. idle \in AgentRec /\ idle.at = "idle" /\ idle.job = 0 /\ idle.n = agent[d].n
  <2>1. agent[d] \in [at : Busy \union {"off", "lost", "idle"}, n : 0 .. MaxSessions, job : 0 .. MaxJobs, due : BOOLEAN]
    BY <1>2 DEF AgentRec
  <2>2. 0 \in 0 .. MaxJobs
    BY EdgeAssumption
  <2>3. /\ idle \in [at : Busy \union {"off", "lost", "idle"}, n : 0 .. MaxSessions, job : 0 .. MaxJobs, due : BOOLEAN]
        /\ idle.at = "idle" /\ idle.job = 0 /\ idle.n = agent[d].n
    BY <2>1, <2>2
  <2>4. agent[d].n \in 1 .. MaxSessions
    BY <1>1, <1>2 DEF AgentRec
  <2>5. QED
    BY <2>3, <2>4 DEF AgentRec, Busy
<1>4. agent' = [agent EXCEPT ![d] = idle] \/ agent' = [agent EXCEPT ![d] = Off]
  BY DEF Hears, Idles, AgentInv
<1> HIDE DEF idle
<1>5. /\ agent' \in [Device -> AgentRec] /\ agent'[d] \in {idle, Off}
      /\ \A e \in Device \ {d} : agent'[e] = agent[e]
  BY <1>3, <1>4, OffOK DEF AgentInv
<1>6. SessionsMinted'
  <2>1. Mine(d) \in live => Mine(d)[2] <= minted[Mine(d)[1]]
    BY <1>1, EdgeAssumption DEF AgentInv, IInv, OnlyNewestSessionLive, TypeOK
  <2>2. \A k \in Job : owner'[k] # NoSession => owner'[k] = owner[k]
    OBVIOUS
  <2>3. QED
    BY <2>1, <2>2, <1>1 DEF AgentInv, SessionsMinted
<1>7. ASSUME NEW e \in Device \ {d}
      PROVE  Works(e)'
  <2>1. CASE agent[e].at = "off"
    BY <1>5, <2>1, KeepsWorking
  <2>2. CASE agent[e].at # "off"
    <3>1. Mine(e) # NoSession /\ Mine(e) \in Session /\ Mine(e) # Mine(d)
      BY <2>2, MineOK, MineApart
    <3>2. owner[j] = Mine(d) => owner'[j] # Mine(e) /\ owner[j] # Mine(e)
      BY <3>1
    <3>3. \A k \in Job : <<k, Mine(e)>> \in results' => <<k, Mine(e)>> \in results
      BY <3>1
    <3>4. ASSUME NEW k \in Job
          PROVE  /\ owner'[k] = Mine(e) => owner[k] = Mine(e)
                 /\ owner'[k] = Mine(e) /\ lease'[k] = "live" => lease[k] = "live"
                 /\ status[k] = "completed" /\ owner[k] = Mine(e) => status'[k] = "completed" /\ owner'[k] = Mine(e)
      <4>1. CASE k = j
        BY <3>2, <4>1
      <4>2. CASE k # j
        BY <4>2
      <4>3. QED
        BY <4>1, <4>2
    <3>5. QED
      BY <1>5, <3>3, <3>4, KeepsWorking
  <2>3. QED
    BY <2>1, <2>2
<1>8. Works(d)'
  <2>1. CASE agent'[d] = Off
    BY <2>1, OffOK DEF Works, Working, Busy
  <2>2. CASE agent'[d] = idle
    <3>1. Mine(d)' = Mine(d) /\ agent'[d].job = 0
      BY <1>3, <2>2 DEF Mine
    <3>2. Working(d)
      BY DEF Working
    <3>3. \A k \in Job : k # 0
      BY DEF Job
    <3>4. ASSUME NEW k \in Job, <<k, Mine(d)>> \in results'
          PROVE  status'[k] = "completed" /\ owner'[k] = Mine(d) /\ k # 0
      <4>1. CASE k = j
        BY <3>3, <3>4, <4>1
      <4>2. CASE k # j
        BY <1>1, <3>2, <3>3, <3>4, <4>2 DEF AgentInv, Works
      <4>3. QED
        BY <4>1, <4>2
    <3>5. ASSUME Mine(d) \in live, NEW k \in Job, owner'[k] = Mine(d), lease'[k] = "live"
          PROVE  FALSE
      <4>1. k # j
        BY <3>5
      <4>2. QED
        BY <3>2, <3>5, <4>1 DEF AgentInv, Works
    <3>6. QED
      BY <3>1, <3>4, <3>5 DEF Works
  <2>3. QED
    BY <1>5, <2>1, <2>2
<1>9. QED
  BY <1>5, <1>6, <1>7, <1>8 DEF AgentInv

\* A registration mints a session that no row names.
LEMMA AgentRegisters ==
  ASSUME AgentInv, NEW d \in Device, AgentRegister(d)
  PROVE  AgentInv'
<1> DEFINE n == minted[d] + 1
           r == [at |-> "idle", n |-> n, job |-> 0, due |-> At(d, "off")]
<1>1. IInv'
  BY DeviceStepPreservesInv DEF AgentRegister, DeviceNext, AgentInv
<1>2. minted[d] \in Nat /\ n \in 1 .. MaxSessions /\ 0 \in 0 .. MaxJobs
  BY EdgeAssumption DEF AgentRegister, RegisterDevice, AgentInv, IInv, TypeOK
<1>3. r \in AgentRec /\ r.at = "idle" /\ r.n = n /\ r.job = 0
  BY <1>2 DEF AgentRec, Busy, At
<1>4. agent' = [agent EXCEPT ![d] = r] \/ agent' = [agent EXCEPT ![d] = Off]
  BY DEF AgentRegister, Hears
<1>5. /\ minted' = [minted EXCEPT ![d] = n]
      /\ live' = {s \in live : s[1] # d} \union {<<d, n>>}
      /\ UNCHANGED <<status, owner, lease, results>>
  BY DEF AgentRegister, RegisterDevice, jobVars
<1> HIDE DEF r
<1>6. /\ agent' \in [Device -> AgentRec] /\ agent'[d] \in {r, Off}
      /\ \A e \in Device \ {d} : agent'[e] = agent[e]
  BY <1>3, <1>4, OffOK DEF AgentInv
<1>7. SessionsMinted'
  <2>1. \A e \in Device : minted[e] \in Nat /\ minted'[e] \in Nat /\ minted[e] <= minted'[e]
    BY <1>2, <1>5 DEF AgentInv, IInv, TypeOK
  <2>2. \A s \in Session : s[1] \in Device /\ s[2] \in Nat
    BY DEF Session
  <2>3. \A j \in Job : owner[j] # NoSession => owner[j] \in Session
    BY DEF AgentInv, IInv, TypeOK
  <2>4. \A s \in Session : s[2] <= minted[s[1]] => s[2] <= minted'[s[1]]
    <3> SUFFICES ASSUME NEW s \in Session, s[2] <= minted[s[1]]
                 PROVE  s[2] <= minted'[s[1]]
      OBVIOUS
    <3>1. s[1] \in Device /\ s[2] \in Nat
      BY <2>2
    <3>2. minted[s[1]] \in Nat /\ minted'[s[1]] \in Nat /\ minted[s[1]] <= minted'[s[1]]
      BY <2>1, <3>1
    <3>3. QED
      BY <3>1, <3>2
  <2>5. QED
    BY <1>5, <2>3, <2>4 DEF AgentInv, SessionsMinted
<1>8. ASSUME NEW e \in Device \ {d}
      PROVE  Works(e)'
  <2>1. Mine(e) \in live' => Mine(e) \in live
    BY <1>5 DEF Mine
  <2>2. QED
    BY <1>5, <1>6, <2>1, KeepsWorking
<1>9. Works(d)'
  <2>1. CASE agent'[d] = Off
    BY <2>1, OffOK DEF Works, Working, Busy
  <2>2. CASE agent'[d] = r
    <3>1. Mine(d)' = <<d, n>>
      BY <1>3, <2>2 DEF Mine
    <3>2. <<d, n>> \in Session /\ <<d, n>> # NoSession /\ ~ (<<d, n>>[2] <= minted[<<d, n>>[1]])
      BY <1>2, EdgeAssumption DEF Session
    <3>3. \A k \in Job : owner[k] # <<d, n>> /\ <<k, <<d, n>>>> \notin results
      BY <3>2 DEF AgentInv, SessionsMinted
    <3>4. QED
      BY <1>5, <3>1, <3>3 DEF Works
  <2>3. QED
    BY <1>6, <2>1, <2>2
<1>10. QED
  BY <1>1, <1>6, <1>7, <1>8, <1>9 DEF AgentInv

\* A pull, by an idle agent, leases it a job it has no result for.
LEMMA AgentPulls ==
  ASSUME AgentInv, NEW d \in Device, NEW j \in Job, AgentPull(d, j)
  PROVE  AgentInv'
<1> DEFINE r == [[agent[d] EXCEPT !.at = "pulled"] EXCEPT !.job = j]
<1>1. /\ Mine(d) \in Session /\ Mine(d) # NoSession /\ Mine(d)[1] = d /\ Mine(d)[2] = agent[d].n
      /\ agent[d].at = "idle"
  BY MineOK DEF AgentPull, At
<1>2. IInv'
  BY <1>1, LeasePreservesInv DEF AgentPull, AgentInv
<1>3. agent[d] \in AgentRec /\ agent[d].job = 0 /\ agent[d].n \in 1 .. MaxSessions
  BY <1>1 DEF AgentInv, AgentRec
<1>4. r \in AgentRec /\ r.at = "pulled" /\ r.n = agent[d].n /\ r.job = j
  <2>1. agent[d] \in [at : Busy \union {"off", "lost", "idle"}, n : 0 .. MaxSessions, job : 0 .. MaxJobs, due : BOOLEAN]
    BY <1>3 DEF AgentRec
  <2>2. j \in 0 .. MaxJobs /\ "pulled" \in Busy
    BY EdgeAssumption DEF Job, Busy
  <2>3. /\ r \in [at : Busy \union {"off", "lost", "idle"}, n : 0 .. MaxSessions, job : 0 .. MaxJobs, due : BOOLEAN]
        /\ r.at = "pulled" /\ r.job = j /\ r.n = agent[d].n
    BY <2>1, <2>2
  <2>4. QED
    BY <1>3, <2>3 DEF AgentRec
<1>5. agent' = [agent EXCEPT ![d] = r] \/ agent' = [agent EXCEPT ![d] = Off]
  BY DEF AgentPull, Hears, AgentInv
<1> HIDE DEF r
<1>6. /\ agent' \in [Device -> AgentRec] /\ agent'[d] \in {r, Off}
      /\ \A e \in Device \ {d} : agent'[e] = agent[e]
  BY <1>4, <1>5, OffOK DEF AgentInv
<1>7. /\ status[j] = "queued" /\ Mine(d) \in live
      /\ status' = [status EXCEPT ![j] = "leased"] /\ owner' = [owner EXCEPT ![j] = Mine(d)]
      /\ lease' = [lease EXCEPT ![j] = "live"]
      /\ UNCHANGED <<minted, live, results>>
  BY DEF AgentPull, LeaseNextJob, Candidates
<1>8. /\ owner'[j] = Mine(d)
      /\ \A k \in Job \ {j} : UNCHANGED <<status[k], owner[k], lease[k]>>
  BY <1>7 DEF AgentInv, IInv, TypeOK
<1>9. SessionsMinted'
  <2>1. Mine(d)[2] <= minted[Mine(d)[1]]
    BY <1>1, <1>7, EdgeAssumption DEF AgentInv, IInv, OnlyNewestSessionLive, TypeOK
  <2>2. QED
    BY <1>7, <1>8, <2>1 DEF AgentInv, SessionsMinted
<1>10. ASSUME NEW e \in Device \ {d}
       PROVE  Works(e)'
  <2>1. Mine(e) # Mine(d)
    BY MineApart
  <2>2. ASSUME NEW k \in Job
        PROVE  /\ owner'[k] = Mine(e) => owner[k] = Mine(e)
               /\ owner'[k] = Mine(e) /\ lease'[k] = "live" => lease[k] = "live"
               /\ status[k] = "completed" /\ owner[k] = Mine(e) => status'[k] = "completed" /\ owner'[k] = Mine(e)
    <3>1. CASE k = j
      BY <1>7, <1>8, <2>1, <3>1
    <3>2. CASE k # j
      BY <1>8, <3>2
    <3>3. QED
      BY <3>1, <3>2
  <2>3. QED
    BY <1>6, <1>7, <2>2, KeepsWorking
<1>11. Works(d)'
  <2>1. CASE agent'[d] = Off
    BY <2>1, OffOK DEF Works, Working, Busy
  <2>2. CASE agent'[d] = r
    <3>1. Mine(d)' = Mine(d) /\ agent'[d].job = j
      BY <1>4, <2>2 DEF Mine
    <3>2. Working(d) /\ \A k \in Job : k # 0
      BY <1>1 DEF Working, Job
    <3>3. ASSUME NEW k \in Job, <<k, Mine(d)>> \in results
          PROVE  k # j /\ status'[k] = "completed" /\ owner'[k] = Mine(d)
      <4>1. status[k] = "completed" /\ owner[k] = Mine(d)
        BY <3>2, <3>3 DEF AgentInv, Works
      <4>2. QED
        BY <1>7, <1>8, <4>1
    <3>4. ASSUME NEW k \in Job, k # j, owner'[k] = Mine(d), lease'[k] = "live"
          PROVE  FALSE
      BY <1>3, <1>7, <1>8, <3>2, <3>4 DEF AgentInv, Works
    <3>5. QED
      BY <1>7, <3>1, <3>3, <3>4 DEF Works
  <2>3. QED
    BY <1>6, <2>1, <2>2
<1>12. QED
  BY <1>2, <1>6, <1>9, <1>10, <1>11 DEF AgentInv

\* The answer to an upload leaves the agent idle, and its job without a live
\* lease: the result is stored, the payload rejected, or the upload refused, and
\* an upload on a live lease of the active session is never refused.
LEMMA AgentUploads ==
  ASSUME AgentInv, NEW d \in Device, AgentUpload(d)
  PROVE  AgentInv'
<1> DEFINE j == agent[d].job
<1>1. /\ Mine(d) \in Session /\ Mine(d) # NoSession /\ Mine(d) # CpuRunner /\ j \in Job
      /\ agent[d].at \in Busy /\ Working(d)
  BY MineOK DEF AgentUpload, At, Busy, Working
<1>2. Hears(d, Idles(d))
  BY DEF AgentUpload
<1>3. CASE UploadResult(Mine(d), j)
  <2>1. IInv'
    BY <1>1, <1>3, UploadPreservesInv DEF AgentInv
  <2>2. /\ owner[j] = Mine(d) /\ Mine(d) \in live
        /\ results' = results \union {<<j, Mine(d)>>}
        /\ status' = [status EXCEPT ![j] = "completed"] /\ lease' = [lease EXCEPT ![j] = "none"]
        /\ UNCHANGED <<minted, live, owner>>
    BY <1>3 DEF UploadResult, MayUpload
  <2>3. status'[j] = "completed" /\ lease'[j] = "none"
        /\ \A k \in Job \ {j} : UNCHANGED <<status[k], owner[k], lease[k]>>
    BY <1>1, <2>2 DEF AgentInv, IInv, TypeOK
  <2>4. QED
    BY <1>1, <1>2, <2>1, <2>2, <2>3, AgentLetsGo
<1>4. CASE RejectPayload(Mine(d), j)
  <2>1. IInv'
    BY <1>1, <1>4, JobStepPreservesInv DEF AgentInv, JobNext
  <2>2. /\ owner[j] = Mine(d) /\ Mine(d) \in live /\ <<j, Mine(d)>> \notin results
        /\ ReleaseAll({j}) /\ status' = [status EXCEPT ![j] = "manual_review"]
        /\ UNCHANGED <<minted, live, results>>
    BY <1>4 DEF RejectPayload, MayUpload
  <2>3. owner'[j] = NoSession /\ \A k \in Job \ {j} : UNCHANGED <<status[k], owner[k], lease[k]>>
    BY <1>1, <2>2 DEF ReleaseAll, AgentInv, IInv, TypeOK
  <2>4. QED
    BY <1>1, <1>2, <2>1, <2>2, <2>3, AgentLetsGo
<1>5. CASE ~ MayUpload(Mine(d), j) /\ UNCHANGED vars
  <2>1. UNCHANGED <<minted, live, status, owner, lease, results>>
    BY <1>5 DEF vars, devVars, jobVars
  <2>2. IInv'
    BY <1>5, StepPreservesInv DEF AgentInv
  <2>3. <<j, Mine(d)>> \in results => status[j] = "completed" /\ owner[j] = Mine(d)
    BY <1>1 DEF AgentInv, Works
  <2>4. owner[j] # Mine(d) \/ lease[j] # "live" \/ Mine(d) \notin live
    <3> SUFFICES ASSUME owner[j] = Mine(d), lease[j] = "live", Mine(d) \in live
                 PROVE  FALSE
      OBVIOUS
    <3>1. status[j] \in LeasedStates
      BY <1>1 DEF AgentInv, IInv, LeaseMatchesStatus
    <3>2. <<j, Mine(d)>> \notin results
      BY <2>3, <3>1 DEF LeasedStates
    <3>3. QED
      BY <1>5, <3>1, <3>2 DEF MayUpload, LeasedStates, Terminal
  <2>5. QED
    BY <1>1, <1>2, <2>1, <2>2, <2>3, <2>4, AgentLetsGo
<1>6. QED
  BY <1>3, <1>4, <1>5 DEF AgentUpload

\* So does the answer to a reported failure.
LEMMA AgentFails ==
  ASSUME AgentInv, NEW d \in Device, NEW permanent \in BOOLEAN, AgentFail(d, permanent)
  PROVE  AgentInv'
<1> DEFINE j == agent[d].job
<1>1. /\ Mine(d) \in Session /\ Mine(d) # NoSession /\ Mine(d) # CpuRunner /\ j \in Job
      /\ agent[d].at \in Busy /\ Working(d)
  BY MineOK DEF AgentFail, At, Busy, Working
<1>2. Hears(d, Idles(d)) /\ (<<j, Mine(d)>> \notin results)
  BY <1>1 DEF AgentFail, AgentInv, Works
<1>3. CASE FailJob(Mine(d), j, permanent)
  <2>1. IInv'
    BY <1>1, <1>3, JobStepPreservesInv DEF AgentInv, JobNext
  <2>2. owner[j] = Mine(d) /\ RequeueOrEscalate({j}, permanent)
    BY <1>3 DEF FailJob
  <2>3. /\ owner'[j] = NoSession /\ \A k \in Job \ {j} : UNCHANGED <<status[k], owner[k], lease[k]>>
        /\ UNCHANGED <<minted, live>>
    BY <1>1, <2>2 DEF RequeueOrEscalate, ReleaseAll
  <2>4. \A k \in Job, s \in Session : <<k, s>> \in results' => <<k, s>> \in results
    <3>1. \A s \in Session : s # CpuRunner
      BY EdgeAssumption
    <3>2. QED
      BY <2>2, <3>1 DEF RequeueOrEscalate
  <2>5. <<j, Mine(d)>> \notin results'
    BY <1>1, <1>2, <2>4
  <2>6. QED
    BY <1>1, <1>2, <2>1, <2>2, <2>3, <2>4, <2>5, AgentLetsGo
<1>4. CASE owner[j] # Mine(d) /\ UNCHANGED vars
  <2>1. UNCHANGED <<minted, live, status, owner, lease, results>>
    BY <1>4 DEF vars, devVars, jobVars
  <2>2. IInv'
    BY <1>4, StepPreservesInv DEF AgentInv
  <2>3. QED
    BY <1>1, <1>2, <1>4, <2>1, <2>2, AgentLetsGo
<1>5. QED
  BY <1>3, <1>4 DEF AgentFail

\* The other steps of the loop move it on with the job in hand.
LEMMA AgentElse ==
  ASSUME AgentInv, NEW d \in Device,
         \/ BeatDue(d) \/ HeartbeatRefused(d) \/ HeartbeatFails(d) \/ AgentStart(d) \/ AgentDies(d)
         \/ \E b \in BOOLEAN : AgentHeartbeat(d, b)
         \/ \E what \in {"output", "failure"} : AgentRuns(d, what)
  PROVE  AgentInv'
<1> DEFINE a == agent[d]
<1>1. a \in AgentRec /\ a.at # "off"
  BY OffOK DEF AgentInv, BeatDue, HeartbeatRefused, HeartbeatFails, AgentStart, AgentDies, AgentHeartbeat, AgentRuns, At
<1>2. Mine(d) \in Session /\ Mine(d) # NoSession /\ (a.at \in Busy => a.job \in Job)
  BY <1>1, MineOK
<1>3. UNCHANGED vars => RowsKept /\ IInv'
  BY StepPreservesInv DEF AgentInv, vars, devVars, jobVars, RowsKept
<1>4. RowsKept /\ IInv'
  <2>1. ASSUME NEW b \in BOOLEAN, AgentHeartbeat(d, b)
        PROVE  RowsKept /\ IInv'
    <3>1. Mine(d) \in live /\ Heartbeat(Mine(d), 0, b, FALSE)
      BY <2>1 DEF AgentHeartbeat, Heartbeat
    <3>2. QED
      BY <3>1, HeartbeatPreservesInv DEF AgentInv, Heartbeat, jobVars, RowsKept
  <2>2. ASSUME MarkStarted(Mine(d), a.job), At(d, "pulled")
        PROVE  RowsKept /\ IInv'
    <3>1. a.job \in Job
      BY <1>2, <2>2 DEF At, Busy
    <3>2. IInv'
      BY <1>2, <2>2, <3>1, StartPreservesInv DEF AgentInv
    <3>3. QED
      BY <2>2, <3>1, <3>2 DEF MarkStarted, devVars, RowsKept, AgentInv, IInv, TypeOK
  <2>3. QED
    BY <1>3, <2>1, <2>2 DEF BeatDue, HeartbeatRefused, HeartbeatFails, AgentStart, AgentDies, AgentRuns
<1>5. PICK r \in AgentRec :
         /\ agent' = [agent EXCEPT ![d] = r]
         /\ \/ r.at \in {"off", "lost"}
            \/ Working(d) /\ r.n = a.n /\ r.job = a.job
  <2> DEFINE ok(r) == /\ r \in AgentRec
                      /\ r.at \in {"off", "lost"} \/ (Working(d) /\ r.n = a.n /\ r.job = a.job)
  <2>1. ok([a EXCEPT !.due = TRUE]) /\ ok([a EXCEPT !.due = FALSE])
    BY <1>1 DEF AgentRec, Working
  <2>2. ASSUME a.at = "idle"
        PROVE  ok([a EXCEPT !.at = "lost"])
    BY <1>1, <2>2 DEF AgentRec, Busy
  <2>3. ASSUME NEW where \in Busy, a.at \in Busy
        PROVE  ok([a EXCEPT !.at = where])
    BY <1>1, <2>3 DEF AgentRec, Busy, Working
  <2>4. ok(Off)
    BY OffOK
  <2>5. \E r : ok(r) /\ agent' = [agent EXCEPT ![d] = r]
    <3>1. CASE BeatDue(d)
      BY <2>1, <3>1 DEF BeatDue, AgentInv
    <3>2. CASE HeartbeatRefused(d)
      BY <2>1, <3>2 DEF HeartbeatRefused, Beats, AgentInv
    <3>3. CASE HeartbeatFails(d)
      BY <2>2, <3>3 DEF HeartbeatFails, Goes, At, AgentInv
    <3>4. CASE AgentStart(d)
      <4>1. a.at = "pulled" /\ (agent' = Goes(d, "running") \/ agent' = [agent EXCEPT ![d] = Off])
        BY <3>4 DEF AgentStart, Hears, At
      <4>2. ok([a EXCEPT !.at = "running"])
        BY <2>3, <4>1 DEF Busy
      <4>3. QED
        BY <2>4, <4>1, <4>2 DEF Goes, AgentInv
    <3>5. CASE AgentDies(d)
      BY <2>4, <3>5 DEF AgentDies
    <3>6. ASSUME NEW b \in BOOLEAN, AgentHeartbeat(d, b)
          PROVE  \E r : ok(r) /\ agent' = [agent EXCEPT ![d] = r]
      BY <2>1, <2>2, <3>6 DEF AgentHeartbeat, Beats, Goes, At, AgentInv
    <3>7. ASSUME NEW what \in {"output", "failure"}, AgentRuns(d, what)
          PROVE  \E r : ok(r) /\ agent' = [agent EXCEPT ![d] = r]
      <4>1. a.at = "running" /\ agent' = Goes(d, what)
        BY <3>7 DEF AgentRuns, At
      <4>2. ok([a EXCEPT !.at = what])
        BY <2>3, <4>1 DEF Busy
      <4>3. QED
        BY <4>1, <4>2 DEF Goes, AgentInv
    <3>8. QED
      BY <3>1, <3>2, <3>3, <3>4, <3>5, <3>6, <3>7
  <2>6. QED
    BY <2>5
<1>6. QED
  BY <1>4, <1>5, AgentMoves

LEMMA AgentInitially == AgentInit => AgentInv
<1> SUFFICES ASSUME AgentInit
             PROVE  AgentInv
  OBVIOUS
<1>1. IInv
  BY InitEstablishesInv DEF AgentInit
<1>2. agent \in [Device -> AgentRec] /\ \A d \in Device : agent[d].at = "off"
  BY OffOK DEF AgentInit
<1>3. SessionsMinted
  BY DEF AgentInit, Init, SessionsMinted
<1>4. QED
  BY <1>1, <1>2, <1>3 DEF AgentInv, Works, Working, Busy

LEMMA AgentStep ==
  ASSUME AgentInv, [AgentNext]_agentVars
  PROVE  AgentInv'
<1>1. ASSUME RowsKept, IInv', UNCHANGED agent
      PROVE  AgentInv'
  <2>1. \A e \in Device : Works(e)'
    BY <1>1, RowsKeepWorking
  <2>2. QED
    BY <1>1, <2>1, RowsKeepMinted DEF AgentInv
<1>2. CASE ServiceNext /\ UNCHANGED agent
  BY <1>1, <1>2, ServiceKeepsRows DEF AgentInv
<1>3. CASE UNCHANGED agentVars
  <2>1. UNCHANGED vars /\ UNCHANGED agent
    BY <1>3 DEF agentVars
  <2>2. IInv'
    BY <2>1, StepPreservesInv DEF AgentInv
  <2>3. RowsKept
    BY <2>1 DEF vars, devVars, jobVars, RowsKept
  <2>4. QED
    BY <1>1, <2>1, <2>2, <2>3
<1>4. QED
  BY <1>2, <1>3, AgentRegisters, AgentPulls, AgentUploads, AgentFails, AgentElse DEF AgentNext

\* While the agent of the active session runs, a live lease of that session is on
\* the job it works on: lost answers, refusals, cancellations, reconnects and
\* restarts leave no job with an agent that has forgotten it.
THEOREM LeaseWorkedOn == AgentSpec => []LeaseIsWorkedOn
<1>1. AgentInv => LeaseIsWorkedOn
  <2> SUFFICES ASSUME AgentInv, NEW d \in Device, NEW j \in Job, ~At(d, "off"), ~At(d, "lost"),
                      Mine(d) \in live, owner[j] = Mine(d), lease[j] = "live"
               PROVE  agent[d].job = j
    BY DEF LeaseIsWorkedOn
  <2>1. agent[d] \in AgentRec
    BY DEF AgentInv
  <2>2. Working(d)
    BY <2>1 DEF AgentRec, At, Working
  <2>3. QED
    BY <2>2 DEF AgentInv, Works
<1>2. QED
  BY AgentInitially, AgentStep, <1>1, PTL DEF AgentSpec

=============================================================================
