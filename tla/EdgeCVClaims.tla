---------------------------- MODULE EdgeCVClaims ----------------------------
(***************************************************************************)
(* What the comments and documents of the edge-CV subsystem say, and the   *)
(* code does not keep: TLC refutes each on the instance of the reconnect   *)
(* run or of the stranded run; README.md tells the counterexamples.        *)
(***************************************************************************)
EXTENDS EdgeCV

\* constants.py:91, "Terminal job states -- no further transitions expected".
\* fail_job checks the lease owner and not the status, and a completed job
\* keeps its owner.
TerminalIsFinal ==
  [][\A j \in Job : status[j] \in Terminal => status'[j] = status[j]]_vars

\* dispatcher.py:282, lease_next_job_for_device "enforces capacity": the
\* active session of a device never holds more leases than its capacity.
\* Releasing a lease of an earlier session frees a slot of the current one.
CapacityRespected ==
  \A d \in Device :
    Cardinality({j \in Job : /\ status[j] \in LeasedStates
                             /\ owner[j] \in live
                             /\ owner[j][1] = d}) <= Capacity[d]

\* dispatcher.py:357, "Stale session / wrong device -- never mutate current
\* state": while the lease of a superseded session runs, its job only leaves
\* its state by an operator's cancellation.  mark_started and fail_job accept
\* the superseded session.
SupersededLeaseIsFrozen ==
  [][\A j \in Job :
       /\ owner[j] # NoSession /\ owner[j] \notin live
       /\ lease[j] = "live"
       => status'[j] \in {status[j], "cancelled"}]_vars

\* docs/edge-cv-architecture.md:25, "No workflow ever freezes because Jetson
\* is offline": a job does not wait for ever with no device able to take it.
\* dispatch_job runs at creation and after a failure, never again for a job
\* left queued for a device that then goes away.
NoJobFrozen ==
  \A j \in Job : ~ <>[](/\ status[j] = "queued"
                        /\ ~ HasCapableDevice(task[j], devStatus, load))

\* service.py:295, enable_device "must re-register to come online", and
\* constants.py:43, where offline leads only to registering and maintenance.
\* disable_device and enable_device leave the session active, so its next
\* heartbeat brings the device back.
OfflineUntilRegistered ==
  [][\A d \in Device :
       devStatus[d] = "offline" /\ devStatus'[d] \in Dispatchable \union {"busy"}
       => minted'[d] = minted[d] + 1]_vars
=============================================================================
