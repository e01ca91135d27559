------------------------------ MODULE PadCloud ------------------------------
(* Inspections on the Pad (apps/android-qc): a photo becomes one cloud job,
   submitted once or twice while the operator waits and queued on disk when no
   answer came; the runtime monitor polls the cloud and takes the queued jobs up
   again under their own idempotency key.

   Requests and answers may be lost or late, the operator may leave the screen,
   and the app may die at any step.  A photo names its job. *)
EXTENDS NetworkPolicy

CONSTANT Photo

VARIABLES
    view,       \* what became of the inspection of each photo
    pending,    \* jobs in operator_cloud_pending
    due,        \* those of them whose next_retry_at has passed
    recovered,  \* jobs in operator_cloud_recovered
    mon,        \* what the monitor does: Idle, or the job it reconciles and how
    cloud       \* the cloud's job of each key, as its client sees it

padVars == <<view, pending, due, recovered, mon, cloud>>
cloudVars == <<netVars, padVars>>

Idle == [at |-> "idle"]
Verdict == {"pass", "fail", "review_required"}

PadCloudInit ==
    /\ NetInit
    /\ view = [p \in Photo |-> "none"]
    /\ pending = {} /\ due = {} /\ recovered = {}
    /\ mon = Idle
    /\ cloud = [p \in Photo |-> "none"]

----------------------------------------------------------------------------
(* The cloud, external: one run of the model for each key *)
Arrive(p) == cloud' = [cloud EXCEPT ![p] = IF @ = "none" THEN "processing" ELSE @]

CloudWork(p) ==
    /\ cloud[p] = "processing"
    /\ \E v \in Verdict \union {"failed"} : cloud' = [cloud EXCEPT ![p] = v]
    /\ UNCHANGED <<netVars, view, pending, due, recovered, mon>>

----------------------------------------------------------------------------
(* An inspection *)
Sending(p) == view[p] \in {"sending", "resending"}
Shows(p, what) == view' = [view EXCEPT ![p] = what]

\* CloudPendingJobStore.enqueue: retried in 30 s
Queue(p) == pending' = pending \union {p} /\ UNCHANGED due

\* Mutant: the failing beginJob is inside the try, whose finally ends the job.
InspectBusyEnds(p) ==
    /\ view[p] = "none" /\ active # Free
    /\ Shows(p, "CLOUD_ERROR")
    /\ EndJob
    /\ UNCHANGED <<pending, due, recovered, mon, cloud>>

\* beginJob fails outside the try of inspect while another job holds the network
InspectBusy(p) ==
    /\ view[p] = "none" /\ active # Free
    /\ Shows(p, "CLOUD_ERROR")
    /\ UNCHANGED <<netVars, pending, due, recovered, mon, cloud>>

InspectOffline(p) ==
    /\ view[p] = "none" /\ active = Free /\ selected = "none"
    /\ Queue(p) /\ Shows(p, "PENDING_UPLOAD")
    /\ EndJob
    /\ UNCHANGED <<recovered, mon, cloud>>

Inspect(p) ==
    /\ view[p] = "none" /\ selected # "none"
    /\ BeginJob
    /\ Shows(p, "sending")
    /\ UNCHANGED <<pending, due, recovered, mon, cloud>>

SubmitArrives(p) ==
    /\ Sending(p) /\ cloud[p] = "none"
    /\ Arrive(p)
    /\ UNCHANGED <<netVars, view, pending, due, recovered, mon>>

\* a Completed answer, and the verdict the coordinator makes of it
Answered(p) ==
    /\ Sending(p) /\ cloud[p] \in Verdict
    /\ Shows(p, CASE cloud[p] = "pass" -> "ACCEPTED"
                  [] cloud[p] = "fail" -> "NOT_ACCEPTED"
                  [] cloud[p] = "review_required" -> "review_required")
    /\ EndJob
    /\ UNCHANGED <<pending, due, recovered, mon, cloud>>

\* Mutant: the job is queued before it is tried again.
RetryQueued(p) ==
    /\ view[p] = "sending"
    /\ Shows(p, "resending") /\ Queue(p)
    /\ UNCHANGED <<netVars, recovered, mon, cloud>>

\* a Retryable answer, or none: one more try before the deadline, then the queue
Retry(p) ==
    /\ view[p] = "sending"
    /\ Shows(p, "resending")
    /\ UNCHANGED <<netVars, pending, due, recovered, mon, cloud>>

GiveUp(p) ==
    /\ Sending(p)
    /\ Queue(p) /\ Shows(p, "PENDING_UPLOAD")
    /\ EndJob
    /\ UNCHANGED <<recovered, mon, cloud>>

\* a Rejected answer
Refused(p) ==
    /\ Sending(p)
    /\ Shows(p, "CLOUD_ERROR")
    /\ EndJob
    /\ UNCHANGED <<pending, due, recovered, mon, cloud>>

\* the screen is left and its coroutines are cancelled
Leave(p) ==
    /\ Sending(p)
    /\ Shows(p, "left")
    /\ EndJob
    /\ UNCHANGED <<pending, due, recovered, mon, cloud>>

----------------------------------------------------------------------------
(* The monitor's poll and the reconciler *)
RetryDue(p) ==
    /\ p \in pending \ due
    /\ due' = due \union {p}
    /\ UNCHANGED <<netVars, view, pending, recovered, mon, cloud>>

\* refresh runs the due jobs when the cloud is reachable over some network
StartReconcile(p) ==
    /\ mon = Idle /\ p \in due /\ selected # "none"
    /\ mon' = [at |-> "get", of |-> p]
    /\ UNCHANGED <<netVars, view, pending, due, recovered, cloud>>

\* markRecovered
Recover(p) ==
    /\ recovered' = recovered \union {p}
    /\ pending' = pending \ {p} /\ due' = due \ {p}
    /\ mon' = Idle

\* reschedule
Reschedule(p) ==
    /\ due' = due \ {p} /\ mon' = Idle
    /\ UNCHANGED <<pending, recovered>>

Reconciling(p, what) == mon # Idle /\ mon.of = p /\ mon.at = what

Polled(p) ==
    /\ Reconciling(p, "get") \/ Reconciling(p, "post")
    /\ IF cloud[p] \in Verdict THEN Recover(p) ELSE cloud[p] # "none" /\ Reschedule(p)
    /\ UNCHANGED <<netVars, view, cloud>>

\* Mutant: a job the cloud does not know is only put off.
JobNotFoundPutOff(p) ==
    /\ Reconciling(p, "get") /\ cloud[p] = "none"
    /\ Reschedule(p)
    /\ UNCHANGED <<netVars, view, cloud>>

\* job_not_found: the job is submitted again under its key
JobNotFound(p) ==
    /\ Reconciling(p, "get") /\ cloud[p] = "none"
    /\ mon' = [at |-> "post", of |-> p]
    /\ UNCHANGED <<netVars, view, pending, due, recovered, cloud>>

ResubmitArrives(p) ==
    /\ Reconciling(p, "post") /\ cloud[p] = "none"
    /\ Arrive(p)
    /\ UNCHANGED <<netVars, view, pending, due, recovered, mon>>

\* no answer, or one that is not the result
ReconcileFails(p) ==
    /\ Reconciling(p, "get") \/ Reconciling(p, "post")
    /\ Reschedule(p)
    /\ UNCHANGED <<netVars, view, cloud>>

----------------------------------------------------------------------------
\* The app dies; the jobs on disk stay, and the one just written to recovered may
\* not have been removed from pending.
Crash ==
    /\ view' = [p \in Photo |-> IF Sending(p) THEN "left" ELSE view[p]]
    /\ mon' = Idle
    /\ recovered' \in {recovered} \union
           {recovered \union {p} : p \in {q \in pending : mon # Idle /\ mon.of = q /\ cloud[q] \in Verdict}}
    /\ wifi' = "down" /\ cell' = FALSE /\ since' = "none" /\ steady' = FALSE
    /\ selected' = "none" /\ active' = Free /\ deferred' = Free
    /\ UNCHANGED <<pending, due, cloud>>

Reading ==
    /\ \E w \in WifiReading, c \in CellReading : Observe(w, c)
    /\ UNCHANGED padVars

Waiting == Elapse /\ UNCHANGED padVars

PadCloudNext ==
    \/ Reading \/ Waiting \/ Crash
    \/ \E p \in Photo :
        \/ CloudWork(p)
        \/ InspectBusy(p) \/ InspectOffline(p) \/ Inspect(p)
        \/ SubmitArrives(p) \/ Answered(p) \/ Retry(p) \/ GiveUp(p) \/ Refused(p) \/ Leave(p)
        \/ RetryDue(p) \/ StartReconcile(p) \/ Polled(p) \/ JobNotFound(p)
        \/ ResubmitArrives(p) \/ ReconcileFails(p)

Polling(p) == Polled(p) \/ JobNotFound(p) \/ ReconcileFails(p)

\* The poll loop runs, a network comes back again and again, and of the requests
\* repeated for a job not every one is lost.
PadCloudFairness ==
    /\ WF_cloudVars(\E w \in WifiReading \ {"down"}, c \in CellReading : Observe(w, c) /\ UNCHANGED padVars)
    /\ \A p \in Photo :
           /\ WF_cloudVars(CloudWork(p)) /\ WF_cloudVars(RetryDue(p))
           /\ SF_cloudVars(StartReconcile(p)) /\ SF_cloudVars(ResubmitArrives(p))
           /\ WF_cloudVars(Polling(p))
           /\ SF_cloudVars(Polled(p)) /\ SF_cloudVars(JobNotFound(p))

PadCloudSpec == PadCloudInit /\ [][PadCloudNext]_cloudVars /\ PadCloudFairness

----------------------------------------------------------------------------
(* Properties *)
PadCloudTypeOK ==
    /\ view \in [Photo -> {"none", "sending", "resending", "PENDING_UPLOAD", "CLOUD_ERROR", "left",
                           "ACCEPTED", "NOT_ACCEPTED", "review_required"}]
    /\ due \subseteq pending /\ pending \subseteq Photo /\ recovered \subseteq Photo
    /\ mon = Idle \/ (mon.at \in {"get", "post"} /\ mon.of \in Photo)
    /\ cloud \in [Photo -> {"none", "processing", "failed"} \union Verdict]

\* A result the operator may decide on (OperatorResultReviewScreen blocks the
\* others) is not also a job on disk: it is never recovered as a second answer.
DecidedIsNotQueued ==
    \A p \in Photo : view[p] \in {"ACCEPTED", "NOT_ACCEPTED", "review_required"} =>
        p \notin pending \union recovered

\* pad-health-state.md, "no mid-job flapping": a job that is being submitted holds
\* the network, alone, and no switch is made before it ends.
JobHoldsNetwork ==
    /\ \A p, q \in Photo : Sending(p) /\ Sending(q) => p = q
    /\ \A p \in Photo : Sending(p) => active = selected

\* A queued job is retried until the cloud has given its result or failed it.
QueuedIsAnswered == \A p \in Photo : p \in pending ~> (p \in recovered \/ cloud[p] = "failed")
=============================================================================
