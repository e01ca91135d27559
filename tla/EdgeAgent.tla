----------------------------- MODULE EdgeAgent -----------------------------
(* The edge agent (edge_cv_agent/app) at work against the service of EdgeCV: a
   loop of one thread that registers, heartbeats between jobs, pulls a job and
   sees it through.  Its steps are the requests it sends, each with the step of
   the service that answers it.  A request that fails in transport, before or
   after it was served, ends the process, except where the loop catches it. *)
EXTENDS EdgeCV

VARIABLE agent   \* of each device: where its loop is, its session number, its job, and
                 \* whether a heartbeat is due

agentVars == <<vars, agent>>

Off == [at |-> "off", n |-> 0, job |-> 0, due |-> FALSE]
Mine(d) == <<d, agent[d].n>>
At(d, where) == agent[d].at = where
Goes(d, where) == [agent EXCEPT ![d].at = where]
Idles(d) == [agent EXCEPT ![d].at = "idle", ![d].job = 0]

\* the answer arrives and the loop goes on, or it is lost and the process dies
Hears(d, next) == agent' \in {next, [agent EXCEPT ![d] = Off]}

AgentInit == Init /\ agent = [d \in Device |-> Off]

----------------------------------------------------------------------------
\* run_forever starts, or a heartbeat failed in transport
AgentRegister(d) ==
    /\ At(d, "off") \/ At(d, "lost")
    /\ RegisterDevice(d)
    /\ Hears(d, [agent EXCEPT ![d] = [at |-> "idle", n |-> minted[d] + 1, job |-> 0, due |-> At(d, "off")]])

\* heartbeat_interval_seconds pass
BeatDue(d) ==
    /\ ~At(d, "off") /\ ~agent[d].due
    /\ agent' = [agent EXCEPT ![d].due = TRUE]
    /\ UNCHANGED vars

Beats(d) == [agent EXCEPT ![d].due = FALSE]

\* between two jobs the active count is always 0; a lost answer is caught
AgentHeartbeat(d, pressure) ==
    /\ At(d, "idle") /\ agent[d].due
    /\ Heartbeat(Mine(d), 0, pressure, FALSE)
    /\ agent' \in {Beats(d), Goes(d, "lost")}

\* the refusal of a session is an answer like any other: send_heartbeat does not
\* look at the status
HeartbeatRefused(d) ==
    /\ At(d, "idle") /\ agent[d].due /\ Mine(d) \notin live
    /\ agent' = Beats(d)
    /\ UNCHANGED vars

HeartbeatFails(d) ==
    /\ At(d, "idle") /\ agent[d].due
    /\ agent' = Goes(d, "lost")
    /\ UNCHANGED vars

\* no job, or a refusal, has the loop sleep and come back
AgentPull(d, j) ==
    /\ At(d, "idle")
    /\ LeaseNextJob(Mine(d), j)
    /\ Hears(d, [agent EXCEPT ![d].at = "pulled", ![d].job = j])

\* Mutant: a job that could not be started is dropped for the next one.
AgentStartOrSkip(d) ==
    LET j == agent[d].job IN
    /\ At(d, "pulled")
    /\ \/ MarkStarted(Mine(d), j) /\ Hears(d, Goes(d, "running"))
       \/ UNCHANGED vars /\ Hears(d, Idles(d))

\* mark_started, whatever the service answers
AgentStart(d) ==
    LET j == agent[d].job IN
    /\ At(d, "pulled")
    /\ \/ MarkStarted(Mine(d), j)
       \/ ~(owner[j] = Mine(d) /\ status[j] = "leased") /\ UNCHANGED vars
    /\ Hears(d, Goes(d, "running"))

\* the pipeline has an output or fails
AgentRuns(d, what) ==
    /\ At(d, "running")
    /\ agent' = Goes(d, what)
    /\ UNCHANGED vars

\* the result is accepted, refused as malformed, or refused
AgentUpload(d) ==
    LET j == agent[d].job IN
    /\ At(d, "output")
    /\ \/ UploadResult(Mine(d), j) \/ RejectPayload(Mine(d), j)
       \/ ~MayUpload(Mine(d), j) /\ UNCHANGED vars
    /\ Hears(d, Idles(d))

AgentFail(d, permanent) ==
    LET j == agent[d].job IN
    /\ At(d, "failure")
    /\ \/ FailJob(Mine(d), j, permanent)
       \/ owner[j] # Mine(d) /\ UNCHANGED vars
    /\ Hears(d, Idles(d))

AgentDies(d) ==
    /\ ~At(d, "off")
    /\ agent' = [agent EXCEPT ![d] = Off]
    /\ UNCHANGED vars

----------------------------------------------------------------------------
\* what the agents leave to others: operators, the sweeps and the clock
ServiceNext ==
    \/ \E t \in Tasks, p \in Priorities : CreateJob(t, p)
    \/ \E j \in Job : CancelJob(j)
    \/ \E d \in Device : DisableDevice(d) \/ EnableDevice(d)
    \/ Sweeps \/ Time

AgentNext ==
    \/ ServiceNext /\ UNCHANGED agent
    \/ \E d \in Device :
        \/ AgentRegister(d) \/ BeatDue(d) \/ HeartbeatRefused(d) \/ HeartbeatFails(d)
        \/ AgentStart(d) \/ AgentUpload(d) \/ AgentDies(d)
        \/ \E b \in BOOLEAN : AgentHeartbeat(d, b) \/ AgentFail(d, b)
        \/ \E j \in Job : AgentPull(d, j)
        \/ \E what \in {"output", "failure"} : AgentRuns(d, what)

\* the loop of a live agent goes on, and one that stopped is started again
AgentFairness ==
    \A d \in Device :
        /\ WF_agentVars(AgentRegister(d)) /\ WF_agentVars(AgentStart(d)) /\ WF_agentVars(AgentUpload(d))
        /\ WF_agentVars(BeatDue(d))
        /\ WF_agentVars(HeartbeatRefused(d) \/ \E b \in BOOLEAN : AgentHeartbeat(d, b))
        /\ WF_agentVars(\E b \in BOOLEAN : AgentFail(d, b))
        /\ WF_agentVars(\E what \in {"output", "failure"} : AgentRuns(d, what))

AgentSpec == AgentInit /\ [][AgentNext]_agentVars /\ AgentFairness

----------------------------------------------------------------------------
(* Properties *)
\* job_runner.py, "the agent never leaves a job silently stuck": while the agent of
\* the active session runs, a live lease of that session is on the job it works on,
\* through lost answers, refusals, cancellations, reconnects and restarts.
LeaseIsWorkedOn ==
    \A d \in Device, j \in Job :
        ~At(d, "off") /\ ~At(d, "lost") /\ Mine(d) \in live
        /\ owner[j] = Mine(d) /\ lease[j] = "live" => agent[d].job = j

\* edge_cv_agent/app/main.py:67, "session lost -> re-register (hot-plug safe)".
SessionIsRegained ==
    \A d \in Device : At(d, "idle") /\ Mine(d) \notin live 
            ~> At(d, "off") \/ At(d, "lost") \/ Mine(d) \in live
=============================================================================
