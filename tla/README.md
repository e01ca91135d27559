# Formal models of giraffe-qc-model

This directory holds TLA+ models of the parts of the quality-control system whose
correctness depends on the order of requests, commits, time-outs and crashes, or on
rules that decide what a pass may rest on; TLC configurations that check them on
small instances; and TLAPS proofs of the results that hold for every value of the
constants. Source paths below are relative to the repository root as it is unpacked
under `src/` (so `src/src/qc_model/...` is the package directory
`src/qc_model/...` of the repository).

## 1. The system

A manufacturer's standards (SKU, revision, detection points) are authored in a
studio with the help of models, trained, published as signed bundles and installed
on workstations. Jobs are inspected against a published revision; an AI suggests, a
human decides, and each revision stays *on probation* until AI and humans agreed
often enough. Training packs are learned from samples and documents and qualify for
assisted inspection. Vision work may be done by edge devices that come and go;
Android Pads and Jetson runners on the floor survive lost networks and restarts.

| Part | State it keeps | Operations | What makes it hard |
|---|---|---|---|
| Edge CV service (`qc_model/edge_cv/`) | devices, sessions, jobs with lease and retry count, results, captures | register, heartbeat, create, lease, start, upload, fail, cancel, sweep, fall back | lease expiry races a late result; a slot counter kept in three places; three commits per capture |
| Edge agent (`edge_cv_agent/`) | its session, its job, a camera's streak | register, poll, run, upload, track | one thread; lost answers |
| Probation (`qualification/probation.py`) | status, two counters, one row per job | start, record, pause, resume | counters incremented by concurrent requests; a gate at boundaries |
| Inspection jobs (`inspection/`, `api/pad_router.py`, `api/qc_inspection_router.py`) | report, results with their source, findings, AI suggestions | create, attach, ingest, submit, batch, vision, finalize | two clients with different rules share a job; a handler awaits between check and write |
| Pad's desk (`api/pad_router.py`, `pad/`, `inspection/workflow.py`) | sessions, workstation binding, chats, drafts | sign in, bind, chat, confirm, create a job | gates and creation read separately |
| Pre-analysis (`cv_preanalysis/`, `inspection/cv_pipeline.py`) | registrations, evidence files | register, crop, measure | photos change during a run |
| Server verdict (`verdict/`) | submission, server verdict, human decision | submit, decide inline, decide later | three commits per request, retries, crashes |
| Standards (`intake/`, `qc_model/studio/`, `training*.py`) | intake, revision, points, judgments, bundle | draft, confirm, reject, edit, train, publish | check-then-act across commits, crashes |
| Studio assistant (`studio/ai_gateway.py`, `qc_studio_router.py`) | drafts, photos, results | turn, import, upload, inspect | replies applied after an await; models that retype or contradict facts |
| Sources, learning, sample learning, authoring | documents, fragments, proposals, memory, rules | read, extract, propose, review, edit, apply | reviews of any status at any time; requests split by a provider call |
| Readiness, production, qualification, incidents | runs, reports, incidents, suspensions | gate, run, approve, confirm, lift | decisions validated before they commit |
| Digital inspector (`lifecycle.py`, `runner.py`, `finalizer.py`) | status, exam, feedback | move, examine, feed back, inspect | the status changes during an inspection |
| Legacy router and video (`qc_router.py`, `qwen/`, `video/`, `cv/`) | points, captures, runs, frames | edit, inspect, compare | points edited during a run; comparisons that fail |
| Bundles, workstations, Jetson boxes (`bundle/`, `jetson/`) | assignments, bindings | assign, report, bind, unpair | reports late or reordered |
| Jetson runner (`jetson_runner/`) | cache of answers, pairing | recognise, pair | threads of a pool; restarts |
| Android Pad (`apps/android-qc`) | network, queue on disk, outbox | submit, retry, reconcile, upload | lost and late answers, the app dies |

`PROJECT.json` lists all components, those not modelled included, with the reason
for each, and under "hazards" the places in the code the properties are aimed at.

Interactions. The Pad and the machine API share inspection jobs. Both the
inspection channel (through `probation_bridge.py`) and the verdict channel
(through `verdict/service.py`) call `record_probation_job`. Publishing a bundle
calls `start_probation`. The edge agents talk to the dispatcher over HTTP with
session tokens; a heartbeat, a lease, a release and a registration all write the
same slot counter. Learning proposals, sample memory and incidents meet in the
readiness evaluation that lets a production run through. Requests are served by a
thread pool, each with a database session of its own, and nothing locks a row or
checks a version column.

What correctness means, part by part:

* edge CV: only a live lease of a live session gets a result stored, retries are
  bounded, a capture tells its job, the agent works on what
  it holds;
* probation: a revision qualifies exactly at the first scheduled check its recorded
  pairs pass; no counter is ahead of the rows;
* inspection: a report stays explained by the job's results, what is recorded as
  the human verdict is the report's, a job stands behind its gates, a measurement
  is of the place it is said to be of;
* verdict: it is the documented table's, and a decision is counted once, as made;
* standards: one active revision per SKU, published only when trained; drafts
  follow what the administrator wrote, not what a model made of it;
* learning and production: what is applied is applied once; a pass inspected every
  rule that was in force; a mock provider's memory inspects nothing;
* incidents: a confirmed false pass suspends the scope until it is answered;
* inspector, legacy router and video: no pass without its evidence, whatever
  changes meanwhile;
* floor: a queued job is answered, a decided one is not queued, a recognition runs
  once, one runner per workstation.

## 2. The modules

| Module | Models | Role |
|---|---|---|
| `EdgeCV`, `EdgeCVClaims` | device service, dispatcher, results, CPU fallback | one action per handler or sweep; what the docs claim |
| `EdgeAgent` | the agent's loop and job runner | extends `EdgeCV`, its client |
| `LiveCapture` | the camera's tracker, `captures.py`, the commits of dispatch, lease and upload | detailed companion of `EdgeCV` |
| `Probation`, `ProbationTx` | `probation.py` | abstract steps; the same split into read and commit, implementing the former |
| `Inspection`, `InspectionClaims` | jobs, the endpoints of the Pad and the machine, the bridge | extends `ProbationTx`, drives it |
| `Verdict`, `VerdictClaims` | recomputation, submissions, decisions | extends `ProbationTx`, drives it |
| `RevisionLifecycle` | the life of a revision | abstract specification |
| `Standard` | intake, confirmation, editing, training, publication, split at commits | implements `RevisionLifecycle` |
| `Assistant` | rules of `ai_gateway.py` over what a model returns | operators |
| `Studio` | turns, imports, photos, the card, inspections of the studio | extends `Assistant` |
| `PadDesk` | the Pad's sessions, drafts, gates and jobs | |
| `Preanalysis` | registration, cropping, analyzers, evidence | |
| `Sources` | documents, extraction, proposed rules | |
| `Learning` | learning and authoring proposals | |
| `TrainingPack` | sample memory, readiness, production runs | extends `Learning` |
| `Scope` | qualification reports, incidents, suspensions | |
| `Inspector` | the digital inspector | |
| `LegacyQC`, `Video` | the two older inspection paths | |
| `NetworkPolicy`, `PadCloud`, `PadOutbox` | the Android Pad | `PadCloud` extends `NetworkPolicy` |
| `JetsonRunner`, `Fleet` | the runner; the server's records of the floor | |
| `MC*` | values of the constants, symmetry, and sums of modules | |
| `EdgeCVProofs`, `ProbationProofs`, `InspectionProofs`, `VerdictProofs`, `StandardProofs` | theorems about the module they are named after, its agents or its split | |
| `ServicesProofs` | theorems about `Scope`, `Learning`, `TrainingPack` | |
| `DevicesProofs` | theorems about `PadOutbox`, `PadCloud`, `JetsonRunner`, `Fleet` | |
| `RequestsProofs` | theorems about the modules `MCRequests` sums | |

`Inspection` and `Verdict` compose with `ProbationTx` by extending it: their steps
contain `BeginRecord(...)` and `CommitRecord(...)`, the read and the commit of
`record_probation_job` by one of its workers. The property that every step of the
composition is a step of `ProbationTx` or leaves the probation alone
(`InspectionDrivesProbation`, `VerdictDrivesProbation`, both `TxSpec`) carries over what
`ProbationTx` keeps with any number of workers, and with one worker, through
`ImplementsProbation`, what `Probation` keeps.
`EdgeAgent` composes with `EdgeCV` in the same way: each request of the agent is a
step of the service with the answer the agent takes from it. `MCEdgeAgent` adds that
while no agent runs, anyone may use any token of the device.

Sums. `MCServices`, `MCDevices` and `MCRequests` check modules that share no table in
one run: a variable `part` names the one a behaviour follows, and the variables
of the others keep their initial values. The union of the parts' state graphs is
what is explored, not their product, and each property reads the variables of one
part only.
Where a part would be too large alone, a condition on its steps narrows it; section 3 names
each.

### EdgeCV

State: `devStatus enabled load beat minted live` are the device's and sessions'
columns; `created prio task status owner lease retries results` the job's. Job ids
are their creation order. Time is reduced to the two comparisons the code makes:
`beat` is fresh or stale against the heartbeat TTL, `lease` live or expired.
`LeaseLapses` and `HeartbeatLapses` are the clock.

Correspondence: `RegisterDevice`, `Heartbeat`, `SweepOfflineDevices`,
`DisableDevice`, `EnableDevice` are the functions of those names in `service.py`;
`CreateJob`, `LeaseNextJob`, `MarkStarted`, `FailJob`, `CancelJob`, `ExpireLeases`
those in `dispatcher.py`; `UploadResult` and `RejectPayload` the two outcomes of
`upload_result`. `Dispatched` is `dispatch_job` with the fallback it may run;
`RequeueOrEscalate` is `_requeue_or_escalate` and the dispatch after it.

Abstractions:

* handlers are single steps (`LiveCapture` splits some of them at their commits);
* any session token ever minted may be presented to any agent endpoint at any
  time, which is more than the agents do;
* what a device reports at a pull equals what it registered (`Runs`), and
  `max_concurrent_jobs` is fixed per device (`Capacity`);
* a job's `max_retries` is the configured default;
* the statuses `create_job`, `expire_leases` and `fail_job` commit just before
  they dispatch are merged into the step;
* `ExactReports` restricts heartbeats to the true number of held jobs; elsewhere
  an agent may report any number up to its capacity.

### Probation and ProbationTx

`pStatus jobsRecorded agreements` are the columns of `qc_probation`, `rows` the
rows of `qc_probation_jobs`; a reference without a row maps to `NoRow`. Both
callers always pass a job reference, so `Ref` is total. The threshold is a
rational `Num/Den`: Python compares the correctly rounded quotient of two small
integers with the literal, and the two comparisons agree for all counts a
probation reaches.

`ProbationTx` splits record, pause and resume into the step that reads and the
step that commits. The ORM writes the columns that were assigned, with values
computed from what was read, so `CommitRecord` writes `agreements` only when it
was incremented and `pStatus` only when it changed. `uq_probation_job_ref` makes
the second of two commits for a job fail (`Rollback`), and that constraint also
makes `start_probation` effectively one step.

### Inspection

A job is a `Ref`. `job` joins status and report, which one commit writes and
nothing else touches. `result` and `source` are the checkpoint results with their
review source, `ai` the verdict aggregated from the latest suggestion, `serious`
the jobs with a major or critical finding. "unclear" stands for missing,
not_visible, low_confidence and unsupported, which every rule treats alike.

`IngestModelOutput`, `SubmitCheckpointResult`, `SubmitIncidentalFinding`,
`AttachMedia`, `ApiFinalize` are the machine API; `SubmitBatch`, `VisionStart`,
`VisionStore`, `VisionFail`, `PadFinalize` the Pad. The vision
handler checks the job, awaits its body, and stores: two steps, at most one
request per job in flight. `PadFinalize` writes the report or finds it, and then
`Bridge` reads for the pair and `BridgeCommit` commits it, or it is refused
(`BridgeRollback`), or there is nothing to record (`BridgeNot`): machine calls, pauses
and crashes fall in between, and a repeated finalize records what a crash left out.
The Pad's handlers are `async def` functions that await nothing from the report to the
row, so on one event loop no second one starts meanwhile (`LoopFree`); with several
server processes it could, and of that the model says nothing. Everything else is one
step.

The points are frozen here: `PadDesk` has a standard that changes while its jobs
are in flight.

### Verdict

A request that carries a decision commits three times: `Ingest`
(submission and verdict), `Decide`, and the probation's row, which is `Count`, the reads
of `record_probation_job` by a worker of `ProbationTx`, and later `Commit`, or `Refused`
when another request has recorded the job or the database fails; `Skip` finds nothing
to count. The router's functions are plain `def`, served by a thread pool, so two
requests may read the counters before either commits. `deciding`, `recording` and the
workers hold the requests between two of these steps, at most `MaxInflight` of them;
`Crash` drops them all. The Results page's decision starts at its own commit.
`Kept` is the dictionary `recompute_verdict` builds, which keeps the last result
of a duplicated checkpoint. `known` says that a submission names the revision on
probation. The idempotency comparison leaves `expected_bundle_version` out, as
the code does. A decision refused because another actor made the first one
changes no state and is not an action. The revision may have no active points:
then an empty submission passes here, while `finalize_job` gives review_required.

### Standard and RevisionLifecycle

One SKU with its intakes, revisions, judgments, bundles and status. A request is
a record in `tx[w]` that says where it is (`at`) and what it has in hand. A
confirmation has four commits, a step each, and reads the prior active revision
before the second: it drafts a revision, activates it with its points and archives
the prior one, closes the intake, and marks the SKU;
publication reads the training gate, writes the archive, the bundle row, the
probation row and the SKU. A crash forgets the request between any two. With
`WriterLock` a transaction that has written excludes other writers, as SQLite
does; `OneActive` needs it. `ImplementsLifecycle` maps each revision to its stage,
whether it was published and put on probation.

### Learning, TrainingPack, Scope

A proposal has a status, a category and a role, and the points that were made of it
as a sequence, so that a second one would show. Reviews look at no status, as in
the code. A memory stands for its sample-learning job; `rules` are the confirmed
visual rules; a run remembers the rules that stood when the gate let it through
(`began`) and those it inspected. In `Scope` a decision, an approval and a lift are
held by a clerk between the validation and the commit; `fresh[i]` are the reports
made since incident i was last confirmed. The points whose results meet the
thresholds (`covers[q]`) are an input of a run; a report meets them when those are
all the points of its dataset (`Meets`).

### Assistant, Studio

A text is what it counts, which of that it phrases the way the parser reads
(`phrased`), what else it mentions and what it says of the centre; a checkpoint is its
code and label, what its wording mentions (`title` for code and label, `body` for
description and criteria), its method and its value. The gateway reads wording for its
count concepts in a fixed order (petal, pearl, rhinestone), and so does `Claim`: of
several counted things that a checkpoint mentions the first decides, and a second
checkpoint on which the same fact decides is dropped (`Kept`). A test deployment
without an assistant parses the text itself (`Parsed`): only "<thing> count <number>"
gives a value, any other mention of a countable thing a checkpoint without one and a
question, and petals are looked at, never counted.

The operators of `Assistant` are the normalisation of the reply against the text and
of the inspection's answer against the measured counts. `turn[a]` holds a request
between its read and the model's answer. Uploads read whether the SKU has a photo in
one step and clear and name the primary photo in another, which ends with the commit:
on SQLite, whose only writer lock a transaction takes with its first write, nobody
writes in between. On a database that locks rows, two first uploads clear no row and
both become primary, so `OnePrimary` rests on that lock. Words, languages and prompts are
left out.

### PadDesk, Preanalysis, LiveCapture

`PadDesk` has two kinds of request that overlap: a job's creation, whose gate (the
active revision, its publication, the workstation's report) is remembered in
`work[j].gate`, and a confirmation in its steps. `Preanalysis` replaces pixels by
one axis: a region is an interval, registration a displacement, an analyzer counts
what shows in the crop; flat fields and missing files are pictures without
features. `LiveCapture` splits what `EdgeCV` takes in one step: capture, job and link;
claim, result and completion of the fallback; the read of the queue and the lease;
the checks of an upload and its commit.

### Sources, Inspector, LegacyQC, Video

A statement is the set of signals its words carry, which the extractor and the author
read with different vocabularies. `Inspector` and `LegacyQC` split an inspection at
the provider's call and remember what it read; the answer is any of a set that has
repeated items, unknown results and missing evidence. In `Video`, measurements are integers in thousandths,
with the code's thresholds.

### The floor

`NetworkPolicy` reduces readings to what the two thresholds tell apart. `PadCloud`
follows a photo from the operator's screen to the queue on disk and the monitor
that takes it up, with answers lost or late and the app dying at any step;
`PadOutbox` a decision to the server's row. `JetsonRunner` has threads in
their places between lock, cache and model. `Fleet` splits a binding between its
reads and the commit that writes only the columns it changes.

## 3. What the runs show

Passing runs:

| Run | Instance | Distinct states | Shows |
|---|---|---|---|
| `reconnect` | 1 device of one slot, 2 sessions, 2 jobs, 2 priorities, 1 retry; its agent, and while that is down anyone with its tokens, reporting any count | 885,245 | the retry budget; status against slot counter; a result is stored only for a live lease of a live session; the agent works on the lease it holds |
| `serial` | 6 jobs, checks at 2, 4, 6, threshold 2/3, 1 request at a time | 16,237 | qualification exactly at the first check that passes; the split transactions implement `Probation` |
| `report` | 1 job, 2 points, a probation one agreement qualifies, 2 workers, crashes | 24,643 | reports are explained by results; a recorded pair is the report's; the flow drives the probation through the halves of its operations |
| `counted` | 2 jobs, 2 requests in flight on 2 workers, crashes, payloads for every line of the verdict table | 421,917 | the documented verdict table; counted pairs are decided jobs' server verdicts; counters never run ahead of the rows; the probation is driven through the halves of its operations |
| `advance` | 2 jobs, 2 requests, no crash, fairness | 17,721 | every decision on active probation is counted, or comes after qualification |
| `standard` | 2 requests with crashes, 1 intake, 2 revisions, 2 judgments, 1 edit, 1 bundle, window 2 with 1 correct, a writer lock | 1,284,270 | one active revision; what is published was trained; the whole implements `RevisionLifecycle` |
| `services` | parts `learning`, `pack`, `scope` | 411,132 | an applied proposal made one point; a pass inspected every rule that was in force; a confirmed false pass stays answered; approved reports meet the thresholds |
| `devices` | parts `network`, `pad`, `outbox`, `recognition`, `pairing`, `bindings`, `records` | 32,640 | decided photos leave the queue and queued ones are answered; a job keeps the network it began on; an uploaded decision is the server's; one recognition per request; a paired Pad is served; one runner per station |
| `requests` | parts `photos`, `drafts`, `sight`, `legacy`, `video`, `lifecycle`, `classify`, `inspect`, `sources`, `desk`, `capture`, `cv` | 712,218 | drafts follow the text; one primary photo; passes have their support in the studio, the legacy router, the video pipeline and the inspector; nothing is guessed from a document; a desk job stood behind its gates; a review rests on evidence; a capture tells its job; a measurement is of its place |

Runs that refute a statement of the repository (`PROJECT.json` quotes it):

| Run | What happens |
|---|---|
| `stranded` | nothing under `src/src` calls `expire_leases` or `sweep_offline_devices`, so in the application as `api/main.py` starts it a job leased by a device that vanishes stays leased (against docs/cv-job-lifecycle.md:26). 2 devices of different capability, 1 job; the clock alone is fair |
| `mock` | a memory of a mock provider is applied and then rejected; its rule stays in force, and the gate no longer asks who learned it |
| `session` | the service ends an agent's session; its heartbeats are refused, and it never registers again |

### Statements the code does not keep

The runs above check what the code does keep. Further statements that a comment or
document makes, or that a reader might take for granted, fail. Those with a
definition can be seen by making it the property of the configuration named, changed
as said:

| Definition | Configuration | What happens |
|---|---|---|
| `EdgeCVClaims!CapacityRespected` | `reconnect`, exact reports | registering resets the slot counter; releasing a lease of the former session then frees a slot the new one uses, and the device gets more jobs than its capacity |
| `EdgeCVClaims!NoJobFrozen` | `stranded`, `SweepsRun = TRUE` | a job queued for a device that leaves before pulling is never dispatched again, although the CPU fallback is on |
| `EdgeCVClaims!TerminalIsFinal` | `reconnect` | the session that completed a job fails it, and the job is queued again (dispatcher.py:485, against constants.py:91) |
| `EdgeCVClaims!SupersededLeaseIsFrozen` | `reconnect` | a session ended by a reconnect still starts or fails the job it leased (dispatcher.py:344, against :357) |
| `EdgeCVClaims!OfflineUntilRegistered` | `reconnect` | a device that was disabled and enabled comes online by its old session's heartbeat (service.py:223, against :295) |
| `ProbationTx!CountersAreRunningTotals` | `serial`, two workers | two jobs recorded at once are both stored and counted once (qc_probation_models.py:71) |
| `ProbationTx!SoloRateIsReal` | `serial`, two workers | the increment lost is a disagreement's, and a revision qualifies below the threshold of its own rows |
| `ProbationTx!QualifiedStays` | `serial`, two workers | a pause that read an active probation commits after the qualification (probation.py:390) |
| `InspectionClaims!HumanVerdictIsReviewed` | `report` | the Pad finalizes a job nobody reviewed, and the verdict is counted as a human one |
| `InspectionClaims!PadPassIsReviewed` | `report` | a pass the machine API made of model results is recorded as the operator's (pad_router.py:955, against :953) |
| `InspectionClaims!NoSuggestionAfterReport` | `report` | a vision request past its check stores its suggestion after the report (pad_router.py:890, against :784) |
| `VerdictClaims!FailNeverPasses` | `advance`, `MCAllPayloads` | a checkpoint that failed and is named again as passed passes |
| `VerdictClaims!DecisionAdvancesProbation` | `advance`, `MayCrash = TRUE` | a crash between a decision and its row: the Pad's retry finds the decision and counts nothing (verdict/service.py:233) |
| `VerdictClaims!OnlyResultsPageAmends` | `counted` | a Pad's decision replaces the one the Results page committed meanwhile (qc_verdict_router.py:115, against :128) |
| `Inspector!CaptureOutranksFail` | `requests` | a critical failure seen on an unacceptable capture fails the product (finalizer.py:199), where the documented precedence asks for a review (finalizer.py:11, 2 before 3); `PassIsGuarded` says what the code does on acceptable captures |
| `Standard!OneActive` | `standard`, `WriterLock = FALSE` | two confirmations each archive the revision they read, and both drafts become active |
| `Standard!DecisionStands` | `standard` | a training decision "set exactly once" is set again |
| `Standard!BundleIsCurrent` | `standard` | a point of a published revision is edited, and its bundle keeps the old one |

Others were met while the modules were written and are seen in their actions:

* Learning and packs. Two applies at once duplicate points and rules; a job is marked
  applied while new proposals wait; a rejection that overlaps a confirmation takes a
  confirmed incident back; two confirmations make two suspensions; approval and
  rejection of one report overlap; a model that always answers "indeterminate" meets
  the thresholds; an applied memory edited back returns the old content.
* Studio. A count the administrator wrote is lost when the model's reply leaves it
  out. A pearl checkpoint whose criteria mention the petals is given the petals' count
  when the text counts both, or is dropped when another petal checkpoint came before
  it, and the pearls' count is lost. Without an assistant, "12 pearls" is asked again as
  a question. A tolerance question for a centred part is dropped when another
  checkpoint's label is a word of it; the answer to it never reaches the point; intake confirmation lacks
  the counting guard that the studio's confirmation has; a counting pass is not compared with
  the expected value, and stands when the model's number differs from the measured
  one unless it says so itself; a rejected intake leaves its SKU ready for review.
* Legacy router. Of repeated items the last counts, so fail-then-pass passes
  although the prompt says any failure fails; a point added during the provider's call is not
  covered. Video. A vision model's pass with a high deviation is stored as it came:
  only the local comparator relates the two. A null verdict or a crash leaves the task running for ever.
* Inspector. "Requalification before returning to active" is not enforced; a false
  pass suspends from any state, a retired one too, from which it becomes active
  with no exam; an inspection in flight keeps the inspector it read.
* Sources. The first uploads of two tenants both bind the pack; a crash leaves an
  extraction running; the extractor and the author read with different
  vocabularies, so that what one flags as physical the other may give to the AI.
* Desk. A job may be created on a revision activated after its gate was read; a
  crash between publication and `start_probation` leaves a published revision
  without a probation; a failed confirmation leaves its draft; any result a model
  ingested blocks the operator's batch.
* Captures. When the dispatch or the fallback raises after the job was committed, the
  capture is "failed" and the caller is told of no job, though one is queued, and
  repeating the upload makes a second. A frame in the cooldown leaves the streak as it is; a pending job of the queue is
  "re-dispatched later" by no code; a crash leaves a capture pending though its job
  exists; fallback, lease and upload write without reading again, so a completed job
  is leased a second time and a cancelled one completes.
* Pre-analysis. An empty mask counts as zero, against the comment that callers fail
  closed; evidence files of codes that sanitise alike overwrite each other.
* Floor. The agent ignores a refused start or upload; one Pad bound to two
  workstations keeps both Jetsons; a late report replaces a newer one; unpairing
  leaves the workstation paired; a job the cloud refuses is retried for ever; a
  decision the server refuses blocks those behind it in the outbox.

### Bounds and why they are enough

* `EdgeCV`: `MaxJobs`, `MaxSessions` and `MaxRetries` cap counters that only grow.
  Two sessions of a device are what the fencing properties compare; two jobs
  let a lease be chosen and a slot be contended; one retry separates "requeued"
  from "escalated"; two devices, one with a single capability, make the choice of
  the fallback depend on which device is present. The proofs lift all safety
  properties to any number.
* Probation: the gate needs a check that fails, one that passes and jobs between
  checks; six jobs, minimum two, interval two, give three checks. Two concurrent
  requests suffice to lose an update.
* Inspection: two points separate "some" from "all". Jobs share nothing but the
  probation, whose pairs of several jobs `serial` and `counted` cover, so one job that
  may be finalized again after a pause, and whose pair can qualify the revision, meets
  every case of the bridge; a second worker pauses or resumes while its pair is on the
  way. The theorems are for any number of jobs.
* Verdict: the seven payloads of `MCPayloads` meet every line of the table over two
  required checkpoints (complete with a repeated id in two orders, failed and incomplete,
  incomplete with an unknown id, unclear, unknown revision, other bundle); two requests in
  flight are enough to overtake each other. `MaxInflight` caps requests between two
  of their commits.
* Standard: two requests and two revisions let every step of one fall between any
  two of another's and let a revision have a predecessor; two judgments and a
  window of two separate a sample from too small a one; one bundle suffices for a
  property of each bundle alone. The theorems are for any number.
* `services`: two proposals separate "one of a job" from "all of it"; at most one is a
  measurement and at most one role stays open (`SmallLearning`). The pack is followed
  with one reviewed proposal of an authoring job, and with a real provider and no
  attached rules for the second memory (`SmallPack`). Two clerks and two reports
  overlap on an incident of one point, with a second point that has none.
* `devices`: two photos wait behind each other, two callers share a request id, a
  cache of one answer evicts; the Pad's part has Wi-Fi down or slow, while the
  network's part covers every reading.
* `requests`: two administrators, tenants, operators or cameras where their requests
  meet; messages, replies, documents, answers and pictures are a handful each,
  chosen one per branch of the code that reads them (`MCReplies`, `MCVlmAnswers`,
  `MCLooks`, `MCResponses`, `MCTexts`, `MCScenes`, ...). The conditions
  named `...Part` narrow a part: photos are followed without confirming, drafts without photos,
  inspections with one administrator; the inspector's moves without inspections,
  and inspections over fewer moves; the desk's first operator works jobs while the
  second drafts; the second camera only watches. A condition never stops a step of
  the case its property is about.

`CHECK_DEADLOCK FALSE` is set everywhere: with bounded jobs, sessions and
references, the bounded system can run out of requests, and a service
without requests may rest.

Symmetry is used over interchangeable model values (jobs, points, requests, reports,
clerks, proposals) in runs that check safety and refinement without fairness; the
runs with liveness use none.

### Fairness

* `EdgeCV!Fairness`, in `stranded`: weak fairness of the clock and, only where
  `SweepsRun`, of the two sweeps. The application schedules none, so the run sets it to
  FALSE and no passing run assumes that they run. With `SweepsRun = TRUE`, a scheduler
  outside the repository, `LeaseIsRecovered` holds on the same instance although devices
  may vanish. Nothing is assumed of devices or operators.
* `OnProbationSpec`: weak fairness of `Decide`, `Count`, `Skip`, `Commit` and `Refused`. A
  request thread runs on to its next commit unless the server crashes. Nobody is assumed
  to submit or decide. A revision is used only after publishing started its
  probation, and nobody pauses it, for a decision on a paused probation is not
  counted by design.
* `PadCloudFairness`: the Wi-Fi is seen usable again and again, the cloud works off what it
  was given, and the monitor's timers fire (weak); a reconciliation, a resubmission
  or a poll that may be made again and again is made in the end (strong: the
  monitor tries at each return of the network, and an answer is not lost every time). The
  app may die at any time and for any number of times.
* `AgentFairness`: weak fairness of the steps of the agent's own loop, one thread
  that never waits for long. `session` shows that even then the session is lost.

## 4. What is proved

Every invariant and action property that a passing run checks is also a theorem,
and both refinements are. Every theorem holds for all values of the constants that
satisfy the named assumptions of the modules (`EdgeAssumption`,
`ProbationAssumption`, `StdAssumption`, ...); TLC evaluates each of them in the
runs. They say that bounds are naturals, that the probation parameters are those
`start_probation` accepts, that marker values such as `NoSession` are distinct from
data, and what shape inputs have: an extracted text is a sequence of sets of signals
(`SourcesAssumption`), a reply of the assistant lists checkpoints with their eight
fields (`StudioAssumption`), a vision model's items name a point and a result
(`LegacyAssumption`), positions of pictures and regions are integers
(`PreanalysisAssumption`), the areas of defects are thousandths of the image
(`VideoAssumption`), bundles have finitely many points (`DeskAssumption`). Nothing is
assumed of what those inputs say.

These results carry a premise, because without it the statement is false (section 3,
or below):

* `SerialImplementsProbation`, `SerialMissesNoCheck` and `SerialVerdictQualifies`: one
  request records at a time (`OneWorker`); with two, increments are lost.
* `PointOnce`: one apply request at a time; with two, both make the point.
* `OnlyOneActive`: a database with a writer lock (`WriterLock`), as SQLite is.
  `OnePhotoPrimary` needs the same; there it is the step of the model that clears the
  photos and commits (section 2).
* `RunnersApart`: one report of a binding at a time; two reports that name two runners
  for one station read before either commits, and both runners stay paired.

### The edge devices

* `EdgeCVProofs`. `IInv` is the conjunction of the state invariants with
  `Unborn` (jobs above `created` are absent). The parts need each other:
  `RetryBudget` holds after a failure only because an owned job is within its
  budget, `CompletedHasResult` needs that a job closed or cancelled gave up its
  owner (`LeaseMatchesStatus`), and `Unborn` says that `create_job` overwrites
  nothing. There is a lemma per kind of step; `fail_job` and `expire_leases` share
  `RequeuePreservesInv`, the heart of the proof. The action properties
  `ReviewAndCancelAreFinal`, `LeaseIsExclusive`, `OnlyLiveLeaseCompletes` follow from
  it step by step.
* The same module proves `LeaseIsWorkedOn` of the agents and the service together.
  `AgentInv` adds that no row names a session not yet minted, from which a new
  registration starts clean, and that a result stored under the agent's session
  is of a job that is completed and is not the one in hand: hence an answer that is
  lost or refused leaves no live lease behind. `RowsKept` says once what all the steps
  that neither lease, complete nor mint leave of the rows.

### Probation, inspection, verdict

* `ProbationProofs`. `PInv` is types, counters against rows, `QualifiedIsEarned` and
  `FirstPassedCheckQualifies`. The last is what makes it inductive: that no
  earlier check was passed is only known from the history of the rows, through
  the lemma that adding the row numbered n+1 leaves `AgreedUpTo(m)` alone for
  m <= n. The gate's arithmetic is never expanded, so the results hold for any
  check schedule and threshold. Of the split transactions it proves that what one has
  read is at most what the rows hold, since rows are never removed; from it
  `CountersNeverAhead` and `SoloHasSample`, for any number of concurrent requests. With
  one worker what was read is current (`ReadsAreCurrent`), and then every commit is
  the operation it belongs to: `ImplementsProbation`.
* `InspectionProofs`. Every step maps to a step of `ProbationTx` or a stutter
  (`FlowDrivesProbation`); with that module's theorems for any number of workers,
  `CountersNeverAhead` and `SoloHasSample` of the whole flow (`FlowNeverCountsTwice`).
  For `RecordedPairStands` a worker's read of a report must stay true until it commits:
  a report is written once. `ReportStandsOnResults` is preserved although no handler that
  stores results looks at the job's status: finalize has filled every point and
  `NoClash` refuses a second result for a point.
* `VerdictProofs`. `RecomputeFollowsTable` is about `recompute_verdict` itself, for
  submissions of any length: if no checkpoint is named with both a
  failed and another result, the code's answer is the table's. The step that the
  dictionary keeps a result of every named checkpoint needs the largest index of a
  set of positions, obtained from well-founded minimality on the naturals. The flow's
  invariant then gives the types, `CountedPairStands` and `VerdictFollowsTable`, and
  every step of the flow is proved a step of `ProbationTx` or a stutter, with crashes
  and for any number of overlapping requests: so nothing is counted twice
  (`VerdictNeverCountsTwice`). That no increment is lost is not so; with one worker it is,
  and then a revision qualifies only at a scheduled check its pairs pass
  (`SerialVerdictQualifies`).

### Standards and services

* `StandardProofs`. The inductive invariant says what each request has in hand
  between two commits: `DraftsInHand` (a confirmation's draft is a draft, nobody
  else's, of its own intake), `Closings` (an intake is closed only once a revision
  of it was activated), `Publishings` (who publishes holds a trained revision, then
  an archive, then the row) and, under a writer lock, `Locked` (the one request
  that activates has read the only active revision). From it `OneActive`,
  `PublishedWasTrained`, `PublishedIsComplete`, `RowHasPayload`,
  `ConfirmedHasRevision`, for any number of requests and with crashes, and
  `StandardRefines`: every step is a step of `RevisionLifecycle` or a stutter, with
  or without the lock. Of `Newest` only that it is active is used: which revision is
  newest does not matter for these.
* `ServicesProofs`. Of `Scope`, `IInv` adds to the types that reports come from
  completed runs, that approved ones meet the thresholds, and `Answered`: a confirmed
  false pass has a good report made since, or an active suspension that no lift in
  flight is about to end. From it `FalsePassIsAnswered` and `ApprovedMeets`, for any
  number of overlapping requests. Of `Learning`, `PointInv`: only an apply request
  writes that a proposal has its point, so what the single one has read of it is
  true when it commits. Of `TrainingPack`, `PackInv`: confirmed rules are only
  ever added, so that what a run reads contains what its gate saw (`RunHolds`), and a
  job that completed does not complete again.

### The floor

* `DevicesProofs`. The outbox: what a batch counts as accepted is on the server, and the
  row of a result never changes, so a repeated upload finds the decision it carries. The
  cloud jobs: a photo being submitted holds the selected network, and what is on
  disk or recovered belongs to inspections that ended as pending. Pairing: while no
  request has drawn a key without naming its Pad, the named one has its key to come
  or was given the one in force. Recognitions: at most one request is past the lock,
  and the one that runs the model found no answer kept; `CacheOK` says that a key
  has one entry, through moves to the end and evictions. Bindings: between a report's
  read and its commit every runner still paired at the station is among those it read.

### Requests

`RequestsProofs` has an inductive invariant for each of its modules.

* `Inspector` (`GuardInv`): a stored pass is traced through the finalizer to the answer
  and to what the call had read; nothing done to the inspector meanwhile matters.
* `LiveCapture` (`CaptureInv`): between its commits an upload alone knows its capture; the
  row stays pending and the jobs made of it are those the upload made (`Follows`).
* `PadDesk` (`DeskInv`): what a gate saw only grows. Revisions are published, bundles
  built, assigned and reported for good, and an active revision gives way only by
  being archived (`Grows`); a job keeps the gate it passed (`GateOK`, `JobOK`).
* `Studio`. `PrimaryInv`: a photo becomes primary only in the step that clears every
  other. `DraftInv`: what the gateway makes of any list of checkpoints heeds the text
  (`Heeds`), about `Assistant`'s operators alone: a checkpoint that mentions a counted
  thing is decided on by one (`Decisive`), each deciding fact keeps one checkpoint
  (`KeptOnce`), and questions about a checkpoint with a value are dropped; then that
  turns, imports and confirmations keep it. `SightInv`: confirmed points have distinct codes, which is
  what makes a result found by its code the result of its point.
* `Sources` (`SourcesInv`): the fragments of a completed job are consecutive and as many as
  it counted, and a document's text is never replaced.
* `LegacyQC` (`LegacyInv`): a pass is traced to the last item of each point; that there is
  one is again well-founded minimality on the naturals.
* `Preanalysis` (`CvInv`): the cache keeps the registration each measured region was placed
  with, and a file changes only to a later record of its name.
* `Video` (`VideoInv`): each frame that resembles a sample is one capture or the frame in
  hand, and an error is one capture without a comparison or the same. That a comparison
  the local comparator passes has no severe deviation needs that a sum of areas is at least
  each of them (`LargeDefect`), which is why `DefectArea` is a cardinality.

Where the prover and the model disagreed, the model was at fault once:
`ClassifyStatement` and `ClassifyFragment` were written with overlapping CASE arms, which
leave the value open where several apply; the extractor tests its patterns in an
order, and the operators now do too.

### Only model-checked

The liveness properties (`DecisionAdvancesProbation`, `QueuedIsAnswered`) stay with TLC, since the prover handles neither fairness nor
ENABLED, and so do the refutations. Conversely several invariants
(`LeaseMatchesStatus`, `OnlyNewestSessionLive`, `CountersMatchRows`, `SoloHasSample`,
`PublishedIsComplete`, `ClosedWithMemory`, ...) are proved and need no run.

## 5. Not modelled

Components and reasons are in `PROJECT.json`. In short:

* computation on images, prompts and the wording of answers, token hashing, signing,
  templates, translations, access control, seeds, migrations and command-line
  scripts are data or pure input and output for these properties;
* of readiness, the check that sources were reviewed; of production, the text of
  decision rules, pseudo-defects of high-risk points, evidence packets and the final decision a
  human adds; of sample learning, the minimum of samples for L3; of
  qualification, shadow observations;
* the human reviews listed beside an inspection job, and the targets of
  synchronisation, of which nothing modelled reads anything;
* authentication of the Jetson runner, the network clients of the model providers;
* on the Android side, screens, the administration client, the import of bundles
  and automatic capture.

## 6. What could follow

1. An abstract lease (free, held by one session, done) that `EdgeCV` implements, and
   `LiveCapture` does not, which would put the second leasing of a completed job in one
   sentence.
2. Abstract specifications for an inspection of the Pad (taken, queued, answered,
   decided) and for a recognition, whose theorems of section 4 are half of the way.
3. Both channels over one probation.
4. The Android administration client and the import of bundles.
