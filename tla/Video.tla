------------------------------- MODULE Video --------------------------------
(***************************************************************************)
(* The sample library, the comparison of one image with one sample, and    *)
(* the pipeline that takes a video through three tiers: frames that        *)
(* changed, frames that resemble a sample, comparisons of those.  Scores   *)
(* are in thousandths.                                                     *)
(***************************************************************************)
EXTENDS Integers, Sequences, FiniteSets

CONSTANTS
  Looks,       \* [colour, struct, orb, pixel, textured, defects]: what vision may measure
  MaxSamples, MaxFrames

Whole == 1000  \* the area of an image
ASSUME VideoAssumption == \A look \in Looks : look.defects \in Seq(0 .. Whole)

VARIABLES
  samples,     \* the active samples of the SKU, oldest first: is the file readable?
  tasks,       \* comparisons: [status, result: [by, verdict, severe]]
  video,       \* the video task and what the pipeline has counted
  frame        \* the frame in hand: a comparison under way, or what it left

videoVars == <<samples, tasks, video, frame>>

NoTask == 0
NoResult == [by |-> "none", verdict |-> "none", severe |-> FALSE]
NoFrame == [stage |-> "next", task |-> NoTask]
NoVideo ==
  [status |-> "none", provider |-> "cv", total |-> 0, filtered |-> 0, processed |-> 0,
   passed |-> 0, errors |-> 0, captures |-> <<>>, samples |-> <<>>]

VideoInit == samples = <<>> /\ tasks = <<>> /\ video = NoVideo /\ frame = NoFrame

-----------------------------------------------------------------------------
(* The local comparator.                                                    *)

Similarity(look) ==
  (IF look.textured
   THEN 25 * look.colour + 30 * look.struct + 25 * look.orb + 20 * look.pixel
   ELSE 38 * look.colour + 38 * look.struct + 24 * look.pixel) \div 100

\* Blobs below four thousandths of the image are noise.
DetectDefects(look) == {i \in DOMAIN look.defects : look.defects[i] >= 4}

\* The sum of their areas: a cell for each thousandth of each defect.
DefectArea(look) == Cardinality({cell \in DetectDefects(look) \X (1 .. Whole) : cell[2] <= look.defects[cell[1]]})

BySimilarity(look) ==
  CASE Similarity(look) >= 860 -> "pass"
    [] Similarity(look) \in 600 .. 859 -> "needs_fix"
    [] OTHER -> "reject"

\* A strange colour or a large defect overrides a good similarity.
CvVerdict(look) ==
  LET area == DefectArea(look)
  IN IF look.colour < 400 \/ area >= 70 THEN "reject"
     ELSE IF area >= 15 /\ BySimilarity(look) = "pass" THEN "needs_fix" ELSE BySimilarity(look)

\* One of the deviations reported with the verdict is severe.
SevereDeviation(look) ==
  look.colour < 400 \/ \E i \in DOMAIN look.defects : look.defects[i] >= 70

\* The local comparator measures; a model gives any verdict with any deviations,
\* and both are taken as they are.  An answer without a verdict cannot be stored.
Compared(provider, look) ==
  IF provider = "cv" THEN {[by |-> "cv", verdict |-> CvVerdict(look), severe |-> SevereDeviation(look)]}
  ELSE [by : {provider}, verdict : {"pass", "reject", "unknown", "null"}, severe : BOOLEAN]

-----------------------------------------------------------------------------
(* The pipeline.                                                            *)

ImportSample(readable) ==
  /\ Len(samples) < MaxSamples /\ samples' = Append(samples, readable)
  /\ UNCHANGED <<tasks, video, frame>>

\* A named model is used only when real calls are enabled; without them the
\* local comparator stands in.
GetProvider(named, realCalls) == IF named = "qwen" /\ realCalls THEN "qwen" ELSE "cv"

\* A video is compared with the samples of the SKU at its start.
StartVideo(provider, opens) ==
  /\ video.status = "none" /\ samples # <<>>
  /\ video' = [NoVideo EXCEPT !.status = IF opens THEN "running" ELSE "failed",
                             !.provider = provider, !.samples = samples]
  /\ UNCHANGED <<samples, tasks, frame>>

Running == video.status = "running" /\ video.total <= MaxFrames

\* Tier one drops a frame like the one before it; the first has none before.
SkipUnchanged ==
  /\ Running /\ frame = NoFrame /\ video.total \in 1 .. MaxFrames - 1
  /\ video' = [video EXCEPT !.total = @ + 1, !.filtered = @ + 1]
  /\ UNCHANGED <<samples, tasks, frame>>

\* Tier two scores the frame against every sample; one that cannot be read
\* counts for nothing.
Resembles(score) == score >= 250 /\ \E s \in DOMAIN video.samples : video.samples[s]
Prefilter(score) ==
  /\ Running /\ frame = NoFrame /\ video.total < MaxFrames
  /\ video' = [video EXCEPT !.total = @ + 1, !.processed = @ + 1,
                            !.passed = IF Resembles(score) THEN @ + 1 ELSE @]
  /\ frame' = IF Resembles(score) THEN [stage |-> "compare", task |-> NoTask] ELSE NoFrame
  /\ UNCHANGED <<samples, tasks>>

\* Tier three compares with the newest sample and commits the comparison, ...
PrimaryReadable == video.samples[Len(video.samples)]
RunComparison(look, result) ==
  /\ Running /\ frame.stage = "compare" /\ PrimaryReadable
  /\ result \in Compared(video.provider, look) /\ result.verdict # "null"
  /\ tasks' = Append(tasks, [status |-> "done", result |-> result])
  /\ frame' = [stage |-> "record", task |-> Len(tasks) + 1]
  /\ UNCHANGED <<samples, video>>

\* ... or its failure, which the frame does not refer to, ...
FailComparison ==
  /\ Running /\ frame.stage = "compare"
  /\ tasks' = Append(tasks, [status |-> "failed", result |-> NoResult])
  /\ video' = [video EXCEPT !.errors = @ + 1]
  /\ frame' = [stage |-> "record", task |-> NoTask]
  /\ UNCHANGED samples

\* ... and then the capture that refers to it.
RecordCapture ==
  /\ Running /\ frame.stage = "record"
  /\ video' = [video EXCEPT !.captures = Append(@, frame.task)]
  /\ frame' = NoFrame
  /\ UNCHANGED <<samples, tasks>>

\* A result the database refuses ends the pipeline, as a crash does: the video
\* stays "running".
StopVideo ==
  /\ Running /\ frame' = [stage |-> "stopped", task |-> NoTask]
  /\ UNCHANGED <<samples, tasks, video>>

\* Mutant of FinalStatus: failures are compared with all frames examined.
FinalStatusByFrame ==
  IF video.errors = 0 THEN "done" ELSE IF video.errors = video.processed THEN "failed" ELSE "partial_failed"

FinalStatus ==
  IF video.errors = 0 THEN "done" ELSE IF video.errors = video.passed THEN "failed" ELSE "partial_failed"

EndVideo ==
  /\ Running /\ frame = NoFrame
  /\ video' = [video EXCEPT !.status = FinalStatus]
  /\ UNCHANGED <<samples, tasks, frame>>

VideoNext ==
  \/ \E readable \in BOOLEAN : ImportSample(readable)
  \/ \E named \in {"cv", "qwen"}, realCalls, opens \in BOOLEAN :
       StartVideo(GetProvider(named, realCalls), opens)
  \/ SkipUnchanged \/ FailComparison \/ RecordCapture \/ StopVideo \/ EndVideo
  \/ \E score \in {0, 250} : Prefilter(score)
  \/ \E look \in Looks : \E result \in Compared(video.provider, look) : RunComparison(look, result)

VideoSpec == VideoInit /\ [][VideoNext]_videoVars

-----------------------------------------------------------------------------
\* pipeline.py:15: a finished video says "done" when every capture has its
\* comparison, "failed" when none has and "partial_failed" in between; every
\* frame is counted in one tier, every capture refers to a comparison of its own
\* that has a result, and, however similar the images are, the local comparator
\* passes none with a severe deviation (comparator.py:10).
VideoTellsItsCaptures ==
  /\ video.total = video.filtered + video.processed
  /\ video.status \in {"done", "partial_failed", "failed"} /\ video.total > 0 =>
       LET taken == video.captures
           compared == {i \in DOMAIN taken : taken[i] # NoTask}
       IN /\ Len(taken) = video.passed
          /\ video.status = "done" => compared = DOMAIN taken
          /\ video.status = "failed" => compared = {}
          /\ video.status = "partial_failed" => compared \notin {{}, DOMAIN taken}
          /\ \A i \in compared : tasks[taken[i]].status = "done" /\ tasks[taken[i]].result # NoResult
          /\ \A i, j \in compared : taken[i] = taken[j] => i = j
  /\ \A t \in DOMAIN tasks :
       tasks[t].result.by = "cv" /\ tasks[t].result.verdict = "pass" => ~tasks[t].result.severe
=============================================================================
