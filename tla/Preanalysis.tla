---------------------------- MODULE Preanalysis -----------------------------
(***************************************************************************)
(* The classical measurements taken of a captured frame before a model is  *)
(* asked: the regions an administrator drew on a standard photo are found  *)
(* in the frame by registration, cropped, and given to the analyzers.      *)
(*                                                                         *)
(* A picture is one axis of pixels 0 .. Wide - 1: where stones, flush      *)
(* stones and lobes show, whether there is a subject, metal and a core,    *)
(* and its view: where the scene starts in it, or Plain without features.  *)
(***************************************************************************)
EXTENDS Integers, Sequences, FiniteSets

CONSTANTS
  Wide,        \* width of a picture
  Photos,      \* standard photos
  Scenes,      \* pictures that photos and frames may be
  Plans,       \* detection points that may be measured, in order: [code, specs, region, expected]
  PointCodes, SafeCode,  \* point codes; their file names, where other characters become "_"
  MaxMeasured      \* bound: measured frames

Plain == -1
Gone == [view |-> Plain]   \* no picture
Lost == 2 * Wide          \* no displacement
NoRegion == <<>>

ASSUME PreanalysisAssumption ==
  /\ Wide \in Nat \ {0} /\ SafeCode \in [PointCodes -> STRING]
  /\ \A s \in Scenes : s.view \in Int
  /\ \A ps \in Plans :
       /\ Len(ps) \in Nat /\ DOMAIN ps = 1 .. Len(ps)
       /\ \A i \in DOMAIN ps :
            ps[i].code \in PointCodes /\ ps[i].region \in {NoRegion} \cup (Photos \X Int \X Int)

VARIABLES
  pictures,    \* of each standard photo: its picture, or Gone
  plan, shown, \* the points and the frame of the run; shown is Gone if unreadable
  cache,       \* photos the run has registered: their shift, or Lost
  records,     \* of each point so far: [code, status, crop, measured, deviations]
  prompt,      \* codes the model is told about
  files,       \* what each evidence file holds
  runsDone

cvVars == <<pictures, plan, shown, cache, records, prompt, files, runsDone>>

CvInit ==
  /\ pictures \in [Photos -> Scenes] /\ plan = <<>> /\ shown = Gone
  /\ cache = <<>> /\ records = <<>> /\ prompt = {} /\ files = <<>> /\ runsDone = 0

-----------------------------------------------------------------------------
(* Registration.                                                            *)

\* The displacement of the scene, when both pictures have features to match.
RegisterPhoto(s, f) == IF Plain \in {s.view, f.view} THEN Lost ELSE f.view - s.view

\* A photo is registered once per run: what the cache says stands.
LoadRegistration(p) ==
  IF p \in DOMAIN cache THEN cache[p]
  ELSE IF pictures[p] = Gone \/ shown = Gone THEN Lost ELSE RegisterPhoto(pictures[p], shown)

\* The pixels a region covers in the frame, clipped to it.
MapRegion(region, shift) == {x \in 0 .. Wide - 1 : x - shift >= region[2] /\ x - shift < region[3]}

\* Mutant of RegisteredCrop: what cannot be located is measured on the frame.
RegisteredCropOrFrame(region) ==
  LET shift == LoadRegistration(region[1])
  IN IF shown = Gone THEN {}
     ELSE IF shift = Lost \/ MapRegion(region, shift) = {} THEN 0 .. Wide - 1
     ELSE MapRegion(region, shift)

\* The part of the frame to measure for a region, empty when it is not located.
RegisteredCrop(region) ==
  LET shift == LoadRegistration(region[1])
  IN IF shift = Lost THEN {} ELSE MapRegion(region, shift)

-----------------------------------------------------------------------------
(* Analyzers: what they count in the part of a picture that they are given. *)

Counted(name, backend, n) == [analyzer |-> name, backend |-> backend, count |-> n, sure |-> n > 0]

\* The subject against a dark ground, and the largest patch of metal in it.
HasSubject(pic, crop) == pic.subject /\ crop # {}
HasArmature(pic, crop) == HasSubject(pic, crop) /\ pic.metal

SocketHoles(pic, crop) ==
  Counted("rhinestone_count", "socket_holes", IF HasArmature(pic, crop) THEN Cardinality(pic.stones \cap crop) ELSE 0)
RhinestoneCount(pic, crop, backend) ==
  IF backend = "socket_holes" THEN SocketHoles(pic, crop)
  ELSE Counted("rhinestone_count", backend, Cardinality((pic.stones \cup pic.flush) \cap crop))
PearlCount(pic, crop) ==
  Counted("pearl_count", "", IF HasArmature(pic, crop) THEN Cardinality(pic.flush \cap crop) ELSE 0)
Silhouette(pic, crop) ==
  Counted("petal_segmentation", "silhouette", IF HasSubject(pic, crop) THEN Cardinality(pic.lobes \cap crop) ELSE 0)
PetalSegmentation(pic, crop, backend) ==
  IF backend = "silhouette" THEN Silhouette(pic, crop)
  ELSE Counted("petal_segmentation", backend, Cardinality(pic.lobes \cap crop))
PistilLocalization(pic, crop) ==
  [analyzer |-> "pistil_localization", backend |-> "", found |-> pic.core /\ crop # {}]

\* Backends the analyzers know; others raise.
KnownSpec(spec) ==
  CASE spec[1] = "rhinestone_count" -> spec[2] \in {"contour", "hough", "socket_holes"}
    [] spec[1] \in {"pearl_count", "petal_segmentation", "pistil_localization"} -> TRUE
    [] OTHER -> FALSE
Measured(spec, pic, crop) ==
  CASE spec[1] = "rhinestone_count" -> RhinestoneCount(pic, crop, spec[2])
    [] spec[1] = "pearl_count" -> PearlCount(pic, crop)
    [] spec[1] = "petal_segmentation" -> PetalSegmentation(pic, crop, spec[2])
    [] spec[1] = "pistil_localization" -> PistilLocalization(pic, crop)

\* Expected counts by analyzer; of two results of one analyzer the last is compared.
Deviations(results, expected) ==
  {name \in DOMAIN expected :
     LET of == {k \in DOMAIN results : results[k].analyzer = name /\ "count" \in DOMAIN results[k]}
     IN of # {} /\ results[CHOOSE k \in of : \A l \in of : l <= k].count # expected[name]}

-----------------------------------------------------------------------------
(* One run over the points of a job.                                        *)

StartRun(ps, f) ==
  /\ Len(records) = Len(plan) /\ runsDone < MaxMeasured
  /\ plan' = ps /\ shown' = f /\ cache' = <<>> /\ records' = <<>> /\ prompt' = {}
  /\ runsDone' = runsDone + 1 /\ UNCHANGED <<pictures, files>>

\* The file of a standard photo is lost or replaced on disk while a run reads it.
ChangePhoto(p, s) ==
  /\ pictures[p] # s /\ pictures' = [pictures EXCEPT ![p] = s]
  /\ UNCHANGED <<plan, shown, cache, records, prompt, files, runsDone>>

\* The record of a point whose measurement did not complete.
Unmeasured(point, status) ==
  [code |-> point.code, status |-> status, crop |-> {}, measured |-> <<>>, deviations |-> {}]

RecordOf(point) ==
  LET crop == IF point.region = NoRegion THEN 0 .. Wide - 1 ELSE RegisteredCrop(point.region)
      measured == [k \in DOMAIN point.specs |-> Measured(point.specs[k], shown, crop)]
  IN CASE point.specs = <<>> -> Unmeasured(point, "not_configured")
       [] point.specs # <<>> /\ point.region # NoRegion /\ crop = {} -> Unmeasured(point, "registration_failed")
       [] OTHER ->
            IF shown = Gone \/ \E k \in DOMAIN point.specs : ~KnownSpec(point.specs[k]) THEN Unmeasured(point, "failed")
            ELSE [code |-> point.code, status |-> "completed", crop |-> crop, measured |-> measured,
                  deviations |-> Deviations(measured, point.expected)]

\* write_evidence: one file per point code of the request, written over.
WriteEvidence(row) ==
  files' = [n \in DOMAIN files \cup {SafeCode[row.code]} |->
              IF n = SafeCode[row.code] THEN row.measured ELSE files[n]]

\* run_cv_for_points, one point: its evidence goes to its file and the prompt.
MeasurePoint ==
  LET point == plan[Len(records) + 1]
      row == RecordOf(point)
      uses == point.specs # <<>> /\ point.region # NoRegion /\ shown # Gone
  IN /\ Len(records) < Len(plan)
     /\ records' = Append(records, row)
     /\ cache' = IF uses THEN [p \in DOMAIN cache \cup {point.region[1]} |-> LoadRegistration(p)] ELSE cache
     /\ IF row.status = "completed"
        THEN prompt' = prompt \cup {point.code} /\ WriteEvidence(row)
        ELSE UNCHANGED <<prompt, files>>
     /\ UNCHANGED <<pictures, plan, shown, runsDone>>

CvNext ==
  \/ MeasurePoint
  \/ \E ps \in Plans, f \in Scenes \cup {Gone} : StartRun(ps, f)
  \/ \E p \in Photos, s \in Scenes \cup {Gone} : ChangePhoto(p, s)

CvSpec == CvInit /\ [][CvNext]_cvVars

-----------------------------------------------------------------------------
\* Whatever happens to the standard photos during a run, and whichever points
\* fail: what the model is told of a point with a region was measured inside that
\* region, as one registration of the run places it, for all points of a photo the
\* same; the prompt holds the completed points, and the file of the last point of a
\* file name its measurements.
EvidenceIsLocated ==
  /\ prompt = {records[i].code : i \in {k \in DOMAIN records : records[k].status = "completed"}}
  /\ \A i \in DOMAIN records :
       records[i].status = "completed" =>
         /\ plan[i].region # NoRegion =>
              /\ cache[plan[i].region[1]] # Lost
              /\ records[i].crop # {}
              /\ \A x \in records[i].crop :
                   x - cache[plan[i].region[1]] \in plan[i].region[2] .. plan[i].region[3] - 1
         /\ (\A k \in i + 1 .. Len(records) :
               records[k].status = "completed" => SafeCode[records[k].code] # SafeCode[records[i].code]) =>
               files[SafeCode[records[i].code]] = records[i].measured
=============================================================================
