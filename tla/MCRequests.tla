----------------------------- MODULE MCRequests -----------------------------
(* Requests of the server that share no table, checked in one run: a behaviour
   follows the requests of one service, the one part names, and the others stay
   in their initial state.  The studio is followed in three parts and the
   inspector in three; each part has a condition of its own that keeps it small. *)
EXTENDS Studio, LegacyQC, Video, Inspector, Sources, PadDesk,
        LiveCapture, Preanalysis, TLC

CONSTANTS a1, a2,         \* administrators
          s1, s2, w1, v1, \* operators, a workstation, a bundle version
          c1, c2, o1,     \* cameras and what they see
          x1, x2          \* standard photos

-----------------------------------------------------------------------------
(* Studio.                                                                  *)

Text(counts, phrased, mentions, centre) ==
  [counts |-> counts, phrased |-> phrased, mentions |-> mentions, centre |-> centre]
MCMessages == {Text({"petal", "pearl"}, {"pearl"}, {"petal", "pearl", "centre"}, "asked"),
               Text({}, {}, {"pearl"}, "bounded")}

Authored(code, title, body, method, value, says, label) ==
  [code |-> code, label |-> label, title |-> title, body |-> body, method |-> method, value |-> value,
   says |-> says, cv |-> "none"]
Reply(came, intent, cps, qs) == [call |-> came, intent |-> intent, named |-> TRUE, cps |-> cps, qs |-> qs]
Ask(code, field, mentions) == [code |-> code, field |-> field, mentions |-> mentions, words |-> {}]
MCReplies ==
  {Reply("ok", "create_sku", <<>>, {}),
   Reply("timeout", "define_requirements", <<>>, {}),
   Reply("ok", "define_requirements", <<Authored(NoCode, {}, {}, "odd", "none", "nothing", "plain")>>, {}),
   \* the first pearl checkpoint mentions the petals too
   Reply("ok", "define_requirements",
         <<Authored("P", {"pearl"}, {"petal"}, "defect_detection", "own", "nothing", "plain"),
           Authored("P2", {"pearl"}, {}, "counting", "none", "count", "plain")>>,
         {Ask("P", "value", {"pearl"}), Ask("P", "analyzer", {"pearl"})}),
   Reply("ok", "define_requirements",
         <<Authored("C", {"centre"}, {"centre"}, "odd", "own", "bound", "plain"),
           Authored("P", {"pearl"}, {}, "counting", "none", "nothing", "plain")>>,
         {Ask("C", "tolerance", {"centre"})})}

Page(came) == [call |-> came, legible |-> TRUE]
Document(kind, pages) ==
  [kind |-> kind, file |-> [size |-> "fits", looks |-> "document"], embedded |-> FALSE, pages |-> pages]
MCDocuments == {Document("pdf", <<Page("ok"), Page("timeout")>>), Document("image", <<Page("ok")>>)}

Seen1(code, result, saw, cv) == [code |-> code, result |-> result, saw |-> saw, cv |-> cv]
MCItems == {Seen1("P", "pass", 1, "agrees"), Seen1("P", "pass", 1, "disagrees"),
            Seen1("C", "pass", NoCount, "not_applicable"), Seen1("P", "odd", 1, "agrees")}
MCCountLists == {<<NoCount, 2>>, <<NoCount>>}

\* uploads of photos; drafts and their confirmation; inspections
PhotosPart == StudioNext /\ UNCHANGED <<standard, bundled>>
DraftsPart == StudioNext /\ photos' = <<>> /\ ~bundled'
SightPart ==
  /\ StudioNext
  /\ turn'[a2] = NoTurn /\ turn'[a1].kind # "upload" /\ photos' \in {<<>>, <<FALSE>>}
  /\ bundled => sight = NoSight /\ UNCHANGED <<skuStatus, photos, intakes, standard, turn>>

-----------------------------------------------------------------------------
(* Inspections of the legacy router and of a video.                         *)

Judgement(p, r) == [point |-> p, result |-> r]
MCVlmAnswers ==
  {[kind |-> "garbled", items |-> <<>>, valid |-> FALSE]} \cup
  [kind : {"object"}, valid : {TRUE},
   items : {<<>>, <<Judgement(1, "pass")>>,
            <<Judgement(1, "fail"), Judgement(1, "pass"), Judgement(2, "odd")>>,
            <<Judgement(2, "pass"), Judgement(3, "pass"), Judgement(1, "pass")>>}]
Deployed(mode, real, images, key, test) ==
  [mode |-> mode, real |-> real, cloud |-> TRUE, images |-> images, key |-> key, test |-> test]
MCSettings ==
  {Deployed("cloud_qwen_dev", TRUE, TRUE, TRUE, FALSE), Deployed("backend_proxy", TRUE, FALSE, TRUE, FALSE),
   Deployed("on_device_first", TRUE, TRUE, TRUE, FALSE), Deployed("fake", FALSE, FALSE, FALSE, TRUE)}

Look(colour, struct, orb, pixel, textured, defects) ==
  [colour |-> colour, struct |-> struct, orb |-> orb, pixel |-> pixel, textured |-> textured, defects |-> defects]
MCLooks == {Look(1000, 1000, 0, 990, FALSE, <<>>), Look(1000, 980, 900, 950, TRUE, <<3, 16>>),
            Look(1000, 990, 900, 900, TRUE, <<70>>), Look(390, 1000, 1000, 1000, TRUE, <<>>),
            Look(700, 600, 100, 600, TRUE, <<40, 40>>), Look(500, 400, 0, 300, FALSE, <<>>)}

-----------------------------------------------------------------------------
(* Inspector and sources.                                                   *)

Said(p, r, e) == [code |-> p, result |-> r, evidence |-> e]
Response(valid, items, acceptable, issues, incidental) ==
  [valid |-> valid, items |-> items, acceptable |-> acceptable, issues |-> issues, incidental |-> incidental]
AllPass == <<Said("p", "pass", TRUE), Said("q", "pass", TRUE)>>
MCResponses ==
  {Response(FALSE, <<>>, TRUE, FALSE, "none"),
   Response(TRUE, AllPass, TRUE, FALSE, "none"), Response(TRUE, AllPass, TRUE, FALSE, "critical"),
   Response(TRUE, <<Said("p", "fail", TRUE), Said("q", "pass", FALSE)>>, FALSE, FALSE, "none"),
   Response(TRUE, <<Said("p", "fail", TRUE), Said("q", "fail", FALSE), Said("p", "pass", FALSE)>>, TRUE, TRUE, "minor"),
   Response(TRUE, <<Said("q", "fail", TRUE), Said("p", "odd", TRUE)>>, TRUE, FALSE, "none")}

LifecyclePart == InspectorNext /\ UNCHANGED <<pack, classified, call>>
ClassifyPart == InspectorNext /\ UNCHANGED <<inspector, pack, call>>
InspectPart ==
  /\ InspectorNext /\ UNCHANGED classified
  /\ inspector.status = "draft" => call' = NoCall
  /\ inspector'.status \notin {"retired", "exam_failed"}
  /\ inspector.status = "suspended" => inspector'.status \in {"suspended", "on_trial"}
  /\ \A p \in DetPoint : pack'.category[p] \in {Unconfirmed, "visual_defect", "odd"}
  /\ pack'.protocol => pack'.reference
  /\ pack'.reference => pack'.playbook
  /\ pack' # pack => \/ inspector.status = "draft"
                     \/ call # NoCall /\ call.reason = "" /\ pack'.category["p"] = pack.category["p"]
  /\ given # NoneGiven => pack' = pack /\ (given.overall = "pass" \/ call' = NoCall)

MCTexts == {<<>>, <<{"measure", "number", "detect", "align", "view"}>>,
            <<{"visual", "view", "detect"}, {"review"}>>, <<{"detect", "dimension", "count"}>>}
SourcesPart ==
  /\ SourcesNext
  /\ docs # <<>> => \A t \in Tenant : uploading[t] = NotUploading => uploading'[t] = NotUploading
  /\ \A t \in Tenant : uploading'[t].stage # "idle" =>
        \A u \in Tenant \ {t} : uploading'[u].stage = "idle" \/ uploading'[u].text = Unread
  /\ Len(docs') = 2 => extractions = <<>>
  /\ docs' # docs /\ Len(docs') = Len(docs) => \A j \in DOMAIN extractions : extractions[j].status = "running"
  /\ extractions # <<>> => \A t \in Tenant : uploading'[t] = NotUploading
  /\ \A d \in DOMAIN docs' : docs'[d].status = "draft" \/ d = 1
  /\ rules' # <<>> => fragments' = fragments

-----------------------------------------------------------------------------
(* The Pad's desk, where s1 works jobs and s2 drafts and confirms standards,
   and the captures of two cameras.                                         *)

DeskPart ==
  /\ DeskNext
  /\ seat'[s2].place = Nowhere /\ ~seat'[s2].creating /\ (seat'[s2].in \/ drafts' = <<>>)
  /\ seat'[s1].chat = 0 /\ seat'[s1].confirming = <<>>
  /\ \A r \in DOMAIN standards' : standards'[r].points \in {{}, IF r = 1 THEN Item ELSE {CHOOSE i \in Item : TRUE}}
  /\ trial'[2] = "none"
  /\ seat[s1].creating => UNCHANGED <<trial, seat[s1].in, seat[s1].place>>
  /\ work # <<>> => UNCHANGED <<published, trial, release, place, seat[s1]>>
CapturePart ==
  /\ CaptureNext
  /\ lens'[c2] = Watching /\ link'[c1] <= 1
  /\ \A s \in Links : s[1] = c1 => pulling'[s] = NoRead

-----------------------------------------------------------------------------
(* Measurements before a model is asked.                                    *)

Picture(view, stones, metal) ==
  [view |-> view, stones |-> stones, flush |-> {3}, lobes |-> stones, subject |-> TRUE, metal |-> metal, core |-> metal]
MCScenes == {Picture(0, {0, 2}, TRUE), Picture(2, {2}, FALSE), Picture(Plain, {}, TRUE)}
Planned(code, specs, region) ==
  [code |-> code, specs |-> specs, region |-> region, expected |-> [n \in {"rhinestone_count"} |-> 2]]
MCPlans ==
  {<<Planned("A-1", <<<<"rhinestone_count", "socket_holes">>, <<"petal_segmentation", "silhouette">>>>, <<x1, 0, 2>>),
     Planned("A.1", <<<<"rhinestone_count", "hough">>, <<"pearl_count", "">>>>, <<x1, 1, 3>>),
     Planned("B", <<<<"pistil_localization", "">>, <<"petal_segmentation", "hsv">>>>, NoRegion)>>,
   <<Planned("B", <<>>, NoRegion), Planned("A-1", <<<<"rhinestone_count", "other">>>>, NoRegion),
     Planned("A.1", <<<<"rhinestone_count", "contour">>>>, <<x2, 3, 4>>)>>}
MCSafeCode == [c \in {"A-1", "A.1", "B"} |-> IF c = "A.1" THEN "A_1" ELSE c]

-----------------------------------------------------------------------------
VARIABLE part

Init ==
  /\ StudioInit /\ LegacyInit /\ VideoInit /\ InspectorInit
  /\ SourcesInit /\ DeskInit /\ CaptureInit /\ CvInit
  /\ part \in {"photos", "drafts", "sight", "legacy", "video", "lifecycle",
               "classify", "inspect", "sources", "desk", "capture", "cv"}
  \* deployments and pictures vary in the part that reads them
  /\ part \in {"photos", "drafts", "sight"} \/ configured.text
  /\ part = "legacy" \/ setting.test
  /\ part = "cv" \/ \A p \in Photos : pictures[p].view = 0

Next ==
  /\ UNCHANGED part
  /\ \/ /\ \/ part = "photos" /\ PhotosPart
           \/ part = "drafts" /\ DraftsPart
           \/ part = "sight" /\ SightPart
        /\ UNCHANGED <<legacyVars, videoVars, inspectorVars, sourcesVars, deskVars, captureVars, cvVars>>
     \/ /\ part = "legacy" /\ LegacyNext
        /\ UNCHANGED <<studioVars, videoVars, inspectorVars, sourcesVars, deskVars, captureVars, cvVars>>
     \/ /\ part = "video" /\ VideoNext
        /\ UNCHANGED <<studioVars, legacyVars, inspectorVars, sourcesVars, deskVars, captureVars, cvVars>>
     \/ /\ \/ part = "lifecycle" /\ LifecyclePart
           \/ part = "classify" /\ ClassifyPart
           \/ part = "inspect" /\ InspectPart
        /\ UNCHANGED <<studioVars, legacyVars, videoVars, sourcesVars, deskVars, captureVars, cvVars>>
     \/ /\ part = "sources" /\ SourcesPart
        /\ UNCHANGED <<studioVars, legacyVars, videoVars, inspectorVars, deskVars, captureVars, cvVars>>
     \/ /\ part = "desk" /\ DeskPart
        /\ UNCHANGED <<studioVars, legacyVars, videoVars, inspectorVars, sourcesVars, captureVars, cvVars>>
     \/ /\ part = "capture" /\ CapturePart
        /\ UNCHANGED <<studioVars, legacyVars, videoVars, inspectorVars, sourcesVars, deskVars, cvVars>>
     \/ /\ part = "cv" /\ CvNext
        /\ UNCHANGED <<studioVars, legacyVars, videoVars, inspectorVars, sourcesVars, deskVars, captureVars>>

Spec == Init /\ [][Next]_<<studioVars, legacyVars, videoVars, inspectorVars, sourcesVars,
                           deskVars, captureVars, cvVars, part>>
=============================================================================
