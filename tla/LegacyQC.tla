------------------------------ MODULE LegacyQC ------------------------------
(***************************************************************************)
(* The first inspection interface (/api/v1/qc): standards with photos and  *)
(* points, captures, and an inspection that asks one vision provider about *)
(* all active points while other requests edit them; then the assets and   *)
(* their sync jobs.  The provider's text goes through the parser and the   *)
(* router of src/qwen.                                                     *)
(***************************************************************************)
EXTENDS Sequences, Naturals, FiniteSets

CONSTANTS
  Skus, Client,
  Settings,     \* [mode, real, cloud, images, key, test] of the deployment
  VlmAnswers,      \* what the provider may answer: [kind, items]
  MaxPoints, MaxCaptures, MaxRuns

\* What the items of an answer are is for the parser to find out; they come in
\* a list, none if the answer is no object.
ASSUME LegacyAssumption == \A a \in VlmAnswers : a.items \in Seq([point : Nat, result : STRING])

VARIABLES
  setting,
  std,          \* the standard: its SKU ("none" before it exists), the SKUs its
                \* photos were sent for, and for each point whether it is active
  captures,     \* the SKU each capture was taken of
  inspecting,   \* what each client's inspection has read
  runs,         \* the inspections stored, in the order of completion
  synced        \* runs whose asset waits for a sync target

legacyVars == <<setting, std, captures, inspecting, runs, synced>>

NoSku == "none"
NotRunning == [sku |-> NoSku, capture |-> 0, photos |-> 0, points |-> {}]

LegacyInit ==
  /\ setting \in Settings
  /\ std = [sku |-> NoSku, photos |-> <<>>, points |-> <<>>]
  /\ captures = <<>> /\ inspecting = [c \in Client |-> NotRunning]
  /\ runs = <<>> /\ synced = {}

-----------------------------------------------------------------------------
(* The provider's answer.  An output is the result of every point with the  *)
(* overall result.                                                          *)

Known == {"pass", "fail", "review_required"}
Coerced(result) == IF result \in Known THEN result ELSE "review_required"

\* The worst result decides; nothing to decide is left to a person.
Overall(items) ==
  LET given == {items[p] : p \in DOMAIN items}
  IN IF "fail" \in given THEN "fail"
     ELSE IF given = {"pass"} THEN "pass" ELSE "review_required"

Deferred(points) ==
  [overall |-> "review_required", items |-> [p \in points |-> "review_required"], fallback |-> TRUE]

\* The items of known points, the last of several on one point, and review for
\* a point the model left out.
ItemsFor(points, items) ==
  [p \in points |->
     LET on == {i \in DOMAIN items : items[i].point = p}
     IN IF on = {} THEN "review_required"
        ELSE Coerced(items[CHOOSE i \in on : \A j \in on : j <= i].result)]

\* An answer that is no JSON object has no items at all.
ParseQwenOutput(points, answer) ==
  IF points = {} \/ answer.kind # "object"
  THEN [overall |-> "review_required", items |-> [p \in {} |-> "pass"], fallback |-> TRUE]
  ELSE LET items == ItemsFor(points, answer.items)
       IN [overall |-> Overall(items), items |-> items, fallback |-> ~answer.valid]

NormalizeProviderOutput(points, out) ==
  LET items == [p \in points |-> IF p \in DOMAIN out.items THEN Coerced(out.items[p])
                                 ELSE "review_required"]
      missing == points \ DOMAIN out.items
  IN [overall |-> Overall(items), items |-> items,
      fallback |-> out.fallback \/ (missing # {} /\ Overall(items) = "review_required")]

Provider ==
  CASE setting.mode \in {"cloud_qwen_dev", "backend_proxy"} -> IF setting.real THEN "dashscope" ELSE "none"
    [] setting.mode = "fake" -> IF setting.test THEN "fake" ELSE "none"
    [] OTHER -> "none"

\* DashScope is asked only when the cloud and the images are allowed, with a
\* key and files that can be read; any failure is an exception.
DashScopeAnswers(read, call) ==
  setting.cloud /\ setting.images /\ setting.key /\ read.photos > 0 /\ read.points # {} /\ call = "ok"

Route(read, call, answer) ==
  IF read.points = {} \/ Provider = "none" \/ ~setting.cloud THEN Deferred(read.points)
  ELSE IF Provider = "fake"
       THEN NormalizeProviderOutput(read.points,
              [overall |-> "pass", items |-> [p \in read.points |-> "pass"], fallback |-> FALSE])
       ELSE IF DashScopeAnswers(read, call)
            THEN NormalizeProviderOutput(read.points, ParseQwenOutput(read.points, answer))
            ELSE Deferred(read.points)

\* Mutant of RunInspection: a standard without photos is sent all the same.
RunInspectionUnphotographed(read, call, answer) == Route([read EXCEPT !.photos = 1], call, answer)

\* Without reference photos or points no provider is asked.
RunInspection(read, call, answer) ==
  IF read.photos = 0 \/ read.points = {} THEN Deferred(read.points) ELSE Route(read, call, answer)

-----------------------------------------------------------------------------
(* Standards, captures and inspections.                                     *)

CreateStandard(sku) ==
  /\ std.sku = NoSku /\ std' = [std EXCEPT !.sku = sku]
  /\ UNCHANGED <<setting, captures, inspecting, runs, synced>>

\* A photo carries the SKU its sender names, whatever the standard's.
AddStandardPhoto(sku) ==
  /\ std.sku # NoSku /\ Len(std.photos) < 1 /\ std' = [std EXCEPT !.photos = Append(@, sku)]
  /\ UNCHANGED <<setting, captures, inspecting, runs, synced>>

CreateQcPoint ==
  /\ std.sku # NoSku /\ Len(std.points) < MaxPoints
  /\ std' = [std EXCEPT !.points = Append(@, TRUE)]
  /\ UNCHANGED <<setting, captures, inspecting, runs, synced>>

UpdateQcPoint(p, active) ==
  /\ std' = [std EXCEPT !.points[p] = active]
  /\ UNCHANGED <<setting, captures, inspecting, runs, synced>>

CreateCapture(sku) ==
  /\ Len(captures) < MaxCaptures /\ captures' = Append(captures, sku)
  /\ UNCHANGED <<setting, std, inspecting, runs, synced>>

ActivePoints == {p \in DOMAIN std.points : std.points[p]}

\* An inspection reads the standard's photos and active points ...
BeginInspect(c, sku, capture) ==
  /\ inspecting[c] = NotRunning /\ std.sku # NoSku
  /\ std.sku = sku /\ captures[capture] = sku
  /\ inspecting' = [inspecting EXCEPT ![c] =
       [sku |-> sku, capture |-> capture, photos |-> Len(std.photos), points |-> ActivePoints]]
  /\ UNCHANGED <<setting, std, captures, runs, synced>>

\* ... asks the provider, and stores run, result, items and asset at once.
FinishInspect(c, call, answer) ==
  /\ inspecting[c] # NotRunning /\ Len(runs) < MaxRuns
  /\ LET out == RunInspection(inspecting[c], call, answer)
     IN runs' = Append(runs, [read |-> inspecting[c], of |-> std.sku, call |-> call,
                              answer |-> answer, overall |-> out.overall,
                              items |-> out.items, fallback |-> out.fallback])
  /\ inspecting' = [inspecting EXCEPT ![c] = NotRunning]
  /\ UNCHANGED <<setting, std, captures, synced>>

\* The server stops before the commit: nothing of the inspection remains.
LoseInspect(c) ==
  /\ inspecting[c] # NotRunning /\ inspecting' = [inspecting EXCEPT ![c] = NotRunning]
  /\ UNCHANGED <<setting, std, captures, runs, synced>>

LatestResult(sku) ==
  LET of == {r \in DOMAIN runs : runs[r].read.sku = sku}
  IN IF of = {} THEN "none" ELSE runs[CHOOSE r \in of : \A s \in of : s <= r].overall

TriggerAssetSync(r) ==
  /\ synced' = synced \cup {r} /\ UNCHANGED <<setting, std, captures, inspecting, runs>>

LegacyNext ==
  \/ \E sku \in Skus : CreateStandard(sku) \/ AddStandardPhoto(sku) \/ CreateCapture(sku)
  \/ CreateQcPoint
  \/ \E p \in DOMAIN std.points, active \in BOOLEAN : UpdateQcPoint(p, active)
  \/ \E c \in Client :
       \/ \E sku \in Skus, capture \in DOMAIN captures : BeginInspect(c, sku, capture)
       \/ \E call \in {"ok", "raises"}, answer \in VlmAnswers : FinishInspect(c, call, answer)
       \/ LoseInspect(c)
  \/ \E r \in DOMAIN runs : TriggerAssetSync(r)

LegacySpec == LegacyInit /\ [][LegacyNext]_legacyVars

-----------------------------------------------------------------------------
\* qc_router.py:290, "a provider must never get the chance to return a pass with
\* no standard photos or no detection points": whatever the provider returns and
\* whatever is edited meanwhile, a stored pass compared one SKU with itself and
\* rests on a photo and on a pass, the provider's last word, for each point read.
LegacyPassIsWhole ==
  \A r \in DOMAIN runs :
    LET run == runs[r]
    IN /\ DOMAIN run.items = run.read.points
       /\ run.overall = "pass" =>
            /\ run.read.photos > 0 /\ run.read.points # {}
            /\ captures[run.read.capture] = run.read.sku /\ run.of = run.read.sku
            /\ \/ setting.mode = "fake" /\ setting.test
               \/ /\ run.call = "ok" /\ setting.images /\ run.answer.kind = "object"
                  /\ \A p \in run.read.points :
                       \E i \in DOMAIN run.answer.items :
                         /\ run.answer.items[i] = [point |-> p, result |-> "pass"]
                         /\ \A j \in DOMAIN run.answer.items :
                              j > i => run.answer.items[j].point # p
=============================================================================
