------------------------------- MODULE Studio -------------------------------
(***************************************************************************)
(* The administrator's studio around one SKU: the conversation and the     *)
(* imported standards that draft its checkpoints through the assistants of *)
(* Assistant, the reference photos, the confirmation of a draft and the    *)
(* image inspections against what was confirmed.  A turn waits for a model *)
(* while other requests are served.                                        *)
(***************************************************************************)
EXTENDS Assistant, SequencesExt

CONSTANTS
  Admin,       \* requests under way at once
  Messages,    \* what administrators write: [counts, phrased, mentions, centre]
  Replies,     \* what a model may return
  Documents,   \* what is imported: [file, kind, embedded, pages]
  Items,       \* what the model may say of one checkpoint
  CountLists,  \* what the analyzers of one point may report
  MaxIntakes, MaxPhotos

\* A text counts what the gateway knows; a reply lists its checkpoints, with
\* values of its own at most.
ASSUME StudioAssumption ==
  /\ \A text \in Messages : text.counts \subseteq Concept
  /\ \A reply \in Replies :
       /\ Len(reply.cps) \in Nat /\ DOMAIN reply.cps = 1 .. Len(reply.cps)
       /\ \A i \in DOMAIN reply.cps :
            /\ DOMAIN reply.cps[i] = {"code", "label", "title", "body", "method", "value", "says", "cv"}
            /\ reply.cps[i].value \in {"none", "own"}

VARIABLES
  configured,  \* [text, vision, test]: the assistants, and a test deployment
  skuStatus,   \* "none" before the SKU exists
  photos,      \* its reference photos, in order: is it primary?
  intakes,     \* the drafts
  standard,    \* the points confirmed last
  bundled,     \* a bundle of the confirmed revision was published
  turn,        \* what each request waits for
  sight        \* the last inspected image

studioVars == <<configured, skuStatus, photos, intakes, standard, bundled, turn, sight>>

NoTurn == [kind |-> "none", text |-> NoText, first |-> FALSE]
NoSight == [contract |-> <<>>, answer |-> <<>>, cv |-> <<>>, results |-> <<>>]

StudioInit ==
  /\ configured \in {[text |-> TRUE, vision |-> TRUE, test |-> FALSE],
                     [text |-> FALSE, vision |-> FALSE, test |-> TRUE]}
  /\ skuStatus = "none" /\ photos = <<>> /\ intakes = <<>> /\ standard = <<>>
  /\ bundled = FALSE /\ turn = [a \in Admin |-> NoTurn] /\ sight = NoSight

-----------------------------------------------------------------------------
(* The SKU and its photos.                                                  *)

\* A SKU created in the catalogue is active, in the studio a draft; a second
\* one under its number is refused.
CatalogCreate ==
  /\ skuStatus = "none" /\ skuStatus' = "active"
  /\ UNCHANGED <<configured, photos, intakes, standard, bundled, turn, sight>>
StudioCreate ==
  /\ skuStatus = "none" /\ skuStatus' = "draft"
  /\ UNCHANGED <<configured, photos, intakes, standard, bundled, turn, sight>>

Demoted == [i \in DOMAIN photos |-> FALSE]
WithPhoto(primary) == Append(IF primary THEN Demoted ELSE photos, primary)

\* From the update that clears the primary photo to the commit that names another
\* is one step, as on SQLite, where the first write of a transaction takes the
\* database's only writer lock; what was read before it is a step of its own.

\* A photo registered in the catalogue is primary when the caller says so.
AddPhoto(primary) ==
  /\ skuStatus # "none" /\ Len(photos) < MaxPhotos
  /\ photos' = WithPhoto(primary)
  /\ UNCHANGED <<configured, skuStatus, intakes, standard, bundled, turn, sight>>

\* A photo that does not exist leaves none primary.
SetPrimary(p) ==
  /\ photos' = [i \in DOMAIN photos |-> i = p]
  /\ UNCHANGED <<configured, skuStatus, intakes, standard, bundled, turn, sight>>

\* A file is read up to the size limit and taken for what its first bytes, or
\* for a document its extension, say it is.
Upload == [size : {"empty", "fits", "large"}, looks : {"image", "document", "other"}]
Fits(file) == file.size = "fits"
ValidImage(file) == Fits(file) /\ file.looks = "image"
ValidDocument(file) == Fits(file) /\ file.looks \in {"image", "document"}

\* An upload in the studio reads whether the SKU has a photo ...
BeginUpload(a, file) ==
  /\ turn[a] = NoTurn /\ skuStatus # "none" /\ Len(photos) < MaxPhotos /\ ValidImage(file)
  /\ turn' = [turn EXCEPT ![a] = [NoTurn EXCEPT !.kind = "upload", !.first = photos = <<>>]]
  /\ UNCHANGED <<configured, skuStatus, photos, intakes, standard, bundled, sight>>

AfterUpload == IF configured.vision THEN [NoTurn EXCEPT !.kind = "photo"] ELSE NoTurn

\* Mutant of StorePhoto: for a first photo there is nothing to clear.
StorePhotoUncleared(a) ==
  /\ turn[a].kind = "upload" /\ Len(photos) < MaxPhotos
  /\ photos' = Append(photos, turn[a].first)
  /\ turn' = [turn EXCEPT ![a] = AfterUpload]
  /\ UNCHANGED <<configured, skuStatus, intakes, standard, bundled, sight>>

\* ... and stores the first as primary, then has the photo described.
StorePhoto(a) ==
  /\ turn[a].kind = "upload" /\ Len(photos) < MaxPhotos
  /\ photos' = WithPhoto(turn[a].first)
  /\ turn' = [turn EXCEPT ![a] = AfterUpload]
  /\ UNCHANGED <<configured, skuStatus, intakes, standard, bundled, sight>>

-----------------------------------------------------------------------------
(* Drafts.                                                                  *)

\* A draft becomes an intake, and the SKU shows what is missing.  Without
\* checkpoints there is nothing to confirm.
Intake(draft, text) ==
  [cps |-> draft.cps, qs |-> draft.qs, text |-> text,
   status |-> IF draft.cps = <<>> THEN "extracted" ELSE "pending_confirmation"]
PersistTurn(draft, text) ==
  /\ Len(intakes) < MaxIntakes
  /\ intakes' = Append(intakes, Intake(draft, text))
  /\ skuStatus' = IF draft.cps = <<>> \/ draft.qs # {} THEN "needs_information" ELSE "ready_for_review"

\* A usable reply creates the SKU it names, or drafts for the one that exists.
ApplyTurn(draft, text) ==
  IF draft.intent = "create_sku"
  THEN /\ skuStatus' = IF draft.named /\ skuStatus = "none" THEN "draft" ELSE skuStatus
       /\ UNCHANGED intakes
  ELSE IF skuStatus = "none" \/ (draft.cps = <<>> /\ draft.qs = {})
       THEN UNCHANGED <<skuStatus, intakes>>
       ELSE PersistTurn(draft, text)

Chat(a, text) ==
  /\ turn[a] = NoTurn /\ configured.text
  /\ turn' = [turn EXCEPT ![a] = [NoTurn EXCEPT !.kind = "chat", !.text = text]]
  /\ UNCHANGED <<configured, skuStatus, photos, intakes, standard, bundled, sight>>

\* The text of an imported standard: embedded in the file, or read by the
\* vision assistant from an image or from every page of a scan.
ImportText(doc) ==
  /\ ValidDocument(doc.file)
  /\ CASE doc.kind = "image" -> ExtractImageText(doc.pages[1], configured.vision)
       [] doc.kind = "pdf" ->
            \/ doc.embedded
            \/ /\ doc.pages # <<>>
               /\ \A i \in DOMAIN doc.pages : ExtractImageText(doc.pages[i], configured.vision)
       [] doc.kind = "text" -> doc.embedded
       [] OTHER -> FALSE

ImportStandard(a, doc, text) ==
  /\ turn[a] = NoTurn /\ skuStatus # "none" /\ ImportText(doc) /\ configured.text
  /\ turn' = [turn EXCEPT ![a] = [NoTurn EXCEPT !.kind = "import", !.text = text]]
  /\ UNCHANGED <<configured, skuStatus, photos, intakes, standard, bundled, sight>>

\* The model answers a chat or an import with a draft, a photo with questions.
ModelReplies(a, reply) ==
  LET draft == IF turn[a].kind = "photo" THEN AuthorImage(reply, configured.vision)
               ELSE AuthorText(reply, turn[a].text, configured.text)
  IN /\ turn[a].kind \in {"chat", "import", "photo"}
     /\ turn' = [turn EXCEPT ![a] = NoTurn]
     /\ IF draft = NoReply THEN UNCHANGED <<skuStatus, intakes>> ELSE ApplyTurn(draft, turn[a].text)
     /\ UNCHANGED <<configured, photos, standard, bundled, sight>>

\* What the parser of a test deployment counts when the text phrases it as
\* "<thing> count <number>", a button standing for all the gateway does not know.
ParserCounts == {"pearl", "rhinestone", "button"}

\* Without an assistant such a deployment parses the text itself: a checkpoint
\* for what is phrased so, one without a count and a question for a countable
\* thing it otherwise mentions, even with a number, and one without a count for
\* a petal, a centre or another thing to look at.
Parsed(text) ==
  LET point(k, method, value) ==
        [code |-> k, label |-> k, title |-> {k}, body |-> {}, method |-> method, value |-> value,
         says |-> "nothing", cv |-> "none"]
      open == (text.mentions \cap ParserCounts) \ text.phrased
      looked(k) == point(k, IF k = "centre" THEN "alignment" ELSE "defect_detection", "none")
  IN [cps |-> SetToSeq({point(k, "counting", k) : k \in text.phrased})
              \o SetToSeq({looked(k) : k \in text.mentions \ ParserCounts})
              \o SetToSeq({point(k, "counting", "none") : k \in open}),
      qs |-> {[code |-> k, field |-> "value", mentions |-> {k}, words |-> {k}] : k \in open}]
ParserTurn(text) ==
  /\ ~configured.text /\ configured.test /\ skuStatus # "none" /\ Len(intakes) < MaxIntakes
  /\ intakes' = Append(intakes, [Intake(Parsed(text), text) EXCEPT !.status = "pending_confirmation"])
  /\ UNCHANGED <<configured, skuStatus, photos, standard, bundled, turn, sight>>

-----------------------------------------------------------------------------
(* Confirmation, and what is done with the confirmed points.                *)

\* The card the administrator returns: the draft with the values typed in.
Card(i, typed) ==
  [k \in DOMAIN intakes[i].cps |->
     IF k \in typed THEN [intakes[i].cps[k] EXCEPT !.value = "typed"] ELSE intakes[i].cps[k]]

\* Question q of the draft is resolved by an answer or by the card.
Resolved(q, card, answers) ==
  \/ q \in answers
  \/ /\ q.field = "value"
     /\ \E k \in DOMAIN card : card[k].code = q.code /\ card[k].value # "none"

\* The studio wants a count for every counting checkpoint; the intake wants its
\* questions resolved and its codes distinct.
MayConfirm(i, card, answers) ==
  /\ \A k \in DOMAIN card : card[k].method = "counting" => card[k].value # "none"
  /\ intakes[i].status \in {"pending_confirmation", "extracted"} /\ card # <<>>
  /\ \A q \in intakes[i].qs : Resolved(q, card, answers)
  /\ \A j, k \in DOMAIN card : card[j].code = card[k].code => j = k

ConfirmDraft(i, typed, answers) ==
  /\ MayConfirm(i, Card(i, typed), answers)
  /\ standard' = [k \in DOMAIN Card(i, typed) |->
                    [code |-> Card(i, typed)[k].code, method |-> Card(i, typed)[k].method,
                     value |-> Card(i, typed)[k].value, cv |-> Card(i, typed)[k].cv, regions |-> {}]]
  /\ intakes' = [intakes EXCEPT ![i].status = "confirmed"]
  /\ skuStatus' = "confirmed" /\ bundled' = FALSE
  /\ UNCHANGED <<configured, photos, turn, sight>>

RejectDraft(i) ==
  /\ intakes' = [intakes EXCEPT ![i].status = "rejected"]
  /\ UNCHANGED <<configured, skuStatus, photos, standard, bundled, turn, sight>>

\* A region lies on a photo of the SKU; a request with any other is refused.
NormalizeRegions(regions) == regions \subseteq DOMAIN photos
SetRegions(k, regions) ==
  /\ NormalizeRegions(regions)
  /\ standard' = [standard EXCEPT ![k].regions = regions]
  /\ UNCHANGED <<configured, skuStatus, photos, intakes, bundled, turn, sight>>

\* The analyzers of a point are chosen until its revision is published.
SetAnalysisConfig(k, cv) ==
  /\ ~bundled
  /\ standard' = [standard EXCEPT ![k].cv = cv]
  /\ UNCHANGED <<configured, skuStatus, photos, intakes, bundled, turn, sight>>

Publish ==
  /\ standard # <<>> /\ skuStatus' = "published" /\ bundled' = TRUE
  /\ UNCHANGED <<configured, photos, intakes, standard, turn, sight>>

\* An image is inspected against the confirmed points, with the counts of
\* their analyzers.
Inspect(call, answer, counts) ==
  LET points == [k \in DOMAIN standard |->
                   [code |-> standard[k].code,
                    counts |-> IF standard[k].cv = "none" THEN <<>> ELSE counts[k]]]
  IN /\ bundled
     /\ LET seen == InspectImage(standard, call, configured.vision, answer, points)
        IN sight' = IF ~seen.ok THEN NoSight
                    ELSE [contract |-> standard, answer |-> answer, cv |-> CvCounts(points),
                          results |-> seen.results]
     /\ UNCHANGED <<configured, skuStatus, photos, intakes, standard, bundled, turn>>

Answers == UNION {[1 .. n -> Items] : n \in 0 .. Len(standard)}

StudioNext ==
  \/ CatalogCreate \/ StudioCreate \/ Publish
  \/ \E primary \in BOOLEAN : AddPhoto(primary)
  \/ \E p \in 1 .. Len(photos) + 1 : photos # <<>> /\ SetPrimary(p)
  \/ \E a \in Admin :
       \/ (\E file \in Upload : BeginUpload(a, file)) \/ StorePhoto(a)
       \/ \E text \in Messages : Chat(a, text) \/ \E doc \in Documents : ImportStandard(a, doc, text)
       \/ \E reply \in Replies : ModelReplies(a, reply)
  \/ \E text \in Messages : ParserTurn(text)
  \/ \E i \in DOMAIN intakes :
       \/ RejectDraft(i)
       \/ \E typed \in SUBSET DOMAIN intakes[i].cps, answers \in SUBSET intakes[i].qs :
            ConfirmDraft(i, typed, answers)
  \/ \E k \in DOMAIN standard :
       \/ \E regions \in SUBSET {1, 2} : SetRegions(k, regions)
       \/ \E cv \in {"none", "matching"} : SetAnalysisConfig(k, cv)
  \/ \E call \in {"ok", "timeout"}, answer \in Answers, counts \in [DOMAIN standard -> CountLists] :
       Inspect(call, answer, counts)

StudioSpec == StudioInit /\ [][StudioNext]_studioVars

-----------------------------------------------------------------------------
(* Properties.                                                              *)

\* ai_gateway.py:283, "Make explicit administrator facts authoritative over
\* model typing": whatever the model returns, and in whatever order turns are
\* applied, a checkpoint of an assistant's draft that mentions what the
\* administrator counted has a count of the administrator's for something it
\* mentions, no second one has the same, and no question is left about it; and
\* the one to be centred has the administrator's bound or none.
DraftFollowsText ==
  configured.text =>
    \A i \in DOMAIN intakes :
      LET cps == intakes[i].cps
          text == intakes[i].text
          counted(j) == Mentions(cps[j]) \cap text.counts
          centred == {j \in DOMAIN cps : "centre" \in cps[j].title /\ counted(j) = {}}
      IN /\ \A j \in DOMAIN cps : counted(j) # {} =>
              /\ cps[j].method = "counting" /\ cps[j].value \in counted(j)
              /\ ~\E q \in intakes[i].qs : q.code = cps[j].code
         /\ \A j, k \in DOMAIN cps :
              counted(j) # {} /\ counted(k) # {} /\ cps[j].value = cps[k].value => j = k
         /\ text.centre # "none" =>
              \A j, k \in centred : j = k /\ cps[j].value = CentreBound(text)

\* service.py:434 and sample_admin_router.py:306 clear the primary photo before
\* they name another: uploads that overlap leave at most one, where one
\* transaction writes at a time.
OnePrimary == Cardinality({p \in DOMAIN photos : photos[p]}) <= 1

\* ai_gateway.py:743, "CV must be the counting authority": an inspection gives
\* one result for every confirmed point, and passes one alone only within the
\* model's scope, a counted one only on a CV count the model does not dispute.
PassIsSupported ==
  /\ DOMAIN sight.results = DOMAIN sight.contract
  /\ \A k \in DOMAIN sight.results :
       LET point == sight.contract[k]
           given == sight.results[k]
       IN /\ given.code = point.code
          /\ given.result = "pass" =>
               \E i \in DOMAIN sight.answer :
                 /\ sight.answer[i].code = point.code /\ sight.answer[i].result = "pass"
                 /\ point.method \in InScope
                 /\ point.method = "counting" =>
                      /\ point.code \in DOMAIN sight.cv /\ given.saw = sight.cv[point.code]
                      /\ sight.answer[i].cv # "disagrees"
=============================================================================
