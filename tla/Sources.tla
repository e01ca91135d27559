------------------------------ MODULE Sources -------------------------------
(***************************************************************************)
(* Source documents of a training pack: process cards uploaded and read,   *)
(* their review, extraction jobs that cut a document into fragments with    *)
(* drafts, and the rule proposals authored from the fragments.  A document *)
(* never changes its text; a request that stores one first checks that the *)
(* pack is not another tenant's.                                           *)
(***************************************************************************)
EXTENDS Naturals, Sequences, FiniteSets, SequencesExt

CONSTANTS
  Tenant,      \* tenants that use the pack
  Texts,       \* texts of documents: sequences of statements
  MaxDocs, MaxJobs, MaxProposals  \* bounds

VARIABLES
  uploading,   \* the document each tenant's request is about to store
  docs,        \* [tenant, type, ext, text, status]
  extractions, \* [doc, status, count]
  fragments,   \* [job, kind, draft, statement]
  rules        \* proposals: [fragment, category, role]

sourcesVars == <<uploading, docs, extractions, fragments, rules>>

\* A statement has the signals that the extractor and the author look for: each
\* has its own vocabulary of measures ("measure" and "dimension").
Signals == {"measure", "number", "boundary", "pseudo", "review", "detect",
            "dimension", "count", "align", "visual", "view"}

ASSUME SourcesAssumption == Texts \subseteq Seq(SUBSET Signals)

Unread == <<>>
NotUploading == [stage |-> "idle", type |-> "none", ext |-> "none", text |-> Unread]
TextTypes == {"natural_language", "process_spec", "inspection_standard", "speech_to_text"}

SourcesInit ==
  uploading = [t \in Tenant |-> NotUploading] /\ docs = <<>> /\ extractions = <<>> /\ fragments = <<>> /\ rules = <<>>

-----------------------------------------------------------------------------
(* Reading a document.                                                      *)

RealText == {"txt", "docx", "xlsx", "pdf"}
ElectronicText == RealText \cup {"doc"}
Image == {"png"}
Cad == {"dwg"}

\* How the text of a card of this kind is to be had.
PlanIngestion(ext) ==
  CASE ext \in ElectronicText -> "direct_text" [] ext \in Image -> "vision_ocr"
    [] ext \in Cad -> "cad_render" [] OTHER -> "unsupported"

\* The parser or the OCR finds the text of the file or nothing; other kinds are
\* only stored.
Recovered(ext, text) == IF ext \in RealText \cup Image THEN {text, Unread} ELSE {Unread}

\* The first vocabulary that matches names the fragment.
ClassifyStatement(s) ==
  IF {"measure", "number"} \subseteq s THEN [kind |-> "possible_physical_measurement", draft |-> "boundary"]
  ELSE IF "measure" \in s THEN [kind |-> "missing_tolerance_or_count", draft |-> "boundary"]
  ELSE IF "boundary" \in s THEN [kind |-> "possible_boundary_condition", draft |-> "boundary"]
  ELSE IF "pseudo" \in s THEN [kind |-> "possible_pseudo_defect", draft |-> "none"]
  ELSE IF "review" \in s THEN [kind |-> "requires_supervisor_review", draft |-> "none"]
  ELSE IF "detect" \in s THEN [kind |-> "possible_detection_point", draft |-> "requirement"]
  ELSE [kind |-> "unclear_requirement", draft |-> "none"]

ToReview(kind) == [kind |-> kind, draft |-> "none"]

\* A fragment before it is stored.
Candidate(class, s) == [kind |-> class.kind, draft |-> class.draft, statement |-> s]

\* Mutant of Extract: a card without readable text becomes a requirement.
ExtractGuessing(doc) ==
  IF doc.text = Unread THEN <<[kind |-> "possible_detection_point", draft |-> "requirement", statement |-> {}]>>
  ELSE [i \in DOMAIN doc.text |-> Candidate(ClassifyStatement(doc.text[i]), doc.text[i])]

\* One fragment for each statement; a document whose text is not to be read
\* leaves one for the supervisor.  (A text without a statement is one statement
\* without signals.)
Extract(doc) ==
  IF doc.type \in TextTypes \cup {"process_card"} /\ doc.text # Unread
  THEN [i \in DOMAIN doc.text |-> Candidate(ClassifyStatement(doc.text[i]), doc.text[i])]
  ELSE <<Candidate(ToReview("requires_supervisor_review"), {})>>

\* The author reads the words of a fragment: a dimension is recorded, a count
\* extracted, and the model may judge what is seen in a stated view only.
ClassifyFragment(s) ==
  IF "dimension" \in s THEN [category |-> "physical_measurement", role |-> "record_only"]
  ELSE IF "count" \in s THEN [category |-> "rule_verification", role |-> "information_extraction"]
  ELSE IF s \cap {"align", "visual"} # {}
       THEN [category |-> "visual_defect", role |-> IF "view" \in s THEN "primary_visual_judge" ELSE ""]
  ELSE [category |-> "", role |-> ""]

-----------------------------------------------------------------------------
(* Documents.                                                               *)

\* A source is registered with what its sender typed ...
CreateSource(t, type, text) ==
  /\ uploading[t] = NotUploading
  /\ uploading' = [uploading EXCEPT ![t] = [stage |-> "check", type |-> type, ext |-> "none", text |-> text]]
  /\ UNCHANGED <<docs, extractions, fragments, rules>>

\* ... or as a process card whose file is stored and read before the check.
UploadCard(t, ext, text) ==
  /\ uploading[t] = NotUploading
  /\ uploading' = [uploading EXCEPT ![t] = [stage |-> "read", type |-> "process_card", ext |-> ext, text |-> text]]
  /\ UNCHANGED <<docs, extractions, fragments, rules>>
RecoverText(t, text) ==
  /\ uploading[t].stage = "read" /\ text \in Recovered(uploading[t].ext, uploading[t].text)
  /\ uploading' = [uploading EXCEPT ![t].stage = "check", ![t].text = text]
  /\ UNCHANGED <<docs, extractions, fragments, rules>>

\* The tenants with a document own the pack; an unowned pack is anyone's.
PackOwners == {docs[d].tenant : d \in DOMAIN docs}
PackAccessible(t) == PackOwners = {} \/ t \in PackOwners
CheckPack(t) ==
  /\ uploading[t].stage = "check"
  /\ uploading' = [uploading EXCEPT ![t] = IF PackAccessible(t) THEN [@ EXCEPT !.stage = "store"] ELSE NotUploading]
  /\ UNCHANGED <<docs, extractions, fragments, rules>>
StoreSource(t) ==
  /\ uploading[t].stage = "store" /\ Len(docs) < MaxDocs
  /\ docs' = Append(docs, [tenant |-> t, type |-> uploading[t].type, ext |-> uploading[t].ext,
                           text |-> uploading[t].text, status |-> "draft"])
  /\ uploading' = [uploading EXCEPT ![t] = NotUploading]
  /\ UNCHANGED <<extractions, fragments, rules>>

\* A review clears or rejects a source, however often, extracted or not.
ReviewSource(t, d, decision) ==
  /\ docs[d].tenant = t /\ docs' = [docs EXCEPT ![d].status = decision]
  /\ UNCHANGED <<uploading, extractions, fragments, rules>>

-----------------------------------------------------------------------------
(* Extraction and authoring.                                                *)

\* The job is committed as running, ...
StartExtraction(t, d) ==
  /\ docs[d].tenant = t /\ Len(extractions) < MaxJobs
  /\ extractions' = Append(extractions, [doc |-> d, status |-> "running", count |-> 0])
  /\ UNCHANGED <<uploading, docs, fragments, rules>>

\* ... then with all of its fragments and drafts at once, ...
FinishExtraction(j) ==
  /\ extractions[j].status = "running"
  /\ LET found == Extract(docs[extractions[j].doc])
     IN /\ fragments' = fragments \o [i \in DOMAIN found |->
                           [job |-> j, kind |-> found[i].kind, draft |-> found[i].draft,
                            statement |-> found[i].statement]]
        /\ extractions' = [extractions EXCEPT ![j].status = "completed", ![j].count = Len(found)]
  /\ UNCHANGED <<uploading, docs, rules>>

\* ... or with none when the extractor raises.  A crash leaves it running.
FailExtraction(j) ==
  /\ extractions[j].status = "running"
  /\ extractions' = [extractions EXCEPT ![j].status = "failed"]
  /\ UNCHANGED <<uploading, docs, fragments, rules>>

\* What the panel shows of a document: its last completed extraction.
Shown(d) ==
  LET done == {j \in DOMAIN extractions : extractions[j].doc = d /\ extractions[j].status = "completed"}
  IN IF done = {} THEN {}
     ELSE {f \in DOMAIN fragments : fragments[f].job = CHOOSE j \in done : \A k \in done : k <= j}

\* Rules are proposed for a fragment on the panel or an older one.
ProposeRules(f) ==
  /\ Len(rules) < MaxProposals
  /\ LET class == ClassifyFragment(fragments[f].statement)
     IN rules' = Append(rules, [fragment |-> f, category |-> class.category, role |-> class.role])
  /\ UNCHANGED <<uploading, docs, extractions, fragments>>

SourcesNext ==
  \/ \E t \in Tenant :
       \/ \E text \in Texts :
            \/ \E type \in {"process_spec", "process_card", "drawing"} : CreateSource(t, type, text)
            \/ \E ext \in {"txt", "doc", "png", "dwg"} : UploadCard(t, ext, text)
       \/ \E text \in {uploading[t].text, Unread} : RecoverText(t, text)
       \/ CheckPack(t) \/ StoreSource(t)
       \/ \E d \in DOMAIN docs :
            \/ \E decision \in {"reviewed", "rejected"} : ReviewSource(t, d, decision)
            \/ StartExtraction(t, d)
  \/ \E j \in DOMAIN extractions : FinishExtraction(j) \/ FailExtraction(j)
  \/ \E f \in DOMAIN fragments : ProposeRules(f)

SourcesSpec == SourcesInit /\ [][SourcesNext]_sourcesVars

-----------------------------------------------------------------------------
\* ingestion/service.py:178, "fail closed, create nothing", and extractor.py:258,
\* "content was not guessed": whatever jobs overlap on a document, a job has its
\* fragments, all of them and one for each statement, exactly when it is
\* completed; a draft quotes the text of its document, a measure never drafts a
\* visual requirement, and what the model is proposed to judge is neither a
\* dimension nor a count and has a stated view.
NothingGuessed ==
  /\ \A j \in DOMAIN extractions :
       LET of == {f \in DOMAIN fragments : fragments[f].job = j}
           text == docs[extractions[j].doc].text
       IN /\ Cardinality(of) = extractions[j].count
          /\ extractions[j].status = "completed" <=> of # {}
          /\ \A f \in of :
               /\ fragments[f].draft # "none" => fragments[f].statement \in Range(text)
               /\ fragments[f].draft = "requirement" => "measure" \notin fragments[f].statement
          /\ of # {} /\ (\E f \in of : fragments[f].draft # "none") => Cardinality(of) = Len(text)
  /\ \A r \in DOMAIN rules :
       LET s == fragments[rules[r].fragment].statement
       IN rules[r].role = "primary_visual_judge" =>
            /\ "view" \in s /\ s \cap {"dimension", "count"} = {}
            /\ extractions[fragments[rules[r].fragment].job].status = "completed"
=============================================================================
