---------------------------- MODULE TrainingPack ----------------------------
(* One training pack on its way to production-assisted (L2) inspection: visual
   memory learned from sample groups, its review and its application as
   confirmed visual rules (src/src/qc_model/sample_learning/service.py), the
   readiness evaluation over it and over the proposals of Learning
   (readiness/evaluator.py, waiver.py), and the inspection runs that the
   readiness gates (production/service.py).

   A memory stands for the sample-learning job it came from and the group that
   job ran on. *)
EXTENDS Learning

CONSTANTS
    Memory,          \* sample-learning jobs, each with the memory it may give
    SampleType,      \* type of the sample group of each: a function on Memory
    Feature,         \* feature types and
    Content,         \* contents a provider or a reviewer may give a memory
    Uncertain,       \* proposals the model left a question on
    CodeOf,          \* detection point code of each memory and proposal
    Run              \* production inspection runs

ASSUME PackAssumption ==
    /\ SampleType \in [Memory -> {"reference", "positive", "defect", "boundary"}]
    /\ Uncertain \subseteq Prop
    /\ Memory \union Prop \subseteq DOMAIN CodeOf

VARIABLES
    sjob,        \* status of each sample-learning job
    provider,    \* what learned it: a real provider or one that serves L0 only
    mem,         \* the visual rule memories
    rules,       \* QCConfirmedVisualRule rows
    confirming,  \* what each request applying a memory has read, or Idle
    waived,      \* proposals whose question is waived
    session,     \* the pack's production session: none, open, captured
    run          \* the production inspection runs

packVars == <<sjob, provider, mem, rules, confirming, waived, session, run>>

MemStatus == {"proposed", "approved", "rejected", "applied"}
NoMem == [status |-> "absent", feature |-> "none", content |-> "none", attached |-> "absent"]
NotConfirming == [of |-> "none", content |-> "none"]
\* began: the rules there were when the gate let the run through (a history
\* field); rules: the rules it went on to inspect
NoRun == [status |-> "none", began |-> {}, rules |-> {}, measured |-> FALSE, overall |-> "none"]

PackInit ==
    /\ sjob = [m \in Memory |-> "none"]
    /\ provider = [m \in Memory |-> "none"]
    /\ mem = [m \in Memory |-> NoMem]
    /\ rules = {}
    /\ confirming = [a \in Applier |-> NotConfirming]
    /\ waived = {}
    /\ session = "none"
    /\ run = [r \in Run |-> NoRun]

----------------------------------------------------------------------------
(* Readiness *)
ReadyMemory == {m \in Memory : mem[m].status \in Confirmed}
VisualRole == {"primary_visual_judge", "information_extraction", "assisted_visual_judge"}
VisualPoint(p) ==
    /\ prop[p].status \in Confirmed
    /\ prop[p].cat \in {"visual_defect", "rule_verification"} /\ prop[p].role \in VisualRole

\* checks 5b and 9 of evaluate_readiness
MemoryCoversPoints ==
    \A p \in Made : VisualPoint(p) =>
        CodeOf[p] \in {CodeOf[m] : m \in ReadyMemory} \union {CodeOf[c.of] : c \in rules}
NoConflict ==
    \A m \in Memory, c \in rules :
        /\ mem[m].status = "approved" /\ CodeOf[c.of] = CodeOf[m] /\ c.feature = mem[m].feature
        => c.of = m \/ c.content = mem[m].content

ExamReady ==
    /\ \A p \in Made : prop[p].status # "proposed"
    /\ \A p \in Made : prop[p].cat = Physical => prop[p].status \in Confirmed
    /\ \A m \in Memory : mem[m].status # "proposed"
    /\ MemoryCoversPoints
    /\ \A p \in Made \intersect Uncertain : prop[p].status \in Confirmed => p \in waived
    /\ NoConflict

SampleCoverage ==
    LET types == {SampleType[m] : m \in {m \in Memory : sjob[m] = "completed"}} IN
    "positive" \in types /\ types \intersect {"defect", "boundary"} # {}

\* production_assisted_allowed; the pack's rows make it known to its tenant
ProductionAssisted ==
    /\ ExamReady
    /\ SampleCoverage
    /\ \A m \in ReadyMemory : provider[m] = "real"
    /\ \A m \in Memory : mem[m].attached # "proposed"

Waive(p) ==
    /\ p \notin waived
    /\ waived' = waived \union {p}
    /\ UNCHANGED <<sjob, provider, mem, rules, confirming, session, run>>

----------------------------------------------------------------------------
(* Sample learning *)
StartLearning(m, who) ==
    /\ sjob[m] = "none"
    /\ sjob' = [sjob EXCEPT ![m] = "running"]
    /\ provider' = [provider EXCEPT ![m] = who]
    /\ UNCHANGED <<mem, rules, confirming, waived, session, run>>

\* _persist_and_aggregate: one memory, with or without pseudo-defect and
\* capture-artifact rules attached to it
FinishLearning(m, f, c, attached) ==
    /\ sjob[m] = "running"
    /\ sjob' = [sjob EXCEPT ![m] = "completed"]
    /\ mem' = [mem EXCEPT ![m] = [status |-> "proposed", feature |-> f, content |-> c, attached |-> attached]]
    /\ UNCHANGED <<provider, rules, confirming, waived, session, run>>

\* refused observations, a provider that failed, an error while persisting
FailLearning(m) ==
    /\ sjob[m] = "running"
    /\ sjob' = [sjob EXCEPT ![m] = "failed"]
    /\ UNCHANGED <<provider, mem, rules, confirming, waived, session, run>>

\* _close_associated_rules: what is resolved already stays
Closed(attached, status) == IF attached = "proposed" THEN status ELSE attached

\* review_memory, approve (as it is or edited) and reject: of any status
Review(m, verdict, c) ==
    /\ mem[m].status # "absent"
    /\ verdict = "rejected" => c = mem[m].content
    /\ mem' = [mem EXCEPT ![m].status = verdict, ![m].content = c,
                          ![m].attached = Closed(@, verdict)]
    /\ UNCHANGED <<sjob, provider, rules, confirming, waived, session, run>>

\* review_memory, edit: new content, the status it had
EditMemory(m, c) ==
    /\ mem[m].status # "absent" /\ c # mem[m].content
    /\ mem' = [mem EXCEPT ![m].content = c]
    /\ UNCHANGED <<sjob, provider, rules, confirming, waived, session, run>>

SameKey(c, m) == CodeOf[c.of] = CodeOf[m] /\ c.feature = mem[m].feature

\* apply_approved_memory: a rule for the same point and feature ends the request,
\* returned when it is the memory's own or identical, refused as a conflict when not
BeginConfirm(a, m) ==
    /\ confirming[a] = NotConfirming
    /\ mem[m].status = "approved"
    /\ \A c \in rules : ~ SameKey(c, m)
    /\ confirming' = [confirming EXCEPT ![a] = [of |-> m, content |-> mem[m].content]]
    /\ UNCHANGED <<sjob, provider, mem, rules, waived, session, run>>

CommitConfirm(a) ==
    /\ confirming[a] # NotConfirming
    /\ LET m == confirming[a].of IN
       /\ rules' = rules \union {[of |-> m, feature |-> mem[m].feature, content |-> confirming[a].content]}
       /\ mem' = [mem EXCEPT ![m].status = "applied", ![m].attached = Closed(@, "applied")]
    /\ confirming' = [confirming EXCEPT ![a] = NotConfirming]
    /\ UNCHANGED <<sjob, provider, waived, session, run>>

----------------------------------------------------------------------------
(* Production *)
CreateSession ==
    /\ session = "none" /\ ProductionAssisted
    /\ session' = "open"
    /\ UNCHANGED <<sjob, provider, mem, rules, confirming, waived, run>>

AddCapture ==
    /\ session = "open"
    /\ session' = "captured"
    /\ UNCHANGED <<sjob, provider, mem, rules, confirming, waived, run>>

\* run_inspection up to the commit of its running row: an eligible inspection
\* provider, captures, and the readiness of this moment
StartInspection(r) ==
    /\ run[r].status = "none" /\ session = "captured" /\ ProductionAssisted
    /\ run' = [run EXCEPT ![r] = [@ EXCEPT !.status = "running", !.began = rules]]
    /\ UNCHANGED <<sjob, provider, mem, rules, confirming, waived, session>>

\* then it reads the confirmed rules and the measurement points of another moment
ReadRules(r) ==
    /\ run[r].status = "running"
    /\ run' = [run EXCEPT ![r] = [@ EXCEPT !.status = "asking", !.rules = rules,
                  !.measured = \E p \in Made : prop[p].cat = Physical /\ prop[p].status \in Confirmed]]
    /\ UNCHANGED <<sjob, provider, mem, rules, confirming, waived, session>>

Answer == {"pass", "unbacked_pass", "review", "reject"}
\* _coerce_disposition: a pass without its evidence, or with conditions left, is a review
Coerced(x) == IF x = "unbacked_pass" THEN "review" ELSE x

\* Mutant: what a gauge has to measure does not count.
OverallOfVisual(ds, measured) ==
    CASE "reject" \in ds -> "reject"
      [] ds = {"pass"}   -> "pass"
      [] OTHER           -> "review"

\* _overall_disposition of the coerced answers and of the measurements to take
Overall(ds, measured) ==
    CASE "reject" \in ds               -> "reject"
      [] ds = {"pass"} /\ ~ measured   -> "pass"
      [] OTHER                         -> "review"

FinishInspection(r, answer) ==
    /\ run[r].status = "asking"
    /\ run' = [run EXCEPT ![r] = [@ EXCEPT !.status = "completed",
                  !.overall = Overall({Coerced(answer[c]) : c \in run[r].rules}, run[r].measured)]]
    /\ UNCHANGED <<sjob, provider, mem, rules, confirming, waived, session>>

FailInspection(r) ==
    /\ run[r].status = "asking"
    /\ run' = [run EXCEPT ![r] = [@ EXCEPT !.status = "failed"]]
    /\ UNCHANGED <<sjob, provider, mem, rules, confirming, waived, session>>

PackStep ==
    \/ \E p \in Uncertain : Waive(p)
    \/ \E m \in Memory :
        \/ \E who \in {"real", "mock"} : StartLearning(m, who)
        \/ \E f \in Feature, c \in Content, attached \in {"absent", "proposed"} : FinishLearning(m, f, c, attached)
        \/ FailLearning(m)
        \/ \E c \in Content : \/ EditMemory(m, c)
                              \/ \E verdict \in {"approved", "rejected"} : Review(m, verdict, c)
        \/ \E a \in Applier : BeginConfirm(a, m)
    \/ \E a \in Applier : CommitConfirm(a)
    \/ CreateSession \/ AddCapture
    \/ \E r \in Run :
        \/ StartInspection(r) \/ ReadRules(r) \/ FailInspection(r)
        \/ \E answer \in [run[r].rules -> Answer] : FinishInspection(r, answer)

allPackVars == <<learnVars, packVars>>
TPInit == LearnInit /\ PackInit
TPNext == (LearnNext /\ UNCHANGED packVars) \/ (PackStep /\ UNCHANGED learnVars)
TPSpec == TPInit /\ [][TPNext]_allPackVars

----------------------------------------------------------------------------
(* Properties *)
\* Every row, request and run keeps its type.
PackTypeOK ==
    /\ sjob \in [Memory -> {"none", "running", "completed", "failed"}]
    /\ provider \in [Memory -> {"none", "real", "mock"}]
    /\ mem \in [Memory -> {NoMem} \union
          [status : MemStatus, feature : Feature, content : Content,
           attached : {"absent"} \union MemStatus]]
    /\ rules \subseteq [of : Memory, feature : Feature, content : Content]
    /\ confirming \in [Applier -> {NotConfirming} \union [of : Memory, content : Content]]
    /\ waived \subseteq Prop
    /\ session \in {"none", "open", "captured"}
    /\ run \in [Run -> [status : {"none", "running", "asking", "completed", "failed"},
                        began : SUBSET rules, rules : SUBSET rules, measured : BOOLEAN,
                        overall : {"none", "pass", "review", "reject"}]]

\* QCConfirmedVisualRule, "prevents silent overwrite": one point and feature
\* have one confirmed rule, whatever memories are approved, edited and applied
\* in whatever order, one apply request at a time.
OneRulePerKey ==
    \A c, d \in rules : CodeOf[c.of] = CodeOf[d.of] /\ c.feature = d.feature => c = d

\* PRD 4.7: no reviewed or applied memory leaves a pseudo-defect or
\* capture-artifact rule open behind it, through repeated reviews.
ClosedWithMemory ==
    \A m \in Memory : mem[m].status \in MemStatus \ {"proposed"} => mem[m].attached # "proposed"

\* A run recommends a pass only if it inspected every rule that was confirmed
\* when the gate let it through (the rules are read after the gate, while others
\* approve and apply), and has nothing left for a gauge to measure.
PassIsInspected ==
    \A r \in Run : run[r].overall = "pass" =>
        /\ run[r].rules # {} /\ run[r].began \subseteq run[r].rules
        /\ ~ run[r].measured

\* evaluator.py:11, "Mock/fake/stub/skeleton provider output can satisfy L0
\* only": no production run inspects a rule a mock provider learned.
MockNeverInspects ==
    \A r \in Run : \A c \in run[r].began : provider[c.of] = "real"
=============================================================================
