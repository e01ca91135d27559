----------------------------- MODULE PadOutbox -----------------------------
(* The operator's decisions on the Pad and their way to the server
   (apps/android-qc: OperatorResultReviewScreen, PadOutbox, OutboxUploader,
   HttpSubmissionClient).  Every result has one client job id; the batch is sent
   one result after another, and nothing of it is marked if one of them fails. *)
EXTENDS FiniteSets

CONSTANTS
    Reviewed,       \* results under review, each with its client_job_id
    HumanDecision   \* what the operator may tap

VARIABLES
    entry,      \* the decision in the outbox row of each result, or NoEntry
    uploaded,   \* results whose row is marked uploaded
    upload,     \* the batch in hand: what is left to send, and what the server took
    stored      \* the decision the server stored for each result, or NoEntry

outboxVars == <<entry, uploaded, upload, stored>>

NoEntry == "none"
NoUpload == [at |-> "idle", todo |-> {}, accepted |-> {}]

OutboxInit ==
    /\ entry = [r \in Reviewed |-> NoEntry]
    /\ uploaded = {}
    /\ upload = NoUpload
    /\ stored = [r \in Reviewed |-> NoEntry]

----------------------------------------------------------------------------
\* Mutant: a second tap replaces the row.
EnqueueReplaces(r, d) == entry' = [entry EXCEPT ![r] = d]

\* insert or ignore on client_job_id
Enqueue(r, d) == entry' = [entry EXCEPT ![r] = IF @ = NoEntry THEN d ELSE @]

\* a tap; the buttons are disabled only after the first one is handled
Tap(r, d) == Enqueue(r, d) /\ UNCHANGED <<uploaded, upload, stored>>

StartUpload ==
    LET pending == {r \in Reviewed : entry[r] # NoEntry /\ r \notin uploaded} IN
    /\ upload = NoUpload /\ pending # {}
    /\ upload' = [at |-> "sending", todo |-> pending, accepted |-> {}]
    /\ UNCHANGED <<entry, uploaded, stored>>

\* the server stores a job it has not seen, and answers a repetition from its row
Store(r) == stored' = [stored EXCEPT ![r] = IF @ = NoEntry THEN entry[r] ELSE @]

Send(r) ==
    /\ upload.at = "sending" /\ r \in upload.todo
    /\ Store(r)
    /\ upload' = [upload EXCEPT !.todo = @ \ {r}, !.accepted = @ \union {r}]
    /\ UNCHANGED <<entry, uploaded>>

\* the answer is lost: the batch fails
AnswerLost(r) ==
    /\ upload.at = "sending" /\ r \in upload.todo
    /\ Store(r)
    /\ upload' = NoUpload
    /\ UNCHANGED <<entry, uploaded>>

\* the request is lost or refused: the batch fails
Fail(r) ==
    /\ upload.at = "sending" /\ r \in upload.todo
    /\ upload' = NoUpload
    /\ UNCHANGED <<entry, uploaded, stored>>

AllSent ==
    /\ upload.at = "sending" /\ upload.todo = {}
    /\ upload' = [upload EXCEPT !.at = "marking"]
    /\ UNCHANGED <<entry, uploaded, stored>>

Mark(r) ==
    /\ upload.at = "marking" /\ r \in upload.accepted
    /\ uploaded' = uploaded \union {r}
    /\ upload' = IF upload.accepted = {r} THEN NoUpload
                 ELSE [upload EXCEPT !.accepted = @ \ {r}]
    /\ UNCHANGED <<entry, stored>>

\* the app dies or the screen is left; the rows are in SQLite
OutboxCrash ==
    /\ upload # NoUpload
    /\ upload' = NoUpload
    /\ UNCHANGED <<entry, uploaded, stored>>

OutboxNext ==
    \/ StartUpload \/ AllSent \/ OutboxCrash
    \/ \E r \in Reviewed :
        \/ Send(r) \/ AnswerLost(r) \/ Fail(r) \/ Mark(r)
        \/ \E d \in HumanDecision : Tap(r, d)

OutboxSpec == OutboxInit /\ [][OutboxNext]_outboxVars

----------------------------------------------------------------------------
(* Properties *)
OutboxTypeOK ==
    /\ entry \in [Reviewed -> HumanDecision \union {NoEntry}]
    /\ stored \in [Reviewed -> HumanDecision \union {NoEntry}]
    /\ uploaded \subseteq Reviewed
    /\ upload \in [at : {"idle", "sending", "marking"}, todo : SUBSET Reviewed, accepted : SUBSET Reviewed]

\* "Idempotent end to end" (SubmissionClient.kt): a row marked uploaded is on the
\* server, and the server has the decision the Pad has, however many batches
\* failed halfway and however often the operator tapped.
UploadedIsStored ==
    \A r \in Reviewed :
        /\ r \in uploaded => stored[r] # NoEntry
        /\ stored[r] # NoEntry => stored[r] = entry[r]
=============================================================================
