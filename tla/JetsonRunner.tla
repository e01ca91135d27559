---------------------------- MODULE JetsonRunner ----------------------------
(* The runner on the Jetson (jetson_runner/app): recognitions for the
   administrator under an idempotency key, and pairing with one Pad.  Its
   handlers run in a pool of threads; the cache of answers and the pairing are in
   memory and gone after a restart. *)
EXTENDS Naturals, Sequences, SequencesExt

CONSTANTS
    Caller,      \* requests for recognition in flight
    RequestId,   \* idempotency keys
    Digest,      \* contents of a request
    CacheMax,    \* recognition_cache_max_entries
    PairPad,     \* Pads, each with one pairing request in flight
    MaxKey       \* bound on the keys drawn

ASSUME RunnerAssumption == CacheMax \in Nat /\ MaxKey \in Nat

VARIABLES
    call,      \* what each request for recognition has reached
    cache,     \* the answers kept, least recently used first
    lock,      \* whether _admin_inference_lock is held
    pairKey, pairedPad,   \* the binding; 0 and NoPad when there is none
    window,    \* whether the Wi-Fi pairing window is open
    pairing,   \* what the pairing request of each Pad has reached
    given,     \* the key last returned to each Pad, 0 before
    drawn      \* keys drawn so far

runnerVars == <<call, cache, lock, pairKey, pairedPad, window, pairing, given, drawn>>
recVars == <<call, cache, lock>>
pairVars == <<pairKey, pairedPad, window, pairing, given, drawn>>

NoCall == [at |-> "idle"]
NoPad == "nobody"

RunnerInit ==
    /\ call = [c \in Caller |-> NoCall]
    /\ cache = <<>> /\ lock = FALSE
    /\ pairKey = 0 /\ pairedPad = NoPad /\ window = FALSE
    /\ pairing = [p \in PairPad |-> "idle"]
    /\ given = [p \in PairPad |-> 0]
    /\ drawn = 0

----------------------------------------------------------------------------
(* Recognitions *)
Ids == {cache[n].id : n \in DOMAIN cache}
At(i) == CHOOSE n \in DOMAIN cache : cache[n].id = i
Entry(i) == cache[At(i)]
Without(i) == IF i \in Ids THEN RemoveAt(cache, At(i)) ELSE cache

\* _get_cached_recognition: an entry that is read becomes the most recent
Touch(i) == cache' = IF i \in Ids THEN Append(Without(i), Entry(i)) ELSE cache

\* _cache_recognition: the oldest entries are dropped
Remember(e) ==
    LET all == Append(Without(e.id), e) IN
    cache' = SubSeq(all, 1 + IF Len(all) > CacheMax THEN Len(all) - CacheMax ELSE 0, Len(all))

Goes(c, what) == call' = [call EXCEPT ![c] = what]
Reply(i, d, got) == [at |-> "answered", id |-> i, digest |-> d, got |-> got]

\* the cached answer of the key, or idempotency_conflict
FromCache(c, i, d) ==
    /\ i \in Ids
    /\ Goes(c, IF Entry(i).digest = d THEN Reply(i, d, d) ELSE NoCall)

Recognize(c, i, d) ==
    /\ call[c] = NoCall
    /\ \/ FromCache(c, i, d)
       \/ i \notin Ids /\ Goes(c, [at |-> "checked", id |-> i, digest |-> d])
    /\ Touch(i)
    /\ UNCHANGED <<lock, pairVars>>

\* runner_busy while another request holds the lock
Busy(c) ==
    /\ call[c].at = "checked" /\ lock
    /\ Goes(c, NoCall)
    /\ UNCHANGED <<cache, lock, pairVars>>

Acquire(c) ==
    /\ call[c].at = "checked" /\ ~lock
    /\ lock' = TRUE
    /\ Goes(c, [call[c] EXCEPT !.at = "locked"])
    /\ UNCHANGED <<cache, pairVars>>

\* Mutant: the cache is not read again under the lock.
RecheckSkipped(c) ==
    /\ call[c].at = "locked"
    /\ Goes(c, [call[c] EXCEPT !.at = "running"])
    /\ UNCHANGED <<cache, lock, pairVars>>

Recheck(c) ==
    /\ call[c].at = "locked"
    /\ LET i == call[c].id IN
       /\ \/ FromCache(c, i, call[c].digest) /\ lock' = FALSE
          \/ i \notin Ids /\ Goes(c, [call[c] EXCEPT !.at = "running"]) /\ UNCHANGED lock
       /\ Touch(i)
    /\ UNCHANGED pairVars

\* the model has run, with whatever came of the CV analysis of each point
Finish(c) ==
    /\ call[c].at = "running"
    /\ Remember([id |-> call[c].id, digest |-> call[c].digest])
    /\ lock' = FALSE
    /\ Goes(c, Reply(call[c].id, call[c].digest, call[c].digest))
    /\ UNCHANGED pairVars

\* the runtime is not ready or fails: nothing is kept
RunFails(c) ==
    /\ call[c].at = "running"
    /\ lock' = FALSE
    /\ Goes(c, NoCall)
    /\ UNCHANGED <<cache, pairVars>>

Return(c) ==
    /\ call[c].at = "answered"
    /\ Goes(c, NoCall)
    /\ UNCHANGED <<cache, lock, pairVars>>

\* the administrator asks for the answer of a key again
Reconcile(i) ==
    /\ i \in Ids
    /\ Touch(i)
    /\ UNCHANGED <<call, lock, pairVars>>

----------------------------------------------------------------------------
(* Pairing *)
OpenWindow ==
    /\ window' = TRUE
    /\ UNCHANGED <<recVars, pairKey, pairedPad, pairing, given, drawn>>

CloseWindow ==
    /\ window' = FALSE
    /\ UNCHANGED <<recVars, pairKey, pairedPad, pairing, given, drawn>>

\* _establish draws a key, then names the Pad, then returns the key it reads
DrawKey(p, path) ==
    /\ pairing[p] = "idle" /\ drawn < MaxKey
    /\ path = "wifi" => window
    /\ drawn' = drawn + 1 /\ pairKey' = drawn + 1
    /\ pairing' = [pairing EXCEPT ![p] = path]
    /\ UNCHANGED <<recVars, pairedPad, window, given>>

\* Mutant: a Pad that is already named stays.
NamePadKept(p) ==
    /\ pairing[p] \in {"usb", "wifi"}
    /\ pairedPad' = IF pairedPad = NoPad THEN p ELSE pairedPad
    /\ pairing' = [pairing EXCEPT ![p] = IF @ = "wifi" THEN "closing" ELSE "named"]
    /\ UNCHANGED <<recVars, pairKey, window, given, drawn>>

NamePad(p) ==
    /\ pairing[p] \in {"usb", "wifi"}
    /\ pairedPad' = p
    /\ pairing' = [pairing EXCEPT ![p] = IF @ = "wifi" THEN "closing" ELSE "named"]
    /\ UNCHANGED <<recVars, pairKey, window, given, drawn>>

ReturnKey(p) ==
    /\ pairing[p] \in {"named", "closing"}
    /\ given' = [given EXCEPT ![p] = pairKey]
    /\ window' = (window /\ pairing[p] = "named")
    /\ pairing' = [pairing EXCEPT ![p] = "idle"]
    /\ UNCHANGED <<recVars, pairKey, pairedPad, drawn>>

\* handle_inference takes what the Pad signs with the key it was given
Serves(p) == pairKey # 0 /\ pairedPad = p /\ given[p] = pairKey

----------------------------------------------------------------------------
Restart ==
    /\ call' = [c \in Caller |-> NoCall]
    /\ cache' = <<>> /\ lock' = FALSE
    /\ pairKey' = 0 /\ pairedPad' = NoPad /\ window' = FALSE
    /\ pairing' = [p \in PairPad |-> "idle"]
    /\ UNCHANGED <<given, drawn>>

Recognitions ==
    \/ \E i \in RequestId : Reconcile(i)
    \/ \E c \in Caller :
        \/ \E i \in RequestId, d \in Digest : Recognize(c, i, d)
        \/ Busy(c) \/ Acquire(c) \/ Recheck(c) \/ Finish(c) \/ RunFails(c) \/ Return(c)

Pairings ==
    \/ OpenWindow \/ CloseWindow
    \/ \E p \in PairPad :
        \/ \E path \in {"usb", "wifi"} : DrawKey(p, path)
        \/ NamePad(p) \/ ReturnKey(p)

RunnerNext == Recognitions \/ Pairings \/ Restart

RunnerSpec == RunnerInit /\ [][RunnerNext]_runnerVars

----------------------------------------------------------------------------
(* Properties *)
RunnerTypeOK ==
    /\ \A c \in Caller : call[c] = NoCall \/
           /\ call[c].at \in {"checked", "locked", "running", "answered"}
           /\ call[c].id \in RequestId /\ call[c].digest \in Digest
    /\ cache \in Seq([id : RequestId, digest : Digest]) /\ Len(cache) <= CacheMax
    /\ lock \in BOOLEAN /\ window \in BOOLEAN
    /\ pairing \in [PairPad -> {"idle", "usb", "wifi", "named", "closing"}]
    /\ pairKey \in 0 .. MaxKey /\ pairedPad \in PairPad \union {NoPad}
    /\ given \in [PairPad -> 0 .. MaxKey] /\ drawn \in 0 .. MaxKey

\* "two concurrent copies of one idempotency key cannot both run the model"
\* (main.py): no copy runs it while the answer of another is kept, and every answer
\* is the one to the content that was sent, after evictions and restarts too.
RecognizedOnce ==
    \A c \in Caller :
        /\ call[c].at = "running" => call[c].id \notin Ids
        /\ call[c].at = "answered" => call[c].got = call[c].digest
        /\ \A b \in Caller : call[b].at = "running" /\ call[c].at = "running" => b = c

\* When no pairing is under way, the Pad the runner is paired with is served: the
\* key it was given last is the one in force, however pairings overlapped.
PairedPadIsServed ==
    (\A p \in PairPad : pairing[p] = "idle") => pairedPad = NoPad \/ Serves(pairedPad)
=============================================================================
