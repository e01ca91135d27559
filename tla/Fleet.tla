------------------------------- MODULE Fleet -------------------------------
(* What the server records of the floor: signed bundles, workstations and what
   each is assigned and has installed (src/src/qc_model/bundle/service.py), and
   the Jetson runners with the Pad and the workstation each is paired with
   (src/src/qc_model/jetson/service.py), as the Pads report them.

   A binding is read in one step and committed in another, and the commit writes
   only the columns it changes. *)
EXTENDS FiniteSets

CONSTANTS
    Station,   \* workstations
    Runner,    \* Jetson device ids
    FloorPad,  \* Pads
    Bundle,    \* bundle versions
    Binder     \* binding reports in flight at a time

VARIABLES
    station,   \* station[w]: whether w is paired, its assigned and its installed bundle
    bundle,    \* "none", "sound", or "altered" when the stored bundle no longer verifies
    runner,    \* the row of each runner
    binder     \* the binding each request has read

fleetVars == <<station, bundle, runner, binder>>

None == "none"
Unknown == [known |-> FALSE, paired |-> FALSE, at |-> None, pad |-> None, readiness |-> None]
Unbound == [at |-> "free"]

FleetInit ==
    /\ station = [w \in Station |-> [registered |-> FALSE, paired |-> FALSE, assigned |-> None, installed |-> None]]
    /\ bundle = [b \in Bundle |-> None]
    /\ runner = [r \in Runner |-> Unknown]
    /\ binder = [c \in Binder |-> Unbound]

----------------------------------------------------------------------------
(* Bundles and workstations *)
\* build, sign, verify and record; a version is recorded once
RecordBundle(b) ==
    /\ bundle[b] = None
    /\ bundle' = [bundle EXCEPT ![b] = "sound"]
    /\ UNCHANGED <<station, runner, binder>>

\* the stored manifest or signature is damaged, or the signing key is replaced
Alter(b) ==
    /\ bundle[b] = "sound"
    /\ bundle' = [bundle EXCEPT ![b] = "altered"]
    /\ UNCHANGED <<station, runner, binder>>

RegisterWorkstation(w) ==
    /\ ~station[w].registered
    /\ station' = [station EXCEPT ![w].registered = TRUE]
    /\ UNCHANGED <<bundle, runner, binder>>

PairWorkstation(w) ==
    /\ station[w].registered
    /\ station' = [station EXCEPT ![w].paired = TRUE]
    /\ UNCHANGED <<bundle, runner, binder>>

AssignBundle(w, b) ==
    /\ station[w].registered /\ bundle[b] = "sound"
    /\ station' = [station EXCEPT ![w].assigned = b]
    /\ UNCHANGED <<bundle, runner, binder>>

\* report_from_pad, with whatever version the Pad names
ReportFromPad(w, b) ==
    /\ station[w].registered
    /\ station' = [station EXCEPT ![w].installed = b]
    /\ UNCHANGED <<bundle, runner, binder>>

----------------------------------------------------------------------------
(* Runners *)
Provision(r) ==
    /\ ~runner[r].known
    /\ runner' = [runner EXCEPT ![r].known = TRUE]
    /\ UNCHANGED <<station, bundle, binder>>

\* register_binding reads the workstation and the runner, which it provisions when
\* it is new, and the other runners paired at the workstation
ReadBinding(c, r, w, p) ==
    /\ binder[c] = Unbound /\ station[w].registered
    /\ runner' = [runner EXCEPT ![r].known = TRUE]
    /\ binder' = [binder EXCEPT ![c] =
           [at |-> "read", of |-> r, seen |-> runner[r], station |-> w, pad |-> p,
            others |-> {s \in Runner \ {r} : runner[s].paired /\ runner[s].at = w}]]
    /\ UNCHANGED <<station, bundle>>

\* the columns of a row whose new value differs from the one that was read
Written(row, seen, new) ==
    [row EXCEPT !.paired = IF seen.paired = new.paired THEN @ ELSE new.paired,
                !.at = IF seen.at = new.at THEN @ ELSE new.at,
                !.pad = IF seen.pad = new.pad THEN @ ELSE new.pad]

Unpaired(row) == [row EXCEPT !.paired = FALSE, !.at = None, !.pad = None]

\* Mutant: a runner that is already paired leaves the others alone.
CommitRebind(c) ==
    /\ binder[c].at = "read"
    /\ LET b == binder[c]
           new == [b.seen EXCEPT !.paired = TRUE, !.at = b.station, !.pad = b.pad] IN
       /\ runner' = [s \in Runner |->
              CASE s = b.of -> Written(runner[s], b.seen, new)
                [] s \in b.others /\ ~b.seen.paired -> Unpaired(runner[s])
                [] OTHER -> runner[s]]
       /\ station' = [station EXCEPT ![b.station].paired = TRUE]
    /\ binder' = [binder EXCEPT ![c] = Unbound]
    /\ UNCHANGED bundle

\* the others are freed, the runner is bound, the workstation is marked: one commit
CommitBinding(c) ==
    /\ binder[c].at = "read"
    /\ LET b == binder[c]
           new == [b.seen EXCEPT !.paired = TRUE, !.at = b.station, !.pad = b.pad] IN
       /\ runner' = [s \in Runner |->
              CASE s = b.of -> Written(runner[s], b.seen, new)
                [] s \in b.others -> Unpaired(runner[s])
                [] OTHER -> runner[s]]
       /\ station' = [station EXCEPT ![b.station].paired = TRUE]
    /\ binder' = [binder EXCEPT ![c] = Unbound]
    /\ UNCHANGED bundle

\* the workstation stays marked as paired
Unpair(r) ==
    /\ runner[r].known
    /\ runner' = [runner EXCEPT ![r] = Unpaired(@)]
    /\ UNCHANGED <<station, bundle, binder>>

ReportHealth(r, s) ==
    /\ runner[r].known
    /\ runner' = [runner EXCEPT ![r].readiness = s]
    /\ UNCHANGED <<station, bundle, binder>>

Registrations ==
    \/ \E w \in Station : RegisterWorkstation(w)
    \/ \E r \in Runner : Provision(r)

Records ==
    \/ \E b \in Bundle : RecordBundle(b) \/ Alter(b)
    \/ \E w \in Station :
        \/ PairWorkstation(w)
        \/ \E b \in Bundle : AssignBundle(w, b) \/ ReportFromPad(w, b)
    \/ \E r \in Runner, s \in {"connecting", "ready"} : ReportHealth(r, s)

Bindings ==
    \/ \E r \in Runner : Unpair(r)
    \/ \E c \in Binder :
        \/ CommitBinding(c)
        \/ \E r \in Runner, w \in Station, p \in FloorPad : ReadBinding(c, r, w, p)

FleetNext == Registrations \/ Records \/ Bindings

FleetSpec == FleetInit /\ [][FleetNext]_fleetVars

----------------------------------------------------------------------------
(* Properties *)
FleetTypeOK ==
    /\ station \in [Station -> [registered : BOOLEAN, paired : BOOLEAN, assigned : Bundle \union {None}, installed : Bundle \union {None}]]
    /\ bundle \in [Bundle -> {None, "sound", "altered"}]
    /\ runner \in [Runner -> [known : BOOLEAN, paired : BOOLEAN, at : Station \union {None},
                              pad : FloorPad \union {None}, readiness : {None, "connecting", "ready"}]]
    /\ \A c \in Binder : binder[c] = Unbound \/
           /\ binder[c].of \in Runner /\ binder[c].seen.known \in BOOLEAN
           /\ binder[c].station \in Station /\ binder[c].pad \in FloorPad
           /\ binder[c].others \subseteq Runner

\* jetson/service.py, register_binding: "a workstation already bound to a different
\* Jetson has that other Jetson unbound", through reports, rebindings and unpairings
\* in any order, when the reports of bindings come one at a time.
OneRunnerPerStation ==
    \A r, s \in Runner : runner[r].paired /\ runner[s].paired /\ runner[r].at = runner[s].at
                         /\ runner[r].at # None => r = s
=============================================================================
