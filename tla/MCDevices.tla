----------------------------- MODULE MCDevices -----------------------------
(* The Pad, the Jetson runner and the server's records of both, which share no
   state: a behaviour follows the one that part names.  The networks the Pad
   chooses from are followed alone over every reading. *)
EXTENDS PadCloud, PadOutbox, JetsonRunner, Fleet

VARIABLE part

vars == <<cloudVars, outboxVars, runnerVars, fleetVars, part>>

Init ==
    /\ PadCloudInit /\ OutboxInit /\ RunnerInit /\ FleetInit
    /\ part \in {"network", "pad", "outbox", "recognition", "pairing", "bindings", "records"}

\* the Pad's inspections are followed with Wi-Fi that is down or slow
Next ==
    /\ UNCHANGED part
    /\ \/ part = "network" /\ NetNext /\ UNCHANGED <<padVars, outboxVars, runnerVars, fleetVars>>
       \/ part = "pad" /\ PadCloudNext /\ wifi' # "fast" /\ UNCHANGED <<outboxVars, runnerVars, fleetVars>>
       \/ part = "outbox" /\ OutboxNext /\ UNCHANGED <<cloudVars, runnerVars, fleetVars>>
       \/ /\ \/ part = "recognition" /\ Recognitions
             \/ part = "pairing" /\ Pairings
             \/ part \in {"recognition", "pairing"} /\ Restart
          /\ UNCHANGED <<cloudVars, outboxVars, fleetVars>>
       \/ /\ \/ part = "bindings" /\ (Registrations \/ Bindings)
             \/ part = "records" /\ (Registrations \/ Records)
          /\ UNCHANGED <<cloudVars, outboxVars, runnerVars>>

Spec == Init /\ [][Next]_vars /\ (part = "pad" => PadCloudFairness)
=============================================================================
