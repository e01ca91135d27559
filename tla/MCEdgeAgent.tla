---------------------------- MODULE MCEdgeAgent ----------------------------
(* EdgeAgent with one device of one slot that can run every task.  Whoever has
   the tokens of the device may use them until its agent starts, and again
   whenever the agent is down. *)
EXTENDS EdgeCVClaims, EdgeAgent

OneSlot == [d \in Device |-> 1]
EveryTask == [d \in Device |-> Tasks]

Down == \A d \in Device : At(d, "off")

ReconnectNext == AgentNext \/ (Down /\ Next /\ UNCHANGED agent)
ReconnectSpec == AgentInit /\ [][ReconnectNext]_agentVars
=============================================================================
