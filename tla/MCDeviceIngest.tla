---------------------------- MODULE MCDeviceIngest ----------------------------
(* DeviceIngest on small instances: who makes which event. *)
EXTENDS DeviceIngest, TLC

CONSTANTS a1, a2, e1, e2, e3

OneAgentSource == [e \in Event |-> a1]
TwoAgentSource == [e \in Event |-> IF e = e3 THEN a2 ELSE a1]

Symmetry == Permutations(Request)
=============================================================================
