---------------------------- MODULE MCEventLedger ----------------------------
(* EventLedger on small instances: symmetry of the sessions. *)
EXTENDS EventLedger, TLC

Symmetry == Permutations(Session)
=============================================================================
