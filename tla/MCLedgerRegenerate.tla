-------------------------- MODULE MCLedgerRegenerate --------------------------
(* LedgerRegenerate on small instances: symmetry of the sessions. *)
EXTENDS LedgerRegenerate, TLC

Symmetry == Permutations(Session)
=============================================================================
