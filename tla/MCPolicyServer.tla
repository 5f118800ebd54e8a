--------------------------- MODULE MCPolicyServer ---------------------------
(***************************************************************************)
(* PolicyServer for TLC: the symmetry of its threads.                      *)
(***************************************************************************)
EXTENDS PolicyServer, TLC

Symmetry == Permutations(Senders) \cup Permutations(Getters)
=============================================================================
