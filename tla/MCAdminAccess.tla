--------------------------- MODULE MCAdminAccess ---------------------------
(* Instances of module AdminAccess for TLC. *)
EXTENDS AdminAccess, TLC

Symmetry == Permutations(Sessions) \cup Permutations(Calls)
=============================================================================
