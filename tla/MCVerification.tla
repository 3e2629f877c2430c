--------------------------- MODULE MCVerification ---------------------------
(* Instances of module Verification for TLC. *)
EXTENDS Verification, TLC

Symmetry == Permutations(Users) \cup Permutations(Nins) \cup Permutations(People)
            \cup Permutations(FaceIds) \cup Permutations(Calls)
=============================================================================
