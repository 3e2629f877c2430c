----------------------------- MODULE MCPosting -----------------------------
(* Instances of module Posting for TLC. *)
EXTENDS Posting, TLC

Symmetry == Permutations(References) \cup Permutations(Calls)
=============================================================================
