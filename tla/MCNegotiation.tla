--------------------------- MODULE MCNegotiation ---------------------------
(* Instances of module Negotiation for TLC. *)
EXTENDS Negotiation, TLC

Symmetry == Permutations(Fixers) \cup Permutations(Prices) \cup Permutations(Calls)
=============================================================================
