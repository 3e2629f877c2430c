--------------------------- MODULE MCFinalPayment ---------------------------
(* Instances of module FinalPayment for TLC. *)
EXTENDS FinalPayment, TLC

Symmetry == Permutations(Fixers) \cup Permutations(Prices) \cup Permutations(References)
              \cup Permutations(Callbacks) \cup Permutations(Calls)
=============================================================================
