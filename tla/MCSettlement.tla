---------------------------- MODULE MCSettlement ----------------------------
(* Instances of modules Settlement and Payouts for TLC. *)
EXTENDS Payouts

\* Both prices split unevenly, into commissions that differ.
Price11And25 == [j \in Jobs |-> IF j = CHOOSE k \in Jobs : TRUE THEN 11 ELSE 25]

\* The first job is the payee's, the others are other fixers'.
PayeeFirst ==
  [j \in Jobs |-> IF j = CHOOSE k \in Jobs : TRUE THEN Payee ELSE CHOOSE f \in Fixers : f # Payee]
=============================================================================
