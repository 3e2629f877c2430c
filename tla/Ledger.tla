------------------------------- MODULE Ledger -------------------------------
(***************************************************************************)
(* What wallets and their ledger entries promise together: an entry is     *)
(* created at most once for each idempotency key, its amount reaches the   *)
(* balance of its account in the same step, and neither is taken back.      The code     *)
(* gets there with a unique key and a transaction; module Settlement is    *)
(* shown to implement this one.                                            *)
(***************************************************************************)
EXTENDS Integers, FiniteSets, Functions

CONSTANTS Keys,       \* what can be booked: one idempotency key for each
          Worth,      \* the amount booked under each key
          Accounts,   \* what holds a balance
          AccountOf   \* the account that each key is booked on

VARIABLES booked,   \* the keys that have an entry
          balance   \* the balance of each account

ledgerVars == <<booked, balance>>

Init == booked = {} /\ balance = [a \in Accounts |-> 0]

Book(k) ==
  /\ k \notin booked
  /\ booked' = booked \cup {k}
  /\ balance' = [balance EXCEPT ![AccountOf[k]] = @ + Worth[k]]

Next == \E k \in Keys : Book(k)

Spec == Init /\ [][Next]_ledgerVars
=============================================================================
