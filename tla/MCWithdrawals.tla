--------------------------- MODULE MCWithdrawals ---------------------------
(* Instances of module Withdrawals for TLC. *)
EXTENDS Withdrawals, TLC

Symmetry == Permutations(Withdrawals) \cup Permutations(Admins)

\* For the liveness run: the account starts with every earning recorded and one
\* withdrawal of 1 milliFEC granted, a state the initial one leads to.  From here two more
\* withdrawals can hold both earnings, so a request and a rejection can deadlock.
LiveInit ==
  LET first == CHOOSE w \in Withdrawals : TRUE
      oldest == Oldest(Earnings)
      payout == CHOOSE n \in Payouts : TRUE
  IN  /\ earning = [e \in Earnings |-> IF e = oldest THEN Reserved(NewEarning(payout), 1)
                                                     ELSE NewEarning(payout)]
      /\ withdrawal = [w \in Withdrawals |-> IF w = first THEN [status |-> "PENDING", amount |-> 1]
                                                          ELSE NoWithdrawal]
      /\ allocation = [w \in Withdrawals |-> [e \in Earnings |->
                         IF w = first /\ e = oldest THEN 1 ELSE 0]]
      /\ rowLock = [e \in Earnings |-> None]
      /\ draft = [e \in Earnings |-> NoEarning]
      /\ reviewLock = [w \in Withdrawals |-> None]
      /\ request = [w \in Withdrawals |-> NoRequest]
      /\ review = [a \in Admins |-> NoReview]

LiveSpec == LiveInit /\ [][Next]_vars /\ Fairness
=============================================================================
