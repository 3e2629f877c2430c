---------------------------- MODULE EarningsBook ----------------------------
(***************************************************************************)
(* What the earnings and withdrawal tables of one fixer promise: every     *)
(* operation on them - a job is settled, a withdrawal is requested,        *)
(* approved, rejected or paid - is one indivisible step.  The code gets    *)
(* there with multi-statement PostgreSQL transactions; module Withdrawals  *)
(* models those statement by statement and is shown to implement this      *)
(* module.                                                                 *)
(*                                                                         *)
(* Every query of the code filters by the fixer's id, so the rows of other *)
(* fixers are left out.  Amounts are integers of milliFEC.                 *)
(***************************************************************************)
EXTENDS Integers, FiniteSets, Functions

CONSTANTS Earnings,     \* ids of FixerEarning rows, numbered by createdAt
          Withdrawals,  \* ids of WithdrawalRequest rows
          Payouts,      \* the amounts a settled job can pay
          Amounts       \* the amounts a withdrawal can ask for

ASSUME EarningsAssumption == Earnings \subseteq Nat /\ IsFiniteSet(Earnings)
ASSUME WithdrawalsAssumption == IsFiniteSet(Withdrawals)
ASSUME AmountsAssumption == Payouts \subseteq Nat \ {0} /\ Amounts \subseteq Nat \ {0}

VARIABLES earning,      \* the FixerEarning rows
          withdrawal,   \* the WithdrawalRequest rows
          allocation    \* WithdrawalAllocation: milliFEC of each earning held by each withdrawal

bookVars == <<earning, withdrawal, allocation>>

SpendableStatuses == {"AVAILABLE", "PARTIALLY_WITHDRAWN"}
EarningRow == [status : SpendableStatuses \cup {"NONE", "PAID"}, amount : Nat, available : Nat]
WithdrawalRow == [status : {"NONE", "PENDING", "APPROVED", "REJECTED", "PAID"}, amount : Nat]

NoEarning == [status |-> "NONE", amount |-> 0, available |-> 0]
NoWithdrawal == [status |-> "NONE", amount |-> 0]
NoAllocation == [e \in Earnings |-> 0]

Total(f) == SumFunctionOnSet(f, Earnings)

-----------------------------------------------------------------------------
(* The UPDATE statements on a FixerEarning row. *)

NewEarning(n) == [status |-> "AVAILABLE", amount |-> n, available |-> n]

Spendable(row) == row.status \in SpendableStatuses

\* (bug) the WHERE of reserveAmount without its balance condition
CanReserveUnguarded(row, n) == Spendable(row)

CanReserve(row, n) == Spendable(row) /\ row.available >= n

Reserved(row, n) ==
  [row EXCEPT !.available = @ - n, !.status = "PARTIALLY_WITHDRAWN"]

Restored(row, n) ==
  [row EXCEPT !.available = @ + n,
              !.status = IF row.available + n = row.amount
                         THEN "AVAILABLE" ELSE "PARTIALLY_WITHDRAWN"]

\* (bug) paying one withdrawal closes the earning, or empties it as well
FinalizedAlways(row) == [row EXCEPT !.status = "PAID"]
FinalizedEmpty(row) == [row EXCEPT !.status = "PAID", !.available = 0]

Finalized(row) ==
  [row EXCEPT !.status = IF row.available = 0 THEN "PAID" ELSE "PARTIALLY_WITHDRAWN"]

-----------------------------------------------------------------------------
(* The review operations of an administrator, by the status they require,  *)
(* the status they set and what they do to an earning the withdrawal holds. *)

Reviews == {"approve", "reject", "pay"}

Required(op) == IF op = "pay" THEN "APPROVED" ELSE "PENDING"

Outcome(op) == CASE op = "approve" -> "APPROVED"
                 [] op = "reject"  -> "REJECTED"
                 [] op = "pay"     -> "PAID"

Reviewed(op, row, n) == CASE op = "approve" -> row
                          [] op = "reject"  -> Restored(row, n)
                          [] op = "pay"     -> Finalized(row)

AllocationAfter(op, held) == IF op = "reject" THEN NoAllocation ELSE held

-----------------------------------------------------------------------------
BookInit ==
  /\ earning = [e \in Earnings |-> NoEarning]
  /\ withdrawal = [w \in Withdrawals |-> NoWithdrawal]
  /\ allocation = [w \in Withdrawals |-> NoAllocation]

\* A completed job is settled: its payout becomes one earning.
Earn(e, n) ==
  /\ earning[e].status = "NONE"
  /\ earning' = [earning EXCEPT ![e] = NewEarning(n)]
  /\ UNCHANGED <<withdrawal, allocation>>

\* The ways to take n milliFEC out of the earnings.
Splits(n) == {held \in [Earnings -> 0..n] : Total(held) = n}

\* A withdrawal of n is granted against earnings that can cover it.
Grant(w, n) ==
  /\ withdrawal[w].status = "NONE"
  /\ \E held \in Splits(n) :
       /\ \A e \in Earnings : held[e] > 0 => CanReserve(earning[e], held[e])
       /\ earning' = [e \in Earnings |-> IF held[e] > 0 THEN Reserved(earning[e], held[e])
                                                        ELSE earning[e]]
       /\ allocation' = [allocation EXCEPT ![w] = held]
  /\ withdrawal' = [withdrawal EXCEPT ![w] = [status |-> "PENDING", amount |-> n]]

\* An administrator decides on a withdrawal.
Decide(w, op) ==
  /\ withdrawal[w].status = Required(op)
  /\ withdrawal' = [withdrawal EXCEPT ![w].status = Outcome(op)]
  /\ earning' = [e \in Earnings |-> IF allocation[w][e] > 0
                                    THEN Reviewed(op, earning[e], allocation[w][e])
                                    ELSE earning[e]]
  /\ allocation' = [allocation EXCEPT ![w] = AllocationAfter(op, @)]

BookNext ==
  \/ \E e \in Earnings, n \in Payouts : Earn(e, n)
  \/ \E w \in Withdrawals, n \in Amounts : Grant(w, n)
  \/ \E w \in Withdrawals, op \in Reviews : Decide(w, op)

BookSpec == BookInit /\ [][BookNext]_bookVars

-----------------------------------------------------------------------------
BookTypeOK ==
  /\ earning \in [Earnings -> EarningRow]
  /\ withdrawal \in [Withdrawals -> WithdrawalRow]
  /\ allocation \in [Withdrawals -> [Earnings -> Nat]]

\* What the withdrawals of an allocation table hold of one earning.
Held(table, e) == SumFunctionOnSet([w \in Withdrawals |-> table[w][e]], Withdrawals)

\* No milliFEC of an earning is lost or used twice: what is still available
\* plus what the withdrawals hold (pending, approved or paid) is what was earned,
\* over every interleaving of reserveForWithdrawal, rejectWithdrawal and markpaid.
EarningsConserved ==
  \A e \in Earnings : earning[e].available + Held(allocation, e) = earning[e].amount

\* A live or paid withdrawal is backed by allocations of exactly its amount
\* (reserveForWithdrawal loops until nothing remains or throws), a rejected one by none.
WithdrawalsBacked ==
  \A w \in Withdrawals :
    Total(allocation[w]) = IF withdrawal[w].status \in {"NONE", "REJECTED"}
                           THEN 0 ELSE withdrawal[w].amount

\* Money that is available is money the fixer can see and withdraw: the status
\* that getAvailableBalance and reserveAmount filter by never hides a positive
\* balance, although markpaid and rejectWithdrawal both rewrite it, and an
\* earning is AVAILABLE exactly when nothing of it is held.
NothingHidden ==
  \A e \in Earnings :
    /\ earning[e].available > 0 => Spendable(earning[e])
    /\ earning[e].status # "NONE" =>
         (earning[e].status = "AVAILABLE" <=> earning[e].available = earning[e].amount)

\* What a withdrawal that is not rejected takes.
Taken == [w \in Withdrawals |-> IF withdrawal[w].status \in {"PENDING", "APPROVED", "PAID"}
                                THEN withdrawal[w].amount ELSE 0]
=============================================================================
