------------------------- MODULE WithdrawalsProofs -------------------------
(***************************************************************************)
(* First, the money invariants of EarningsBook, for every number of        *)
(* earnings and withdrawals and every amount.  Then, that the              *)
(* statement-by-statement model of requests and reviews implements the     *)
(* indivisible operations of EarningsBook, for every number of concurrent  *)
(* reviews; so its committed tables satisfy the same money invariants.     *)
(* Last, which transactions lock waits can stop.                           *)
(***************************************************************************)
EXTENDS Withdrawals, FiniteSums

-----------------------------------------------------------------------------
(* EarningsBook. *)

\* Rows that do not exist yet, and decided-against withdrawals, hold nothing.
UnusedRowsEmpty ==
  /\ \A e \in Earnings : earning[e].status = "NONE" => earning[e] = NoEarning
  /\ \A w \in Withdrawals :
       withdrawal[w].status \in {"NONE", "REJECTED"} => allocation[w] = NoAllocation

\* The inductive invariant: conservation needs to know that a new withdrawal
\* starts from nothing, the statuses need conservation, and both need the types.
BookInv ==
  /\ BookTypeOK
  /\ UnusedRowsEmpty
  /\ EarningsConserved
  /\ WithdrawalsBacked
  /\ NothingHidden

\* Amounts of all earnings add up to a natural number.
LEMMA TotalType ==
  ASSUME NEW f \in [Earnings -> Nat]
  PROVE  Total(f) \in Nat
BY EarningsAssumption, SumType DEF Total

\* What the UPDATE statements do to the columns of an earning.
LEMMA ReservedRow ==
  ASSUME NEW row \in EarningRow, NEW n \in Nat, row.available >= n
  PROVE  /\ Reserved(row, n) \in EarningRow
         /\ Reserved(row, n).amount = row.amount
         /\ Reserved(row, n).available = row.available - n
         /\ Reserved(row, n).status = "PARTIALLY_WITHDRAWN"
<1>1. row.available - n \in Nat
  BY DEF EarningRow
<1>2. "PARTIALLY_WITHDRAWN" \in SpendableStatuses
  BY DEF SpendableStatuses
<1>3. QED
  BY <1>1, <1>2 DEF Reserved, EarningRow

\* What rejectWithdrawal's UPDATE makes of an earning.
LEMMA RestoredRow ==
  ASSUME NEW row \in EarningRow, NEW n \in Nat
  PROVE  /\ Restored(row, n) \in EarningRow
         /\ Restored(row, n).amount = row.amount
         /\ Restored(row, n).available = row.available + n
         /\ Restored(row, n).status = IF row.available + n = row.amount
                                      THEN "AVAILABLE" ELSE "PARTIALLY_WITHDRAWN"
<1> DEFINE s == IF row.available + n = row.amount THEN "AVAILABLE" ELSE "PARTIALLY_WITHDRAWN"
<1>1. s \in SpendableStatuses
  BY DEF SpendableStatuses
<1>2. Restored(row, n) = [row EXCEPT !.available = row.available + n, !.status = s]
  BY DEF Restored
<1>3. row.available + n \in Nat /\ row.available \in Nat
  BY DEF EarningRow
<1> HIDE DEF s
<1>4. QED
  <2>1. Restored(row, n).status = s
    BY <1>2 DEF EarningRow
  <2>2. Restored(row, n).available = row.available + n
    BY <1>2 DEF EarningRow
  <2>3. Restored(row, n) \in EarningRow /\ Restored(row, n).amount = row.amount
    BY <1>1, <1>2, <1>3 DEF EarningRow
  <2>4. QED
    BY <2>1, <2>2, <2>3 DEF s

\* What markpaid's UPDATE makes of an earning.
LEMMA FinalizedRow ==
  ASSUME NEW row \in EarningRow
  PROVE  /\ Finalized(row) \in EarningRow
         /\ Finalized(row).amount = row.amount
         /\ Finalized(row).available = row.available
         /\ Finalized(row).status = IF row.available = 0 THEN "PAID" ELSE "PARTIALLY_WITHDRAWN"
BY DEF Finalized, EarningRow, SpendableStatuses

AllocationTable == [Withdrawals -> [Earnings -> Nat]]

\* What all withdrawals hold of an earning is at least what each holds.
LEMMA HeldType ==
  ASSUME NEW table \in AllocationTable, NEW e \in Earnings
  PROVE  /\ Held(table, e) \in Nat
         /\ \A w \in Withdrawals : table[w][e] <= Held(table, e)
<1> DEFINE f == [w \in Withdrawals |-> table[w][e]]
<1>1. \A w \in Withdrawals : f[w] \in Nat /\ f[w] = table[w][e]
  BY DEF AllocationTable
<1> HIDE DEF f
<1>2. SumFunctionOnSet(f, Withdrawals) \in Nat
  BY <1>1, WithdrawalsAssumption, SumType
<1>3. \A w \in Withdrawals : f[w] <= SumFunctionOnSet(f, Withdrawals)
  BY <1>1, WithdrawalsAssumption, SumBound
<1>4. QED
  BY <1>1, <1>2, <1>3 DEF Held, f

\* Replacing what one withdrawal holds moves the held part of an earning by the difference.
LEMMA HeldChange ==
  ASSUME NEW table \in AllocationTable, NEW w \in Withdrawals,
         NEW held \in [Earnings -> Nat], NEW e \in Earnings
  PROVE  Held([table EXCEPT ![w] = held], e) + table[w][e] = Held(table, e) + held[e]
<1> DEFINE f == [v \in Withdrawals |-> table[v][e]]
           g == [v \in Withdrawals |-> [table EXCEPT ![w] = held][v][e]]
<1>1. \A v \in Withdrawals : f[v] \in Nat /\ g[v] \in Nat
  BY DEF AllocationTable
<1>2. \A v \in Withdrawals \ {w} : f[v] = g[v]
  BY DEF AllocationTable
<1>3. f[w] = table[w][e] /\ g[w] = held[e]
  BY DEF AllocationTable
<1> HIDE DEF f, g
<1>4. SumFunctionOnSet(g, Withdrawals) + f[w] = SumFunctionOnSet(f, Withdrawals) + g[w]
  BY <1>1, <1>2, WithdrawalsAssumption, SumChange
<1>5. QED
  BY <1>3, <1>4 DEF Held, f, g

\* A withdrawal without allocations holds nothing.
LEMMA NoAllocationTotal == Total(NoAllocation) = 0
BY EarningsAssumption, SumZero DEF Total, NoAllocation

\* The empty tables balance.
LEMMA BookInitInv == BookInit => BookInv
<1> SUFFICES ASSUME BookInit PROVE BookInv
  OBVIOUS
<1>1. BookTypeOK
  BY DEF BookInit, BookTypeOK, EarningRow, WithdrawalRow, NoEarning, NoWithdrawal, NoAllocation
<1>2. UnusedRowsEmpty
  BY DEF BookInit, UnusedRowsEmpty
<1>3. EarningsConserved
  <2>1. ASSUME NEW e \in Earnings PROVE Held(allocation, e) = 0
    <3> DEFINE f == [w \in Withdrawals |-> allocation[w][e]]
    <3>1. \A w \in Withdrawals : f[w] = 0
      BY DEF BookInit, NoAllocation
    <3> HIDE DEF f
    <3>2. SumFunctionOnSet(f, Withdrawals) = 0
      BY <3>1, WithdrawalsAssumption, SumZero
    <3>3. QED
      BY <3>2 DEF Held, f
  <2>2. QED
    BY <2>1 DEF BookInit, EarningsConserved, NoEarning
<1>4. WithdrawalsBacked
  BY NoAllocationTotal DEF BookInit, WithdrawalsBacked, NoWithdrawal
<1>5. NothingHidden
  BY DEF BookInit, NothingHidden, NoEarning
<1>6. QED
  BY <1>1, <1>2, <1>3, <1>4, <1>5 DEF BookInv

\* Settling a job (approveAndSettle) keeps the money invariants.
LEMMA EarnInv ==
  ASSUME BookInv, NEW e \in Earnings, NEW n \in Payouts, Earn(e, n)
  PROVE  BookInv'
<1> USE DEF BookInv
<1>1. n \in Nat /\ n > 0
  BY AmountsAssumption
<1>2. earning' = [earning EXCEPT ![e] = NewEarning(n)]
      /\ withdrawal' = withdrawal /\ allocation' = allocation
  BY DEF Earn
<1>3. earning[e] = NoEarning
  BY DEF Earn, UnusedRowsEmpty
<1>4. BookTypeOK'
  BY <1>1, <1>2 DEF BookTypeOK, EarningRow, NewEarning, SpendableStatuses
<1>5. UnusedRowsEmpty'
  BY <1>2 DEF UnusedRowsEmpty, NewEarning, BookTypeOK
<1>6. EarningsConserved'
  <2>1. Held(allocation, e) = 0
    BY <1>3, HeldType DEF EarningsConserved, NoEarning, BookTypeOK, AllocationTable
  <2>2. QED
    BY <1>1, <1>2, <2>1 DEF EarningsConserved, NewEarning, BookTypeOK
<1>7. WithdrawalsBacked'
  BY <1>2 DEF WithdrawalsBacked, Total
<1>8. NothingHidden'
  BY <1>2 DEF NothingHidden, NewEarning, BookTypeOK, Spendable, SpendableStatuses
<1>9. QED
  BY <1>4, <1>5, <1>6, <1>7, <1>8

\* Granting a withdrawal (requestWithdrawal) keeps the money invariants.
LEMMA GrantInv ==
  ASSUME BookInv, NEW w \in Withdrawals, NEW n \in Amounts, Grant(w, n)
  PROVE  BookInv'
<1> USE DEF BookInv
<1>1. n \in Nat /\ n > 0
  BY AmountsAssumption
<1>2. PICK held \in Splits(n) :
        /\ \A e \in Earnings : held[e] > 0 => CanReserve(earning[e], held[e])
        /\ earning' = [e \in Earnings |-> IF held[e] > 0 THEN Reserved(earning[e], held[e])
                                                         ELSE earning[e]]
        /\ allocation' = [allocation EXCEPT ![w] = held]
  BY DEF Grant
<1>3. held \in [Earnings -> Nat] /\ Total(held) = n
  BY <1>1 DEF Splits
<1>4. withdrawal' = [withdrawal EXCEPT ![w] = [status |-> "PENDING", amount |-> n]]
      /\ withdrawal[w].status = "NONE" /\ allocation[w] = NoAllocation
  BY DEF Grant, UnusedRowsEmpty
<1>5. ASSUME NEW e \in Earnings
      PROVE  /\ earning'[e].amount = earning[e].amount
             /\ earning'[e].available = earning[e].available - held[e]
             /\ earning'[e].available \in Nat
             /\ held[e] > 0 => /\ earning[e].status # "NONE"
                               /\ earning'[e].status = "PARTIALLY_WITHDRAWN"
             /\ held[e] = 0 => earning'[e] = earning[e]
             /\ earning'[e] \in EarningRow
  <2>1. earning[e] \in EarningRow /\ held[e] \in Nat /\ earning[e].available \in Nat
    BY <1>3 DEF BookTypeOK, EarningRow
  <2>2. CASE held[e] = 0
    BY <1>2, <2>1, <2>2
  <2>3. CASE held[e] > 0
    <3>1. earning'[e] = Reserved(earning[e], held[e]) /\ CanReserve(earning[e], held[e])
      BY <1>2, <2>3
    <3>2. earning[e].available >= held[e] /\ earning[e].status # "NONE"
      BY <3>1 DEF CanReserve, Spendable, SpendableStatuses
    <3>3. QED
      BY <2>1, <2>3, <3>1, <3>2, ReservedRow
  <2>4. QED
    BY <2>1, <2>2, <2>3
<1>6. BookTypeOK'
  <2>1. earning' \in [Earnings -> EarningRow]
    BY <1>2, <1>5
  <2>2. withdrawal' \in [Withdrawals -> WithdrawalRow]
    BY <1>1, <1>4 DEF BookTypeOK, WithdrawalRow
  <2>3. allocation' \in [Withdrawals -> [Earnings -> Nat]]
    BY <1>2, <1>3 DEF BookTypeOK
  <2>4. QED
    BY <2>1, <2>2, <2>3 DEF BookTypeOK
<1>7. UnusedRowsEmpty'
  <2>1. ASSUME NEW e \in Earnings, earning'[e].status = "NONE"
        PROVE  earning'[e] = NoEarning
    BY <1>3, <1>5, <2>1 DEF UnusedRowsEmpty
  <2>2. ASSUME NEW v \in Withdrawals, withdrawal'[v].status \in {"NONE", "REJECTED"}
        PROVE  allocation'[v] = NoAllocation
    BY <1>2, <1>4, <2>2 DEF UnusedRowsEmpty, BookTypeOK
  <2>3. QED
    BY <2>1, <2>2 DEF UnusedRowsEmpty
<1>8. EarningsConserved'
  <2>1. ASSUME NEW e \in Earnings
        PROVE  earning'[e].available + Held(allocation', e) = earning'[e].amount
    <3>1. Held(allocation', e) + allocation[w][e] = Held(allocation, e) + held[e]
      BY <1>2, <1>3, HeldChange DEF BookTypeOK, AllocationTable
    <3>2. allocation[w][e] = 0
      BY <1>4 DEF NoAllocation
    <3>3. Held(allocation, e) \in Nat /\ Held(allocation', e) \in Nat
      BY <1>6, HeldType DEF BookTypeOK, AllocationTable
    <3>4. earning[e].available + Held(allocation, e) = earning[e].amount
          /\ earning[e].available \in Nat /\ earning[e].amount \in Nat /\ held[e] \in Nat
      BY <1>3 DEF EarningsConserved, BookTypeOK, EarningRow
    <3>5. QED
      BY <1>5, <3>1, <3>2, <3>3, <3>4
  <2>2. QED
    BY <2>1 DEF EarningsConserved
<1>9. WithdrawalsBacked'
  BY <1>2, <1>3, <1>4 DEF WithdrawalsBacked, BookTypeOK, Total
<1>10. NothingHidden'
  <2>1. ASSUME NEW e \in Earnings
        PROVE  /\ earning'[e].available > 0 => Spendable(earning'[e])
               /\ earning'[e].status # "NONE" =>
                    (earning'[e].status = "AVAILABLE" <=> earning'[e].available = earning'[e].amount)
    <3>1. earning[e].available <= earning[e].amount
          /\ earning[e].available \in Nat /\ earning[e].amount \in Nat
      BY HeldType DEF EarningsConserved, BookTypeOK, EarningRow, AllocationTable
    <3>2. CASE held[e] = 0
      BY <1>5, <3>2 DEF NothingHidden
    <3>3. CASE held[e] > 0
      <4>1. earning'[e].available < earning'[e].amount
            /\ earning'[e].status = "PARTIALLY_WITHDRAWN"
        <5>1. /\ earning'[e].amount = earning[e].amount
              /\ earning'[e].available = earning[e].available - held[e]
              /\ earning'[e].status = "PARTIALLY_WITHDRAWN"
          BY <1>5, <3>3
        <5>2. held[e] \in Nat
          BY <1>3
        <5>3. QED
          BY <3>1, <3>3, <5>1, <5>2
      <4>2. earning'[e].available # earning'[e].amount
        BY <1>5, <3>1, <4>1
      <4>3. QED
        BY <4>1, <4>2 DEF Spendable, SpendableStatuses
    <3>4. QED
      BY <1>3, <3>2, <3>3
  <2>2. QED
    BY <2>1 DEF NothingHidden, Spendable
<1>11. QED
  BY <1>6, <1>7, <1>8, <1>9, <1>10

\* Approving, rejecting or paying a withdrawal keeps the money invariants.
LEMMA DecideInv ==
  ASSUME BookInv, NEW w \in Withdrawals, NEW op \in Reviews, Decide(w, op)
  PROVE  BookInv'
<1> USE DEF BookInv
<1> DEFINE kept == AllocationAfter(op, allocation[w])
<1>1. /\ withdrawal[w].status = Required(op)
      /\ withdrawal' = [withdrawal EXCEPT ![w].status = Outcome(op)]
      /\ earning' = [e \in Earnings |-> IF allocation[w][e] > 0
                                        THEN Reviewed(op, earning[e], allocation[w][e])
                                        ELSE earning[e]]
      /\ allocation' = [allocation EXCEPT ![w] = kept]
  BY DEF Decide, BookTypeOK
<1>2. kept \in [Earnings -> Nat] /\ allocation[w] \in [Earnings -> Nat]
  BY DEF AllocationAfter, NoAllocation, BookTypeOK
<1>3. ASSUME NEW e \in Earnings
      PROVE  /\ earning'[e] \in EarningRow
             /\ earning'[e].amount = earning[e].amount
             /\ earning'[e].available + kept[e] = earning[e].available + allocation[w][e]
  <2>1. earning[e] \in EarningRow /\ allocation[w][e] \in Nat
    BY <1>2 DEF BookTypeOK
  <2>2. CASE ~ (allocation[w][e] > 0)
    BY <1>1, <2>1, <2>2 DEF AllocationAfter, NoAllocation
  <2>3. CASE allocation[w][e] > 0
    <3>1. earning'[e] = Reviewed(op, earning[e], allocation[w][e])
      BY <1>1, <2>3
    <3>2. CASE op = "approve"
      BY <2>1, <3>1, <3>2 DEF Reviewed, AllocationAfter
    <3>3. CASE op = "reject"
      <4>1. earning'[e] = Restored(earning[e], allocation[w][e])
        BY <3>1, <3>3 DEF Reviewed
      <4>2. kept[e] = 0
        BY <3>3 DEF AllocationAfter, NoAllocation
      <4>3. /\ earning'[e] \in EarningRow
            /\ earning'[e].amount = earning[e].amount
            /\ earning'[e].available = earning[e].available + allocation[w][e]
        BY <2>1, <4>1, RestoredRow
      <4>4. earning[e].available + allocation[w][e] \in Nat
        BY <2>1 DEF EarningRow
      <4> HIDE DEF kept
      <4>5. QED
        BY <4>2, <4>3, <4>4
    <3>4. CASE op = "pay"
      <4>1. earning'[e] = Finalized(earning[e])
        BY <3>1, <3>4 DEF Reviewed
      <4>2. kept[e] = allocation[w][e]
        BY <3>4 DEF AllocationAfter
      <4>3. QED
        BY <2>1, <4>1, <4>2, FinalizedRow DEF EarningRow
    <3>5. QED
      BY <3>2, <3>3, <3>4 DEF Reviews
  <2>4. QED
    BY <2>2, <2>3
<1>4. ASSUME NEW e \in Earnings
      PROVE  /\ Held(allocation, e) \in Nat /\ allocation[w][e] \in Nat
             /\ allocation[w][e] <= Held(allocation, e)
             /\ earning[e].available \in Nat /\ earning[e].amount \in Nat
             /\ earning[e].available + Held(allocation, e) = earning[e].amount
             /\ allocation[w][e] > 0 => earning[e].status # "NONE"
  <2>1. Held(allocation, e) \in Nat /\ allocation[w][e] <= Held(allocation, e)
    BY HeldType DEF BookTypeOK, AllocationTable
  <2>2. /\ earning[e].available \in Nat /\ earning[e].amount \in Nat
        /\ earning[e].available + Held(allocation, e) = earning[e].amount /\ allocation[w][e] \in Nat
    BY <1>2 DEF EarningsConserved, BookTypeOK, EarningRow
  <2>3. earning[e].status = "NONE" => earning[e].amount = 0
    BY DEF UnusedRowsEmpty, NoEarning
  <2>4. QED
    BY <2>1, <2>2, <2>3
<1>5. BookTypeOK'
  <2>1. earning' \in [Earnings -> EarningRow]
    BY <1>1, <1>3
  <2>2. withdrawal' \in [Withdrawals -> WithdrawalRow]
    BY <1>1 DEF BookTypeOK, WithdrawalRow, Outcome, Reviews
  <2>3. allocation' \in [Withdrawals -> [Earnings -> Nat]]
    BY <1>1, <1>2 DEF BookTypeOK
  <2>4. QED
    BY <2>1, <2>2, <2>3 DEF BookTypeOK
<1>6. UnusedRowsEmpty'
  <2>1. ASSUME NEW e \in Earnings, earning'[e].status = "NONE"
        PROVE  earning'[e] = NoEarning
    <3>1. CASE allocation[w][e] > 0
      BY <1>1, <1>4, <2>1, <3>1
        DEF Reviewed, Restored, Finalized, Reviews, BookTypeOK, EarningRow
    <3>2. CASE ~ (allocation[w][e] > 0)
      BY <1>1, <2>1, <3>2 DEF UnusedRowsEmpty
    <3>3. QED
      BY <3>1, <3>2
  <2>2. ASSUME NEW v \in Withdrawals, withdrawal'[v].status \in {"NONE", "REJECTED"}
        PROVE  allocation'[v] = NoAllocation
    BY <1>1, <2>2 DEF UnusedRowsEmpty, BookTypeOK, WithdrawalRow, Outcome, Reviews, AllocationAfter
  <2>3. QED
    BY <2>1, <2>2 DEF UnusedRowsEmpty
<1>7. EarningsConserved'
  <2>1. ASSUME NEW e \in Earnings
        PROVE  earning'[e].available + Held(allocation', e) = earning'[e].amount
    <3>1. Held(allocation', e) + allocation[w][e] = Held(allocation, e) + kept[e]
      <4> HIDE DEF kept
      <4> QED BY <1>1, <1>2, HeldChange DEF BookTypeOK, AllocationTable
    <3>2. Held(allocation', e) \in Nat
      BY <1>5, HeldType DEF BookTypeOK, AllocationTable
    <3>3. earning'[e].available \in Nat /\ kept[e] \in Nat
      <4>1. earning'[e] \in EarningRow /\ kept[e] \in Nat
        BY <1>2, <1>3
      <4>2. QED
        BY <4>1 DEF EarningRow
    <3>4. /\ earning'[e].amount = earning[e].amount
          /\ earning'[e].available + kept[e] = earning[e].available + allocation[w][e]
      BY <1>3
    <3> HIDE DEF kept
    <3>5. QED
      BY <1>4, <3>1, <3>2, <3>3, <3>4
  <2>2. QED
    BY <2>1 DEF EarningsConserved
<1>8. WithdrawalsBacked'
  <2>1. ASSUME NEW v \in Withdrawals, v # w
        PROVE  allocation'[v] = allocation[v] /\ withdrawal'[v] = withdrawal[v]
    BY <1>1, <2>1 DEF BookTypeOK
  <2>2. /\ withdrawal'[w].status = Outcome(op) /\ withdrawal'[w].amount = withdrawal[w].amount
        /\ allocation'[w] = kept
    BY <1>1 DEF BookTypeOK, WithdrawalRow
  <2>3. Total(kept) = IF Outcome(op) = "REJECTED" THEN 0 ELSE withdrawal[w].amount
    <3>1. Total(allocation[w]) = withdrawal[w].amount
      BY <1>1 DEF WithdrawalsBacked, Required
    <3>2. QED
      BY <3>1, NoAllocationTotal DEF AllocationAfter, Outcome, Reviews
  <2>4. Outcome(op) # "NONE"
    BY DEF Outcome, Reviews
  <2> HIDE DEF kept
  <2>5. QED
    BY <2>1, <2>2, <2>3, <2>4 DEF WithdrawalsBacked, Total
<1>9. NothingHidden'
  <2>1. ASSUME NEW e \in Earnings
        PROVE  /\ earning'[e].available > 0 => Spendable(earning'[e])
               /\ earning'[e].status # "NONE" =>
                    (earning'[e].status = "AVAILABLE" <=> earning'[e].available = earning'[e].amount)
    <3>1. CASE ~ (allocation[w][e] > 0)
      BY <1>1, <3>1 DEF NothingHidden
    <3>2. CASE allocation[w][e] > 0
      <4>1. earning'[e] = Reviewed(op, earning[e], allocation[w][e])
        BY <1>1, <3>2
      <4>2. earning[e].available < earning[e].amount
        BY <1>4, <3>2
      <4>3. earning[e] \in EarningRow
        BY DEF BookTypeOK
      <4>4. CASE op = "approve"
        BY <4>1, <4>4 DEF NothingHidden, Reviewed
      <4>5. CASE op = "reject"
        BY <1>4, <4>1, <4>3, <4>5
          DEF Reviewed, Restored, Spendable, SpendableStatuses, EarningRow
      <4>6. CASE op = "pay"
        BY <1>4, <4>1, <4>2, <4>3, <4>6
          DEF Reviewed, Finalized, Spendable, SpendableStatuses, EarningRow
      <4>7. QED
        BY <4>4, <4>5, <4>6 DEF Reviews
    <3>3. QED
      BY <3>1, <3>2
  <2>2. QED
    BY <2>1 DEF NothingHidden, Spendable
<1>10. QED
  BY <1>5, <1>6, <1>7, <1>8, <1>9

\* Every operation on the tables keeps them consistent.
LEMMA BookStepInv ==
  ASSUME BookInv, [BookNext]_bookVars
  PROVE  BookInv'
<1>1. ASSUME NEW e \in Earnings, NEW n \in Payouts, Earn(e, n) PROVE BookInv'
  BY <1>1, EarnInv
<1>2. ASSUME NEW w \in Withdrawals, NEW n \in Amounts, Grant(w, n) PROVE BookInv'
  BY <1>2, GrantInv
<1>3. ASSUME NEW w \in Withdrawals, NEW op \in Reviews, Decide(w, op) PROVE BookInv'
  BY <1>3, DecideInv
<1>4. CASE UNCHANGED bookVars
  BY <1>4 DEF bookVars, BookInv, BookTypeOK, UnusedRowsEmpty, EarningsConserved, Held,
              WithdrawalsBacked, Total, NothingHidden, Spendable
<1>5. QED
  BY <1>1, <1>2, <1>3, <1>4 DEF BookNext

\* Requests and reviews create no earning and keep what it was worth.
LEMMA RowsStay ==
  ASSUME BookInv, NEW e \in Earnings,
         \/ \E w \in Withdrawals, n \in Amounts : Grant(w, n)
         \/ \E w \in Withdrawals, op \in Reviews : Decide(w, op)
  PROVE  /\ earning'[e].amount = earning[e].amount
         /\ earning'[e].status = "NONE" <=> earning[e].status = "NONE"
<1>1. earning[e] \in EarningRow /\ earning[e].available \in Nat
  BY DEF BookInv, BookTypeOK, EarningRow
<1>2. ASSUME NEW w \in Withdrawals, NEW n \in Amounts, Grant(w, n)
      PROVE  /\ earning'[e].amount = earning[e].amount
             /\ earning'[e].status = "NONE" <=> earning[e].status = "NONE"
  <2>1. PICK held \in Splits(n) :
          /\ \A d \in Earnings : held[d] > 0 => CanReserve(earning[d], held[d])
          /\ earning' = [d \in Earnings |-> IF held[d] > 0 THEN Reserved(earning[d], held[d])
                                                           ELSE earning[d]]
    BY <1>2 DEF Grant
  <2>2. held[e] \in Nat
    BY AmountsAssumption DEF Splits
  <2>3. CASE ~ (held[e] > 0)
    BY <2>1, <2>3
  <2>4. CASE held[e] > 0
    <3>1. CanReserve(earning[e], held[e]) /\ earning'[e] = Reserved(earning[e], held[e])
      BY <2>1, <2>4
    <3>2. earning[e].available >= held[e] /\ earning[e].status # "NONE"
      BY <3>1 DEF CanReserve, Spendable, SpendableStatuses
    <3> QED
      BY <1>1, <2>2, <3>1, <3>2, ReservedRow
  <2> QED
    BY <2>3, <2>4
<1>3. ASSUME NEW w \in Withdrawals, NEW op \in Reviews, Decide(w, op)
      PROVE  /\ earning'[e].amount = earning[e].amount
             /\ earning'[e].status = "NONE" <=> earning[e].status = "NONE"
  <2>1. earning' = [d \in Earnings |-> IF allocation[w][d] > 0
                                       THEN Reviewed(op, earning[d], allocation[w][d])
                                       ELSE earning[d]]
    BY <1>3 DEF Decide
  <2>2. CASE ~ (allocation[w][e] > 0)
    BY <2>1, <2>2
  <2>3. CASE allocation[w][e] > 0
    <3>1. allocation[w][e] \in Nat
      BY DEF BookInv, BookTypeOK
    <3>2. earning[e].status # "NONE"
      <4>1. Held(allocation, e) \in Nat /\ allocation[w][e] <= Held(allocation, e)
        BY HeldType DEF BookInv, BookTypeOK, AllocationTable
      <4>2. earning[e].available + Held(allocation, e) = earning[e].amount
        BY DEF BookInv, EarningsConserved
      <4>3. earning[e].amount # 0
        BY <1>1, <2>3, <3>1, <4>1, <4>2
      <4> QED
        BY <4>3 DEF BookInv, UnusedRowsEmpty, NoEarning
    <3>3. earning'[e] = Reviewed(op, earning[e], allocation[w][e])
      BY <2>1, <2>3
    <3>4. CASE op = "approve"
      BY <3>3, <3>4 DEF Reviewed
    <3>5. CASE op = "reject"
      <4>1. earning'[e] = Restored(earning[e], allocation[w][e])
        BY <3>3, <3>5 DEF Reviewed
      <4>2. /\ Restored(earning[e], allocation[w][e]).amount = earning[e].amount
            /\ Restored(earning[e], allocation[w][e]).status \in {"AVAILABLE", "PARTIALLY_WITHDRAWN"}
        BY <1>1, <3>1, RestoredRow
      <4>3. /\ earning'[e].amount = earning[e].amount
            /\ earning'[e].status \in {"AVAILABLE", "PARTIALLY_WITHDRAWN"}
        BY <4>1, <4>2, Zenon
      <4> QED
        BY <3>2, <4>3
    <3>6. CASE op = "pay"
      <4>1. earning'[e] = Finalized(earning[e])
        BY <3>3, <3>6 DEF Reviewed
      <4> QED
        BY <1>1, <3>2, <4>1, FinalizedRow
    <3> QED
      BY <3>4, <3>5, <3>6 DEF Reviews
  <2> QED
    BY <2>2, <2>3
<1> QED
  BY <1>2, <1>3

\* The tables stay consistent whatever sequence of settlements, requests and
\* reviews runs.
THEOREM BookSafe == BookSpec => []BookInv
<1>1. BookInit => BookInv
  BY BookInitInv
<1>2. BookInv /\ [BookNext]_bookVars => BookInv'
  BY BookStepInv
<1>3. QED
  BY <1>1, <1>2, PTL DEF BookSpec

\* In committed rows that are read together, what was earned and is not taken is available.
SumsAgree ==
  Total([e \in Earnings |-> earning[e].amount]) - SumFunctionOnSet(Taken, Withdrawals)
    = Total([e \in Earnings |-> earning[e].available])

\* It follows from the two sums below it: the earnings are summed by rows of the allocation
\* table, the withdrawals by its columns.  A page that reads the two tables in two statements
\* (getWithdrawalEarningsTrace) can still see a difference.
LEMMA BookSums == BookInv => SumsAgree
<1> SUFFICES ASSUME BookInv PROVE SumsAgree
  OBVIOUS
<1> DEFINE amounts == [e \in Earnings |-> earning[e].amount]
           available == [e \in Earnings |-> earning[e].available]
           held == [e \in Earnings |-> Held(allocation, e)]
           totals == [w \in Withdrawals |-> Total(allocation[w])]
<1>1. \A e \in Earnings : /\ available[e] \in Nat /\ held[e] \in Nat
                          /\ amounts[e] = available[e] + held[e]
  BY HeldType DEF BookInv, BookTypeOK, EarningRow, EarningsConserved, AllocationTable
<1>2. \A w \in Withdrawals : totals[w] = Taken[w]
  <2>1. \A w \in Withdrawals : withdrawal[w].status \in {"PENDING", "APPROVED", "PAID"}
                                 <=> withdrawal[w].status \notin {"NONE", "REJECTED"}
    BY DEF BookInv, BookTypeOK, WithdrawalRow
  <2> QED
    BY <2>1 DEF BookInv, WithdrawalsBacked, Taken
<1>3. SumFunctionOnSet(totals, Withdrawals) = SumFunctionOnSet(held, Earnings)
  <2>1. \A w \in Withdrawals, e \in Earnings : allocation[w][e] \in Nat
    BY DEF BookInv, BookTypeOK
  <2> QED
    BY <2>1, SumSwap, EarningsAssumption, WithdrawalsAssumption DEF Total, Held
<1> HIDE DEF amounts, available, held, totals
<1>4. Total(amounts) = Total(available) + SumFunctionOnSet(held, Earnings)
  <2>1. SumFunctionOnSet(amounts, Earnings) =
          SumFunctionOnSet(available, Earnings) + SumFunctionOnSet(held, Earnings)
    <3>1. IsFiniteSet(Earnings)
      BY EarningsAssumption
    <3>2. \A e \in Earnings : available[e] \in Nat /\ held[e] \in Nat /\ amounts[e] = available[e] + held[e]
      BY <1>1
    <3> QED
      BY <3>1, <3>2, SumAdd
  <2> QED
    BY <2>1 DEF Total
<1>5. SumFunctionOnSet(totals, Withdrawals) = SumFunctionOnSet(Taken, Withdrawals)
  BY <1>2, SumAgree, WithdrawalsAssumption
<1>6. Total(available) \in Nat /\ SumFunctionOnSet(held, Earnings) \in Nat
  BY <1>1, SumType, EarningsAssumption DEF Total
<1>7. Total(amounts) - SumFunctionOnSet(Taken, Withdrawals) = Total(available)
  BY <1>3, <1>4, <1>5, <1>6
<1> QED
  BY <1>7 DEF SumsAgree, amounts, available

-----------------------------------------------------------------------------
(* Withdrawals. *)

RequestOK(w) ==
  LET r == request[w]
  IN  /\ r.pc # "idle" => withdrawal[w].status = "NONE" /\ r.amount \in Amounts
      /\ r.pc # "reserve" => r.todo = {}
      /\ Total(r.picked) + r.remaining = r.amount
      /\ \A e \in Earnings :
           /\ r.picked[e] > 0 <=> rowLock[e] = w
           /\ rowLock[e] = w => /\ r.pc = "reserve"
                                /\ CanReserve(earning[e], r.picked[e])
                                /\ draft[e] = Reserved(earning[e], r.picked[e])
           /\ e \in r.todo => rowLock[e] # w /\ r.seen[e] > 0

\* What a request has changed so far, over what is committed: each earning it
\* picked from is locked by it and carries exactly that reservation of a row that can
\* still cover it, although the balance it decided on was read without a lock.
RequestsConsistent == \A w \in Withdrawals : RequestOK(w)

ReviewOK(a) ==
  LET v == review[a]
  IN  /\ v.pc # "idle" => v.target \in Withdrawals
      /\ \A w \in Withdrawals : reviewLock[w] = a <=> v.pc = "rows" /\ v.target = w
      /\ v.pc = "rows" => withdrawal[v.target].status = Required(v.op)
      /\ v.todo # {} => v.pc = "rows" /\ v.at \in v.todo
      /\ \A e \in Earnings :
           /\ rowLock[e] = a =>
                /\ v.pc = "rows" /\ v.op # "approve" /\ e \notin v.todo
                /\ allocation[v.target][e] > 0
                /\ draft[e] = Reviewed(v.op, earning[e], allocation[v.target][e])
           /\ e \in v.todo => allocation[v.target][e] > 0 /\ v.op # "approve"
           /\ v.pc = "rows" /\ v.op # "approve" /\ allocation[v.target][e] > 0 =>
                e \in v.todo \/ rowLock[e] = a

\* A review past its claim is the only one to hold its withdrawal, which still has
\* the status it requires and the allocations it read; of those, each earning
\* is either still to do or locked with its new version, and it touches no other.
ReviewsConsistent == \A a \in Admins : ReviewOK(a)

\* What makes a step indivisible is that a transaction's uncommitted rows still
\* fit the committed ones when it commits: that is RequestsConsistent and
\* ReviewsConsistent, which in turn need the money invariants (a row that a
\* review restores exists, since an allocation of it does).
IInv ==
  /\ TypeOK
  /\ BookInv
  /\ RequestsConsistent
  /\ ReviewsConsistent

\* A step that leaves request w and its rows alone keeps it consistent.
LEMMA RequestFrame ==
  ASSUME NEW w \in Withdrawals, RequestOK(w),
         request'[w] = request[w],
         withdrawal[w].status = "NONE" /\ request[w].pc # "idle" =>
           withdrawal'[w].status = "NONE",
         \A e \in Earnings : rowLock'[e] = w <=> rowLock[e] = w,
         \A e \in Earnings : rowLock[e] = w => draft'[e] = draft[e] /\ earning'[e] = earning[e]
  PROVE  RequestOK(w)'
BY DEF RequestOK, Total, CanReserve, Spendable, Reserved

\* The same for a review.
LEMMA ReviewFrame ==
  ASSUME NEW a \in Admins, ReviewOK(a),
         review'[a] = review[a],
         \A w \in Withdrawals : reviewLock'[w] = a <=> reviewLock[w] = a,
         review[a].pc = "rows" => /\ withdrawal'[review[a].target].status =
                                       withdrawal[review[a].target].status
                                  /\ allocation'[review[a].target] = allocation[review[a].target],
         \A e \in Earnings : rowLock'[e] = a <=> rowLock[e] = a,
         \A e \in Earnings : rowLock[e] = a => draft'[e] = draft[e] /\ earning'[e] = earning[e]
  PROVE  ReviewOK(a)'
<1>1. review[a].pc # "rows" => review[a].todo = {}
  BY DEF ReviewOK
<1>2. ASSUME NEW e \in Earnings
      PROVE  /\ rowLock'[e] = a =>
                  /\ review[a].pc = "rows" /\ review[a].op # "approve" /\ e \notin review[a].todo
                  /\ allocation'[review[a].target][e] > 0
                  /\ draft'[e] = Reviewed(review[a].op, earning'[e], allocation'[review[a].target][e])
             /\ e \in review[a].todo => /\ allocation'[review[a].target][e] > 0
                                       /\ review[a].op # "approve"
             /\ /\ review[a].pc = "rows" /\ review[a].op # "approve"
                /\ allocation'[review[a].target][e] > 0
                => e \in review[a].todo \/ rowLock'[e] = a
  BY <1>1 DEF ReviewOK
<1>3. /\ review[a].pc # "idle" => review[a].target \in Withdrawals
      /\ \A w \in Withdrawals : reviewLock'[w] = a <=> review[a].pc = "rows" /\ review[a].target = w
      /\ review[a].pc = "rows" => withdrawal'[review[a].target].status = Required(review[a].op)
      /\ review[a].todo # {} => review[a].pc = "rows" /\ review[a].at \in review[a].todo
  BY DEF ReviewOK
<1>4. QED
  BY <1>2, <1>3 DEF ReviewOK

-----------------------------------------------------------------------------
\* The empty tables without transactions satisfy the inductive invariant.
LEMMA InitIInv == Init => IInv
<1> SUFFICES ASSUME Init PROVE IInv
  OBVIOUS
<1>1. BookInv
  BY BookInitInv DEF Init
<1>2. TypeOK
  BY <1>1, TxAssumption
    DEF Init, TypeOK, BookInv, NoEarning, EarningRow, NoRequest, Request, NoReview, Review,
        Reviews, NoAllocation
<1>3. RequestsConsistent
  BY NoAllocationTotal, TxAssumption
    DEF Init, RequestsConsistent, RequestOK, NoRequest, NoAllocation, Txs
<1>4. ReviewsConsistent
  BY TxAssumption DEF Init, ReviewsConsistent, ReviewOK, NoReview, Txs
<1>5. QED
  BY <1>1, <1>2, <1>3, <1>4 DEF IInv

-----------------------------------------------------------------------------
\* An earning recorded meanwhile is an Earn and disturbs no open transaction.
LEMMA RecordEarningStep ==
  ASSUME IInv, NEW e \in Earnings, NEW n \in Payouts, RecordEarning(e, n)
  PROVE  BookNext /\ TypeOK' /\ RequestsConsistent' /\ ReviewsConsistent'
<1>1. Earn(e, n) /\ UNCHANGED txVars
  BY DEF RecordEarning
<1>2. /\ earning' = [earning EXCEPT ![e] = NewEarning(n)] /\ earning[e].status = "NONE"
      /\ withdrawal' = withdrawal /\ allocation' = allocation
      /\ rowLock' = rowLock /\ draft' = draft /\ reviewLock' = reviewLock
      /\ request' = request /\ review' = review
  BY <1>1 DEF Earn, txVars
<1>3. BookNext
  BY <1>1 DEF BookNext
<1>4. BookInv'
  BY <1>1, EarnInv DEF IInv
<1>5. TypeOK'
  BY <1>2, <1>4 DEF IInv, BookInv, TypeOK
<1>6. ASSUME NEW w \in Withdrawals PROVE RequestOK(w)'
  <2>1. RequestOK(w)
    BY DEF IInv, RequestsConsistent
  <2>2. rowLock[e] # w
    BY <1>2, <2>1 DEF RequestOK, CanReserve, Spendable, SpendableStatuses
  <2>3. QED
    BY <1>2, <2>1, <2>2, RequestFrame DEF IInv, TypeOK, BookTypeOK
<1>7. ASSUME NEW a \in Admins PROVE ReviewOK(a)'
  <2>1. ReviewOK(a)
    BY DEF IInv, ReviewsConsistent
  <2>2. rowLock[e] # a
    <3>1. SUFFICES ASSUME rowLock[e] = a PROVE FALSE
      OBVIOUS
    <3>2. review[a].target \in Withdrawals /\ allocation[review[a].target][e] > 0
      BY <2>1, <3>1 DEF ReviewOK
    <3>3. earning[e] = NoEarning /\ earning[e].available + Held(allocation, e) = earning[e].amount
      BY <1>2 DEF IInv, BookInv, UnusedRowsEmpty, EarningsConserved
    <3>4. Held(allocation, e) \in Nat
          /\ allocation[review[a].target][e] <= Held(allocation, e)
          /\ allocation[review[a].target][e] \in Nat
      BY <3>2, HeldType DEF IInv, BookInv, BookTypeOK, AllocationTable
    <3>5. QED
      BY <3>2, <3>3, <3>4 DEF NoEarning
  <2>3. QED
    BY <1>2, <2>1, <2>2, ReviewFrame DEF IInv, TypeOK, BookTypeOK
<1>8. QED
  BY <1>3, <1>5, <1>6, <1>7 DEF RequestsConsistent, ReviewsConsistent

\* A step that changes nothing but the progress of request w.
LEMMA OtherRequestsFrame ==
  ASSUME IInv, NEW w \in Withdrawals, UNCHANGED <<bookVars, rowLock, draft, reviewLock, review>>,
         \A v \in Withdrawals \ {w} : request'[v] = request[v],
         request' \in [Withdrawals -> Request], RequestOK(w)'
  PROVE  TypeOK' /\ RequestsConsistent' /\ ReviewsConsistent'
<1>1. TypeOK'
  BY DEF IInv, TypeOK, BookTypeOK, bookVars
<1>2. ASSUME NEW v \in Withdrawals, v # w PROVE RequestOK(v)'
  <2>1. RequestOK(v)
    BY DEF IInv, RequestsConsistent
  <2>2. request'[v] = request[v]
    BY <1>2
  <2>3. QED
    BY <2>1, <2>2, RequestFrame DEF bookVars
<1>3. ASSUME NEW a \in Admins PROVE ReviewOK(a)'
  <2>1. ReviewOK(a)
    BY DEF IInv, ReviewsConsistent
  <2>2. QED
    BY <2>1, ReviewFrame DEF bookVars
<1>4. QED
  BY <1>1, <1>2, <1>3 DEF RequestsConsistent, ReviewsConsistent

\* A request that begins has changed nothing yet.
LEMMA BeginRequestStep ==
  ASSUME IInv, NEW w \in Withdrawals, NEW n \in Amounts, BeginRequest(w, n)
  PROVE  UNCHANGED bookVars /\ TypeOK' /\ RequestsConsistent' /\ ReviewsConsistent'
<1>1. n \in Nat
  BY AmountsAssumption
<1> DEFINE r == Started(n)
<1>2. /\ request' = [request EXCEPT ![w] = r]
      /\ UNCHANGED <<bookVars, rowLock, draft, reviewLock, review>>
      /\ request[w].pc = "idle" /\ withdrawal[w].status = "NONE"
  BY DEF BeginRequest
<1>3. request' \in [Withdrawals -> Request] /\ request'[w] = r
  BY <1>1, <1>2 DEF IInv, TypeOK, Request, NoAllocation, Started
<1>4. RequestOK(w)'
  <2>1. RequestOK(w)
    BY DEF IInv, RequestsConsistent
  <2>2. \A e \in Earnings : rowLock[e] # w
    BY <1>2, <2>1 DEF RequestOK
  <2>3. QED
    BY <1>1, <1>2, <1>3, <2>2, NoAllocationTotal DEF RequestOK, NoAllocation, bookVars, Total, Started
<1>5. QED
  BY <1>2, <1>3, <1>4, OtherRequestsFrame DEF IInv, TypeOK

\* What a request has read commits it to nothing.
LEMMA ReadEarningsStep ==
  ASSUME IInv, NEW w \in Withdrawals, ReadEarnings(w)
  PROVE  UNCHANGED bookVars /\ TypeOK' /\ RequestsConsistent' /\ ReviewsConsistent'
<1> DEFINE todo == {e \in Earnings : Spendable(earning[e]) /\ earning[e].available > 0}
           seen == [e \in Earnings |-> earning[e].available]
<1>1. /\ request' = [request EXCEPT ![w].pc = "reserve", ![w].todo = todo, ![w].seen = seen]
      /\ UNCHANGED <<bookVars, rowLock, draft, reviewLock, review>>
      /\ request[w].pc = "read"
  BY DEF ReadEarnings
<1>2. request[w] \in Request /\ RequestOK(w)
  BY DEF IInv, TypeOK, RequestsConsistent
<1>3. seen \in [Earnings -> Nat] /\ todo \subseteq Earnings /\ \A e \in todo : seen[e] > 0
  BY DEF IInv, TypeOK, BookTypeOK, EarningRow
<1> HIDE DEF todo, seen
<1>4. /\ request'[w].pc = "reserve" /\ request'[w].todo = todo /\ request'[w].seen = seen
      /\ request'[w].picked = request[w].picked /\ request'[w].amount = request[w].amount
      /\ request'[w].remaining = request[w].remaining
      /\ request'[w] \in Request
  BY <1>1, <1>2, <1>3 DEF IInv, TypeOK, Request
<1>5. request' \in [Withdrawals -> Request]
  BY <1>1, <1>4 DEF IInv, TypeOK
<1>6. RequestOK(w)'
  <2>1. \A e \in Earnings : rowLock[e] # w
    BY <1>1, <1>2 DEF RequestOK
  <2>2. QED
    BY <1>1, <1>2, <1>3, <1>4, <2>1 DEF RequestOK, bookVars, Total
<1>7. QED
  BY <1>1, <1>5, <1>6, OtherRequestsFrame DEF IInv, TypeOK

\* An earning another withdrawal got to first is left out.
LEMMA SkipNextStep ==
  ASSUME IInv, NEW w \in Withdrawals, SkipNext(w)
  PROVE  UNCHANGED bookVars /\ TypeOK' /\ RequestsConsistent' /\ ReviewsConsistent'
<1> DEFINE rest == request[w].todo \ {NextToReserve(w)}
<1>1. /\ request' = [request EXCEPT ![w].todo = rest]
      /\ UNCHANGED <<bookVars, rowLock, draft, reviewLock, review>>
      /\ request[w].pc = "reserve"
  BY DEF SkipNext, Reserving
<1>2. request[w] \in Request /\ RequestOK(w)
  BY DEF IInv, TypeOK, RequestsConsistent
<1>3. rest \subseteq request[w].todo
  OBVIOUS
<1> HIDE DEF rest
<1>4. /\ request'[w].pc = "reserve" /\ request'[w].todo = rest /\ request'[w].seen = request[w].seen
      /\ request'[w].picked = request[w].picked /\ request'[w].amount = request[w].amount
      /\ request'[w].remaining = request[w].remaining
      /\ request'[w] \in Request
  BY <1>1, <1>2, <1>3 DEF IInv, TypeOK, Request
<1>5. request' \in [Withdrawals -> Request]
  BY <1>1, <1>4 DEF IInv, TypeOK
<1>6. RequestOK(w)'
  BY <1>1, <1>2, <1>3, <1>4 DEF RequestOK, bookVars, Total, CanReserve, Spendable, Reserved
<1>7. QED
  BY <1>1, <1>5, <1>6, OtherRequestsFrame DEF IInv, TypeOK

\* The end of a transaction, seen by another one and by its own request.
LEMMA OthersKeepTheirRows ==
  ASSUME IInv, NEW t \in Txs, NEW u \in Txs, u # t, Release(t)
  PROVE  \A e \in Earnings : /\ rowLock'[e] = u <=> rowLock[e] = u
                             /\ rowLock[e] = u => draft'[e] = draft[e]
BY TxAssumption DEF Release, Txs

\* After the end of a transaction no row is locked by it.
LEMMA ReleaseType ==
  ASSUME IInv, NEW t \in Txs, Release(t)
  PROVE  /\ rowLock' \in [Earnings -> Txs \cup {None}]
         /\ draft' \in [Earnings -> EarningRow]
         /\ \A e \in Earnings : rowLock'[e] # t
BY TxAssumption DEF Release, IInv, TypeOK, NoEarning, EarningRow, Txs

\* A request that has ended and holds no lock is consistent.
LEMMA IdleRequestOK ==
  ASSUME NEW w \in Withdrawals, request'[w] = NoRequest,
         \A e \in Earnings : rowLock'[e] # w
  PROVE  RequestOK(w)'
<1>1. Total(request'[w].picked) = 0
  BY NoAllocationTotal DEF NoRequest
<1>2. QED
  BY <1>1 DEF RequestOK, NoRequest, NoAllocation, Total

\* A request that fails or is aborted leaves no trace.
LEMMA RollbackRequestStep ==
  ASSUME IInv, NEW w \in Withdrawals, RollbackRequest(w)
  PROVE  UNCHANGED bookVars /\ TypeOK' /\ RequestsConsistent' /\ ReviewsConsistent'
<1>1. /\ Release(w) /\ request' = [request EXCEPT ![w] = NoRequest]
      /\ UNCHANGED <<bookVars, reviewLock, review>>
  BY DEF RollbackRequest
<1>2. TypeOK'
  <2>1. request' \in [Withdrawals -> Request]
    BY <1>1 DEF IInv, TypeOK, NoRequest, Request, NoAllocation
  <2>2. QED
    BY <1>1, <2>1, ReleaseType DEF IInv, TypeOK, BookTypeOK, bookVars, Txs
<1>3. ASSUME NEW v \in Withdrawals PROVE RequestOK(v)'
  <2>1. CASE v = w
    BY <1>1, <2>1, ReleaseType, IdleRequestOK DEF Txs, IInv, TypeOK
  <2>2. CASE v # w
    <3>1. RequestOK(v)
      BY DEF IInv, RequestsConsistent
    <3>2. QED
      BY <1>1, <2>2, <3>1, OthersKeepTheirRows, RequestFrame DEF Txs, bookVars
  <2>3. QED
    BY <2>1, <2>2
<1>4. ASSUME NEW a \in Admins PROVE ReviewOK(a)'
  <2>1. ReviewOK(a) /\ a # w /\ a \in Txs /\ w \in Txs
    BY TxAssumption DEF IInv, ReviewsConsistent, Txs
  <2>2. QED
    BY <1>1, <2>1, OthersKeepTheirRows, ReviewFrame DEF bookVars
<1>5. QED
  BY <1>1, <1>2, <1>3, <1>4 DEF RequestsConsistent, ReviewsConsistent

\* An UPDATE locks one free row: the rows of other transactions stay as they were.
LEMMA WriteFrame ==
  ASSUME IInv, NEW t \in Txs, NEW d \in Earnings, NEW row \in EarningRow,
         rowLock[d] = None, Write(t, d, row)
  PROVE  /\ rowLock' \in [Earnings -> Txs \cup {None}]
         /\ draft' \in [Earnings -> EarningRow]
         /\ rowLock'[d] = t /\ draft'[d] = row
         /\ \A e \in Earnings \ {d} : rowLock'[e] = rowLock[e] /\ draft'[e] = draft[e]
         /\ \A u \in Txs : u # t => \A e \in Earnings :
              /\ rowLock'[e] = u <=> rowLock[e] = u
              /\ rowLock[e] = u => draft'[e] = draft[e]
BY TxAssumption DEF Write, IInv, TypeOK, Txs

\* reserveAmount locks one more earning and counts exactly what it took.
LEMMA ReserveNextStep ==
  ASSUME IInv, NEW w \in Withdrawals, ReserveNext(w)
  PROVE  UNCHANGED bookVars /\ TypeOK' /\ RequestsConsistent' /\ ReviewsConsistent'
<1> DEFINE d == NextToReserve(w)
           n == Consume(request[w], d)
           rest == request[w].todo \ {d}
<1>1. /\ request[w].pc = "reserve" /\ request[w].remaining > 0 /\ request[w].todo # {}
      /\ rowLock[d] = None /\ CanReserve(earning[d], n)
      /\ Write(w, d, Reserved(earning[d], n))
      /\ request' = [request EXCEPT ![w].todo = rest, ![w].remaining = @ - n, ![w].picked[d] = n]
      /\ UNCHANGED <<bookVars, reviewLock, review>>
  BY DEF ReserveNext, Reserving
<1>2. request[w] \in Request /\ RequestOK(w) /\ w \in Txs
  BY DEF IInv, TypeOK, RequestsConsistent, Txs
<1>3. d \in request[w].todo /\ d \in Earnings
  <2>1. request[w].todo \subseteq Nat /\ request[w].todo # {} /\ request[w].todo \subseteq Earnings
    BY <1>1, <1>2, EarningsAssumption DEF Request
  <2>2. IsFiniteSet(request[w].todo)
    BY <2>1, EarningsAssumption, FS_Subset
  <2>3. \E e \in request[w].todo : \A c \in request[w].todo : e <= c
    BY <2>1, <2>2, LeastExists
  <2>4. QED
    BY <2>1, <2>3 DEF NextToReserve, Oldest
<1>4. request[w].seen[d] > 0 /\ request[w].picked[d] = 0
  <2>1. request[w].seen[d] > 0 /\ rowLock[d] # w
    BY <1>2, <1>3 DEF RequestOK
  <2>2. request[w].picked[d] \in Nat /\ ~ (request[w].picked[d] > 0)
    BY <1>2, <1>3, <2>1 DEF RequestOK, Request
  <2>3. QED
    BY <2>1, <2>2
<1>5. n \in Nat /\ n > 0 /\ n <= request[w].remaining
  BY <1>1, <1>2, <1>3, <1>4 DEF Consume, Request
<1>6. earning[d] \in EarningRow /\ earning[d].available >= n
      /\ Reserved(earning[d], n) \in EarningRow
  BY <1>1, <1>3, <1>5, ReservedRow DEF CanReserve, IInv, TypeOK, BookTypeOK
<1> DEFINE p == [request[w].picked EXCEPT ![d] = n]
<1>7. rest \subseteq Earnings /\ rest \subseteq request[w].todo /\ d \notin rest
  BY <1>2 DEF Request
<1> HIDE DEF d, n, rest
<1>8. p \in [Earnings -> Nat] /\ p[d] = n /\ \A e \in Earnings \ {d} : p[e] = request[w].picked[e]
  BY <1>2, <1>3, <1>5 DEF Request
<1>9. /\ request'[w].pc = "reserve" /\ request'[w].todo = rest
      /\ request'[w].remaining = request[w].remaining - n /\ request'[w].picked = p
      /\ request'[w].seen = request[w].seen /\ request'[w].amount = request[w].amount
      /\ request'[w] \in Request
      /\ request' \in [Withdrawals -> Request]
      /\ \A v \in Withdrawals \ {w} : request'[v] = request[v]
  <2>1. request[w].remaining - n \in Nat
    BY <1>2, <1>5 DEF Request
  <2> DEFINE r == [request[w] EXCEPT !.todo = rest, !.remaining = request[w].remaining - n,
                                     !.picked = p]
  <2>2. request' = [request EXCEPT ![w] = r]
    BY <1>1 DEF IInv, TypeOK, Request
  <2>3. /\ r \in Request /\ r.pc = "reserve" /\ r.todo = rest /\ r.picked = p
        /\ r.remaining = request[w].remaining - n
        /\ r.seen = request[w].seen /\ r.amount = request[w].amount
    BY <1>1, <1>2, <1>7, <1>8, <2>1 DEF Request
  <2> HIDE DEF r, p
  <2>4. request'[w] = r
    BY <2>2 DEF IInv, TypeOK
  <2>5. QED
    BY <2>2, <2>3, <2>4 DEF IInv, TypeOK
<1>10. Total(p) = Total(request[w].picked) + n
  <2>1. \A e \in Earnings : request[w].picked[e] \in Nat /\ p[e] \in Nat
    BY <1>2, <1>8 DEF Request
  <2> DEFINE q == request[w].picked
  <2>2. d \in Earnings /\ \A e \in Earnings \ {d} : q[e] = p[e]
    BY <1>3, <1>8
  <2>3. \A e \in Earnings : q[e] \in Nat /\ p[e] \in Nat
    BY <2>1
  <2>4. IsFiniteSet(Earnings)
    BY EarningsAssumption
  <2> HIDE DEF p, q
  <2>5. SumFunctionOnSet(p, Earnings) + q[d] = SumFunctionOnSet(q, Earnings) + p[d]
    BY <2>2, <2>3, <2>4, SumChange
  <2>6. Total(p) + request[w].picked[d] = Total(request[w].picked) + p[d]
    BY <2>5 DEF Total, q
  <2>7. Total(p) \in Nat /\ Total(request[w].picked) \in Nat
    BY <1>2, <1>8, TotalType DEF Request
  <2>8. QED
    BY <1>4, <1>5, <1>8, <2>6, <2>7
<1> HIDE DEF p
<1>11. TypeOK'
  BY <1>1, <1>2, <1>3, <1>6, <1>9, WriteFrame DEF IInv, TypeOK, BookTypeOK, bookVars
<1>12. /\ rowLock'[d] = w /\ draft'[d] = Reserved(earning[d], n)
       /\ \A e \in Earnings \ {d} : rowLock'[e] = rowLock[e] /\ draft'[e] = draft[e]
       /\ \A u \in Txs : u # w => \A e \in Earnings :
              /\ rowLock'[e] = u <=> rowLock[e] = u
              /\ rowLock[e] = u => draft'[e] = draft[e]
  BY <1>1, <1>2, <1>3, <1>6, WriteFrame
<1>13. RequestOK(w)'
  <2>1. Total(request'[w].picked) + request'[w].remaining = request'[w].amount
    <3>1. Total(request[w].picked) + request[w].remaining = request[w].amount
      BY <1>2 DEF RequestOK
    <3>2. Total(request[w].picked) \in Nat /\ request[w].remaining \in Nat
      BY <1>2, TotalType DEF Request
    <3>3. QED
      BY <1>5, <1>9, <1>10, <3>1, <3>2
  <2>2. ASSUME NEW e \in Earnings
        PROVE  /\ request'[w].picked[e] > 0 <=> rowLock'[e] = w
               /\ rowLock'[e] = w => /\ CanReserve(earning'[e], request'[w].picked[e])
                                     /\ draft'[e] = Reserved(earning'[e], request'[w].picked[e])
               /\ e \in request'[w].todo => rowLock'[e] # w /\ request'[w].seen[e] > 0
    <3>1. CASE e = d
      BY <1>1, <1>5, <1>7, <1>8, <1>9, <1>12, <3>1 DEF bookVars
    <3>2. CASE e # d
      BY <1>1, <1>2, <1>7, <1>8, <1>9, <1>12, <3>2 DEF bookVars, RequestOK
    <3>3. QED
      BY <3>1, <3>2
  <2>3. withdrawal'[w].status = "NONE" /\ request'[w].amount \in Amounts
    BY <1>1, <1>2, <1>9 DEF bookVars, RequestOK
  <2>4. QED
    BY <1>9, <2>1, <2>2, <2>3 DEF RequestOK, Total, CanReserve, Spendable, Reserved
<1>14. ASSUME NEW v \in Withdrawals, v # w PROVE RequestOK(v)'
  <2>1. RequestOK(v) /\ v \in Txs
    BY DEF IInv, RequestsConsistent, Txs
  <2>2. QED
    BY <1>1, <1>9, <1>12, <1>14, <2>1, RequestFrame DEF bookVars
<1>15. ASSUME NEW a \in Admins PROVE ReviewOK(a)'
  <2>1. ReviewOK(a) /\ a \in Txs /\ a # w
    BY TxAssumption DEF IInv, ReviewsConsistent, Txs
  <2>2. QED
    BY <1>1, <1>12, <2>1, ReviewFrame DEF bookVars
<1>16. QED
  BY <1>1, <1>11, <1>13, <1>14, <1>15 DEF RequestsConsistent, ReviewsConsistent

\* The commit of a request is a Grant of the book.
LEMMA CommitRequestStep ==
  ASSUME IInv, NEW w \in Withdrawals, CommitRequest(w)
  PROVE  BookNext /\ TypeOK' /\ RequestsConsistent' /\ ReviewsConsistent'
<1> DEFINE n == request[w].amount
           held == request[w].picked
<1>1. /\ request[w].pc = "reserve" /\ request[w].remaining = 0
      /\ Publish(w) /\ Release(w)
      /\ withdrawal' = [withdrawal EXCEPT ![w] = [status |-> "PENDING", amount |-> n]]
      /\ allocation' = [allocation EXCEPT ![w] = held]
      /\ request' = [request EXCEPT ![w] = NoRequest]
      /\ UNCHANGED <<reviewLock, review>>
  BY DEF CommitRequest, FullyReserved
<1>2. request[w] \in Request /\ RequestOK(w) /\ w \in Txs
  BY DEF IInv, TypeOK, RequestsConsistent, Txs
<1>3. /\ n \in Amounts /\ n \in Nat /\ held \in [Earnings -> Nat] /\ withdrawal[w].status = "NONE"
      /\ \A e \in Earnings :
           /\ held[e] > 0 <=> rowLock[e] = w
           /\ rowLock[e] = w => /\ CanReserve(earning[e], held[e])
                                /\ draft[e] = Reserved(earning[e], held[e])
  BY <1>1, <1>2 DEF RequestOK, Request
<1>4. held \in Splits(n)
  <2>1. Total(held) = n
    <3>1. Total(held) + 0 = n
      BY <1>1, <1>2 DEF RequestOK
    <3>2. Total(held) \in Nat
      BY <1>3, TotalType
    <3>3. QED
      BY <3>1, <3>2
  <2>2. \A e \in Earnings : held[e] \in Nat /\ held[e] <= Total(held)
    <3> HIDE DEF held
    <3>1. \A e \in Earnings : held[e] \in Nat
      BY <1>3
    <3>2. QED
      BY <3>1, EarningsAssumption, SumBound DEF Total
  <2> HIDE DEF held, n
  <2>3. held \in [Earnings -> 0..n]
    <3>1. \A e \in Earnings : held[e] \in 0..n
      BY <1>3, <2>1, <2>2
    <3>2. QED
      BY <1>3, <3>1
  <2>4. QED
    BY <2>1, <2>3 DEF Splits
<1> HIDE DEF n, held
<1>5. earning' = [e \in Earnings |-> IF held[e] > 0 THEN Reserved(earning[e], held[e])
                                                    ELSE earning[e]]
  BY <1>1, <1>3 DEF Publish
<1>6. Grant(w, n)
  BY <1>1, <1>3, <1>4, <1>5 DEF Grant
<1>7. BookInv' /\ BookNext
  BY <1>3, <1>6, GrantInv DEF IInv, BookNext
<1>8. TypeOK'
  <2>1. request' \in [Withdrawals -> Request]
    BY <1>1 DEF IInv, TypeOK, NoRequest, Request, NoAllocation
  <2>2. QED
    BY <1>1, <1>2, <1>7, <2>1, ReleaseType DEF IInv, TypeOK, BookInv
<1>9. \A e \in Earnings : rowLock[e] # w => earning'[e] = earning[e]
  BY <1>1 DEF Publish
<1>10. ASSUME NEW v \in Withdrawals PROVE RequestOK(v)'
  <2>1. CASE v = w
    BY <1>1, <1>2, <2>1, ReleaseType, IdleRequestOK DEF IInv, TypeOK
  <2>2. CASE v # w
    <3>1. RequestOK(v) /\ v \in Txs /\ withdrawal'[v] = withdrawal[v] /\ request'[v] = request[v]
      BY <1>1, <2>2 DEF IInv, RequestsConsistent, Txs, TypeOK, BookTypeOK
    <3>2. QED
      BY <1>1, <1>2, <1>9, <2>2, <3>1, OthersKeepTheirRows, RequestFrame
  <2>3. QED
    BY <2>1, <2>2
<1>11. ASSUME NEW a \in Admins PROVE ReviewOK(a)'
  <2>1. ReviewOK(a) /\ a # w /\ a \in Txs
    BY TxAssumption DEF IInv, ReviewsConsistent, Txs
  <2>2. review[a].pc = "rows" => /\ withdrawal'[review[a].target] = withdrawal[review[a].target]
                                 /\ allocation'[review[a].target] = allocation[review[a].target]
    <3>1. review[a].pc = "rows" => review[a].target # w /\ review[a].target \in Withdrawals
      BY <1>3, <2>1 DEF ReviewOK, Required
    <3>2. QED
      BY <1>1, <3>1 DEF IInv, TypeOK, BookTypeOK
  <2>3. QED
    BY <1>1, <1>2, <1>9, <2>1, <2>2, OthersKeepTheirRows, ReviewFrame
<1>12. QED
  BY <1>7, <1>8, <1>10, <1>11 DEF RequestsConsistent, ReviewsConsistent

-----------------------------------------------------------------------------
\* A step that changes nothing but the progress of review a and its lock.
LEMMA OtherReviewsFrame ==
  ASSUME IInv, NEW a \in Admins, UNCHANGED <<bookVars, rowLock, draft, request>>,
         \A b \in Admins \ {a} : review'[b] = review[b],
         \A b \in Admins \ {a} : \A w \in Withdrawals : reviewLock'[w] = b <=> reviewLock[w] = b,
         review' \in [Admins -> Review], reviewLock' \in [Withdrawals -> Admins \cup {None}],
         ReviewOK(a)'
  PROVE  TypeOK' /\ RequestsConsistent' /\ ReviewsConsistent'
<1>1. TypeOK'
  BY DEF IInv, TypeOK, BookTypeOK, bookVars
<1>2. ASSUME NEW w \in Withdrawals PROVE RequestOK(w)'
  <2>1. RequestOK(w)
    BY DEF IInv, RequestsConsistent
  <2>2. QED
    BY <2>1, RequestFrame DEF bookVars
<1>3. ASSUME NEW b \in Admins, b # a PROVE ReviewOK(b)'
  <2>1. ReviewOK(b)
    BY DEF IInv, ReviewsConsistent
  <2>2. review'[b] = review[b] /\ \A w \in Withdrawals : reviewLock'[w] = b <=> reviewLock[w] = b
    BY <1>3
  <2>3. QED
    BY <2>1, <2>2, ReviewFrame DEF bookVars
<1>4. QED
  BY <1>1, <1>2, <1>3 DEF RequestsConsistent, ReviewsConsistent

\* A review that begins has changed nothing yet.
LEMMA BeginReviewStep ==
  ASSUME IInv, NEW a \in Admins, NEW op \in Reviews, NEW w \in Withdrawals, BeginReview(a, op, w)
  PROVE  UNCHANGED bookVars /\ TypeOK' /\ RequestsConsistent' /\ ReviewsConsistent'
<1> DEFINE v == [pc |-> "claim", op |-> op, target |-> w, todo |-> {}, at |-> None]
<1>1. /\ review[a].pc = "idle" /\ review' = [review EXCEPT ![a] = v]
      /\ UNCHANGED <<bookVars, rowLock, draft, reviewLock, request>>
  BY DEF BeginReview
<1>2. review' \in [Admins -> Review] /\ review'[a] = v
  BY <1>1 DEF IInv, TypeOK, Review
<1>3. ReviewOK(a)'
  <2>1. ReviewOK(a)
    BY DEF IInv, ReviewsConsistent
  <2>2. /\ \A u \in Withdrawals : reviewLock[u] # a
        /\ \A e \in Earnings : rowLock[e] # a
    BY <1>1, <2>1 DEF ReviewOK
  <2>3. QED
    BY <1>1, <1>2, <2>2 DEF ReviewOK
<1>4. QED
  BY <1>1, <1>2, <1>3, OtherReviewsFrame DEF IInv, TypeOK

\* The updateMany of a review makes it the only owner of its withdrawal.
LEMMA ClaimReviewStep ==
  ASSUME IInv, NEW a \in Admins, ClaimReview(a)
  PROVE  UNCHANGED bookVars /\ TypeOK' /\ RequestsConsistent' /\ ReviewsConsistent'
<1> DEFINE op == review[a].op
           w == review[a].target
           held == IF op = "approve" THEN {} ELSE {e \in Earnings : allocation[w][e] > 0}
<1>1. PICK next \in Upcoming(held) :
        /\ review[a].pc = "claim" /\ reviewLock[w] = None /\ withdrawal[w].status = Required(op)
        /\ reviewLock' = [reviewLock EXCEPT ![w] = a]
        /\ review' = [review EXCEPT ![a].pc = "rows", ![a].todo = held, ![a].at = next]
        /\ UNCHANGED <<bookVars, rowLock, draft, request>>
  BY DEF ClaimReview, StillRequired
<1>2. review[a] \in Review /\ ReviewOK(a) /\ w \in Withdrawals
  BY <1>1 DEF IInv, TypeOK, ReviewsConsistent, ReviewOK
<1>3. /\ held \subseteq Earnings /\ next \in Earnings \cup {None} /\ (held # {} => next \in held)
      /\ \A e \in held : allocation[w][e] > 0 /\ op # "approve"
      /\ op # "approve" => \A e \in Earnings : allocation[w][e] > 0 => e \in held
  BY <1>1 DEF Upcoming
<1> DEFINE v == [review[a] EXCEPT !.pc = "rows", !.todo = held, !.at = next]
<1>4. review' = [review EXCEPT ![a] = v]
  BY <1>1 DEF IInv, TypeOK, Review
<1> HIDE DEF held
<1>5. /\ v \in Review /\ v.pc = "rows" /\ v.todo = held /\ v.at = next /\ v.op = op /\ v.target = w
  BY <1>2, <1>3 DEF Review
<1> HIDE DEF v
<1>6. review' \in [Admins -> Review] /\ review'[a] = v
      /\ \A b \in Admins \ {a} : review'[b] = review[b]
  BY <1>4, <1>5 DEF IInv, TypeOK
<1>7. /\ reviewLock' \in [Withdrawals -> Admins \cup {None}]
      /\ \A u \in Withdrawals : reviewLock'[u] = a <=> u = w
      /\ \A b \in Admins \ {a} : \A u \in Withdrawals : reviewLock'[u] = b <=> reviewLock[u] = b
  <2>1. \A u \in Withdrawals : reviewLock[u] # a
    BY <1>1, <1>2 DEF ReviewOK
  <2>2. None \notin Admins
    BY TxAssumption DEF Txs
  <2>3. QED
    BY <1>1, <1>2, <2>1, <2>2 DEF IInv, TypeOK
<1>8. ReviewOK(a)'
  <2>1. \A e \in Earnings : rowLock[e] # a
    BY <1>1, <1>2 DEF ReviewOK
  <2>2. UNCHANGED bookVars /\ rowLock' = rowLock
    BY <1>1
  <2> HIDE DEF op, w
  <2>3. ASSUME NEW e \in Earnings
        PROVE  /\ rowLock'[e] # a
               /\ e \in v.todo => allocation'[v.target][e] > 0 /\ v.op # "approve"
               /\ v.op # "approve" /\ allocation'[v.target][e] > 0 => e \in v.todo
    BY <1>3, <1>5, <2>1, <2>2 DEF bookVars
  <2>4. /\ v.target \in Withdrawals
        /\ \A u \in Withdrawals : reviewLock'[u] = a <=> v.target = u
        /\ withdrawal'[v.target].status = Required(v.op)
        /\ v.todo # {} => v.at \in v.todo
    BY <1>1, <1>2, <1>3, <1>5, <1>7, <2>2 DEF bookVars
  <2>5. QED
    BY <1>5, <1>6, <2>3, <2>4 DEF ReviewOK
<1>9. QED
  BY <1>1, <1>6, <1>7, <1>8, OtherReviewsFrame

\* What a review does to the row of an earning.
LEMMA ReviewedRow ==
  ASSUME NEW row \in EarningRow, NEW n \in Nat, NEW op \in Reviews
  PROVE  Reviewed(op, row, n) \in EarningRow
<1>1. CASE op = "approve"
  BY <1>1 DEF Reviewed
<1>2. CASE op = "reject"
  BY <1>2, RestoredRow DEF Reviewed
<1>3. CASE op = "pay"
  BY <1>3, FinalizedRow DEF Reviewed
<1>4. QED
  BY <1>1, <1>2, <1>3 DEF Reviews

\* A review's UPDATE locks one more earning with its reviewed version.
LEMMA ReviewRowStep ==
  ASSUME IInv, NEW a \in Admins, ReviewRow(a)
  PROVE  UNCHANGED bookVars /\ TypeOK' /\ RequestsConsistent' /\ ReviewsConsistent'
<1> DEFINE op == review[a].op
           w == review[a].target
           d == review[a].at
           rest == review[a].todo \ {d}
           row == Reviewed(op, earning[d], allocation[w][d])
<1>1. PICK next \in Upcoming(rest) :
        /\ review[a].pc = "rows" /\ review[a].todo # {} /\ rowLock[d] = None
        /\ Write(a, d, row)
        /\ review' = [review EXCEPT ![a].todo = rest, ![a].at = next]
        /\ UNCHANGED <<bookVars, reviewLock, request>>
  BY DEF ReviewRow
<1>2. review[a] \in Review /\ ReviewOK(a) /\ a \in Txs
  BY DEF IInv, TypeOK, ReviewsConsistent, Txs
<1>3. /\ w \in Withdrawals /\ d \in review[a].todo /\ d \in Earnings /\ op \in Reviews
      /\ allocation[w][d] > 0 /\ op # "approve" /\ allocation[w][d] \in Nat
      /\ earning[d] \in EarningRow
  BY <1>1, <1>2 DEF ReviewOK, Review, IInv, TypeOK, BookTypeOK
<1>4. row \in EarningRow
  BY <1>3, ReviewedRow
<1>5. /\ rest \subseteq Earnings /\ next \in Earnings \cup {None}
      /\ (rest # {} => next \in rest) /\ d \notin rest
      /\ rest \subseteq review[a].todo
      /\ \A e \in Earnings \ {d} : e \in review[a].todo => e \in rest
  BY <1>1, <1>2 DEF Upcoming, Review
<1> DEFINE v == [review[a] EXCEPT !.todo = rest, !.at = next]
<1>6. review' = [review EXCEPT ![a] = v]
  BY <1>1 DEF IInv, TypeOK, Review
<1> HIDE DEF rest, row
<1>7. /\ v \in Review /\ v.pc = "rows" /\ v.todo = rest /\ v.at = next /\ v.op = op /\ v.target = w
  BY <1>1, <1>2, <1>5 DEF Review
<1> HIDE DEF v
<1>8. review' \in [Admins -> Review] /\ review'[a] = v
      /\ \A b \in Admins \ {a} : review'[b] = review[b]
  BY <1>6, <1>7 DEF IInv, TypeOK
<1>9. /\ rowLock' \in [Earnings -> Txs \cup {None}]
      /\ draft' \in [Earnings -> EarningRow]
      /\ rowLock'[d] = a /\ draft'[d] = row
      /\ \A e \in Earnings \ {d} : rowLock'[e] = rowLock[e] /\ draft'[e] = draft[e]
      /\ \A u \in Txs : u # a => \A e \in Earnings :
              /\ rowLock'[e] = u <=> rowLock[e] = u
              /\ rowLock[e] = u => draft'[e] = draft[e]
  BY <1>1, <1>2, <1>3, <1>4, WriteFrame
<1>10. TypeOK'
  BY <1>1, <1>8, <1>9 DEF IInv, TypeOK, BookTypeOK, bookVars
<1>11. ReviewOK(a)'
  <2>1. /\ earning' = earning /\ withdrawal' = withdrawal /\ allocation' = allocation
        /\ reviewLock' = reviewLock /\ review[a].pc = "rows"
    BY <1>1 DEF bookVars
  <2>2. /\ \A u \in Withdrawals : reviewLock[u] = a <=> w = u
        /\ withdrawal[w].status = Required(op)
        /\ \A e \in Earnings :
             /\ rowLock[e] = a =>
                  /\ e \notin review[a].todo /\ allocation[w][e] > 0
                  /\ draft[e] = Reviewed(op, earning[e], allocation[w][e])
             /\ e \in review[a].todo => allocation[w][e] > 0
             /\ allocation[w][e] > 0 => e \in review[a].todo \/ rowLock[e] = a
    BY <1>2, <1>3, <2>1 DEF ReviewOK
  <2>3. row = Reviewed(op, earning[d], allocation[w][d])
    BY DEF row
  <2> HIDE DEF op, w, d
  <2>4. ASSUME NEW e \in Earnings
        PROVE  /\ rowLock'[e] = a =>
                    /\ e \notin rest /\ allocation'[w][e] > 0
                    /\ draft'[e] = Reviewed(op, earning'[e], allocation'[w][e])
               /\ e \in rest => allocation'[w][e] > 0
               /\ allocation'[w][e] > 0 => e \in rest \/ rowLock'[e] = a
    <3>1. CASE e = d
      BY <1>3, <1>5, <1>9, <2>1, <2>3, <3>1
    <3>2. CASE e # d
      BY <1>5, <1>9, <2>1, <2>2, <3>2
    <3>3. QED
      BY <3>1, <3>2
  <2>5. /\ w \in Withdrawals /\ op # "approve"
        /\ \A u \in Withdrawals : reviewLock'[u] = a <=> w = u
        /\ withdrawal'[w].status = Required(op)
        /\ rest # {} => next \in rest
    BY <1>3, <1>5, <2>1, <2>2
  <2>6. QED
    BY <1>7, <1>8, <2>4, <2>5 DEF ReviewOK
<1>12. ASSUME NEW u \in Withdrawals PROVE RequestOK(u)'
  <2>1. RequestOK(u) /\ u \in Txs /\ u # a
    BY TxAssumption DEF IInv, RequestsConsistent, Txs
  <2>2. QED
    BY <1>1, <1>9, <2>1, RequestFrame DEF bookVars
<1>13. ASSUME NEW b \in Admins, b # a PROVE ReviewOK(b)'
  <2>1. ReviewOK(b) /\ b \in Txs /\ review'[b] = review[b]
    BY <1>8, <1>13 DEF IInv, ReviewsConsistent, Txs
  <2>2. QED
    BY <1>1, <1>9, <1>13, <2>1, ReviewFrame DEF bookVars
<1>14. QED
  BY <1>1, <1>10, <1>11, <1>12, <1>13 DEF RequestsConsistent, ReviewsConsistent

\* The end of a review: it keeps no lock and the other transactions keep theirs.
LEMMA EndReviewFrame ==
  ASSUME IInv, NEW a \in Admins, EndReview(a)
  PROVE  /\ review' \in [Admins -> Review] /\ reviewLock' \in [Withdrawals -> Admins \cup {None}]
         /\ rowLock' \in [Earnings -> Txs \cup {None}] /\ draft' \in [Earnings -> EarningRow]
         /\ ReviewOK(a)'
<1>1. /\ Release(a) /\ review' = [review EXCEPT ![a] = NoReview]
      /\ reviewLock' = [w \in Withdrawals |-> IF reviewLock[w] = a THEN None ELSE reviewLock[w]]
  BY DEF EndReview
<1>2. a \in Txs /\ None \notin Txs
  BY TxAssumption DEF Txs
<1>3. /\ rowLock' \in [Earnings -> Txs \cup {None}] /\ draft' \in [Earnings -> EarningRow]
      /\ \A e \in Earnings : rowLock'[e] # a
  BY <1>1, <1>2, ReleaseType
<1>4. review' \in [Admins -> Review] /\ review'[a] = NoReview
  BY <1>1 DEF IInv, TypeOK, NoReview, Review, Reviews
<1>5. /\ reviewLock' \in [Withdrawals -> Admins \cup {None}]
      /\ \A w \in Withdrawals : reviewLock'[w] # a
  BY <1>1, <1>2 DEF IInv, TypeOK, Txs
<1>6. ReviewOK(a)'
  BY <1>3, <1>4, <1>5 DEF ReviewOK, NoReview
<1>7. QED
  BY <1>3, <1>4, <1>5, <1>6

\* The end of a review, seen by another transaction.
LEMMA OtherTxsKeepTheirs ==
  ASSUME IInv, NEW a \in Admins, EndReview(a), NEW u \in Txs, u # a
  PROVE  /\ \A e \in Earnings : /\ rowLock'[e] = u <=> rowLock[e] = u
                                /\ rowLock[e] = u => draft'[e] = draft[e]
         /\ \A w \in Withdrawals : reviewLock'[w] = u <=> reviewLock[w] = u
         /\ u \in Admins => review'[u] = review[u]
<1>1. /\ Release(a) /\ review' = [review EXCEPT ![a] = NoReview]
      /\ reviewLock' = [w \in Withdrawals |-> IF reviewLock[w] = a THEN None ELSE reviewLock[w]]
  BY DEF EndReview
<1>2. a \in Txs /\ None \notin Txs
  BY TxAssumption DEF Txs
<1>3. \A e \in Earnings : /\ rowLock'[e] = u <=> rowLock[e] = u
                          /\ rowLock[e] = u => draft'[e] = draft[e]
  BY <1>1, <1>2, OthersKeepTheirRows
<1>4. \A w \in Withdrawals : reviewLock'[w] = u <=> reviewLock[w] = u
  BY <1>1, <1>2
<1>5. u \in Admins => review'[u] = review[u]
  BY <1>1 DEF IInv, TypeOK
<1>6. QED
  BY <1>3, <1>4, <1>5

\* A review that fails or is aborted leaves no trace.
LEMMA RollbackReviewStep ==
  ASSUME IInv, NEW a \in Admins, RollbackReview(a)
  PROVE  UNCHANGED bookVars /\ TypeOK' /\ RequestsConsistent' /\ ReviewsConsistent'
<1>1. EndReview(a) /\ UNCHANGED <<bookVars, request>>
  BY DEF RollbackReview
<1>2. TypeOK'
  BY <1>1, EndReviewFrame DEF IInv, TypeOK, BookTypeOK, bookVars
<1>3. ASSUME NEW w \in Withdrawals PROVE RequestOK(w)'
  <2>1. RequestOK(w) /\ w \in Txs /\ w # a
    BY TxAssumption DEF IInv, RequestsConsistent, Txs
  <2>2. \A e \in Earnings : /\ rowLock'[e] = w <=> rowLock[e] = w
                            /\ rowLock[e] = w => draft'[e] = draft[e]
    BY <1>1, <2>1, OtherTxsKeepTheirs
  <2>3. QED
    BY <1>1, <2>1, <2>2, RequestFrame DEF bookVars
<1>4. ASSUME NEW b \in Admins PROVE ReviewOK(b)'
  <2>1. CASE b = a
    BY <1>1, <2>1, EndReviewFrame
  <2>2. CASE b # a
    <3>1. ReviewOK(b) /\ b \in Txs
      BY <2>2 DEF IInv, ReviewsConsistent, Txs
    <3>2. /\ review'[b] = review[b]
          /\ \A w \in Withdrawals : reviewLock'[w] = b <=> reviewLock[w] = b
          /\ \A e \in Earnings :
               /\ rowLock'[e] = b <=> rowLock[e] = b
               /\ rowLock[e] = b => draft'[e] = draft[e] /\ earning'[e] = earning[e]
      BY <1>1, <2>2, <3>1, OtherTxsKeepTheirs DEF bookVars
    <3>3. withdrawal' = withdrawal /\ allocation' = allocation
      BY <1>1 DEF bookVars
    <3>4. QED
      BY <3>1, <3>2, <3>3, ReviewFrame
  <2>3. QED
    BY <2>1, <2>2
<1>5. QED
  BY <1>1, <1>2, <1>3, <1>4 DEF RequestsConsistent, ReviewsConsistent

\* The commit of a review is a Decide of the book.
LEMMA CommitReviewStep ==
  ASSUME IInv, NEW a \in Admins, CommitReview(a)
  PROVE  BookNext /\ TypeOK' /\ RequestsConsistent' /\ ReviewsConsistent'
<1> DEFINE op == review[a].op
           w == review[a].target
<1>1. /\ review[a].pc = "rows" /\ review[a].todo = {}
      /\ Publish(a)
      /\ withdrawal' = [withdrawal EXCEPT ![w].status = Outcome(op)]
      /\ allocation' = [allocation EXCEPT ![w] = AllocationAfter(op, allocation[w])]
      /\ EndReview(a) /\ request' = request
  BY DEF CommitReview
<1>2. review[a] \in Review /\ ReviewOK(a) /\ a \in Txs
  BY DEF IInv, TypeOK, ReviewsConsistent, Txs
<1>3. /\ w \in Withdrawals /\ op \in Reviews /\ withdrawal[w].status = Required(op)
      /\ reviewLock[w] = a
      /\ allocation[w] \in [Earnings -> Nat]
  BY <1>1, <1>2 DEF ReviewOK, Review, IInv, TypeOK, BookTypeOK
<1>4. \A e \in Earnings :
        /\ rowLock[e] = a => /\ allocation[w][e] > 0
                              /\ draft[e] = Reviewed(op, earning[e], allocation[w][e])
        /\ op # "approve" /\ allocation[w][e] > 0 => rowLock[e] = a
  BY <1>1, <1>2 DEF ReviewOK
<1> HIDE DEF op, w
<1>5. earning' = [e \in Earnings |-> IF allocation[w][e] > 0
                                     THEN Reviewed(op, earning[e], allocation[w][e])
                                     ELSE earning[e]]
  <2>1. earning' = [e \in Earnings |-> IF rowLock[e] = a THEN draft[e] ELSE earning[e]]
    BY <1>1 DEF Publish
  <2>2. ASSUME NEW e \in Earnings
        PROVE  (IF rowLock[e] = a THEN draft[e] ELSE earning[e])
                 = (IF allocation[w][e] > 0
                    THEN Reviewed(op, earning[e], allocation[w][e]) ELSE earning[e])
    <3>1. CASE rowLock[e] = a
      BY <1>4, <3>1
    <3>2. CASE rowLock[e] # a /\ op = "approve"
      BY <3>2 DEF Reviewed
    <3>3. CASE rowLock[e] # a /\ op # "approve"
      BY <1>4, <3>3
    <3>4. QED
      BY <3>1, <3>2, <3>3
  <2>3. QED
    BY <2>1, <2>2
<1>6. Decide(w, op)
  BY <1>1, <1>3, <1>5 DEF Decide
<1>7. BookInv' /\ BookNext
  BY <1>3, <1>6, DecideInv DEF IInv, BookNext
<1>8. TypeOK'
  BY <1>1, <1>7, EndReviewFrame DEF IInv, TypeOK, BookInv
<1>9. \A e \in Earnings : rowLock[e] # a => earning'[e] = earning[e]
  BY <1>1 DEF Publish
<1>10. ASSUME NEW u \in Withdrawals PROVE RequestOK(u)'
  <2>1. RequestOK(u) /\ u \in Txs /\ u # a
    BY TxAssumption DEF IInv, RequestsConsistent, Txs
  <2>2. withdrawal[w].status # "NONE"
    BY <1>3 DEF Required
  <2>3. withdrawal[u].status = "NONE" => withdrawal'[u].status = "NONE"
    BY <1>1, <2>2 DEF IInv, TypeOK, BookTypeOK
  <2>4. \A e \in Earnings : /\ rowLock'[e] = u <=> rowLock[e] = u
                            /\ rowLock[e] = u => draft'[e] = draft[e] /\ earning'[e] = earning[e]
    BY <1>1, <1>9, <2>1, OtherTxsKeepTheirs
  <2>5. QED
    BY <1>1, <2>1, <2>3, <2>4, RequestFrame
<1>11. ASSUME NEW b \in Admins PROVE ReviewOK(b)'
  <2>1. CASE b = a
    BY <1>1, <2>1, EndReviewFrame
  <2>2. CASE b # a
    <3>1. ReviewOK(b) /\ b \in Txs
      BY <2>2 DEF IInv, ReviewsConsistent, Txs
    <3>2. review[b].pc = "rows" => review[b].target # w /\ review[b].target \in Withdrawals
      BY <1>3, <2>2, <3>1 DEF ReviewOK
    <3>3. review[b].pc = "rows" => /\ withdrawal'[review[b].target] = withdrawal[review[b].target]
                                   /\ allocation'[review[b].target] = allocation[review[b].target]
      BY <1>1, <3>2 DEF IInv, TypeOK, BookTypeOK
    <3>4. /\ review'[b] = review[b]
          /\ \A u \in Withdrawals : reviewLock'[u] = b <=> reviewLock[u] = b
          /\ \A e \in Earnings :
               /\ rowLock'[e] = b <=> rowLock[e] = b
               /\ rowLock[e] = b => draft'[e] = draft[e] /\ earning'[e] = earning[e]
      BY <1>1, <1>9, <2>2, <3>1, OtherTxsKeepTheirs
    <3>5. QED
      BY <3>1, <3>3, <3>4, ReviewFrame
  <2>3. QED
    BY <2>1, <2>2
<1>12. QED
  BY <1>7, <1>8, <1>10, <1>11 DEF RequestsConsistent, ReviewsConsistent

-----------------------------------------------------------------------------
\* A step outside the account changes nothing.
LEMMA StutterStep ==
  ASSUME IInv, UNCHANGED vars
  PROVE  UNCHANGED bookVars /\ TypeOK' /\ RequestsConsistent' /\ ReviewsConsistent'
<1>1. UNCHANGED <<bookVars, rowLock, draft, reviewLock, request, review>>
  BY DEF vars, txVars
<1>2. TypeOK'
  BY <1>1 DEF IInv, TypeOK, BookTypeOK, bookVars
<1>3. ASSUME NEW w \in Withdrawals PROVE RequestOK(w)'
  BY <1>1, RequestFrame DEF IInv, RequestsConsistent, bookVars
<1>4. ASSUME NEW a \in Admins PROVE ReviewOK(a)'
  BY <1>1, ReviewFrame DEF IInv, ReviewsConsistent, bookVars
<1>5. QED
  BY <1>1, <1>2, <1>3, <1>4 DEF RequestsConsistent, ReviewsConsistent

\* Every step of the statement-level model is one indivisible operation of
\* EarningsBook or leaves the committed tables alone, and keeps every
\* transaction in progress consistent with them.
LEMMA StepInv ==
  ASSUME IInv, [Next]_vars
  PROVE  IInv' /\ [BookNext]_bookVars
<1> DEFINE Step == TypeOK' /\ RequestsConsistent' /\ ReviewsConsistent' /\ [BookNext]_bookVars
<1>1. ASSUME NEW e \in Earnings, NEW n \in Payouts, RecordEarning(e, n) PROVE Step
  BY <1>1, RecordEarningStep
<1>2. ASSUME NEW w \in Withdrawals, NEW n \in Amounts, BeginRequest(w, n) PROVE Step
  BY <1>2, BeginRequestStep
<1>3. ASSUME NEW w \in Withdrawals, ReadEarnings(w) PROVE Step
  BY <1>3, ReadEarningsStep
<1>4. ASSUME NEW w \in Withdrawals, ReserveNext(w) PROVE Step
  BY <1>4, ReserveNextStep
<1>5. ASSUME NEW w \in Withdrawals, SkipNext(w) PROVE Step
  BY <1>5, SkipNextStep
<1>6. ASSUME NEW w \in Withdrawals, CommitRequest(w) PROVE Step
  BY <1>6, CommitRequestStep
<1>7. ASSUME NEW w \in Withdrawals, FailRequest(w) \/ RollbackRequest(w) PROVE Step
  BY <1>7, RollbackRequestStep DEF FailRequest
<1>8. ASSUME NEW a \in Admins, NEW op \in Reviews, NEW w \in Withdrawals, BeginReview(a, op, w)
      PROVE  Step
  BY <1>8, BeginReviewStep
<1>9. ASSUME NEW a \in Admins, ClaimReview(a) PROVE Step
  BY <1>9, ClaimReviewStep
<1>10. ASSUME NEW a \in Admins, ReviewRow(a) PROVE Step
  BY <1>10, ReviewRowStep
<1>11. ASSUME NEW a \in Admins, CommitReview(a) PROVE Step
  BY <1>11, CommitReviewStep
<1>12. ASSUME NEW a \in Admins, FailReview(a) \/ RollbackReview(a) PROVE Step
  BY <1>12, RollbackReviewStep DEF FailReview
<1>13. ASSUME UNCHANGED vars PROVE Step
  BY <1>13, StutterStep
<1>14. Step
  <2> HIDE DEF Step
  <2>1. QED
    BY <1>1, <1>2, <1>3, <1>4, <1>5, <1>6, <1>7, <1>8, <1>9, <1>10, <1>11, <1>12, <1>13 DEF Next
<1>15. BookInv'
  BY <1>14, BookStepInv DEF IInv
<1>16. QED
  BY <1>14, <1>15 DEF IInv

\* The inductive invariant holds: the committed tables satisfy the money
\* invariants and every open transaction (reserveForWithdrawal,
\* rejectWithdrawal, markpaid) fits the rows it will replace at commit.
THEOREM WithdrawalsSafe == Spec => []IInv
<1>1. Init => IInv
  BY InitIInv
<1>2. IInv /\ [Next]_vars => IInv'
  BY StepInv
<1>3. QED
  BY <1>1, <1>2, PTL DEF Spec

\* The variables of the transactions have their types.
THEOREM TypeCorrect == Spec => []TypeOK
<1>1. IInv => TypeOK
  BY DEF IInv
<1>2. QED
  BY <1>1, WithdrawalsSafe, PTL

\* A request in progress holds exactly what it picked, of rows that still cover it.
THEOREM RequestsAreConsistent == Spec => []RequestsConsistent
<1>1. IInv => RequestsConsistent
  BY DEF IInv
<1>2. QED
  BY <1>1, WithdrawalsSafe, PTL

\* A review past its claim owns its withdrawal and the rows it has rewritten.
THEOREM ReviewsAreConsistent == Spec => []ReviewsConsistent
<1>1. IInv => ReviewsConsistent
  BY DEF IInv
<1>2. QED
  BY <1>1, WithdrawalsSafe, PTL

\* requestWithdrawal, approveWithdrawal, rejectWithdrawal and markpaid, whose
\* statements interleave, commit as the indivisible operations of EarningsBook.
THEOREM Implements == Spec => ImplementsBook
<1>1. Init => BookInit
  BY DEF Init
<1>2. IInv /\ [Next]_vars => [BookNext]_bookVars
  BY StepInv
<1>3. QED
  BY <1>1, <1>2, WithdrawalsSafe, PTL DEF Spec, ImplementsBook, BookSpec

\* No milliFEC of an earning is lost or withdrawn twice, whatever requests and
\* reviews run against each other.
THEOREM Conserved == Spec => []EarningsConserved
<1>1. IInv => EarningsConserved
  BY DEF IInv, BookInv
<1>2. QED
  BY <1>1, WithdrawalsSafe, PTL

\* Every live or paid withdrawal is backed by allocations of exactly its amount.
THEOREM Backed == Spec => []WithdrawalsBacked
<1>1. IInv => WithdrawalsBacked
  BY DEF IInv, BookInv
<1>2. QED
  BY <1>1, WithdrawalsSafe, PTL

\* The status rewritten by markpaid and rejectWithdrawal never hides an available balance.
THEOREM Visible == Spec => []NothingHidden
<1>1. IInv => NothingHidden
  BY DEF IInv, BookInv
<1>2. QED
  BY <1>1, WithdrawalsSafe, PTL

\* A decided withdrawal stays decided, whatever reviews raced for it.
THEOREM Final == Spec => DecisionsAreFinal
<1>1. ASSUME IInv, [BookNext]_bookVars, NEW w \in Withdrawals
      PROVE  /\ withdrawal[w].status \in {"REJECTED", "PAID"} => UNCHANGED withdrawal[w]
             /\ withdrawal[w].status = "APPROVED" => withdrawal'[w].status \in {"APPROVED", "PAID"}
             /\ withdrawal[w].status \in {"APPROVED", "PAID"} => UNCHANGED allocation[w]
  <2>1. BookTypeOK
    BY <1>1 DEF IInv, BookInv
  <2>2. ASSUME NEW e \in Earnings, NEW n \in Payouts, Earn(e, n)
        PROVE  withdrawal' = withdrawal /\ allocation' = allocation
    BY <2>2 DEF Earn
  <2>3. ASSUME NEW v \in Withdrawals, NEW n \in Amounts, Grant(v, n)
        PROVE  /\ withdrawal[v].status = "NONE"
               /\ v # w => withdrawal'[w] = withdrawal[w] /\ allocation'[w] = allocation[w]
    BY <2>1, <2>3 DEF Grant, BookTypeOK
  <2>4. ASSUME NEW v \in Withdrawals, NEW op \in Reviews, Decide(v, op)
        PROVE  /\ withdrawal[v].status = Required(op)
               /\ v # w => withdrawal'[w] = withdrawal[w] /\ allocation'[w] = allocation[w]
               /\ withdrawal'[v].status = Outcome(op)
               /\ op = "pay" => allocation'[v] = allocation[v]
    BY <2>1, <2>4 DEF Decide, BookTypeOK, WithdrawalRow, AllocationAfter
  <2>5. CASE UNCHANGED bookVars
    BY <2>5 DEF bookVars
  <2>6. CASE \E e \in Earnings, n \in Payouts : Earn(e, n)
    BY <2>2, <2>6
  <2>7. CASE \E v \in Withdrawals, n \in Amounts : Grant(v, n)
    BY <2>3, <2>7
  <2>8. CASE \E v \in Withdrawals, op \in Reviews : Decide(v, op)
    BY <2>4, <2>8 DEF Required, Outcome, Reviews
  <2>9. QED
    BY <1>1, <2>5, <2>6, <2>7, <2>8 DEF BookNext
<1>2. IInv /\ [Next]_vars =>
        [\A w \in Withdrawals :
           /\ withdrawal[w].status \in {"REJECTED", "PAID"} => UNCHANGED withdrawal[w]
           /\ withdrawal[w].status = "APPROVED" => withdrawal'[w].status \in {"APPROVED", "PAID"}
           /\ withdrawal[w].status \in {"APPROVED", "PAID"} => UNCHANGED allocation[w]]_vars
  BY <1>1, StepInv
<1>3. QED
  BY <1>2, WithdrawalsSafe, PTL DEF Spec, DecisionsAreFinal

-----------------------------------------------------------------------------
(* Deadlocks. *)

\* A request has visited the earnings it holds before those it has still to visit.
LocksAscend ==
  \A w \in Withdrawals, e, d \in Earnings :
    rowLock[e] = w /\ d \in request[w].todo => e < d

\* The earning a request visits next is the oldest of its list.
LEMMA NextIsOldest ==
  ASSUME NEW w \in Withdrawals, request[w].todo \subseteq Earnings, request[w].todo # {}
  PROVE  /\ NextToReserve(w) \in request[w].todo
         /\ \A d \in request[w].todo : NextToReserve(w) <= d
<1>1. \E e \in request[w].todo : \A d \in request[w].todo : e <= d
  BY LeastExists, EarningsAssumption
<1> QED
  BY <1>1 DEF NextToReserve, Oldest

\* A read takes no lock and concerns no other request.
LEMMA ReadFrame ==
  ASSUME IInv, NEW v \in Withdrawals, ReadEarnings(v)
  PROVE  /\ request[v].pc = "read" /\ rowLock' = rowLock
         /\ \A u \in Withdrawals \ {v} : request'[u] = request[u]
<1> DEFINE todo == {e \in Earnings : Spendable(earning[e]) /\ earning[e].available > 0}
           seen == [e \in Earnings |-> earning[e].available]
<1>1. /\ request' = [request EXCEPT ![v].pc = "reserve", ![v].todo = todo, ![v].seen = seen]
      /\ UNCHANGED <<bookVars, rowLock, draft, reviewLock, review>>
      /\ request[v].pc = "read"
  BY DEF ReadEarnings
<1> HIDE DEF todo, seen
<1> QED
  BY <1>1 DEF IInv, TypeOK

\* A step of a request keeps the order of its locks.
LEMMA RequestAscends ==
  ASSUME IInv, LocksAscend, NEW v \in Withdrawals,
         \/ \E n \in Amounts : BeginRequest(v, n)
         \/ ReadEarnings(v) \/ ReserveNext(v) \/ SkipNext(v)
         \/ CommitRequest(v) \/ FailRequest(v) \/ RollbackRequest(v)
  PROVE  LocksAscend'
<1> SUFFICES ASSUME NEW w \in Withdrawals, NEW e \in Earnings, NEW d \in Earnings,
                    rowLock'[e] = w, d \in request'[w].todo
             PROVE  e < d
  BY DEF LocksAscend
<1>1. /\ request \in [Withdrawals -> Request] /\ rowLock \in [Earnings -> Txs \cup {None}]
      /\ request[v].todo \subseteq Earnings
      /\ e \in Nat /\ d \in Nat
  BY EarningsAssumption DEF IInv, TypeOK, Request
<1>2. None # w
  BY TxAssumption DEF Txs
<1>3. CASE rowLock[e] = w /\ d \in request[w].todo
  BY <1>3 DEF LocksAscend
<1>4. CASE \E n \in Amounts : BeginRequest(v, n)
  BY <1>1, <1>3, <1>4 DEF BeginRequest, Started
<1>5. CASE ReadEarnings(v)
  <2>1. /\ request[v].pc = "read" /\ rowLock' = rowLock
        /\ \A u \in Withdrawals \ {v} : request'[u] = request[u]
    BY <1>1, <1>5, ReadFrame
  <2>2. RequestOK(v)
    BY DEF IInv, RequestsConsistent
  <2>3. rowLock[e] # v
    BY <2>1, <2>2 DEF RequestOK
  <2> QED
    BY <1>3, <2>1, <2>3
<1>6. CASE ReserveNext(v)
  <2> DEFINE c == NextToReserve(v)
  <2>1. /\ c \in request[v].todo /\ \A x \in request[v].todo : c <= x
    BY <1>1, <1>6, NextIsOldest DEF ReserveNext, Reserving
  <2>2. rowLock' = [rowLock EXCEPT ![c] = v]
    BY <1>6 DEF ReserveNext, Write
  <2>3. /\ request'[v].todo = request[v].todo \ {c}
        /\ w # v => request'[w] = request[w]
    BY <1>1, <1>6 DEF ReserveNext, Request
  <2>4. c \in Nat
    BY <1>1, <2>1, EarningsAssumption
  <2> HIDE DEF c
  <2>5. CASE e = c
    <3>1. w = v
      BY <1>1, <2>2, <2>5
    <3>2. d \in request[v].todo /\ d # c
      BY <2>3, <3>1
    <3>3. c <= d
      BY <2>1, <3>2
    <3> QED
      BY <1>1, <2>4, <2>5, <3>2, <3>3
  <2>6. CASE e # c
    BY <1>1, <1>3, <2>2, <2>3, <2>6
  <2> QED
    BY <2>5, <2>6
<1>7. CASE SkipNext(v)
  BY <1>1, <1>3, <1>7 DEF SkipNext, Request
<1>8. CASE CommitRequest(v) \/ FailRequest(v) \/ RollbackRequest(v)
  <2>1. Release(v) /\ request' = [request EXCEPT ![v] = NoRequest]
    BY <1>8 DEF CommitRequest, FailRequest, RollbackRequest
  <2> QED
    BY <1>1, <1>2, <1>3, <2>1 DEF Release, NoRequest
<1> QED
  BY <1>4, <1>5, <1>6, <1>7, <1>8

\* A review adds no lock of a request.
LEMMA ReviewAscends ==
  ASSUME IInv, LocksAscend, NEW a \in Admins,
         \/ \E op \in Reviews, w \in Withdrawals : BeginReview(a, op, w)
         \/ ClaimReview(a) \/ ReviewRow(a)
         \/ CommitReview(a) \/ FailReview(a) \/ RollbackReview(a)
  PROVE  LocksAscend'
<1>1. rowLock \in [Earnings -> Txs \cup {None}] /\ a \notin Withdrawals /\ None \notin Withdrawals
  BY TxAssumption DEF IInv, TypeOK, Txs
<1>2. request' = request /\ \A w \in Withdrawals, e \in Earnings : rowLock'[e] = w => rowLock[e] = w
  <2>1. CASE \E op \in Reviews, w \in Withdrawals : BeginReview(a, op, w)
    BY <2>1 DEF BeginReview
  <2>2. CASE ClaimReview(a)
    <3>1. UNCHANGED <<bookVars, rowLock, draft, request>>
      BY <2>2, Zenon DEF ClaimReview
    <3> QED
      BY <3>1
  <2>3. CASE ReviewRow(a)
    BY <1>1, <2>3 DEF ReviewRow, Write
  <2>4. CASE CommitReview(a) \/ FailReview(a) \/ RollbackReview(a)
    <3>1. Release(a) /\ request' = request
      BY <2>4 DEF CommitReview, FailReview, RollbackReview, EndReview
    <3> QED
      BY <1>1, <3>1 DEF Release
  <2> QED
    BY <2>1, <2>2, <2>3, <2>4
<1> QED
  BY <1>2 DEF LocksAscend

\* A request only takes locks upwards: reserveForWithdrawal walks a list sorted by age.
THEOREM LocksInOrder == Spec => []LocksAscend
<1>1. Init => LocksAscend
  BY TxAssumption DEF Init, LocksAscend, NoRequest
<1>2. IInv /\ LocksAscend /\ [Next]_vars => LocksAscend'
  <2> SUFFICES ASSUME IInv, LocksAscend, [Next]_vars PROVE LocksAscend'
    OBVIOUS
  <2>1. CASE UNCHANGED vars
    BY <2>1 DEF vars, txVars, LocksAscend
  <2>2. CASE \E e \in Earnings, n \in Payouts : RecordEarning(e, n)
    BY <2>2 DEF RecordEarning, txVars, LocksAscend
  <2>3. QED
    BY <2>1, <2>2, RequestAscends, ReviewAscends DEF Next
<1> QED
  BY <1>1, <1>2, WithdrawalsSafe, PTL DEF Spec

\* Who waits, and for what.
LEMMA Waiting ==
  ASSUME IInv, NEW t \in Txs, WaitsFor(t) \in Txs
  PROVE  /\ t \in Withdrawals =>
              /\ request[t].todo \subseteq Earnings
              /\ NextToReserve(t) \in request[t].todo
              /\ rowLock[NextToReserve(t)] = WaitsFor(t)
         /\ t \in Admins /\ review[t].pc = "claim" =>
              review[t].target \in Withdrawals /\ reviewLock[review[t].target] = WaitsFor(t)
         /\ t \in Admins /\ review[t].pc # "claim" =>
              /\ review[t].pc = "rows" /\ review[t].op # "approve"
              /\ review[t].at \in Earnings /\ rowLock[review[t].at] = WaitsFor(t)
<1>1. WaitsFor(t) # None
  BY TxAssumption
<1>2. CASE t \in Withdrawals
  <2>1. Reserving(t) /\ WaitsFor(t) = rowLock[NextToReserve(t)]
    BY <1>1, <1>2 DEF WaitsFor
  <2>2. request[t].todo \subseteq Earnings
    BY <1>2 DEF IInv, TypeOK, Request
  <2> QED
    BY <1>2, <2>1, <2>2, NextIsOldest, TxAssumption DEF Reserving
<1>3. CASE t \in Admins
  <2>1. t \notin Withdrawals
    BY <1>3, TxAssumption
  <2>2. /\ review[t] \in Review /\ ReviewOK(t)
    BY <1>3 DEF IInv, TypeOK, ReviewsConsistent
  <2>3. CASE review[t].pc = "claim"
    BY <2>1, <2>2, <2>3 DEF WaitsFor, ReviewOK
  <2>4. CASE review[t].pc # "claim"
    <3>1. /\ review[t].pc = "rows" /\ review[t].todo # {}
          /\ WaitsFor(t) = rowLock[review[t].at]
      BY <1>1, <2>1, <2>4 DEF WaitsFor
    <3>2. review[t].at \in review[t].todo /\ review[t].todo \subseteq Earnings
      BY <2>2, <3>1 DEF ReviewOK, Review
    <3> QED
      BY <2>1, <2>2, <2>4, <3>1, <3>2 DEF ReviewOK
  <2> QED
    BY <2>1, <2>3, <2>4
<1> QED
  BY <1>2, <1>3 DEF Txs

\* Of the requests on a cycle of waits, the one waiting for the oldest earning would hold an
\* older one for another of the cycle; and nobody waits for an approval, which holds
\* no earning and commits the withdrawal it has claimed without waiting.
LEMMA CyclesNeedReview ==
  ASSUME IInv, LocksAscend PROVE DeadlockNeedsReview
<1> SUFFICES ASSUME NEW S \in SUBSET Txs, S # {}, S = {WaitsFor(t) : t \in S}
             PROVE  /\ S \cap Admins # {}
                    /\ \A a \in S \cap Admins : review[a].op # "approve"
  BY DEF DeadlockNeedsReview
<1>1. \A t \in S : t \in Txs /\ WaitsFor(t) \in S /\ WaitsFor(t) \in Txs
  OBVIOUS
<1>2. S \cap Admins # {}
  <2> SUFFICES ASSUME S \subseteq Withdrawals PROVE FALSE
    BY DEF Txs
  <2> DEFINE N == {NextToReserve(t) : t \in S}
  <2>1. \A t \in S : /\ request[t].todo \subseteq Earnings
                     /\ NextToReserve(t) \in request[t].todo
                     /\ rowLock[NextToReserve(t)] = WaitsFor(t)
    BY <1>1, Waiting
  <2>2. N \subseteq Nat /\ N # {}
    BY <2>1, EarningsAssumption
  <2>3. PICK u \in S : \A t \in S : NextToReserve(u) <= NextToReserve(t)
    <3> HIDE DEF N
    <3>1. PICK n \in N : \A m \in N : n <= m
      BY <2>2, LeastExists
    <3> QED
      BY <3>1 DEF N
  <2>4. PICK t \in S : u = WaitsFor(t)
    BY <2>3
  <2>5. NextToReserve(t) < NextToReserve(u)
    BY <2>1, <2>3, <2>4 DEF LocksAscend
  <2>6. NextToReserve(t) \in Nat /\ NextToReserve(u) \in Nat
    BY <2>2, <2>3, <2>4
  <2> QED
    BY <2>3, <2>4, <2>5, <2>6
<1>3. ASSUME NEW a \in S \cap Admins PROVE review[a].op # "approve"
  <2>1. CASE review[a].pc # "claim"
    BY <1>1, <2>1, Waiting
  <2>2. CASE review[a].pc = "claim"
    <3>1. PICK t \in S : a = WaitsFor(t)
      BY <1>3
    <3>2. ReviewOK(a) /\ a \notin Withdrawals
      BY <1>3, TxAssumption DEF IInv, ReviewsConsistent
    <3>3. \A e \in Earnings : rowLock[e] # a
      BY <2>2, <3>2 DEF ReviewOK
    <3>4. \A w \in Withdrawals : reviewLock[w] # a
      BY <2>2, <3>2 DEF ReviewOK
    <3> QED
      BY <1>1, <3>1, <3>3, <3>4, Waiting DEF Txs
  <2> QED
    BY <2>1, <2>2
<1> QED
  BY <1>2, <1>3

\* Requests among themselves never deadlock, and no approval is ever a deadlock victim: only
\* a rejection or a payment, whose allocations come in any order, closes a cycle of waits.
THEOREM ReviewsInDeadlocks == Spec => []DeadlockNeedsReview
<1>1. IInv /\ LocksAscend => DeadlockNeedsReview
  BY CyclesNeedReview
<1> QED
  BY <1>1, WithdrawalsSafe, LocksInOrder, PTL

\* A transaction is in progress.
Active(t) == IF t \in Withdrawals THEN request[t].pc # "idle" ELSE review[t].pc # "idle"

\* Unless a rejection or a payment is on a cycle of lock waits, which the database notices, some
\* transaction in progress waits for nobody.
SomebodyGoes ==
  \/ \A t \in Txs : ~ Active(t)
  \/ \E t \in Txs : Active(t) /\ WaitsFor(t) = None
  \/ \E a \in Admins : Deadlocked(a) /\ review[a].op # "approve"

\* Who is waited for holds a row, as only a transaction in progress does.
LEMMA HolderIsActive ==
  ASSUME IInv, NEW t \in Txs, WaitsFor(t) # None
  PROVE  WaitsFor(t) \in Txs /\ Active(WaitsFor(t))
<1> DEFINE u == WaitsFor(t)
<1>1. \/ \E e \in Earnings : u = rowLock[e]
      \/ \E w \in Withdrawals : u = reviewLock[w]
  <2>1. CASE t \in Withdrawals
    <3>1. Reserving(t) /\ u = rowLock[NextToReserve(t)]
      BY <2>1 DEF WaitsFor
    <3>2. request[t].todo \subseteq Earnings
      BY <2>1 DEF IInv, TypeOK, Request
    <3> QED
      BY <3>1, <3>2, <2>1, NextIsOldest DEF Reserving
  <2>2. CASE t \notin Withdrawals
    <3>1. t \in Admins /\ ReviewOK(t) /\ review[t] \in Review
      BY <2>2 DEF Txs, IInv, ReviewsConsistent, TypeOK
    <3>2. CASE review[t].pc = "claim"
      BY <2>2, <3>1, <3>2 DEF WaitsFor, ReviewOK
    <3>3. CASE review[t].pc # "claim"
      <4>1. review[t].pc = "rows" /\ review[t].todo # {} /\ u = rowLock[review[t].at]
        BY <2>2, <3>3 DEF WaitsFor
      <4>2. review[t].at \in review[t].todo /\ review[t].todo \subseteq Earnings
        BY <3>1, <4>1 DEF ReviewOK, Review
      <4> QED
        BY <4>1, <4>2
    <3> QED
      BY <3>2, <3>3
  <2> QED
    BY <2>1, <2>2
<1>2. u \in Txs
  BY <1>1 DEF IInv, TypeOK, Txs
<1> HIDE DEF u
<1>3. CASE u \in Withdrawals
  <2>1. RequestOK(u) /\ u \notin Admins
    BY <1>3, TxAssumption DEF IInv, RequestsConsistent
  <2>2. u # None
    BY <1>2, TxAssumption
  <2>3. PICK e \in Earnings : rowLock[e] = u
    BY <1>1, <2>1, <2>2 DEF IInv, TypeOK
  <2> QED
    BY <1>2, <1>3, <2>1, <2>3 DEF RequestOK, Active, u
<1>4. CASE u \notin Withdrawals
  <2>1. u \in Admins /\ ReviewOK(u)
    BY <1>2, <1>4 DEF Txs, IInv, ReviewsConsistent
  <2>2. review[u].pc = "rows"
    BY <1>1, <2>1 DEF ReviewOK
  <2> QED
    BY <1>2, <1>4, <2>2 DEF Active, u
<1> QED
  BY <1>3, <1>4

\* Whatever requests and reviews overlap, one of them can go on: never is everyone waiting for
\* everyone without a rejection or a payment among them.
THEOREM NobodyHangs == Spec => []SomebodyGoes
<1>1. ASSUME IInv, DeadlockNeedsReview PROVE SomebodyGoes
  <2> DEFINE S == {t \in Txs : Active(t)}
             W == [t \in Txs |-> {WaitsFor(t)}]
  <2> SUFFICES ASSUME S # {}, \A t \in S : WaitsFor(t) # None
               PROVE  \E a \in Admins : Deadlocked(a) /\ review[a].op # "approve"
    BY DEF SomebodyGoes
  <2>1. \A t \in S : WaitsFor(t) \in S
    BY <1>1, HolderIsActive
  <2>2. \A t \in S : W[t] \cap S # {}
    BY <2>1
  <2>3. IsFiniteSet(S)
    BY TxAssumption, WithdrawalsAssumption, FS_Union, FS_Subset DEF Txs
  <2> HIDE DEF W
  <2>4. PICK T \in SUBSET S :
          T # {} /\ \A t \in T : W[t] \cap T # {} /\ \E u \in T : t \in W[u]
    BY <2>2, <2>3, WaitCycle
  <2> USE DEF W
  <2>5. T \subseteq Txs /\ \A t \in T : WaitsFor(t) \in T /\ \E u \in T : t = WaitsFor(u)
    BY <2>4
  <2>6. T = {WaitsFor(t) : t \in T}
    BY <2>5
  <2>7. \A t \in T : Deadlocked(t)
    BY <2>5, <2>6 DEF Deadlocked
  <2>8. PICK a \in T \cap Admins : review[a].op # "approve"
    BY <1>1, <2>4, <2>5, <2>6 DEF DeadlockNeedsReview
  <2> QED
    BY <2>7, <2>8
<1> QED
  BY <1>1, WithdrawalsSafe, ReviewsInDeadlocks, PTL
=============================================================================
