------------------------------- MODULE Payouts -------------------------------
(***************************************************************************)
(* Where the money of the jobs goes: the settlement of jobs (module        *)
(* Settlement) composed with the withdrawals of one of the fixers, the     *)
(* payee (EarningsBook).  They meet in the payee's FixerEarning rows: a    *)
(* settlement of one of the payee's jobs inserts one when it commits, and  *)
(* only requests and reviews change it afterwards.  The queries on these   *)
(* rows filter by the fixer, so the other fixers' rows are left out.       *)
(*                                                                         *)
(* A request and a review are one step here: that their statements add up  *)
(* to such steps is what module Withdrawals is shown to implement.         *)
(* Withdrawals in turn takes the earnings as given; here they are those    *)
(* that settlements create.                                                *)
(***************************************************************************)
EXTENDS Settlement

CONSTANTS Payee,     \* one of the fixers, whose withdrawals are followed
          Requests,  \* withdrawals the payee can ask for
          Amounts    \* the amounts to ask for

ASSUME JobNumbers == Jobs \subseteq Nat
ASSUME PayeeAssumption == Payee \in Fixers
ASSUME RequestsAssumption ==
  /\ IsFiniteSet(Requests) /\ None \notin Requests
  /\ Amounts \subseteq Nat \ {0}

VARIABLES row,         \* the FixerEarning rows
          withdrawal,  \* the WithdrawalRequest rows
          allocation   \* the WithdrawalAllocation rows

PayeeJobs == {j \in Jobs : FixerOf[j] = Payee}

Book == INSTANCE EarningsBook WITH
  Earnings <- PayeeJobs, Withdrawals <- Requests, Payouts <- {PayoutOf(j) : j \in PayeeJobs},
  earning <- row

payoutVars == <<vars, row, withdrawal, allocation>>

\* The FixerEarning of a settled job is upserted: the update leaves the status alone.
Upserted(earned, n) ==
  IF earned.status = "NONE" THEN Book!NewEarning(n)
                            ELSE [earned EXCEPT !.amount = n, !.available = n]

Settle(c) ==
  /\ CommitSettle(c)
  /\ row' = [j \in PayeeJobs |-> IF j = call[c].job THEN Upserted(row[j], PayoutOf(j)) ELSE row[j]]
  /\ UNCHANGED <<withdrawal, allocation>>

\* Any other step of a call on a job.
Proceed == Next /\ UNCHANGED <<moneyRows, row, withdrawal, allocation>>

AvailableBalance ==
  Book!Total([j \in PayeeJobs |-> IF Book!Spendable(row[j]) THEN row[j].available ELSE 0])

RequestWithdrawal(w, n) == AvailableBalance >= n /\ Book!Grant(w, n) /\ UNCHANGED vars

ReviewWithdrawal(w, op) == Book!Decide(w, op) /\ UNCHANGED vars

PayoutInit == Init /\ Book!BookInit

PayoutNext ==
  \/ \E c \in Calls : Settle(c)
  \/ Proceed
  \/ \E w \in Requests, n \in Amounts : RequestWithdrawal(w, n)
  \/ \E w \in Requests, op \in Book!Reviews : ReviewWithdrawal(w, op)

PayoutSpec == PayoutInit /\ [][PayoutNext]_payoutVars

\* As in module Settlement; nobody has to withdraw anything.
FairPayoutSpec == PayoutSpec /\ (\A c \in Calls : SF_vars(Run(c))) /\ WF_vars(AbortDeadlocked)

-----------------------------------------------------------------------------
(* Properties. *)

\* Whatever approvals and resolutions race, the wallets move as a ledger promises: each fixer's
\* wallet gets the payouts of its own jobs once, the platform's wallets, however many the race
\* creates, get each commission once, and withdrawals, which are taken out of the earnings,
\* change neither.
BooksImplemented == FixerPaidOnce /\ CommissionBookedOnce

\* No milliFEC of a job is lost or paid twice on its way from the job to the bank: the locked
\* prices of the jobs that were paid out are what the platform's wallets hold, what the other
\* fixers' wallets hold, what the payee can still withdraw, and what the payee's open and paid
\* withdrawals take (approveAndSettle, reserveForWithdrawal, rejectWithdrawal, markpaid).
MoneyAccounted ==
  SumFunctionOnSet(Price, {j \in Jobs : payout[j] # None})
    = SumFunctionOnSet(platform, PlatformWallets)
      + SumFunctionOnSet(wallet, Fixers \ {Payee})
      + SumFunctionOnSet([j \in PayeeJobs |-> row[j].available], PayeeJobs)
      + SumFunctionOnSet(Book!Taken, Requests)
=============================================================================
