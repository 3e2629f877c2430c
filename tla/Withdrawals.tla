----------------------------- MODULE Withdrawals -----------------------------
(***************************************************************************)
(* Withdrawal requests and their review, statement by statement.           *)
(*                                                                         *)
(* A request (wallet.controller, earnings.service) and a review            *)
(* (admin-finance.repo) each run in one interactive PostgreSQL transaction *)
(* at READ COMMITTED.  Every statement of a transaction is a step here:    *)
(*   - a read sees the rows committed when it runs, and what it saw is     *)
(*     used later although the rows may have moved on;                     *)
(*   - an UPDATE waits until no other transaction has changed the row and  *)
(*     not ended, evaluates its WHERE on the latest row and keeps the row  *)
(*     locked; its effect (draft) is not visible to others before commit;  *)
(*   - a transaction that throws, loses its connection, times out or is    *)
(*     chosen as a deadlock victim leaves no effect.                       *)
(* earning, withdrawal and allocation hold the committed rows.             *)
(***************************************************************************)
EXTENDS EarningsBook

CONSTANTS Admins,   \* review calls that can be in progress at once
          None      \* no transaction, no row

Txs == Withdrawals \cup Admins

ASSUME TxAssumption ==
  /\ None \notin Txs \cup Earnings
  /\ Withdrawals \cap Admins = {}
  /\ IsFiniteSet(Admins)

VARIABLES rowLock,     \* the transaction that changed an earning and has not ended
          draft,       \* the changed, uncommitted version of a locked earning
          reviewLock,  \* the same lock on a WithdrawalRequest row
          request,     \* the progress of each withdrawal request
          review       \* the progress of each review call

txVars == <<rowLock, draft, reviewLock, request, review>>
vars == <<bookVars, txVars>>

Request == [pc : {"idle", "read", "reserve"}, amount : Nat, remaining : Nat,
            todo : SUBSET Earnings, seen : [Earnings -> Nat], picked : [Earnings -> Nat]]
Review == [pc : {"idle", "claim", "rows"}, op : Reviews, target : Withdrawals \cup {None},
           todo : SUBSET Earnings, at : Earnings \cup {None}]

NoRequest == [pc |-> "idle", amount |-> 0, remaining |-> 0, todo |-> {},
              seen |-> NoAllocation, picked |-> NoAllocation]
Started(n) == [pc |-> "read", amount |-> n, remaining |-> n, todo |-> {},
               seen |-> NoAllocation, picked |-> NoAllocation]
NoReview == [pc |-> "idle", op |-> "approve", target |-> None, todo |-> {}, at |-> None]

TypeOK ==
  /\ BookTypeOK
  /\ rowLock \in [Earnings -> Txs \cup {None}]
  /\ draft \in [Earnings -> EarningRow]
  /\ reviewLock \in [Withdrawals -> Admins \cup {None}]
  /\ request \in [Withdrawals -> Request]
  /\ review \in [Admins -> Review]

Init ==
  /\ BookInit
  /\ rowLock = [e \in Earnings |-> None]
  /\ draft = [e \in Earnings |-> NoEarning]
  /\ reviewLock = [w \in Withdrawals |-> None]
  /\ request = [w \in Withdrawals |-> NoRequest]
  /\ review = [a \in Admins |-> NoReview]

-----------------------------------------------------------------------------
(* Transactions. *)

\* The end of t: its locks and uncommitted versions are gone.
Release(t) ==
  /\ rowLock' = [e \in Earnings |-> IF rowLock[e] = t THEN None ELSE rowLock[e]]
  /\ draft' = [e \in Earnings |-> IF rowLock[e] = t THEN NoEarning ELSE draft[e]]

Publish(t) == earning' = [e \in Earnings |-> IF rowLock[e] = t THEN draft[e] ELSE earning[e]]

\* An UPDATE of row e by t that yields row: e must not be locked by another transaction.
Write(t, e, row) ==
  /\ rowLock' = [rowLock EXCEPT ![e] = t]
  /\ draft' = [draft EXCEPT ![e] = row]

-----------------------------------------------------------------------------
(* A completed job adds an earning while withdrawals are in progress. *)

RecordEarning(e, n) ==
  /\ Earn(e, n)
  /\ UNCHANGED txVars

-----------------------------------------------------------------------------
(* requestWithdrawal and reserveForWithdrawal. *)

AvailableBalance ==
  Total([e \in Earnings |-> IF Spendable(earning[e]) THEN earning[e].available ELSE 0])

\* The transaction creates its PENDING row, which nobody sees yet, and reads the
\* balance; a balance below n throws.
BeginRequest(w, n) ==
  /\ request[w].pc = "idle"
  /\ withdrawal[w].status = "NONE"
  /\ AvailableBalance >= n
  /\ request' = [request EXCEPT ![w] = Started(n)]
  /\ UNCHANGED <<bookVars, rowLock, draft, reviewLock, review>>

\* A second read: the earnings to consume.
ReadEarnings(w) ==
  /\ request[w].pc = "read"
  /\ request' = [request EXCEPT
       ![w].pc = "reserve",
       ![w].todo = {e \in Earnings : Spendable(earning[e]) /\ earning[e].available > 0},
       ![w].seen = [e \in Earnings |-> earning[e].available]]
  /\ UNCHANGED <<bookVars, rowLock, draft, reviewLock, review>>

Oldest(todo) == CHOOSE e \in todo : \A d \in todo : e <= d

Consume(r, e) == IF r.remaining < r.seen[e] THEN r.remaining ELSE r.seen[e]

NextToReserve(w) == Oldest(request[w].todo)

Reserving(w) ==
  request[w].pc = "reserve" /\ request[w].remaining > 0 /\ request[w].todo # {}

\* reserveAmount changes the oldest earning not visited yet.
ReserveNext(w) ==
  /\ Reserving(w)
  /\ LET e == NextToReserve(w)
         n == Consume(request[w], e)
     IN  /\ rowLock[e] = None
         /\ CanReserve(earning[e], n)
         /\ Write(w, e, Reserved(earning[e], n))
         /\ request' = [request EXCEPT ![w].todo = @ \ {e},
                                       ![w].remaining = @ - n,
                                       ![w].picked[e] = n]
  /\ UNCHANGED <<bookVars, reviewLock, review>>

\* (bug) the same earning is tried again
SkipNextRetried(w) ==
  /\ Reserving(w)
  /\ LET e == NextToReserve(w)
     IN  /\ rowLock[e] = None
         /\ ~ CanReserve(earning[e], Consume(request[w], e))
  /\ UNCHANGED vars

\* reserveAmount changes no row: another withdrawal got there first.
SkipNext(w) ==
  /\ Reserving(w)
  /\ LET e == NextToReserve(w)
     IN  /\ rowLock[e] = None
         /\ ~ CanReserve(earning[e], Consume(request[w], e))
         /\ request' = [request EXCEPT ![w].todo = @ \ {e}]
  /\ UNCHANGED <<bookVars, rowLock, draft, reviewLock, review>>

\* (bug) the loop ends without a look at what remains
LoopEnded(w) == request[w].todo = {}

\* The loop ends with everything reserved.
FullyReserved(w) == request[w].remaining = 0

CommitRequest(w) ==
  /\ request[w].pc = "reserve"
  /\ FullyReserved(w)
  /\ Publish(w)
  /\ Release(w)
  /\ withdrawal' = [withdrawal EXCEPT ![w] = [status |-> "PENDING", amount |-> request[w].amount]]
  /\ allocation' = [allocation EXCEPT ![w] = request[w].picked]
  /\ request' = [request EXCEPT ![w] = NoRequest]
  /\ UNCHANGED <<reviewLock, review>>

\* (bug) the failure is returned, not thrown: the transaction commits
RollbackRequestCommits(w) ==
  /\ request[w].pc # "idle"
  /\ Publish(w)
  /\ Release(w)
  /\ request' = [request EXCEPT ![w] = NoRequest]
  /\ UNCHANGED <<withdrawal, allocation, reviewLock, review>>

\* FAILED_TO_RESERVE_EARNINGS, or the transaction is aborted from outside.
RollbackRequest(w) ==
  /\ request[w].pc # "idle"
  /\ Release(w)
  /\ request' = [request EXCEPT ![w] = NoRequest]
  /\ UNCHANGED <<bookVars, reviewLock, review>>

FailRequest(w) ==
  /\ request[w].pc = "reserve" /\ ~ FullyReserved(w) /\ request[w].todo = {}
  /\ RollbackRequest(w)

-----------------------------------------------------------------------------
(* approveWithdrawal, rejectWithdrawal and markpaid. *)

\* The transaction reads the withdrawal; any other status returns or throws at once.
BeginReview(a, op, w) ==
  /\ review[a].pc = "idle"
  /\ withdrawal[w].status = Required(op)
  /\ review' = [review EXCEPT ![a] =
                 [pc |-> "claim", op |-> op, target |-> w, todo |-> {}, at |-> None]]
  /\ UNCHANGED <<bookVars, rowLock, draft, reviewLock, request>>

\* (bug) update by id only
AlwaysClaimed(op, status) == TRUE

\* updateMany WHERE status = Required(op) decides between concurrent reviews.
StillRequired(op, status) == status = Required(op)

\* The row to update next: the allocations come in no particular order.
Upcoming(todo) == IF todo = {} THEN {None} ELSE todo

\* (bug) an approval updates the earnings as well
ClaimReviewAllRows(a) ==
  LET w == review[a].target
      held == {e \in Earnings : allocation[w][e] > 0}
  IN  /\ review[a].pc = "claim"
      /\ reviewLock[w] = None
      /\ StillRequired(review[a].op, withdrawal[w].status)
      /\ reviewLock' = [reviewLock EXCEPT ![w] = a]
      /\ \E next \in Upcoming(held) :
           review' = [review EXCEPT ![a].pc = "rows", ![a].todo = held, ![a].at = next]
      /\ UNCHANGED <<bookVars, rowLock, draft, request>>

\* The status changes and the allocations are read.
ClaimReview(a) ==
  LET op == review[a].op
      w == review[a].target
      held == IF op = "approve" THEN {} ELSE {e \in Earnings : allocation[w][e] > 0}
  IN  /\ review[a].pc = "claim"
      /\ reviewLock[w] = None
      /\ StillRequired(op, withdrawal[w].status)
      /\ reviewLock' = [reviewLock EXCEPT ![w] = a]
      /\ \E next \in Upcoming(held) :
           review' = [review EXCEPT ![a].pc = "rows", ![a].todo = held, ![a].at = next]
      /\ UNCHANGED <<bookVars, rowLock, draft, request>>

\* UPDATE "fixer_earnings" for one allocation.
ReviewRow(a) ==
  LET e == review[a].at
      w == review[a].target
  IN  /\ review[a].pc = "rows"
      /\ review[a].todo # {}
      /\ rowLock[e] = None
      /\ Write(a, e, Reviewed(review[a].op, earning[e], allocation[w][e]))
      /\ \E next \in Upcoming(review[a].todo \ {e}) :
           review' = [review EXCEPT ![a].todo = @ \ {e}, ![a].at = next]
      /\ UNCHANGED <<bookVars, reviewLock, request>>

EndReview(a) ==
  /\ Release(a)
  /\ reviewLock' = [w \in Withdrawals |-> IF reviewLock[w] = a THEN None ELSE reviewLock[w]]
  /\ review' = [review EXCEPT ![a] = NoReview]

CommitReview(a) ==
  LET op == review[a].op
      w == review[a].target
  IN  /\ review[a].pc = "rows"
      /\ review[a].todo = {}
      /\ Publish(a)
      /\ withdrawal' = [withdrawal EXCEPT ![w].status = Outcome(op)]
      /\ allocation' = [allocation EXCEPT ![w] = AllocationAfter(op, @)]
      /\ EndReview(a)
      /\ UNCHANGED request

RollbackReview(a) ==
  /\ review[a].pc # "idle"
  /\ EndReview(a)
  /\ UNCHANGED <<bookVars, request>>

\* The row was claimed by another review that committed: count = 0 throws.
FailReview(a) ==
  /\ review[a].pc = "claim"
  /\ reviewLock[review[a].target] = None
  /\ ~ StillRequired(review[a].op, withdrawal[review[a].target].status)
  /\ RollbackReview(a)

-----------------------------------------------------------------------------
(* Lock waits and deadlocks. *)

\* The transaction t waits for, if its next statement is an UPDATE of a locked row.
WaitsFor(t) ==
  IF t \in Withdrawals
  THEN IF Reserving(t) THEN rowLock[NextToReserve(t)] ELSE None
  ELSE CASE review[t].pc = "claim" -> reviewLock[review[t].target]
         [] review[t].pc = "rows" /\ review[t].todo # {} -> rowLock[review[t].at]
         [] OTHER -> None

\* t is on a cycle of waits, not merely behind one.
Deadlocked(t) ==
  \E S \in SUBSET Txs : t \in S /\ S = {WaitsFor(u) : u \in S}

\* PostgreSQL ends a deadlock by aborting one of its transactions.
AbortDeadlocked ==
  \/ \E w \in Withdrawals : Deadlocked(w) /\ RollbackRequest(w)
  \/ \E a \in Admins : Deadlocked(a) /\ RollbackReview(a)

-----------------------------------------------------------------------------
Next ==
  \/ \E e \in Earnings, n \in Payouts : RecordEarning(e, n)
  \/ \E w \in Withdrawals :
       \/ \E n \in Amounts : BeginRequest(w, n)
       \/ ReadEarnings(w)
       \/ ReserveNext(w)
       \/ SkipNext(w)
       \/ CommitRequest(w)
       \/ FailRequest(w)
       \/ RollbackRequest(w)
  \/ \E a \in Admins :
       \/ \E op \in Reviews, w \in Withdrawals : BeginReview(a, op, w)
       \/ ClaimReview(a)
       \/ ReviewRow(a)
       \/ CommitReview(a)
       \/ FailReview(a)
       \/ RollbackReview(a)

Spec == Init /\ [][Next]_vars

-----------------------------------------------------------------------------
RequestStep(w) ==
  ReadEarnings(w) \/ ReserveNext(w) \/ SkipNext(w) \/ CommitRequest(w) \/ FailRequest(w)

ReviewStep(a) == ClaimReview(a) \/ ReviewRow(a) \/ CommitReview(a) \/ FailReview(a)

\* A transaction in progress runs its next statement; PostgreSQL queues the
\* waiters of a row, so one that keeps finding it free again gets it (SF); and
\* a deadlock is detected.  Nobody has to start anything.
Fairness ==
  /\ \A w \in Withdrawals : SF_vars(RequestStep(w))
  /\ \A a \in Admins : SF_vars(ReviewStep(a))
  /\ WF_vars(AbortDeadlocked)

-----------------------------------------------------------------------------
(* Properties. *)

\* The statements of concurrent requests and reviews add up to indivisible
\* operations: what is committed always moves as module EarningsBook says
\* (requestWithdrawal, rejectWithdrawal, markpaid against each other).
ImplementsBook == BookSpec

\* A decided withdrawal stays decided: REJECTED and PAID are final, APPROVED only
\* becomes PAID, and what a withdrawal holds changes only when it is created or rejected,
\* whatever reviews raced for it.
DecisionsAreFinal ==
  [][\A w \in Withdrawals :
       /\ withdrawal[w].status \in {"REJECTED", "PAID"} => UNCHANGED withdrawal[w]
       /\ withdrawal[w].status = "APPROVED" => withdrawal'[w].status \in {"APPROVED", "PAID"}
       /\ withdrawal[w].status \in {"APPROVED", "PAID"} => UNCHANGED allocation[w]]_vars

\* Requests lock the earnings in the one order of reserveForWithdrawal's list and an approval
\* locks none: lock waits never close a cycle without the rejection or the payment of a
\* withdrawal, whose allocations come in any order, and no approval is ever aborted for one.
DeadlockNeedsReview ==
  \A S \in SUBSET Txs :
    S # {} /\ S = {WaitsFor(t) : t \in S} =>
      /\ S \cap Admins # {}
      /\ \A a \in S \cap Admins : review[a].op # "approve"

\* No request and no review hangs: lock waits between requests (oldest earning
\* first) and reviews (any order) end, by commit, failure or deadlock abort.
TransactionsEnd ==
  /\ \A w \in Withdrawals : request[w].pc # "idle" ~> request[w].pc = "idle"
  /\ \A a \in Admins : review[a].pc # "idle" ~> review[a].pc = "idle"
=============================================================================
