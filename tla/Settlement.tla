----------------------------- MODULE Settlement -----------------------------
(***************************************************************************)
(* A job in progress until it is paid out: the fixer asks for completion,  *)
(* the client rejects or approves, either side may open a dispute and an   *)
(* administrator resolves it (modules job-completion and disputes).        *)
(*                                                                         *)
(* Each call first checks what it read outside any transaction, then runs  *)
(* one interactive PostgreSQL transaction at READ COMMITTED.  None of its  *)
(* UPDATEs has a condition beyond the id, so what a transaction will       *)
(* write is fixed by its kind; what matters is the order in which it takes *)
(* the rows, and that it keeps them until it ends.  A call is therefore    *)
(* its kind and the number of statements it has done (done); its effects   *)
(* are published when it commits.  Settlements of different fixers' jobs   *)
(* meet only at the platform's wallets.                                    *)
(***************************************************************************)
EXTENDS Integers, Sequences, FiniteSets, Functions

CONSTANTS Jobs,             \* jobs in progress, each with its FINAL payment made
          Price,            \* the locked price of each job, in milliFEC
          Fixers,           \* the fixers hired
          FixerOf,          \* the fixer of each job
          Disputable,       \* the jobs that somebody may open a dispute on
          Calls,            \* calls that can be in progress at once
          PlatformWallets,  \* ids that a created platform wallet can get
          None              \* no row, SQL NULL

ASSUME JobsAssumption == IsFiniteSet(Jobs) /\ Price \in [Jobs -> Nat \ {0}]
ASSUME FixersAssumption == IsFiniteSet(Fixers) /\ FixerOf \in [Jobs -> Fixers]
ASSUME CallsAssumption == IsFiniteSet(Calls)
ASSUME PlatformAssumption == IsFiniteSet(PlatformWallets)
ASSUME NoneAssumption == None \notin Nat \cup Jobs \cup PlatformWallets

VARIABLES job,         \* the Job rows: status, and whether completedRequestedAt is set
          completion,  \* the status of each JobCompletionRequest
          dispute,     \* the status of each Dispute
          reviewed,    \* the jobs that have a JobReview
          payout,      \* the amount of the LedgerEntry job_payout:<job>
          earning,     \* the amount of the FixerEarning of each job
          commission,  \* the amount of the PlatformLedgerEntry job_commission:<job>
          wallet,      \* the balance of each fixer's wallet
          platforms,   \* the platform wallets that exist
          platform,    \* their balances
          call         \* the progress of each call

jobRows == <<job, completion, dispute, reviewed>>
moneyRows == <<payout, earning, commission, wallet, platforms, platform>>
vars == <<jobRows, moneyRows, call>>

Kinds == {"request", "reject", "approve", "lookup", "settle", "finish", "open", "resolve"}
Call == [kind : Kinds, job : Jobs, done : 0..4, platform : PlatformWallets \cup {None}]
NoCall == [kind |-> "idle", job |-> None, done |-> 0, platform |-> None]

TypeOK ==
  /\ job \in [Jobs -> [status : {"IN_PROGRESS", "DISPUTED", "COMPLETED"}, requested : BOOLEAN]]
  /\ completion \in [Jobs -> {"NONE", "PENDING", "REJECTED"}]
  /\ dispute \in [Jobs -> {"NONE", "OPEN", "RESOLVED"}]
  /\ reviewed \in SUBSET Jobs
  /\ payout \in [Jobs -> Nat \cup {None}]
  /\ earning \in [Jobs -> Nat \cup {None}]
  /\ commission \in [Jobs -> Nat \cup {None}]
  /\ wallet \in [Fixers -> Nat]
  /\ platforms \in SUBSET PlatformWallets
  /\ platform \in [PlatformWallets -> Nat]
  /\ call \in [Calls -> Call \cup {NoCall}]

Init ==
  /\ job = [j \in Jobs |-> [status |-> "IN_PROGRESS", requested |-> FALSE]]
  /\ completion = [j \in Jobs |-> "NONE"]
  /\ dispute = [j \in Jobs |-> "NONE"]
  /\ reviewed = {}
  /\ payout = [j \in Jobs |-> None]
  /\ earning = [j \in Jobs |-> None]
  /\ commission = [j \in Jobs |-> None]
  /\ wallet = [f \in Fixers |-> 0]
  /\ platforms = {}
  /\ platform = [w \in PlatformWallets |-> 0]
  /\ call = [c \in Calls |-> NoCall]

-----------------------------------------------------------------------------
(* The share of the platform and of the fixer. *)

CommissionOf(j) == Price[j] \div 10

\* (bug) both shares are rounded down
PayoutRounded(j) == (9 * Price[j]) \div 10

PayoutOf(j) == Price[j] - CommissionOf(j)

-----------------------------------------------------------------------------
(* Transactions. *)

\* (bug) a dispute is inserted after the job has changed
TablesDisputeLast(kind) ==
  CASE kind \in {"request", "reject"} -> <<"completion", "job">>
    [] kind = "open"    -> <<"job", "dispute">>
    [] kind = "resolve" -> <<"dispute", "job", "completion">>
    [] kind = "settle"  -> <<"payout", "wallet", "platform", "job">>
    [] kind = "finish"  -> <<"job">>
    [] OTHER            -> <<>>

\* The rows a transaction writes, in order.
Tables(kind) ==
  CASE kind \in {"request", "reject"} -> <<"completion", "job">>
    [] kind = "open"    -> <<"dispute", "job">>
    [] kind = "resolve" -> <<"dispute", "job", "completion">>
    [] kind = "settle"  -> <<"payout", "wallet", "platform", "job">>
    [] kind = "finish"  -> <<"job">>
    [] OTHER            -> <<>>

Unfinished(c) == call[c].done < Len(Tables(call[c].kind))

NextTable(c) == Tables(call[c].kind)[call[c].done + 1]

RowId(c, table) == CASE table = "wallet"   -> FixerOf[call[c].job]
                     [] table = "platform" -> call[c].platform
                     [] OTHER              -> call[c].job

\* The rows c has written and keeps locked: inserted keys count as rows.
Locked(c) == {<<Tables(call[c].kind)[i], RowId(c, Tables(call[c].kind)[i])>> : i \in 1..call[c].done}

Holders(c, row) == {d \in Calls \ {c} : row \in Locked(d)}

\* The updateMany of a resolution finds no request to reject and locks nothing.
NoRowToLock(c) ==
  call[c].kind = "resolve" /\ NextTable(c) = "completion" /\ completion[call[c].job] = "NONE"

\* The calls that must end before c can write its next row.
WaitsFor(c) ==
  IF ~ Unfinished(c) \/ NoRowToLock(c) \/ NextTable(c) = "platform"
  THEN {} ELSE Holders(c, <<NextTable(c), RowId(c, NextTable(c))>>)

End(c) == call' = [call EXCEPT ![c] = NoCall]

\* A transaction that throws, loses its connection or times out leaves no effect.
Abort(c) ==
  /\ call[c].kind # "idle"
  /\ End(c)
  /\ UNCHANGED <<jobRows, moneyRows>>

\* c is on a cycle of waits, not merely behind one.
Deadlocked(c) ==
  \E S \in SUBSET Calls : c \in S /\ \A d \in S : /\ WaitsFor(d) \cap S # {}
                                                  /\ \E e \in S : d \in WaitsFor(e)

\* PostgreSQL ends a deadlock by aborting one of its transactions.
AbortDeadlocked == \E c \in Calls : Deadlocked(c) /\ Abort(c)

-----------------------------------------------------------------------------
(* Starting a call. *)

\* What the service checks before the transaction, or a resolution at its start.
MayStart(kind, j) ==
  CASE kind = "request" -> job[j].status = "IN_PROGRESS"
    [] kind = "reject"  -> job[j].status = "IN_PROGRESS" /\ completion[j] = "PENDING"
    [] kind = "approve" -> job[j].status = "IN_PROGRESS" /\ job[j].requested
    [] kind = "open"    -> job[j].status = "IN_PROGRESS" /\ dispute[j] # "OPEN"
    [] kind = "resolve" -> dispute[j] = "OPEN"
    [] OTHER            -> FALSE

Start(c, kind, j) ==
  /\ call[c].kind = "idle"
  /\ MayStart(kind, j)
  /\ kind = "open" => j \in Disputable
  /\ call' = [call EXCEPT ![c] = [kind |-> kind, job |-> j, done |-> 0, platform |-> None]]
  /\ UNCHANGED <<jobRows, moneyRows>>

\* approveAndSettle reads the job again: COMPLETED returns, DISPUTED throws.
ReadJob(c) ==
  /\ call[c].kind = "approve"
  /\ IF job[call[c].job].status = "IN_PROGRESS"
     THEN call' = [call EXCEPT ![c].kind = "lookup"]
     ELSE End(c)
  /\ UNCHANGED <<jobRows, moneyRows>>

\* A job that was paid out already is only completed again.
ReadPayout(c) ==
  /\ call[c].kind = "lookup"
  /\ call' = [call EXCEPT ![c].kind = IF payout[call[c].job] = None THEN "settle" ELSE "finish"]
  /\ UNCHANGED <<jobRows, moneyRows>>

-----------------------------------------------------------------------------
(* The statements of a transaction. *)

\* (bug) no unique idempotencyKey
KeyTakenNever(c) == call[c].kind = "open" /\ dispute[call[c].job] # "NONE"

\* The unique keys: one dispute for a job, one payout for a job.
KeyTaken(c) ==
  \/ call[c].kind = "open" /\ NextTable(c) = "dispute" /\ dispute[call[c].job] # "NONE"
  \/ call[c].kind = "settle" /\ NextTable(c) = "payout" /\ payout[call[c].job] # None

WriteRow(c) ==
  /\ Unfinished(c) /\ NextTable(c) # "platform"
  /\ WaitsFor(c) = {}
  /\ ~ KeyTaken(c)
  /\ call' = [call EXCEPT ![c].done = @ + 1]
  /\ UNCHANGED <<jobRows, moneyRows>>

\* (bug) the error is caught and the insert tried again
FailInsertRetried(c) ==
  /\ Unfinished(c) /\ NextTable(c) # "platform"
  /\ WaitsFor(c) = {}
  /\ KeyTaken(c)
  /\ UNCHANGED vars

FailInsert(c) ==
  /\ Unfinished(c) /\ NextTable(c) # "platform"
  /\ WaitsFor(c) = {}
  /\ KeyTaken(c)
  /\ Abort(c)

\* getOrCreatePlatformWallet: any wallet that is visible, or one of its own if none is: the row
\* another settlement has created, and not committed, is neither visible nor the same.
PlatformChoice == IF platforms # {} THEN platforms ELSE PlatformWallets

\* (bug) the wallet that was created is not used
CreditPlatformNoWallet(c) ==
  /\ Unfinished(c) /\ NextTable(c) = "platform"
  /\ call' = [call EXCEPT ![c].done = @ + 1]
  /\ UNCHANGED <<jobRows, moneyRows>>

CreditPlatform(c) ==
  /\ Unfinished(c) /\ NextTable(c) = "platform"
  /\ \E w \in PlatformChoice :
       /\ Holders(c, <<"platform", w>>) = {}
       /\ call' = [call EXCEPT ![c].done = @ + 1, ![c].platform = w]
  /\ UNCHANGED <<jobRows, moneyRows>>

Written(c, kind) == call[c].kind = kind /\ ~ Unfinished(c)

CommitRequest(c) ==
  LET j == call[c].job
  IN  /\ Written(c, "request")
      /\ completion' = [completion EXCEPT ![j] = "PENDING"]
      /\ job' = [job EXCEPT ![j].requested = TRUE]
      /\ End(c)
      /\ UNCHANGED <<dispute, reviewed, moneyRows>>

CommitReject(c) ==
  LET j == call[c].job
  IN  /\ Written(c, "reject")
      /\ completion' = [completion EXCEPT ![j] = "REJECTED"]
      /\ job' = [job EXCEPT ![j].requested = FALSE]
      /\ End(c)
      /\ UNCHANGED <<dispute, reviewed, moneyRows>>

CommitOpen(c) ==
  LET j == call[c].job
  IN  /\ Written(c, "open")
      /\ dispute' = [dispute EXCEPT ![j] = "OPEN"]
      /\ job' = [job EXCEPT ![j].status = "DISPUTED"]
      /\ End(c)
      /\ UNCHANGED <<completion, reviewed, moneyRows>>

\* (bug) only the job is taken back
CommitResolveJobOnly(c) ==
  LET j == call[c].job
  IN  /\ Written(c, "resolve")
      /\ dispute' = [dispute EXCEPT ![j] = "RESOLVED"]
      /\ job' = [job EXCEPT ![j] = [status |-> "IN_PROGRESS", requested |-> FALSE]]
      /\ End(c)
      /\ UNCHANGED <<completion, reviewed, moneyRows>>

\* (bug) the job is left to the completion flow
CommitResolveDisputeOnly(c) ==
  LET j == call[c].job
  IN  /\ Written(c, "resolve")
      /\ dispute' = [dispute EXCEPT ![j] = "RESOLVED"]
      /\ job' = [job EXCEPT ![j].requested = FALSE]
      /\ completion' = [completion EXCEPT ![j] = IF @ = "NONE" THEN "NONE" ELSE "REJECTED"]
      /\ End(c)
      /\ UNCHANGED <<reviewed, moneyRows>>

\* The job goes back to IN_PROGRESS and its completion request, if any, is rejected.
CommitResolve(c) ==
  LET j == call[c].job
  IN  /\ Written(c, "resolve")
      /\ dispute' = [dispute EXCEPT ![j] = "RESOLVED"]
      /\ job' = [job EXCEPT ![j] = [status |-> "IN_PROGRESS", requested |-> FALSE]]
      /\ completion' = [completion EXCEPT ![j] = IF @ = "NONE" THEN "NONE" ELSE "REJECTED"]
      /\ End(c)
      /\ UNCHANGED <<reviewed, moneyRows>>

Completed(j) ==
  /\ job' = [job EXCEPT ![j].status = "COMPLETED"]
  /\ reviewed' = reviewed \cup {j}
  /\ UNCHANGED <<completion, dispute>>

\* (bug) the platform's balance is computed from the commission alone
CommitSettleOverwrites(c) ==
  LET j == call[c].job
      w == call[c].platform
  IN  /\ Written(c, "settle")
      /\ payout' = [payout EXCEPT ![j] = PayoutOf(j)]
      /\ wallet' = [wallet EXCEPT ![FixerOf[j]] = @ + PayoutOf(j)]
      /\ earning' = [earning EXCEPT ![j] = PayoutOf(j)]
      /\ platforms' = platforms \cup {w}
      /\ commission' = [commission EXCEPT ![j] = CommissionOf(j)]
      /\ platform' = [platform EXCEPT ![w] = CommissionOf(j)]
      /\ Completed(j)
      /\ End(c)

\* LedgerEntry, wallet, FixerEarning, PlatformLedgerEntry and platform wallet, then the job.
CommitSettle(c) ==
  LET j == call[c].job
      w == call[c].platform
  IN  /\ Written(c, "settle")
      /\ payout' = [payout EXCEPT ![j] = PayoutOf(j)]
      /\ wallet' = [wallet EXCEPT ![FixerOf[j]] = @ + PayoutOf(j)]
      /\ earning' = [earning EXCEPT ![j] = PayoutOf(j)]
      /\ platforms' = platforms \cup {w}
      /\ commission' = [commission EXCEPT ![j] = CommissionOf(j)]
      /\ platform' = [platform EXCEPT ![w] = @ + CommissionOf(j)]
      /\ Completed(j)
      /\ End(c)

CommitFinish(c) ==
  /\ Written(c, "finish")
  /\ Completed(call[c].job)
  /\ End(c)
  /\ UNCHANGED moneyRows

-----------------------------------------------------------------------------
Run(c) ==
  \/ ReadJob(c)
  \/ ReadPayout(c)
  \/ WriteRow(c)
  \/ FailInsert(c)
  \/ CreditPlatform(c)
  \/ CommitRequest(c)
  \/ CommitReject(c)
  \/ CommitOpen(c)
  \/ CommitResolve(c)
  \/ CommitSettle(c)
  \/ CommitFinish(c)

Next ==
  \E c \in Calls :
    \/ \E kind \in Kinds, j \in Jobs : Start(c, kind, j)
    \/ Run(c)
    \/ Abort(c)

Spec == Init /\ [][Next]_vars

\* A transaction in progress runs its next statement; PostgreSQL queues the
\* waiters of a row (SF) and detects deadlocks.  Nobody has to call anything.
FairSpec == Spec /\ (\A c \in Calls : SF_vars(Run(c))) /\ WF_vars(AbortDeadlocked)

-----------------------------------------------------------------------------
(* Properties. *)

\* A completed job has been paid out: payout, earning and commission are there, add up to
\* the locked price, and the job is reviewed - also after a dispute that was opened on
\* a job being approved took the job back and forth (approveAndSettle, resolveDisputeAmicably).
CompletedIsPaid ==
  \A j \in Jobs :
    /\ job[j].status = "COMPLETED" => payout[j] # None /\ j \in reviewed
    /\ payout[j] # None => /\ earning[j] = payout[j]
                          /\ commission[j] # None
                          /\ payout[j] + commission[j] = Price[j]

\* The job and its dispute agree, whatever writes race for the job: a DISPUTED job has an
\* OPEN dispute for the administrator to resolve, and an OPEN dispute keeps the job
\* from being in progress (openDispute, resolveDisputeAmicably, approveAndSettle).
StatusFollowsDispute ==
  \A j \in Jobs :
    /\ job[j].status = "DISPUTED" => dispute[j] = "OPEN"
    /\ dispute[j] = "OPEN" => job[j].status # "IN_PROGRESS"

\* job.completedRequestedAt, which approveCompletion goes by, and the request's status,
\* which rejectCompletion goes by, never disagree, although three kinds of transaction
\* write both and a resolution takes the rows in the other order.
RequestedIsPending == \A j \in Jobs : job[j].requested <=> completion[j] = "PENDING"

\* The one pair of transactions that take rows in opposite orders is a completion request, or
\* its rejection, and a resolution: no settlement and no opening of a dispute is ever on a
\* cycle of lock waits, whatever runs beside it, and a cycle has a resolution on it.
OnlyResolutionsDeadlock ==
  \A S \in SUBSET Calls :
    S # {} /\ (\A c \in S : WaitsFor(c) \cap S # {} /\ \E d \in S : c \in WaitsFor(d)) =>
      /\ \A c \in S : call[c].kind \in {"request", "reject", "resolve"}
      /\ \E c \in S : call[c].kind = "resolve"

FixerLedger == INSTANCE Ledger WITH
  Keys <- Jobs, Worth <- [j \in Jobs |-> PayoutOf(j)], Accounts <- Fixers, AccountOf <- FixerOf,
  booked <- {j \in Jobs : payout[j] # None}, balance <- wallet

\* The fixers' wallets are a ledger: each job is paid at most once, and into the wallet of its
\* own fixer, whatever approvals race or follow one another (approveAndSettle).
FixerPaidOnce == FixerLedger!Spec

PlatformLedger == INSTANCE Ledger WITH
  Keys <- Jobs, Worth <- [j \in Jobs |-> CommissionOf(j)],
  Accounts <- {"platform"}, AccountOf <- [j \in Jobs |-> "platform"],
  booked <- {j \in Jobs : commission[j] # None},
  balance <- [a \in {"platform"} |-> SumFunctionOnSet(platform, PlatformWallets)]

\* The platform's wallets together are one account that each commission reaches once, although
\* settlements of different fixers' jobs that race for the first wallet each create one, and
\* later ones credit any of them (getOrCreatePlatformWallet).
CommissionBookedOnce == PlatformLedger!Spec

\* No call hangs: the lock waits between a completion request and a resolution, which
\* take the job and the request in opposite orders, end by commit, failure or abort.
TransactionsEnd == \A c \in Calls : call[c].kind # "idle" ~> call[c].kind = "idle"
=============================================================================
