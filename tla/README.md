# A verification development for the FixAndEarn API

FixAndEarn is a marketplace: clients post jobs, fixers negotiate a price, the client pays through
Monnify, the fixer works, the client approves, and the fixer withdraws the earnings. The API
(`src/apps/api`, NestJS, Prisma, PostgreSQL) keeps all of this in database rows that HTTP requests,
payment webhooks, a cron job and administrators change concurrently. This directory models that
core in TLA+, checks it with TLC on small instances and proves theorems about it with TLAPS.

`PROJECT.json` lists, for every definition, the source lines it stands for, and every hazard with the
properties that cover it.

## 1. Inventory

Transactions run at PostgreSQL's default READ COMMITTED: a statement sees what is committed when it
starts, and an UPDATE waits for the lock of its row and evaluates its WHERE on the latest version.
Outside `$transaction(...)` every Prisma call is a transaction of its own.

| component (under `src/apps/api/src`) | state | operations | what is hard, and what makes it correct |
|---|---|---|---|
| earnings, withdrawals (`modules/earnings`, `modules/wallet/wallet.controller.ts`) | FixerEarning, WithdrawalRequest, WithdrawalAllocation | settle a job (one earning), request a withdrawal | balance and list of earnings are read without a lock and used later; the reservation loop may fail half-way. No money lost or withdrawn twice; a withdrawal is backed by exactly its amount |
| withdrawal review (`admin/finance`) | the same rows | approve, reject, mark paid | two administrators, and requests on the same earnings. A decision is final; the earning's status never hides a balance |
| job payments (`modules/job-payments`, `modules/payments`) | JobPayment (one per job and type), WebhookEvent, Job | create POSTING, URGENT and FINAL payments, continue, webhook, return from the payment page, expiration | late, repeated and crossing callbacks, a payment window, rows replaced by a new attempt. A job starts as agreed and paid; terminal states are final; an expired payment frees the job |
| negotiation (`chat`) | Conversation, Negotiation, Job.fixerId and price, the FINAL payment | propose, lock, accept or reject, close | reads outside the transaction, unconditional writes, opposite lock orders. One agreement at a time; the attempt is for the fixer the job is held for; the agreed price is the one both sides saw |
| jobs and moderation (`modules/jobs`) | Job, JobApplication, moderation fields | create, update, delete draft, apply, urgent hire, flag, unflag | a stale moderation decision, deletion against a webhook. Nothing is published unpaid; a flag outlives repeated reports; a job on the marketplace has its posting fee paid |
| completion (`modules/job-completion`) | JobCompletionRequest, Job, JobReview, FixerEarning | request, reject, approve and settle (90/10) | approval against rejection and dispute. A job is settled once, in full |
| disputes (`modules/disputes`) | Dispute, Job, Conversation | open, resolve, administrator messages | unconditional writes of the job's status, opposite lock orders |
| wallet and ledger (`modules/wallet`) | Wallet, LedgerEntry (unique idempotency key), PlatformWallet | book an entry | repeated bookings. Each key is booked once; the committed balance is the sum of the committed entries |
| administrators' access (`admin/admin.service.ts`, `admin/auth`) | Admin, AdminSession, tokens | login with lockout, refresh, logout, new password or TOTP secret, deactivate, reactivate | no transactions; tokens signed from an earlier read. What was withdrawn stays withdrawn |
| identity verification (`modules/verification`, `admin/verification`) | IdentityVerification, User.forceReverify, the face collection at AWS | submit, decide, decide on the NIN image, force re-verification | two stores without a common transaction, checks long before writes. No account's face is removed; one account per NIN |
| deposits, user authentication, reports, notifications, realtime, profiles, administration lists, web client | | | record keeping, output, presentation; see section 6 |

Interactions: the agreement of a negotiation creates the FINAL payment in the same transaction; a
webhook or a verified return hands the payment's id to `JobPaymentProcessorService`, which publishes or
starts the job; the cron job of `FinalPaymentExpirationService` takes the fixer off the job again; the
approval of a completion creates the earning that withdrawals consume. Notifications and realtime events
are sent after commit, their failures are swallowed, and no other component reads them.

## 2. Modules

| module | role |
|---|---|
| `EarningsBook` | abstract specification: earnings and withdrawals of one fixer, every operation indivisible |
| `Withdrawals` | requests and reviews statement by statement, with row locks, uncommitted versions, rollbacks and deadlocks; implements `EarningsBook` |
| `FinalPayment` | the FINAL payment of one job: agreement, new attempts, callbacks, activation, expiration |
| `Deals` | abstract specification: the negotiations of one job and its FINAL payment, every operation indivisible |
| `Negotiation` | the same row by row, with stale reads, row locks, aborts and deadlocks; implements `Deals` |
| `Posting` | one job from its creation to its start: its posting and its urgent payment, moderation, edits, deletion |
| `Ledger` | abstract specification: accounts and their entries, one for each idempotency key |
| `Settlement` | completion, settlement and disputes of several jobs of several fixers, row by row; implements `Ledger` twice |
| `Payouts` | `Settlement` composed with `EarningsBook` for one of the fixers: the earnings that settlements create and withdrawals consume |
| `AdminAccess` | administrators' accounts, sessions and tokens, statement by statement |
| `Verification` | identity verification with the collection of faces |
| `MC...` | TLC instances: symmetry sets and, for `Withdrawals` and `Settlement`, a start state or prices |
| `FiniteSums` | lemmas about `SumFunctionOnSet` over finite sets, and about cycles of waits |
| `...Proofs` | the theorems of each module; `WithdrawalsProofs` also holds those of `EarningsBook`, `SettlementProofs` those of `Payouts`, `NegotiationProofs` those of `Deals` |

### Withdrawals

`earning`, `withdrawal` and `allocation` are the committed rows of FixerEarning, WithdrawalRequest
and WithdrawalAllocation of one fixer (every query filters by the fixer, so other rows cannot
matter). `rowLock` and `draft` are PostgreSQL's row locks and uncommitted versions of earnings,
`reviewLock` the locks of withdrawal rows. `request[w]` is the progress of `requestWithdrawal` with
`reserveForWithdrawal`: the balance read (`BeginRequest`), the second read of the earnings
(`ReadEarnings`), one step per `reserveAmount` (`ReserveNext` when its WHERE matches, `SkipNext` when it does
not), commit or failure. `review[a]` is a call of `approveWithdrawal`, `rejectWithdrawal` or
`markpaid`: the read (`BeginReview`), the `updateMany` that claims the row (`ClaimReview`), one UPDATE
per allocation in any order (`ReviewRow`), commit. Any open transaction can also be rolled back at
any moment (lost connection, time-out, crash). The PENDING row a request creates first and its
allocations are visible to nobody before the commit and appear there. Earnings are identified by
numbers in the order of `createdAt`; they may be committed in another order.

`EarningsBook` says what this amounts to: `Earn`, `Grant` and `Decide` as single steps. The refinement
mapping is the identity on the committed rows: locks and progress are internal.

Where earnings come from is `Payouts`' subject: the commit of a settlement of one of the payee's jobs inserts one;
other fixers' jobs settle beside it. Requests and reviews are single steps there because `Withdrawals` implements
`EarningsBook`, and every step of `Payouts` is one of `EarningsBook` or leaves its rows alone. So what `Withdrawals`
assumes of its environment is what settlements do. The upsert of an earning is modelled with both branches; that the
update is never taken is part of that proof.

### FinalPayment

One job, one FINAL row. `job`, `chat[f]` (Conversation), `agreed[f]` (the price of a Negotiation that
is AGREED), `payment` (JobPayment with its reference, its `terms` - fixer and price - and whether
`expiresAt` has passed) and `recorded` (WebhookEvent) are rows; `charge` is what Monnify knows of each
reference (external). Progress that was read and is used later has variables of its own: `call[c]` (a
`createFinalPayment` request between its checks and its upsert), `callback[d]` (a webhook or a return
from the payment page: found by reference, asking Monnify, read again by id, UPDATE, the transaction,
WebhookEvent), `scan` (the cron job between `findMany` and its transaction), `payLock` (an activation
that has changed the row and not committed). `agreements` is a history variable.

- The agreement and the expiration commit as one step each here; their rows are `Negotiation`'s subject.
  `Agree(f, p, q)` lets the price read at the start (`p`, put on the job) differ from the one in the row at
  its update (`q`), as the UPDATE's WHERE asks for the status only.
- The activation takes two steps, because the window can end between its `new Date()` and its commit.
- The reads of `createFinalPayment` are one step: job, negotiation and payment change only in ways that
  make some moment of the reading sequence show what the separate reads saw. The same holds for the two
  reads of the processor, which repeat the same tests.
- A conversation can be opened at any time, since `ensureConversation` looks at the job before it
  writes, and every job here was OPEN at first. A negotiation that is AGREED can be overwritten by a
  `propose` or `lock` that read it earlier (`Reopen`).
- An expiration that finds the job already started commits at its read of the job: it writes nothing after it.
- The amounts compared by the webhook always agree, since reference and amount are written by the same
  upsert; an honest Monnify never fails that test. `FAILED` is not reached: nothing calls
  `handleFailedPayment` for this type.
- The job's other writers (edit, moderation, late reports of a posting fee, completion, disputes) are not in this module.

### Negotiation

One job that is posted, one `negotiation` and `conversation` for each fixer who applied, the `job` row with
its terms, its FINAL `payment`. `propose`, `lock` and `close` check (`CheckPropose`, ...) and later write by id
(`Propose`, ...). `respondToLockedPrice` checks, opens its transaction and reads again (`ReadLocked`), claims with
`UPDATE ... WHERE status = 'LOCKED'` (`Claim`), and, for an acceptance, goes on to the job, the other
conversations and the payment. Activation and expiration take the same rows from the other end. A
transaction is its kind and `done`, the number of tables it has written and keeps locked; `Tables` gives
their order, `Become`/`Advance` its progress, and what it wrote is published when it commits. That is faithful
because within one transaction nobody reads what it wrote itself, and its writes do not depend on rows
written by others after it locked them. The UPDATE of several conversations (`CloseOthers`) fixes its set
when it starts, as READ COMMITTED does.

A callback after the payment window (`StartLate`, `ExpireLate`) is a call of its own: it tests the time when it finds the
row and only PENDING when it writes, so it can expire an attempt an agreement wrote since. The cron job's UPDATE asks for
`expiresAt <= now` with the clock of its scan, which a new attempt is always after: `CommitAccept` ends the
expirations that have not claimed the row yet.

`Deals` has one step for each thing that happens to the rows: a price is locked, rejected or agreed on, the attempt
runs out, is paid, lapses or is released. The refinement mapping is the identity on the four rows. `Deals` asks at the
moment of an agreement for an open job and an attempt that is neither paid nor still payable; `Negotiation` has read
both some steps before, and implements `Deals` because the locks it holds keep them so.

### Posting

One job, standard or urgent, with its JobPayment rows of type POSTING and URGENT, the Conversation of an urgent hire
and one applicant. `createPostingPayment` asks neither for the type nor for the status of the job, so an urgent job
can be charged the posting fee as well (`RequestCharge`), and each report acts by the type of its own row:
`PublishUrgent` sets or releases the fixer, `PublishPosting` leaves fixer and conversation alone. Each call reads
(`CheckCharge`, `FindPayment`, `ReadForFlag`, ...) and writes later by id (`WriteCharge`, `Flag`, `Unflag`, ...);
`call[c].saw` holds the fields it has selected of the job. Where the code writes several rows in a transaction they
are all behind one row held to its end, so the writes are one step. `screenJob` is an oracle: a text is FINE or
BANNED. Reports of a payment (webhook or return) may be repeated any number of times, which includes what the record
of processed webhooks would suppress; the two reads of the processor are merged. Where a query finds either of two
payments (`CheckDelete`), both are tried; the successful payment that was created last is the posting fee, since an
urgent hire is charged when the job is created. `WriteFirst` is a message of the client, which activates the
conversation (`chat.service.ts:385-387`); `Agree`, `StartJob` and `RunOut` are what `Negotiation` and `FinalPayment`
do to the same job.

### Settlement

Several jobs in progress, each of one of several fixers (`FixerOf`) whose wallets exist. `request`, `reject`,
`approve`, `open` and `resolve` are the calls; an approval reads (`ReadJob`), looks the payout up (`ReadPayout`) and
then settles or, when the job was paid before, only finishes. Transactions are modelled as in `Negotiation`. Inserted
unique keys count as rows: the second insert of a payout or a dispute waits for the first and fails when it commits
(`FailInsert`). `CreditPlatform` finds a platform wallet or, when none is committed, creates one: the first
settlements of two fixers' jobs lock different wallets, so each can create a platform wallet of its own
(`getOrCreatePlatformWallet`); jobs of one fixer queue for that fixer's wallet. The upsert before the increment may
lock the wallet's row already; taking the lock only at the increment admits more interleavings. Money is in milliFEC;
`CommissionOf` is rounded down. `Disputable` bounds the jobs a dispute can be opened on, and nothing else.

`Ledger` says what accounts and entries promise together; `Settlement` implements it for the fixers' wallets, one account
for each (`FixerLedger`), and for all platform wallets together as one account (`PlatformLedger`).

### AdminAccess

`admin` holds the Admin rows, `session` the AdminSession rows with the refresh token they accept, `access`
the access tokens that were issued. A token carries the version and, as history, the `era`: how often
access had been withdrawn when it was signed. Each statement is a step; withdrawing access takes two
(`Withdraw`, `Bump`), and a server that stops between them is a call that takes no further step. Time is the step
`LockExpires`. `Others` counts active super administrators outside the modelled accounts.

### Verification

`identity` holds the IdentityVerification row of each user (status, NIN, whom the selfie shows, the verdict on the NIN
image, the fields asked for again, the id of the indexed face), `reverify` is `User.forceReverify`, `face` what AWS
Rekognition keeps under each id. A submission reads row and user (`Submit`), looks for the NIN (`CheckNin`) and the
face (`Search`, `FindOwner`) and writes (`Save`, where the unique columns decide). An approval reads, searches,
indexes (`Index`), writes row and flag in a transaction (`Approve`, or `FailApproval`) and removes the face it
replaces, or its own if it failed (`Remove`). An error of the transaction is taken to mean that it has no effect. Of
all fields a resubmission can be asked for, the NIN image and the selfie matter; who a selfie shows and which number
an image carries are oracles.

## 3. Runs

| run | instance | properties |
|---|---|---|
| `withdrawals` | 2 earnings, 3 withdrawals, 2 administrators, payouts and amounts 1 and 2 | `TypeOK`, `EarningsConserved`, `WithdrawalsBacked`, `NothingHidden`, `DeadlockNeedsReview`, `ImplementsBook`, `DecisionsAreFinal` |
| `withdrawals_end` | the same with one administrator and payout 2, from an account with both earnings recorded and one withdrawal granted | `TransactionsEnd` |
| `final_payment` | 2 fixers, 2 prices, 2 attempts, 2 callbacks, 1 call | `TypeOK`, `StartedAsAgreed`, `StartedAfterPayment`, `AttemptsAreAgreed`, `TerminalIsFinal` |
| `final_fair` | 1 fixer, 1 price, 3 attempts, 1 callback, 2 calls, under fairness | `InProgressNeverReset`, `OverdueResolved` |
| `negotiation` | 2 fixers, 2 prices, 2 calls or transactions at once | `TypeOK`, `AttemptFollowsJob`, `OneOpenAgreement`, `OnlyPaymentDeadlocks`, `ImplementsDeals` |
| `posting` | 3 references, 2 calls | `TypeOK`, `PublishedAfterPayment`, `ListedAsPaid`, `FlagOutlivesReports`, `SuccessIsKept` |
| `settlement` | `Payouts`: 2 jobs of 2 fixers at 11 and 25 milliFEC, disputes on the first (`Disputable`), 2 calls, 2 platform wallets, 1 withdrawal of 4 or 10 by the first job's fixer, under fairness | `TypeOK`, `CompletedIsPaid`, `StatusFollowsDispute`, `RequestedIsPending`, `OnlyResolutionsDeadlock`, `MoneyAccounted`, `BooksImplemented`, `TransactionsEnd` |
| `admin_access` | 1 account, 2 sessions, 2 calls, lock after 2 failures, versions to 3, 3 refresh tokens | `TypeOK`, `WithdrawnStaysOut`, `LockoutIsBounded` |
| `verification` | 2 users, 2 NINs, 1 person, 2 face ids, 2 calls | `TypeOK`, `FacesAreKept`, `OneAccountPerNin` |
| `expiry_releases` | 2 fixers, 1 price, 2 attempts, 1 callback, 1 call, under fairness | `ExpiryReleasesJob` is violated |
| `started_by_its_payment` | the same, safety only | `StartedByItsPayment` is violated |
| `agreed_as_read` | 1 fixer, 2 prices, 2 calls | `AgreedAsRead` is violated |

Bounds. Two earnings and amounts up to 2 let a withdrawal span earnings, share one with another, empty one and leave a
part; a third withdrawal can take what a rejection gives back; two administrators race for one decision; two
transactions locking in opposite orders deadlock. For the payment, one attempt, its replacement and a stale third
write are the chain the races need; two callbacks are the pair that can both pass the first test; a second fixer can
agree while the first one's attempt is overdue. References are never reused, so their number bounds the attempts. In
the row-by-row modules two calls at once give every pair of transactions; a finished call's slot is reused, so
sequences of any length occur. 11 and 25 milliFEC split unevenly, into different commissions; a withdrawal of 4 leaves
a part of the payout, one of 10 empties it. Prices without a commission, several jobs of one fixer and disputes on
every job are covered by the theorems, which hold for all constants. Two settlements at once, of different fixers'
jobs, do create two platform wallets, and cannot create more. Versions and tokens are bounded by guards (`MaxVersion`,
`MaxTokens`), which stop further withdrawals and logins and nothing else. One person in `Verification` is the case
duplicates are about - several accounts of the same face - and two face ids allow an approval, its replacement or its
rival. `Requests` lists the sets of fields a rejection may ask for. The safety runs use symmetry under permutation of
interchangeable values (not earnings, which are ordered); the liveness runs use none.

Deadlock checking is off: when every earning is recorded and every withdrawal decided, when a job
has started and the references are used up, or when face ids or versions are, the modelled system is at
rest. That no transaction is left waiting is `TransactionsEnd`; `OnlyPaymentDeadlocks`, `OnlyResolutionsDeadlock` and
`DeadlockNeedsReview` say which transactions a database deadlock can hit.

Fairness. `Withdrawals` and `Settlement`: a transaction in progress executes its next statement, strongly
fair because PostgreSQL queues the waiters of a row; the deadlock detector runs. Nobody has to start a
request or a review, or to abort one. `FinalPayment`: the cron job runs every minute (weakly fair
`Scan`) and its UPDATE gets the row eventually (strongly fair); an open activation commits or is rolled
back. Clients, fixers and Monnify owe nothing.

### Disagreements between the code and what it says

1. `expiry_releases`: a callback that comes after the payment window sets the payment to EXPIRED itself
   (`job-payment-processor.service.ts:597`, and the same in `handleSuccessfulPayment`) and stops. The cron
   job only looks for PENDING rows, so the release its comment describes
   (`final-payment-expiration.service.ts:117-127`) never happens: the job stays OPEN with a fixer and off the
   marketplace until the client makes a new attempt.
2. `started_by_its_payment`: the webhook and the return find the row by reference, the processor reads it
   again by id. If the attempt was replaced in between, the unpaid replacement is activated. In the
   trace the replacement follows a renewed agreement; a plain `createFinalPayment` after the window does
   it as well. `StartedAfterPayment`, which holds, says what remains true: the client has paid something.
3. `agreed_as_read`: the UPDATE that accepts a locked price asks for the status only. When the price is locked anew
   between the transaction's read and this UPDATE, the new one is accepted unseen: the job gets the price that
   was read, the payment the new one (`chat.service.ts:795`).

### What the models also show

States the models reach and no property forbids, because nothing in the repository says what should happen:

- `createFinalPayment` checks an overdue attempt and upserts later without a condition: it can replace the fresh
  attempt another request wrote since (its payment page is then worth nothing), or a row that was paid. The job keeps
  running (`InProgressNeverReset`), but its payment is shown as pending and later expired. Between agreements
  the job's row prevents this (`ImplementsDeals`).
- A callback that found an attempt overdue expires whatever is PENDING when it writes, so also the fresh attempt of
  an agreement that was reached in between (`LiveAttemptKept` names this exception).
- `flagJob` that reads the fixer before a payment connects it leaves the conversation active. `unflagJob` that reads
  the payment before it is reported leaves a paid, unflagged job in DRAFT; with a stale status it connects the
  conversation of an urgent hire that was released since, or sets a job that was started meanwhile back to OPEN.
- `createPostingPayment` accepts every job, also an urgent or a started one. When the
  posting fee of an urgent job is reported, the job opens whatever became of its fixer: a job that was held or released
  without its fixer is listed on the marketplace, and one that was never paid as an urgent hire opens with its fixer. A
  report that comes after the job was started takes it back to OPEN or DRAFT. The report of the second payment clears a
  flag that was set since it was screened (`FlagOutlivesReports` names this exception). The client can activate the
  conversation of an urgent hire before paying.
- `deleteDraftJob` looks at one payment, and which one is arbitrary: a paid urgent job that was released to DRAFT can be
  deleted if its posting fee is pending. It can delete a job that is paid meanwhile. Two calls that both find no
  posting payment can reset one that succeeded (the exception in `SuccessIsKept`). The text of a job can be edited after it was screened.
  `applyToJob` creates the application before it refuses a flagged job.
- The administrator's trace of a fixer (`admin-finance.repo.ts:100-119`) reads earnings and withdrawals in separate
  statements, the ledger page (`admin-ledger.repo.ts:132-149`, `216-219`) wallets and entries. What they compare agrees
  in every committed state (section 4), but a commit between their statements makes them report a difference that is
  not there.
- Resolving a dispute that was opened while the job was being approved takes a COMPLETED job back to
  IN_PROGRESS; approving it again then only finishes it (`BooksImplemented`).
- Two super administrators can deactivate each other. Two refreshes of one token leave one client with a token that is
  not in the database.
- Two approvals that overlap both search before either has indexed, so one face can get two verified accounts;
  the comment "so a newer approved identity cannot slip through" (`admin-verification.service.ts:110`) covers
  approvals that were committed. An approved account that has to verify again counts as PENDING, so another account
  with its face can be approved meanwhile. A resubmission does not reset the verdict on the NIN image, so a new image is
  approvable under the old verdict. An approval writes APPROVED over whatever the row holds by then and clears a flag
  set meanwhile. `forceReverify` accepts a submission while one is pending, which the web page excludes
  (`apps/web/src/app/app/verification/page.tsx:217-223`).

## 4. Theorems

All proofs are for arbitrary constants, under the assumptions in the modules: earnings, withdrawals, jobs, fixers,
platform wallets, accounts, reviews in progress and the calls of `AdminAccess`, `Negotiation` and `Settlement` are
finite sets, earnings are numbered, amounts and prices are positive, every job has a fixer, the payee is a fixer,
`None` is none of the other values, and withdrawals and administrators have different names. Each module has an
inductive invariant `IInv`; the listed theorems are its parts, or action properties and refinements that follow from
it.

**Withdrawals.** `IInv` is `TypeOK`, the three money invariants, and
`RequestsConsistent /\ ReviewsConsistent`. The money invariants alone are not inductive: a
commit replaces every locked row by its draft, and only the two consistency invariants say what the drafts
are - the reservation the request has counted, of a row that still covers it, or the reviewed version
of a row the withdrawal really holds. From them a commit is shown to be exactly `Grant` or `Decide`
(`Implements`), every other step a stutter, and `Earn`, `Grant` and `Decide` keep the money invariants
(`BookSafe`). So `Conserved`, `Backed` and `Visible` are proved once, about the
indivisible operations, and carried to the interleaved ones by the refinement. `Final` is the action
property. `FiniteSums` provides what is needed about sums over finite sets (removal of an index, change at
one index, bounds); where induction is needed it argues with a minimal counterexample in a set of
finite sets, from the well-foundedness of inclusion.

`BookSums` follows from the two sums in `Conserved` and `Backed`: earned is available plus taken, over all earnings.
The double sum over withdrawals and earnings is exchanged (`SumSwap`), once to see each earning's shares and once to
see each withdrawal's. It is about committed rows read together, and a lemma for `Accounted` below.
`ReviewsInDeadlocks` needs one more inductive invariant, that requests lock in ascending order (`LocksInOrder`): among
requests that wait in a cycle the one waiting for the oldest earning would hold an older one for another of them.

**FinalPayment.** `IInv` adds to the checked invariants that a callback past
Monnify's answer stands for a paid transaction (`ConfirmedPaid`: payments are not taken back) and that the
row's reference was drawn (`ReferenceUsed`: a new attempt has another). `StartsAsAgreed` follows
because terms travel unchanged from agreement to row to callback to job (`AttemptsKeepTerms`), although
each hop may be overtaken; `TerminalStays` because every writer of an old attempt tests PENDING or
owns the row (`ActivationIsExclusive`); `StartedStays` because the expiration reads the job again.

**Negotiation.** `IInv` says what every kind of transaction may rely on once it has come so far (`CallOK`), and that
no two hold the job, the payment or the same negotiation (`Apart`). An acceptance that has reached the payment knows
the job is OPEN and the attempt, if any, overdue: nobody can change either while it holds the job, since activation
and release need it too. `OneAgreement` holds because agreements queue for the job's row, and the set of conversations
an agreement closes is fixed after it got it. `DeadlockVictims`: a transaction that waits holds rows another one
wants; the orders of `Tables` agree except between those that end at the payment and those that begin there.
`Implements` shows that whatever changes a row is one step of `Deals` and everything else a stutter: `CallOK` is what
the abstract guards need at that moment. `DealsKeepOrder` is about the indivisible operations alone: they keep the
attempt with the fixer of the job, one agreement open, and an attempt that is paid or payable.

**Posting.** What needs a payment comes after one (`RowsPaid`, `CallsPaid`: also what a call has found or is
reporting); an open job without a fixer has its posting fee paid (`Placed`), because whoever opens a job for its
urgent fee gives it the fixer in the same write, and whoever takes the fixer off an urgent job takes it back to DRAFT.
A payment of an urgent hire, and a call about one, is of an urgent job (`UrgentRow`, `UrgentCalls`). A flag is cleared
by three writers only (`Writers`), two of which claim a payment.

**Settlement.** The first settlement of a job holds the key of its payout, so it is alone (`SettlesAlone`) until it
commits; after that every approval finds the payout and only finishes (`PaidOut`). So money is booked all together
(`BookedTogether`), once, and each commit is `Book` of both ledgers or a stutter (`FixerBooks`, `PlatformBooks`).
`PlatformBooks` is about one account, the sum of the platform's wallets, because a race may have created several.
`BalancesAreSums` adds up over any set of fixers: in the committed rows their wallets hold the payouts of their jobs,
and the platform's wallets all commissions.

**Payouts.** `PayoutsSettle` and `EarningsFed`: it implements `Settlement` and `EarningsBook`, the latter because a
job that was not paid out has no earning yet, so the upsert inserts. `BooksKept` carries the ledgers over, and
`Accounted` combines what is proved of the parts: the prices of the paid jobs are commissions plus payouts, the
commissions are what the platform holds and the other fixers' payouts what their wallets hold (`BalancesAreSums`), the
payee's payouts are the earnings, and those are available or taken (`BookSums`).

**Nobody hangs.** In a finite set of transactions each of which waits for another there is a cycle
(`WaitCycle` of `FiniteSums`: a smallest nonempty set whose members wait inside it). With the theorem on who can be on
a cycle, each of the three modules with row locks gets `NobodyHangs`: as long as calls are in progress, one of them
waits for nobody, or the database has a deadlock between calls of the kinds named there to notice. This is the part of
`TransactionsEnd` that a state can show; the rest is fairness.

**AdminAccess.** No token, and no token a call will sign, is ahead of its account; one with the current version is of the
current era unless a `Bump` of the account is pending (`Stale`). For the lockout: attempts plus the
failures in progress that will not lock stay below `LockAfter` plus the number of calls (`FailuresOK`).

**Verification.** A face that an approval has indexed is in no row (`Fresh`), the face it will replace is the
user's or nobody's (`Replaced`), and no two approvals are about to write or remove the same face
(`Apart`); no two rows name one face (`OneFaceEach`). Hence whatever is removed is in no row.

Only model-checked: the two `TransactionsEnd` and `OverdueResolved`. Liveness under fairness and
ENABLED are beyond the prover.

## 5. Abstractions common to all modules

`updateMany`, `update`, `upsert` and unique inserts on one row are atomic, as PostgreSQL makes them. Identifiers,
texts, dates and amounts are members of small sets; formatting, notifications, audit records and logs are left out. A
crash, a lost connection or an exception between two steps is a call that ends there (`Abort`) or takes no further
step. Input validation that refuses a call at its start, before any state is touched, appears as a guard or not at
all.

## 6. Not modelled

- *Deposits*: the endpoints answer CLIENT_WALLET_DEPOSITS_DISABLED (`wallet.controller.ts:186-205`), so no
  deposit is created. Monnify itself, and its signature check, are external.
- *User authentication*: sessions follow the scheme `AdminAccess` models; the rest is e-mail and hashing.
- *Creation of administrators*, session listings and the audit log.
- *Reports, profiles, availability, content, analytics, dashboards, settings, messaging of administrators*: queries and
  single-row edits by one actor.
- *Notifications and realtime*: output whose failures are swallowed.
- *Message moderation and screening of texts*: pattern matching; `Posting` takes the verdict as given.
- *The web client*: presentation; the server trusts none of its state. It is more than half of the repository's lines.
- *Files* of verification and jobs: storage and its clean-up.
- `restoreWithdrawal`, `finalizeWithdrawal`, `releaseForJob` and `recalculateBalance` have no caller.

## 7. Plan

1. *Done:* the modules of section 2 with their runs and theorems.
2. A life cycle of the job (draft, open, in progress, disputed, completed) that `Posting`, `Negotiation`,
   `FinalPayment` and `Settlement` implement in turn, so that what one assumes of the others' writes is checked;
   it has to admit a late report of a posting fee, which writes the status of a job in any phase.
3. `Deals` extended by the new attempts of `createFinalPayment`, with `FinalPayment` as a second implementation.
4. User sessions, on the pattern of `AdminAccess`.
