---------------------------- MODULE FinalPayment ----------------------------
(***************************************************************************)
(* The FINAL payment of one job: from the agreed price to the started job. *)
(*                                                                         *)
(* The agreement (chat.service) puts the fixer and the price on the job    *)
(* and writes the one FINAL row of JobPayment, with a fresh payment        *)
(* reference and half an hour to pay.  Four kinds of process then change   *)
(* the same rows:                                                          *)
(*   - the client's POST final/:jobId, which replaces the row;             *)
(*   - Monnify's webhook and the client's return from the payment page,    *)
(*     which both hand the row's id to the payment processor;              *)
(*   - the cron job that expires overdue rows and releases the job;        *)
(*   - agreements with other fixers.                                       *)
(* Each reads rows, decides, and writes later; what it read is kept in its *)
(* own variable meanwhile.  An UPDATE evaluates its WHERE on the committed *)
(* row and waits for the transaction that holds it (payLock).  Monnify is  *)
(* an external service: a charge is paid at most once, its webhook may     *)
(* come late, again or not at all.                                         *)
(***************************************************************************)
EXTENDS FiniteSets

CONSTANTS Fixers,      \* the fixers that may apply; one conversation each
          Prices,      \* prices the two sides may lock
          References,  \* payment references (UUIDs) that can be drawn
          Callbacks,   \* webhook or verify calls in progress at once
          Calls,       \* createFinalPayment calls in progress at once
          None         \* SQL NULL

ASSUME NoneAssumption == None \notin Fixers \cup Prices \cup References \cup Callbacks

VARIABLES job,         \* the Job row
          chat,        \* the Conversation of each fixer
          agreed,      \* the price of a Negotiation that is AGREED, else None
          payment,     \* the JobPayment row of type FINAL
          payLock,     \* the activation that holds that row, not yet committed
          charge,      \* the transactions Monnify knows
          recorded,    \* the references in WebhookEvent
          callback,    \* the progress of each webhook or verify call
          call,        \* what each createFinalPayment call has checked and will write
          scan,        \* the overdue row the cron job found, by its reference
          agreements   \* (history) every fixer and price that has been AGREED

rows == <<job, chat, agreed, payment, agreements>>
processes == <<payLock, recorded, callback, call, scan>>
vars == <<rows, charge, processes>>

Pair == [fixer : Fixers, price : Prices]
NoPair == [fixer |-> None, price |-> None]
Job == [posting : {"STANDARD", "URGENT"}, status : {"OPEN", "DRAFT", "IN_PROGRESS"},
        fixer : Fixers \cup {None}, price : Prices \cup {None}]
Payment == [status : {"PENDING", "SUCCESS", "EXPIRED"}, reference : References,
            terms : Pair, overdue : BOOLEAN]
Callback == [pc : {"ask", "look", "expire", "activate", "commit", "record"},
             via : {"webhook", "verify"}, reference : References, terms : Pair \cup {NoPair}]

NoPayment == [status |-> "NONE", reference |-> None, terms |-> NoPair, overdue |-> FALSE]
Idle == [pc |-> "idle", via |-> "webhook", reference |-> None, terms |-> NoPair]

TypeOK ==
  /\ job \in Job
  /\ chat \in [Fixers -> {"NONE", "OPEN", "CLOSED"}]
  /\ agreed \in [Fixers -> Prices \cup {None}]
  /\ payment \in Payment \cup {NoPayment}
  /\ payLock \in Callbacks \cup {None}
  /\ charge \in [References -> {"unused", "failed", "open", "paid"}]
  /\ recorded \in SUBSET References
  /\ callback \in [Callbacks -> Callback \cup {Idle}]
  /\ call \in [Calls -> Pair \cup {NoPair}]
  /\ scan \in References \cup {None}
  /\ agreements \in SUBSET Pair

\* A posted job without a fixer, or an urgent one that was paid for a chosen fixer.
Init ==
  /\ \/ /\ job = [posting |-> "STANDARD", status |-> "OPEN", fixer |-> None, price |-> None]
        /\ chat = [f \in Fixers |-> "NONE"]
     \/ \E f \in Fixers :
          /\ job = [posting |-> "URGENT", status |-> "OPEN", fixer |-> f, price |-> None]
          /\ chat = [g \in Fixers |-> IF g = f THEN "OPEN" ELSE "NONE"]
  /\ agreed = [f \in Fixers |-> None]
  /\ payment = NoPayment
  /\ payLock = None
  /\ charge = [r \in References |-> "unused"]
  /\ recorded = {}
  /\ callback = [d \in Callbacks |-> Idle]
  /\ call = [c \in Calls |-> NoPair]
  /\ scan = None
  /\ agreements = {}

-----------------------------------------------------------------------------
(* The payment row. *)

Expirable == payment.status = "PENDING" /\ payment.overdue

\* createFinalPayment's checks on the row it may replace.
Replaceable == payment.status # "SUCCESS" /\ (payment.status = "PENDING" => payment.overdue)

\* The upsert of a new attempt: it waits for the row, and asks nothing of it.
\* Monnify may then refuse or not answer the request for a payment page.
NewAttempt(terms, outcomes) ==
  /\ payLock = None
  /\ \E r \in References, o \in outcomes :
       /\ charge[r] = "unused"
       /\ payment' = [status |-> "PENDING", reference |-> r, terms |-> terms, overdue |-> FALSE]
       /\ charge' = [charge EXCEPT ![r] = o]

CloseOthers(f) == [g \in Fixers |-> IF g # f /\ chat[g] = "OPEN" THEN "CLOSED" ELSE chat[g]]

-----------------------------------------------------------------------------
(* Conversations and agreements. *)

\* ensureConversation: job.status was OPEN when it was read, as every job of
\* this module once was, and is not looked at again.
OpenChat(f) ==
  /\ chat[f] = "NONE"
  /\ chat' = [chat EXCEPT ![f] = "OPEN"]
  /\ UNCHANGED <<job, agreed, payment, agreements, charge, processes>>

Terms(f, p) == [fixer |-> f, price |-> p]

\* (bug) the payment is written with the price read at the start
AgreeAsRead(f, p, q) ==
  /\ job.status = "OPEN"
  /\ chat[f] = "OPEN"
  /\ agreed[f] = None
  /\ Replaceable
  /\ NewAttempt(Terms(f, p), {"open"})
  /\ job' = [job EXCEPT !.fixer = f, !.price = p]
  /\ chat' = CloseOthers(f)
  /\ agreed' = [agreed EXCEPT ![f] = q]
  /\ agreements' = agreements \cup {Terms(f, q)}
  /\ UNCHANGED processes

\* respondToLockedPrice, accepted by the second side, with finalizeNegotiationAgreement and
\* createFinalPayment in one transaction.  p is the price read at its start; the
\* row that becomes AGREED, and is read again for the payment, may hold another
\* price q by then.  Any failure, of Monnify too, undoes the agreement.
Agree(f, p, q) ==
  /\ job.status = "OPEN"
  /\ chat[f] = "OPEN"
  /\ agreed[f] = None
  /\ Replaceable
  /\ NewAttempt(Terms(f, q), {"open"})
  /\ job' = [job EXCEPT !.fixer = f, !.price = p]
  /\ chat' = CloseOthers(f)
  /\ agreed' = [agreed EXCEPT ![f] = q]
  /\ agreements' = agreements \cup {Terms(f, q)}
  /\ UNCHANGED processes

\* propose or lock read the negotiation before it was AGREED and writes it after.
Reopen(f) ==
  /\ agreed[f] # None
  /\ agreed' = [agreed EXCEPT ![f] = None]
  /\ UNCHANGED <<job, chat, payment, agreements, charge, processes>>

-----------------------------------------------------------------------------
(* createFinalPayment called by the client. *)

CheckFinal(c, f) ==
  /\ call[c] = NoPair
  /\ job.status = "OPEN"
  /\ chat[f] = "OPEN"
  /\ agreed[f] # None
  /\ Replaceable
  /\ call' = [call EXCEPT ![c] = Terms(f, agreed[f])]
  /\ UNCHANGED <<rows, charge, payLock, recorded, callback, scan>>

\* (bug) the negotiation is read again, after the checks
WriteFinalReread(c) ==
  /\ call[c] # NoPair
  /\ NewAttempt(Terms(call[c].fixer, agreed[call[c].fixer]), {"open", "failed"})
  /\ call' = [call EXCEPT ![c] = NoPair]
  /\ UNCHANGED <<job, chat, agreed, agreements, payLock, recorded, callback, scan>>

WriteFinal(c) ==
  /\ call[c] # NoPair
  /\ NewAttempt(call[c], {"open", "failed"})
  /\ call' = [call EXCEPT ![c] = NoPair]
  /\ UNCHANGED <<job, chat, agreed, agreements, payLock, recorded, callback, scan>>

-----------------------------------------------------------------------------
(* Outside: the client pays, time passes. *)

Pay(r) ==
  /\ charge[r] = "open"
  /\ charge' = [charge EXCEPT ![r] = "paid"]
  /\ UNCHANGED <<rows, processes>>

Tick ==
  /\ payment.status = "PENDING" /\ ~ payment.overdue
  /\ payment' = [payment EXCEPT !.overdue = TRUE]
  /\ UNCHANGED <<job, chat, agreed, agreements, charge, processes>>

-----------------------------------------------------------------------------
(* Webhooks, returns from the payment page, and the payment processor. *)

Goto(d, pc) == callback' = [callback EXCEPT ![d].pc = pc]

Start(d, pc, via, r) ==
  /\ callback[d] = Idle
  /\ callback' = [callback EXCEPT ![d] = [pc |-> pc, via |-> via, reference |-> r,
                                          terms |-> NoPair]]
  /\ UNCHANGED <<rows, charge, payLock, recorded, call, scan>>

\* handleWebhook finds the row by its reference; a known event is not processed again.
Webhook(d, r) ==
  /\ charge[r] = "paid"
  /\ payment.reference = r
  /\ r \notin recorded
  /\ Start(d, "look", "webhook", r)

\* verifyPaymentFromReturn finds the row by its reference...
Verify(d, r) ==
  /\ payment.reference = r
  /\ payment.status # "SUCCESS"
  /\ Start(d, "ask", "verify", r)

\* (bug) only the transaction's existence is verified
AnswerUnpaid(d) ==
  /\ callback[d].pc = "ask"
  /\ charge[callback[d].reference] # "unused"
  /\ Goto(d, "look")
  /\ UNCHANGED <<rows, charge, payLock, recorded, call, scan>>

\* ... and asks Monnify; an unpaid transaction ends the call.
Answer(d) ==
  /\ callback[d].pc = "ask"
  /\ charge[callback[d].reference] = "paid"
  /\ Goto(d, "look")
  /\ UNCHANGED <<rows, charge, payLock, recorded, call, scan>>

\* The processor is done; only the webhook is written down.
Finish(d) ==
  IF callback[d].via = "webhook" THEN Goto(d, "record")
                                 ELSE callback' = [callback EXCEPT ![d] = Idle]

\* (bug) the fixer of the job, the price of the payment
ActivatesJobFixer == Terms(job.fixer, payment.terms.price)

\* What completeFinalPayment takes from the row for the job.
Activates == payment.terms

\* handleSuccessfulPayment and completeFinalPayment read the row by its id,
\* whatever reference it has by now.
Look(d) ==
  /\ callback[d].pc = "look"
  /\ \/ /\ payment.status \in {"SUCCESS", "EXPIRED"}
        /\ Finish(d)
     \/ /\ Expirable
        /\ Goto(d, "expire")
     \/ /\ payment.status = "PENDING" /\ ~ payment.overdue
        /\ callback' = [callback EXCEPT ![d].pc = "activate", ![d].terms = Activates]
  /\ UNCHANGED <<rows, charge, payLock, recorded, call, scan>>

\* (bug) the UPDATE of a late callback by id only
ExpireAnyStatus(d) ==
  /\ callback[d].pc = "expire"
  /\ payLock = None
  /\ payment' = [payment EXCEPT !.status = "EXPIRED"]
  /\ Finish(d)
  /\ UNCHANGED <<job, chat, agreed, agreements, charge, payLock, recorded, call, scan>>

\* The late callback's UPDATE: EXPIRED where the row is PENDING.
Expire(d) ==
  /\ callback[d].pc = "expire"
  /\ payLock = None
  /\ payment' = IF payment.status = "PENDING" THEN [payment EXCEPT !.status = "EXPIRED"]
                                              ELSE payment
  /\ Finish(d)
  /\ UNCHANGED <<job, chat, agreed, agreements, charge, payLock, recorded, call, scan>>

\* The WHERE of the activation.
Unpaid == payment.status = "PENDING" /\ ~ payment.overdue

\* The activation's transaction changes the row and holds it...
Activate(d) ==
  /\ callback[d].pc = "activate"
  /\ payLock = None
  /\ Unpaid
  /\ payLock' = d
  /\ Goto(d, "commit")
  /\ UNCHANGED <<rows, charge, recorded, call, scan>>

\* ... or finds that another process was first.
TooLate(d) ==
  /\ callback[d].pc = "activate"
  /\ payLock = None
  /\ ~ Unpaid
  /\ Finish(d)
  /\ UNCHANGED <<rows, charge, payLock, recorded, call, scan>>

\* ... then starts the job with the fixer and the price read by Look.
CommitActivation(d) ==
  /\ callback[d].pc = "commit"
  /\ payment' = [payment EXCEPT !.status = "SUCCESS"]
  /\ job' = [job EXCEPT !.status = "IN_PROGRESS", !.fixer = callback[d].terms.fixer,
                        !.price = callback[d].terms.price]
  /\ chat' = [f \in Fixers |-> IF f # callback[d].terms.fixer /\ chat[f] # "NONE"
                             THEN "CLOSED" ELSE chat[f]]
  /\ payLock' = None
  /\ Finish(d)
  /\ UNCHANGED <<agreed, agreements, charge, recorded, call, scan>>

Record(d) ==
  /\ callback[d].pc = "record"
  /\ recorded' = recorded \cup {callback[d].reference}
  /\ callback' = [callback EXCEPT ![d] = Idle]
  /\ UNCHANGED <<rows, charge, payLock, call, scan>>

\* The call ends early: an error, a refused verification, a crash of the server.
\* An open transaction is rolled back; Monnify sends an unanswered webhook again.
Stop(d) ==
  /\ callback[d].pc # "idle"
  /\ callback' = [callback EXCEPT ![d] = Idle]
  /\ payLock' = IF payLock = d THEN None ELSE payLock
  /\ UNCHANGED <<rows, charge, recorded, call, scan>>

-----------------------------------------------------------------------------
(* expirePendingFinalPayments. *)

Scan ==
  /\ scan = None
  /\ Expirable
  /\ scan' = payment.reference
  /\ UNCHANGED <<rows, charge, payLock, recorded, callback, call>>

\* A row that was replaced since the scan expires after the scan's clock.
Claimable == payment.status = "PENDING" /\ payment.reference = scan

\* (bug) the job is taken to be OPEN still, as the scan saw it
ReleasesAlways == TRUE

Releases == job.status = "OPEN"

\* (bug) only a job that can be released makes the payment expire
ClaimIfOpen ==
  /\ scan # None
  /\ payLock = None
  /\ Claimable
  /\ Releases
  /\ payment' = [payment EXCEPT !.status = "EXPIRED"]
  /\ job' = [job EXCEPT !.status = IF job.posting = "URGENT" THEN "DRAFT" ELSE "OPEN",
                        !.fixer = None, !.price = None]
  /\ chat' = [chat EXCEPT ![payment.terms.fixer] = "CLOSED"]
  /\ scan' = None
  /\ UNCHANGED <<agreed, agreements, charge, payLock, recorded, callback, call>>

\* The transaction claims the row and releases a job that has not started.
Claim ==
  /\ scan # None
  /\ payLock = None
  /\ Claimable
  /\ payment' = [payment EXCEPT !.status = "EXPIRED"]
  /\ IF Releases
     THEN /\ job' = [job EXCEPT !.status = IF job.posting = "URGENT" THEN "DRAFT" ELSE "OPEN",
                                !.fixer = None, !.price = None]
          /\ chat' = [chat EXCEPT ![payment.terms.fixer] = "CLOSED"]
     ELSE UNCHANGED <<job, chat>>
  /\ scan' = None
  /\ UNCHANGED <<agreed, agreements, charge, payLock, recorded, callback, call>>

\* The transaction or the server fails, until the next minute.
LeaveScan ==
  /\ scan # None
  /\ scan' = None
  /\ UNCHANGED <<rows, charge, payLock, recorded, callback, call>>

\* Another process was first.
MissedClaim == payLock = None /\ ~ Claimable /\ LeaveScan

-----------------------------------------------------------------------------
Next ==
  \/ \E f \in Fixers :
       \/ OpenChat(f)
       \/ \E p, q \in Prices : Agree(f, p, q)
       \/ Reopen(f)
  \/ \E c \in Calls :
       \/ \E f \in Fixers : CheckFinal(c, f)
       \/ WriteFinal(c)
  \/ \E r \in References : Pay(r)
  \/ Tick
  \/ \E d \in Callbacks :
       \/ \E r \in References : Webhook(d, r) \/ Verify(d, r)
       \/ Answer(d)
       \/ Look(d)
       \/ Expire(d)
       \/ Activate(d)
       \/ TooLate(d)
       \/ CommitActivation(d)
       \/ Record(d)
       \/ Stop(d)
  \/ Scan
  \/ Claim
  \/ MissedClaim
  \/ LeaveScan

Spec == Init /\ [][Next]_vars
-----------------------------------------------------------------------------
\* The cron job runs every minute, and its UPDATE gets the row in the end (SF: other
\* writers may come in between); an open activation commits or is rolled back.
\* Clients, fixers and Monnify owe nothing.
Fairness ==
  /\ WF_vars(Scan)
  /\ SF_vars(Claim \/ MissedClaim)
  /\ \A d \in Callbacks : WF_vars(CommitActivation(d) \/ (payLock = d /\ Stop(d)))

FairSpec == Spec /\ Fairness

-----------------------------------------------------------------------------
(* Properties. *)

\* A paid or expired attempt stays so: whichever of a callback, the cron job and a
\* second callback is late finds that it is too late (the checks and the WHERE
\* clauses of the processor and of the expiration service).
TerminalIsFinal ==
  [][payment.status \in {"SUCCESS", "EXPIRED"} /\ payment'.reference = payment.reference
       => payment'.status = payment.status]_vars

\* A started job is never put back on the market or to a draft, although a
\* replaced payment of a started job can be overdue and expire.
InProgressNeverReset ==
  [][job.status = "IN_PROGRESS" => job'.status = "IN_PROGRESS"]_vars

\* A job starts with a fixer at a price that were agreed together, however many
\* attempts, replaced rows and callbacks lie between the agreement and the payment.
StartedAsAgreed ==
  job.status = "IN_PROGRESS" => Terms(job.fixer, job.price) \in agreements

\* No job starts before the client has paid some attempt, by whichever way the
\* confirmation comes.
StartedAfterPayment ==
  job.status = "IN_PROGRESS" => \E r \in References : charge[r] = "paid"

\* Attempts do not mix: a row carries the fixer and price of one agreement, and so
\* does everything that was read from it and will be written later.
AttemptsAreAgreed ==
  /\ \A f \in Fixers : agreed[f] # None => Terms(f, agreed[f]) \in agreements
  /\ payment.status # "NONE" => payment.terms \in agreements
  /\ \A c \in Calls : call[c] # NoPair => call[c] \in agreements
  /\ \A d \in Callbacks : callback[d].pc \in {"activate", "commit"} =>
                            callback[d].terms \in agreements

\* The row an activation holds is still the unpaid one it claimed when it commits:
\* nobody expires, replaces or activates it in between.
ActivationOwnsRow ==
  /\ payLock # None => payment.status = "PENDING" /\ callback[payLock].pc = "commit"
  /\ \A d \in Callbacks : callback[d].pc = "commit" => payLock = d

\* A payment whose time is over does not stay PENDING, whatever keeps replacing or
\* paying it (expirePendingFinalPayments).
OverdueResolved == Expirable ~> ~ Expirable

\* What the expiration promises: when the payment of a job that has not started
\* expires, its fixer is removed again.
ExpiryReleasesJob ==
  payment.status = "EXPIRED" /\ job.status = "OPEN" ~>
    payment.status # "EXPIRED" \/ job.status # "OPEN" \/ job.fixer = None

\* What the code says of the job's start: it follows the payment of the attempt the
\* row stands for.
StartedByItsPayment ==
  payment.status = "SUCCESS" => charge[payment.reference] = "paid"
=============================================================================
