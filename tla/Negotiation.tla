---------------------------- MODULE Negotiation ----------------------------
(***************************************************************************)
(* The price negotiations of one posted job, one for each fixer who        *)
(* applied: propose, lock, respond and close (chat.service), against each  *)
(* other and against the activation and the expiration of a FINAL payment. *)
(*                                                                         *)
(* propose and lock check the negotiation they read and later write it     *)
(* with an UPDATE by id.  A response reads it again inside a transaction,  *)
(* claims it with UPDATE ... WHERE status = 'LOCKED', and an acceptance    *)
(* goes on to the job, the other conversations and the payment.  As in     *)
(* module Settlement, a transaction in progress is its kind and the number *)
(* of rows it has written (done) and keeps locked; its effects are         *)
(* published when it commits.  Module Deals says what all of this amounts  *)
(* to.                                                                     *)
(***************************************************************************)
EXTENDS Deals, Integers, Sequences

CONSTANT Calls  \* calls that can be in progress at once

ASSUME CallsAssumption == IsFiniteSet(Calls)

VARIABLE call   \* the progress of each call

vars == <<rows, call>>

Kinds == {"propose", "lock", "close", "reject", "accept", "rejecting", "accepting", "paying",
          "activate", "expire", "release", "late"}
Call == [kind : Kinds, role : Roles, fixer : Fixers, price : Prices \cup {None}, done : 0..4,
         closing : SUBSET Fixers]

NoCall == [kind |-> "idle", role |-> "CLIENT", fixer |-> None, price |-> None, done |-> 0,
           closing |-> {}]

TypeOK ==
  /\ negotiation \in [Fixers -> Row]
  /\ \A f \in Fixers : negotiation[f].status \in {"LOCKED", "AGREED"} =>
                         negotiation[f].price # None /\ negotiation[f].by # None
  /\ conversation \in [Fixers -> {"NONE", "OPEN", "CLOSED"}]
  /\ job \in [status : {"OPEN", "IN_PROGRESS"}, terms : Terms]
  /\ payment \in [status : {"NONE", "PENDING", "SUCCESS", "EXPIRED"}, terms : Terms,
                  overdue : BOOLEAN]
  /\ call \in [Calls -> Call \cup {NoCall}]

Init == DealInit /\ call = [c \in Calls |-> NoCall]

-----------------------------------------------------------------------------
(* Transactions. *)

\* (bug) an activation closes the other conversations before it starts the job
TablesSwapped(kind) ==
  CASE kind = "rejecting" -> <<"negotiation">>
    [] kind = "accepting" -> <<"negotiation", "job", "conversation">>
    [] kind = "paying"    -> <<"negotiation", "job", "conversation", "payment">>
    [] kind = "activate"  -> <<"payment", "conversation", "job">>
    [] kind = "release"   -> <<"payment", "job", "ownConversation">>
    [] kind = "expire"    -> <<"payment">>
    [] OTHER              -> <<>>

\* The rows a transaction writes, in order.
Tables(kind) ==
  CASE kind = "rejecting" -> <<"negotiation">>
    [] kind = "accepting" -> <<"negotiation", "job", "conversation">>
    [] kind = "paying"    -> <<"negotiation", "job", "conversation", "payment">>
    [] kind = "activate"  -> <<"payment", "job", "conversation">>
    [] kind = "release"   -> <<"payment", "job", "ownConversation">>
    [] kind = "expire"    -> <<"payment">>
    [] OTHER              -> <<>>

Unfinished(c) == call[c].done < Len(Tables(call[c].kind))

NextTable(c) == Tables(call[c].kind)[call[c].done + 1]

\* The rows of a table that a transaction about fixer f writes.
RowsOf(table, f) == CASE table = "negotiation"      -> {<<table, f>>}
                      [] table = "ownConversation" -> {<<"conversation", f>>}
                      [] table = "conversation"     -> {<<table, g>> : g \in Fixers \ {f}}
                      [] OTHER                      -> {<<table, None>>}

Locked(c) == UNION {RowsOf(Tables(call[c].kind)[i], call[c].fixer) : i \in 1..call[c].done}

Holders(c, needed) == {d \in Calls \ {c} : Locked(d) \cap needed # {}}

\* The single UPDATEs of propose, lock, close and a late callback wait for their row like
\* the others.
Needed(c) ==
  CASE call[c].kind \in {"propose", "lock"} -> {<<"negotiation", call[c].fixer>>}
    [] call[c].kind = "close" -> {<<"conversation", call[c].fixer>>}
    [] call[c].kind = "late" -> {<<"payment", None>>}
    [] OTHER -> IF Unfinished(c) THEN RowsOf(NextTable(c), call[c].fixer) ELSE {}

WaitsFor(c) == Holders(c, Needed(c))

Become(c, kind) == call' = [call EXCEPT ![c].kind = kind]

Advance(c) == call' = [call EXCEPT ![c].done = @ + 1]

End(c) == call' = [call EXCEPT ![c] = NoCall]

\* A call that throws, loses its connection or is chosen as a deadlock victim leaves no effect.
Abort(c) ==
  /\ call[c].kind # "idle"
  /\ End(c)
  /\ UNCHANGED rows

\* c is on a cycle of waits, not merely behind one.
Deadlocked(c) ==
  \E S \in SUBSET Calls : c \in S /\ \A d \in S : /\ WaitsFor(d) \cap S # {}
                                                  /\ \E e \in S : d \in WaitsFor(e)

Start(c, kind, role, f, p) ==
  /\ call[c].kind = "idle"
  /\ call' = [call EXCEPT ![c] = [kind |-> kind, role |-> role, fixer |-> f, price |-> p,
                                  done |-> 0, closing |-> {}]]
  /\ UNCHANGED <<negotiation, job, payment>>

-----------------------------------------------------------------------------
(* propose, lock and closeConversation: a check, and later one UPDATE. *)

Negotiable(f) == job.status = "OPEN" /\ conversation[f] # "CLOSED"

\* upsertConversation
Opened(f) == conversation' = [conversation EXCEPT ![f] = IF @ = "NONE" THEN "OPEN" ELSE @]

\* negotiation.machine refuses a proposal on a locked price.
CheckPropose(c, f) ==
  /\ Negotiable(f)
  /\ negotiation[f].status \in {"OPEN", "REJECTED"}
  /\ Start(c, "propose", "CLIENT", f, None)
  /\ Opened(f)

Propose(c) ==
  /\ call[c].kind = "propose"
  /\ WaitsFor(c) = {}
  /\ negotiation' = [negotiation EXCEPT ![call[c].fixer] = Unlocked]
  /\ End(c)
  /\ UNCHANGED <<conversation, job, payment>>

CheckLock(c, role, f, p) ==
  /\ Negotiable(f)
  /\ negotiation[f].status # "AGREED"
  /\ Start(c, "lock", role, f, p)
  /\ Opened(f)

\* The side that locks a price accepts it by that.
Lock(c) ==
  /\ call[c].kind = "lock"
  /\ WaitsFor(c) = {}
  /\ negotiation' = [negotiation EXCEPT ![call[c].fixer] = LockedAt(call[c].price, call[c].role)]
  /\ End(c)
  /\ UNCHANGED <<conversation, job, payment>>

CheckClose(c, f) ==
  /\ conversation[f] = "OPEN"
  /\ Start(c, "close", "CLIENT", f, None)
  /\ UNCHANGED conversation

Close(c) ==
  /\ call[c].kind = "close"
  /\ WaitsFor(c) = {}
  /\ conversation' = [conversation EXCEPT ![call[c].fixer] = "CLOSED"]
  /\ End(c)
  /\ UNCHANGED <<negotiation, job, payment>>

-----------------------------------------------------------------------------
(* respondToLockedPrice. *)

\* A price is locked, and not by the side that answers.
Answerable(role, f) == negotiation[f].status = "LOCKED" /\ negotiation[f].by # role

\* Neither the job nor the conversation is looked at.
CheckRespond(c, kind, role, f) ==
  /\ kind \in {"accept", "reject"}
  /\ Answerable(role, f)
  /\ Start(c, kind, role, f, None)
  /\ UNCHANGED conversation

\* The transaction reads the negotiation again; the price it decides on is this one.
ReadLocked(c) ==
  LET f == call[c].fixer
  IN  /\ call[c].kind \in {"accept", "reject"}
      /\ Answerable(call[c].role, f)
      /\ call' = [call EXCEPT
           ![c].kind = IF @ = "accept" THEN "accepting" ELSE "rejecting",
           ![c].price = negotiation[f].price]
      /\ UNCHANGED rows

\* (bug) the claim does not look at the status
StillLockedUnchecked(f) == TRUE

\* updateMany WHERE status = 'LOCKED'
StillLocked(f) == negotiation[f].status = "LOCKED"

Claim(c) ==
  /\ call[c].kind \in {"accepting", "rejecting"} /\ call[c].done = 0
  /\ WaitsFor(c) = {}
  /\ StillLocked(call[c].fixer)
  /\ Advance(c)
  /\ UNCHANGED rows

\* PRICE_NOT_LOCKED, at the second read or at the claim.
FailRespond(c) ==
  /\ \/ call[c].kind \in {"accept", "reject"} /\ ~ Answerable(call[c].role, call[c].fixer)
     \/ /\ call[c].kind \in {"accepting", "rejecting"} /\ call[c].done = 0
        /\ WaitsFor(c) = {}
        /\ ~ StillLocked(call[c].fixer)
  /\ Abort(c)

\* The next row of a transaction whose UPDATE has no condition.
WriteRow(c) ==
  /\ \/ call[c].kind = "accepting" /\ call[c].done = 1
     \/ call[c].kind = "paying"
     \/ call[c].kind = "activate" /\ call[c].done = 1
     \/ call[c].kind = "release"
  /\ Unfinished(c)
  /\ WaitsFor(c) = {}
  /\ Advance(c)
  /\ UNCHANGED rows

\* The conversations of the other fixers: an agreement closes those that are open, an
\* activation all there are.
CloseOthers(c) ==
  /\ call[c].kind \in {"accepting", "activate"} /\ call[c].done = 2
  /\ WaitsFor(c) = {}
  /\ call' = [call EXCEPT ![c].done = @ + 1,
                          ![c].closing = {g \in Fixers \ {call[c].fixer} : conversation[g] = "OPEN"}]
  /\ UNCHANGED rows

\* (bug) an unpaid attempt of another agreement is replaced
PayableAnyPending(f) == Negotiable(f) /\ payment.status # "SUCCESS"

\* createFinalPayment's checks: the job and the conversation are open, and no
\* attempt is paid or still has time to be.
Payable(f) ==
  /\ Negotiable(f)
  /\ payment.status # "SUCCESS"
  /\ payment.status = "PENDING" => payment.overdue

CheckPayment(c) ==
  /\ call[c].kind = "accepting" /\ call[c].done = 3
  /\ IF Payable(call[c].fixer) THEN Become(c, "paying") ELSE End(c)
  /\ UNCHANGED rows

CommitReject(c) ==
  /\ call[c].kind = "rejecting" /\ ~ Unfinished(c)
  /\ negotiation' = [negotiation EXCEPT ![call[c].fixer] = Rejected]
  /\ End(c)
  /\ UNCHANGED <<conversation, job, payment>>

\* (bug) the other conversations stay open
ClosedNone(c) == conversation

Closed(c) == [g \in Fixers |-> IF g \in call[c].closing THEN "CLOSED" ELSE conversation[g]]

\* The job gets the price that was read, the payment the price of the row, which
\* createFinalPayment reads once more.  The new attempt expires after the clock of every
\* scan that found an earlier one: their UPDATE matches nothing any more.
CommitAccept(c) ==
  LET f == call[c].fixer
  IN  /\ call[c].kind = "paying" /\ ~ Unfinished(c)
      /\ negotiation' = [negotiation EXCEPT ![f].status = "AGREED"]
      /\ job' = [job EXCEPT !.terms = [fixer |-> f, price |-> call[c].price]]
      /\ conversation' = Closed(c)
      /\ payment' = [status |-> "PENDING", overdue |-> FALSE,
                     terms |-> [fixer |-> f, price |-> negotiation[f].price]]
      /\ call' = [d \in Calls |-> IF d = c \/ call[d].kind = "expire" THEN NoCall ELSE call[d]]

-----------------------------------------------------------------------------
(* The FINAL payment is paid or runs out (module FinalPayment has the details). *)

Tick == RunOut /\ UNCHANGED call

\* The webhook's transaction starts from the row it found, the cron job's from an overdue one.
StartActivation(c) ==
  /\ payment.status = "PENDING" /\ ~ payment.overdue
  /\ Start(c, "activate", "CLIENT", payment.terms.fixer, payment.terms.price)
  /\ UNCHANGED conversation

StartExpiration(c) ==
  /\ payment.status = "PENDING" /\ payment.overdue
  /\ Start(c, "expire", "CLIENT", payment.terms.fixer, payment.terms.price)
  /\ UNCHANGED conversation

\* updateMany WHERE status = 'PENDING', with the due time on the right side
StillPending(kind) ==
  payment.status = "PENDING" /\ (payment.overdue <=> kind = "expire")

ClaimPayment(c) ==
  /\ call[c].kind \in {"activate", "expire"} /\ call[c].done = 0
  /\ WaitsFor(c) = {}
  /\ IF StillPending(call[c].kind) THEN Advance(c) ELSE End(c)
  /\ UNCHANGED rows

\* The expiration reads the job: one that has started is left alone, and the
\* transaction, which has nothing else to write, commits.
ReadJob(c) ==
  /\ call[c].kind = "expire" /\ call[c].done = 1
  /\ IF job.status = "OPEN"
     THEN Become(c, "release") /\ UNCHANGED payment
     ELSE End(c) /\ payment' = [payment EXCEPT !.status = "EXPIRED"]
  /\ UNCHANGED <<negotiation, conversation, job>>

CommitActivation(c) ==
  /\ call[c].kind = "activate" /\ ~ Unfinished(c)
  /\ payment' = [payment EXCEPT !.status = "SUCCESS"]
  /\ job' = [status |-> "IN_PROGRESS",
             terms |-> [fixer |-> call[c].fixer, price |-> call[c].price]]
  /\ conversation' = Closed(c)
  /\ End(c)
  /\ UNCHANGED <<negotiation>>

\* (bug) the job is released, the payment stays PENDING
CommitReleaseJobOnly(c) ==
  /\ call[c].kind = "release" /\ ~ Unfinished(c)
  /\ job' = [job EXCEPT !.terms = NoTerms]
  /\ conversation' = [conversation EXCEPT ![call[c].fixer] = "CLOSED"]
  /\ End(c)
  /\ UNCHANGED <<negotiation, payment>>

CommitRelease(c) ==
  /\ call[c].kind = "release" /\ ~ Unfinished(c)
  /\ payment' = [payment EXCEPT !.status = "EXPIRED"]
  /\ job' = [job EXCEPT !.terms = NoTerms]
  /\ conversation' = [conversation EXCEPT ![call[c].fixer] = "CLOSED"]
  /\ End(c)
  /\ UNCHANGED negotiation

\* A callback that finds the row overdue...
StartLate(c) ==
  /\ payment.status = "PENDING" /\ payment.overdue
  /\ Start(c, "late", "CLIENT", payment.terms.fixer, payment.terms.price)
  /\ UNCHANGED conversation

\* ... expires whatever attempt is PENDING by then, in one UPDATE, and leaves the job alone.
ExpireLate(c) ==
  /\ call[c].kind = "late"
  /\ WaitsFor(c) = {}
  /\ payment' = IF payment.status = "PENDING" THEN [payment EXCEPT !.status = "EXPIRED"]
                                              ELSE payment
  /\ End(c)
  /\ UNCHANGED <<negotiation, conversation, job>>

-----------------------------------------------------------------------------
Run(c) ==
  \/ Propose(c)
  \/ Lock(c)
  \/ Close(c)
  \/ ReadLocked(c)
  \/ Claim(c)
  \/ FailRespond(c)
  \/ WriteRow(c)
  \/ CloseOthers(c)
  \/ CheckPayment(c)
  \/ CommitReject(c)
  \/ CommitAccept(c)
  \/ ClaimPayment(c)
  \/ ReadJob(c)
  \/ CommitActivation(c)
  \/ CommitRelease(c)
  \/ ExpireLate(c)

Next ==
  \/ \E c \in Calls :
       \/ \E f \in Fixers :
            \/ CheckPropose(c, f)
            \/ CheckClose(c, f)
            \/ \E role \in Roles, p \in Prices : CheckLock(c, role, f, p)
            \/ \E role \in Roles, kind \in {"accept", "reject"} : CheckRespond(c, kind, role, f)
       \/ StartActivation(c)
       \/ StartExpiration(c)
       \/ StartLate(c)
       \/ Run(c)
       \/ Abort(c)
  \/ Tick

Spec == Init /\ [][Next]_vars

-----------------------------------------------------------------------------
(* Properties. *)

\* Agreements take turns at the job: none replaces an attempt that is paid or still has
\* time to be paid, although each checks the payment long before it writes it.  Only a
\* callback that saw an earlier attempt run out may end one before its time.
LiveAttemptKept ==
  [][/\ payment.status = "SUCCESS" => UNCHANGED payment
     /\ payment.status = "PENDING" /\ ~ payment.overdue =>
          /\ payment'.terms = payment.terms
          /\ \/ payment'.status \in {"PENDING", "SUCCESS"}
             \/ payment'.status = "EXPIRED" /\ \E c \in Calls : ExpireLate(c)]_vars

\* While a response that claimed a negotiation goes on to the job and the payment, no
\* proposal, lock or other response changes the negotiation under it.
ClaimHolds ==
  \A c \in Calls :
    call[c].kind \in {"rejecting", "accepting", "paying"} /\ call[c].done > 0 =>
      negotiation[call[c].fixer].status = "LOCKED"

\* The transactions and the UPDATEs by id amount to the indivisible operations of module Deals:
\* whatever a call has read long before it commits still holds where that module asks for it.
ImplementsDeals == DealSpec

\* Agreements write the job before the payment, activations and expirations the payment
\* before the job: only two such transactions can wait for each other, so nothing but the end
\* of a payment attempt ever costs an agreement its transaction.
OnlyPaymentDeadlocks ==
  \A c \in Calls : Deadlocked(c) => call[c].kind \in {"paying", "activate", "release"}

\* What the comment on the claim says: an acceptance makes AGREED the lock it has read, so that
\* the job and the payment get the price the answering side accepted.
AgreedAsRead ==
  [][\A f \in Fixers : negotiation[f].status = "LOCKED" /\ negotiation'[f].status = "AGREED" =>
                         job'.terms.price = negotiation'[f].price]_vars
=============================================================================
