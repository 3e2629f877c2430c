------------------------------- MODULE Deals -------------------------------
(***************************************************************************)
(* What the negotiations of one job and its FINAL payment promise: every   *)
(* operation on their rows - a price is locked, an agreement is reached    *)
(* and gets its payment attempt, the attempt is paid or runs out - is one  *)
(* indivisible step.  The code gets there with UPDATEs by id and           *)
(* transactions that take the same rows from opposite ends; module         *)
(* Negotiation models those row by row and is shown to implement this      *)
(* module.                                                                 *)
(***************************************************************************)
EXTENDS FiniteSets

CONSTANTS Fixers,  \* the fixers who applied; one conversation each
          Prices,  \* the prices a side may lock
          None     \* SQL NULL

Roles == {"CLIENT", "FIXER"}

ASSUME NoneAssumption == None \notin Fixers \cup Prices \cup Roles

VARIABLES negotiation,   \* the Negotiation of each conversation
          conversation,  \* the status of each conversation
          job,           \* the Job row
          payment        \* its FINAL JobPayment row

rows == <<negotiation, conversation, job, payment>>

Terms == [fixer : Fixers \cup {None}, price : Prices \cup {None}]
Row == [status : {"OPEN", "LOCKED", "AGREED", "REJECTED"},
        price : Prices \cup {None}, by : Roles \cup {None}]

NoTerms == [fixer |-> None, price |-> None]
Unlocked == [status |-> "OPEN", price |-> None, by |-> None]
LockedAt(p, role) == [status |-> "LOCKED", price |-> p, by |-> role]
\* The row keeps the price and who locked it, which nobody reads before the next lock.
Rejected == [status |-> "REJECTED", price |-> None, by |-> None]

\* A posted job; a conversation and its negotiation are created by the first use.
DealInit ==
  /\ negotiation = [f \in Fixers |-> Unlocked]
  /\ conversation = [f \in Fixers |-> "NONE"]
  /\ job = [status |-> "OPEN", terms |-> NoTerms]
  /\ payment = [status |-> "NONE", terms |-> NoTerms, overdue |-> FALSE]

-----------------------------------------------------------------------------
(* Conversations and locked prices. *)

Exists(f) == conversation[f] # "NONE"

Agreed(f) == negotiation[f].status = "AGREED" /\ conversation[f] = "OPEN"

OpenChat(f) ==
  /\ ~ Exists(f)
  /\ conversation' = [conversation EXCEPT ![f] = "OPEN"]
  /\ UNCHANGED <<negotiation, job, payment>>

CloseChat(f) ==
  /\ Exists(f)
  /\ conversation' = [conversation EXCEPT ![f] = "CLOSED"]
  /\ UNCHANGED <<negotiation, job, payment>>

\* propose and lock write by id, over whatever the row holds by then.
Write(f, row) ==
  /\ Exists(f)
  /\ negotiation' = [negotiation EXCEPT ![f] = row]
  /\ UNCHANGED <<conversation, job, payment>>

RejectPrice(f) == negotiation[f].status = "LOCKED" /\ Write(f, Rejected)

-----------------------------------------------------------------------------
(* Agreements and payment attempts. *)

\* An attempt that is paid or still has time to be.
Live == payment.status = "SUCCESS" \/ (payment.status = "PENDING" /\ ~ payment.overdue)

Shut(others) ==
  conversation' = [g \in Fixers |-> IF g \in others THEN "CLOSED" ELSE conversation[g]]

\* The job gets a price p that was locked some time, the attempt the price of the row.
Agree(f, p, others) ==
  /\ job.status = "OPEN" /\ ~ Live
  /\ negotiation[f].status = "LOCKED"
  /\ {g \in Fixers \ {f} : Agreed(g)} \subseteq others
  /\ negotiation' = [negotiation EXCEPT ![f].status = "AGREED"]
  /\ job' = [job EXCEPT !.terms = [fixer |-> f, price |-> p]]
  /\ payment' = [status |-> "PENDING", overdue |-> FALSE,
                 terms |-> [fixer |-> f, price |-> negotiation[f].price]]
  /\ Shut(others)

RunOut ==
  /\ payment.status = "PENDING" /\ ~ payment.overdue
  /\ payment' = [payment EXCEPT !.overdue = TRUE]
  /\ UNCHANGED <<negotiation, conversation, job>>

\* The job starts with the terms of the attempt, or of an earlier one.
Activate(f, p, others) ==
  /\ payment.status = "PENDING"
  /\ payment' = [payment EXCEPT !.status = "SUCCESS"]
  /\ job' = [status |-> "IN_PROGRESS", terms |-> [fixer |-> f, price |-> p]]
  /\ Shut(others)
  /\ UNCHANGED negotiation

Lapsed == payment.status = "PENDING" /\ payment' = [payment EXCEPT !.status = "EXPIRED"]

\* A late callback: the job stays held for the fixer.
Lapse == Lapsed /\ UNCHANGED <<negotiation, conversation, job>>

\* The cron job: the job is free again, the fixer's conversation over.
Release ==
  /\ payment.overdue /\ Lapsed
  /\ job' = [job EXCEPT !.terms = NoTerms]
  /\ conversation' = [conversation EXCEPT ![payment.terms.fixer] = "CLOSED"]
  /\ UNCHANGED negotiation

-----------------------------------------------------------------------------
DealNext ==
  \/ \E f \in Fixers :
       \/ OpenChat(f) \/ CloseChat(f)
       \/ Write(f, Unlocked) \/ RejectPrice(f)
       \/ \E p \in Prices, role \in Roles : Write(f, LockedAt(p, role))
       \/ \E p \in Prices, others \in SUBSET {g \in Fixers \ {f} : Exists(g)} :
            Agree(f, p, others) \/ Activate(f, p, others)
  \/ RunOut \/ Lapse \/ Release

DealSpec == DealInit /\ [][DealNext]_rows

-----------------------------------------------------------------------------
(* Properties. *)

\* An attempt that can still be paid is one for the fixer the job is held for, whichever
\* agreements, activations and expirations overlapped (finalizeNegotiationAgreement).
AttemptFollowsJob ==
  payment.status = "PENDING" => job.status = "OPEN" /\ job.terms.fixer = payment.terms.fixer

\* At most one agreed negotiation has its conversation open: an agreement closes the
\* others, also one that is reached after an earlier one ran out unpaid.
OneOpenAgreement == \A f, g \in Fixers : Agreed(f) /\ Agreed(g) => f = g

\* An attempt that was paid stays as it is; one that still has time to be paid is not
\* replaced by another.
AttemptStays ==
  [][/\ payment.status = "SUCCESS" => UNCHANGED payment
     /\ Live => payment'.terms = payment.terms]_rows
=============================================================================
