------------------------------ MODULE Posting ------------------------------
(***************************************************************************)
(* One job from its creation until it starts: the posting fee and the fee  *)
(* of an urgent hire, the screening of its text, the flags of the          *)
(* administrators, edits, applications and deletion (modules jobs,         *)
(* job-payments and job-moderation).                                       *)
(*                                                                         *)
(* A job has one payment of each type.  Nothing keeps an urgent job from   *)
(* being charged the posting fee as well: each report acts by the type of  *)
(* the payment it is about, whatever the type of the job.                  *)
(*                                                                         *)
(* Every call reads, decides and later writes by id.  Where it writes      *)
(* several rows in a transaction, all of them are behind the row of the    *)
(* job or of its payment, which the transaction holds to its end: reading  *)
(* is a step of its own, the writes are one step, the commit.              *)
(***************************************************************************)
EXTENDS Integers, FiniteSets

CONSTANTS References,  \* payment references; each is handed out once
          Calls,       \* calls that can be in progress at once
          None         \* no reference

ASSUME NoneAssumption == None \notin References

VARIABLES job,      \* the Job row; its text is one screenJob lets pass or one it flags
          payment,  \* its JobPayment rows of type POSTING and URGENT
          chat,     \* the Conversation of an urgent hire
          applied,  \* whether the JobApplication of a fixer exists
          final,    \* whether a FINAL payment of it is pending
          issued,   \* the references the gateway has been given for each type
          paid,     \* those the client has paid
          call      \* the progress of each call

rows == <<job, payment, chat, applied, final>>
gateway == <<issued, paid>>
vars == <<rows, gateway, call>>

Texts == {"FINE", "BANNED"}
Types == {"POSTING", "URGENT"}
\* The fixer who was hired urgently, or another one.
Fixers == {"HIRED", "OTHER"}
Job == [status : {"NONE", "DRAFT", "OPEN", "IN_PROGRESS", "DELETED"}, type : {"STANDARD", "URGENT"},
        text : Texts, flagged : BOOLEAN, fixer : Fixers \cup {"NONE"}]
Payment == [status : {"NONE", "PENDING", "SUCCESS"}, ref : References \cup {None}]
Kinds == {"charge", "charging", "continue", "callback", "publish", "edit", "delete", "purge",
          "drop", "apply", "flag", "unflag", "unflagging"}
\* saw: what the call has selected of the job; row: the payment it is about or has found; ref: the
\* reference it has read; text: what an edit will write; flagging: what the screening decided.
Call == [kind : Kinds, saw : Job, row : Types \cup {"NONE"}, ref : References \cup {None},
         text : Texts, flagging : BOOLEAN]

NoJob == [status |-> "NONE", type |-> "STANDARD", text |-> "FINE", flagged |-> FALSE,
          fixer |-> "NONE"]
NoPayment == [status |-> "NONE", ref |-> None]
NoPayments == [t \in Types |-> NoPayment]
NoCall == [kind |-> "idle", saw |-> NoJob, row |-> "NONE", ref |-> None, text |-> "FINE",
           flagging |-> FALSE]

TypeOK ==
  /\ job \in Job
  /\ payment \in [Types -> Payment]
  /\ \A t \in Types : payment[t].status # "NONE" =>
       payment[t].ref \in issued[t] /\ job.status \notin {"NONE", "DELETED"}
  /\ chat \in {"NONE", "INACTIVE", "ACTIVE", "CLOSED"}
  /\ applied \in BOOLEAN
  /\ final \in BOOLEAN
  /\ issued \in [Types -> SUBSET References]
  /\ paid \in SUBSET (issued["POSTING"] \cup issued["URGENT"])
  /\ call \in [Calls -> Call \cup {NoCall}]

Init ==
  /\ job = NoJob
  /\ payment = NoPayments
  /\ chat = "NONE"
  /\ applied = FALSE
  /\ final = FALSE
  /\ issued = [t \in Types |-> {}]
  /\ paid = {}
  /\ call = [c \in Calls |-> NoCall]

-----------------------------------------------------------------------------
(* Calls. *)

Exists == job.status \notin {"NONE", "DELETED"}

End(c) == call' = [call EXCEPT ![c] = NoCall]

\* A call that throws or whose server stops; what it has committed stays.
Abort(c) ==
  /\ call[c].kind # "idle"
  /\ End(c)
  /\ UNCHANGED <<rows, gateway>>

Begin(c, kind) ==
  /\ call[c].kind = "idle"
  /\ call' = [call EXCEPT ![c] = [NoCall EXCEPT !.kind = kind]]

\* A call that decides on what it has selected of the job.
Read(c, kind, selected) ==
  /\ call[c].kind = "idle"
  /\ call' = [call EXCEPT ![c] = [NoCall EXCEPT !.kind = kind, !.saw = selected]]

Become(c, kind) == call' = [call EXCEPT ![c].kind = kind]

\* The row of a type gets a new reference, which is given to the gateway.
Charge(t, r) ==
  /\ \A u \in Types : r \notin issued[u]
  /\ payment' = [payment EXCEPT ![t] = [status |-> "PENDING", ref |-> r]]
  /\ issued' = [issued EXCEPT ![t] = @ \cup {r}]
  /\ UNCHANGED paid

-----------------------------------------------------------------------------
(* Creating the job and its payment. *)

\* createJob inserts the job and goes on to createPostingPayment.
CreateJob(c, text) ==
  /\ job.status = "NONE"
  /\ Begin(c, "charge")
  /\ job' = [NoJob EXCEPT !.status = "DRAFT", !.text = text]
  /\ UNCHANGED <<payment, chat, applied, final, gateway>>

\* urgentDirectHire: one transaction for the job, its conversation and its payment.
HireUrgently(text, r) ==
  /\ job.status = "NONE"
  /\ job' = [NoJob EXCEPT !.status = "DRAFT", !.type = "URGENT", !.text = text,
                          !.fixer = "HIRED"]
  /\ chat' = "INACTIVE"
  /\ Charge("URGENT", r)
  /\ UNCHANGED <<applied, final, call>>

\* The posting fee of any job can be asked for, whatever its type and status.
RequestCharge(c) ==
  /\ Exists
  /\ Begin(c, "charge")
  /\ UNCHANGED <<rows, gateway>>

\* PAYMENT_ALREADY_PENDING, PAYMENT_ALREADY_COMPLETED
CheckCharge(c) ==
  /\ call[c].kind = "charge"
  /\ IF payment["POSTING"].status = "NONE" THEN Become(c, "charging") ELSE End(c)
  /\ UNCHANGED <<rows, gateway>>

\* The upsert; its foreign key needs the job.
WriteCharge(c, r) ==
  /\ call[c].kind = "charging"
  /\ Exists
  /\ Charge("POSTING", r)
  /\ End(c)
  /\ UNCHANGED <<job, chat, applied, final>>

\* The payment that goes with the type of the job.
CheckContinue(c) ==
  LET t == IF job.type = "URGENT" THEN "URGENT" ELSE "POSTING"
  IN  /\ job.status = "DRAFT" /\ payment[t].status = "PENDING"
      /\ call[c].kind = "idle"
      /\ call' = [call EXCEPT ![c] =
                    [NoCall EXCEPT !.kind = "continue", !.row = t, !.ref = payment[t].ref]]
      /\ UNCHANGED <<rows, gateway>>

\* (bug) the reference is replaced without looking again
WriteContinueUnchecked(c, r) ==
  /\ call[c].kind = "continue"
  /\ payment[call[c].row].status # "NONE"
  /\ Charge(call[c].row, r)
  /\ End(c)
  /\ UNCHANGED <<job, chat, applied, final>>

\* updateMany WHERE status = 'PENDING' and the reference is the one that was read
WriteContinue(c, r) ==
  /\ call[c].kind = "continue"
  /\ payment[call[c].row] = [status |-> "PENDING", ref |-> call[c].ref]
  /\ Charge(call[c].row, r)
  /\ End(c)
  /\ UNCHANGED <<job, chat, applied, final>>

\* The client completes a payment page, also one whose reference was replaced since.
Pay(r) ==
  /\ r \in (issued["POSTING"] \cup issued["URGENT"]) \ paid
  /\ paid' = paid \cup {r}
  /\ UNCHANGED <<rows, issued, call>>

-----------------------------------------------------------------------------
(* The payment is reported: webhook, or verification on return, any number of times. *)

\* (bug) a reference the gateway does not report as paid is taken
PaidReferencesAny == issued["POSTING"] \cup issued["URGENT"]

PaidReferences == paid

\* The row is found by its reference; what goes on is its id.
FindPayment(c, t) ==
  /\ payment[t].status # "NONE" /\ payment[t].ref \in PaidReferences
  /\ call[c].kind = "idle"
  /\ call' = [call EXCEPT ![c] = [NoCall EXCEPT !.kind = "callback", !.row = t]]
  /\ UNCHANGED <<rows, gateway>>

\* The row and its job are read again and the job is screened.
ScreenJob(c) ==
  /\ call[c].kind = "callback"
  /\ IF payment[call[c].row].status = "PENDING"
     THEN call' = [call EXCEPT ![c].kind = "publish",
                               ![c].flagging = job.flagged \/ job.text = "BANNED"]
     ELSE End(c)
  /\ UNCHANGED <<rows, gateway>>

\* (bug) only what was read earlier is looked at
ClaimableAsRead(t) == payment[t].status # "NONE"

\* updateMany WHERE status = 'PENDING'
Claimable(t) == payment[t].status = "PENDING"

Published(flagged) ==
  [job EXCEPT !.status = IF flagged THEN "DRAFT" ELSE "OPEN", !.flagged = flagged]

\* completePostingPayment: the payment and the job in one transaction; fixer and conversation
\* of an urgent hire stay.
PublishPosting(c) ==
  /\ call[c].kind = "publish" /\ call[c].row = "POSTING"
  /\ Claimable("POSTING")
  /\ payment' = [payment EXCEPT !["POSTING"].status = "SUCCESS"]
  /\ job' = Published(call[c].flagging)
  /\ End(c)
  /\ UNCHANGED <<chat, applied, final, gateway>>

\* completeUrgentHirePayment: also the fixer and the conversation.
PublishUrgent(c) ==
  LET held == call[c].flagging
  IN  /\ call[c].kind = "publish" /\ call[c].row = "URGENT"
      /\ Claimable("URGENT")
      /\ payment' = [payment EXCEPT !["URGENT"].status = "SUCCESS"]
      /\ job' = [Published(held) EXCEPT !.fixer = IF held THEN "NONE" ELSE "HIRED"]
      /\ chat' = IF held THEN "CLOSED" ELSE "ACTIVE"
      /\ End(c)
      /\ UNCHANGED <<applied, final, gateway>>

\* Another callback was first, or the row is gone.
FindPublished(c) ==
  /\ call[c].kind = "publish"
  /\ ~ Claimable(call[c].row)
  /\ Abort(c)

-----------------------------------------------------------------------------
(* The client edits or deletes the job, a fixer applies. *)

CheckEdit(c, text) ==
  /\ job.status = "DRAFT" \/ (job.status = "OPEN" /\ ~ applied)
  /\ call[c].kind = "idle"
  /\ call' = [call EXCEPT ![c] = [NoCall EXCEPT !.kind = "edit", !.text = text]]
  /\ UNCHANGED <<rows, gateway>>

\* The new text is not screened.
WriteEdit(c) ==
  /\ call[c].kind = "edit"
  /\ Exists
  /\ job' = [job EXCEPT !.text = call[c].text]
  /\ End(c)
  /\ UNCHANGED <<payment, chat, applied, final, gateway>>

RequestDelete(c) ==
  /\ Exists
  /\ Read(c, "delete", [NoJob EXCEPT !.status = job.status, !.flagged = job.flagged])
  /\ UNCHANGED <<rows, gateway>>

\* A flagged job that is paid stays; it is only hidden from its client.
Archive(c) ==
  /\ call[c].kind = "delete"
  /\ call[c].saw.flagged /\ \E t \in Types : payment[t].status = "SUCCESS"
  /\ End(c)
  /\ UNCHANGED <<rows, gateway>>

\* Of two payments the query finds either, and only that one must not be successful.
CheckDelete(c) ==
  /\ call[c].kind = "delete"
  /\ call[c].saw.status = "DRAFT"
  /\ call[c].saw.flagged => \A t \in Types : payment[t].status # "SUCCESS"
  /\ payment = NoPayments \/ \E t \in Types : payment[t].status = "PENDING"
  /\ Become(c, "purge")
  /\ UNCHANGED <<rows, gateway>>

\* Every payment of the job goes.  A report in progress holds the id of a row that is no
\* more: it will find nothing, also when a new row is created.
PurgePayments(c) ==
  /\ call[c].kind = "purge"
  /\ payment' = NoPayments
  /\ final' = FALSE
  /\ call' = [d \in Calls |-> IF d = c THEN [call[c] EXCEPT !.kind = "drop"]
                             ELSE IF call[d].kind \in {"callback", "publish"} THEN NoCall
                             ELSE call[d]]
  /\ UNCHANGED <<job, chat, applied, gateway>>

\* (bug) the payments are left to the call that deleted them
DropJobOnly(c) ==
  /\ call[c].kind = "drop"
  /\ Exists
  /\ job' = [NoJob EXCEPT !.status = "DELETED"]
  /\ chat' = "NONE"
  /\ applied' = FALSE
  /\ final' = FALSE
  /\ End(c)
  /\ UNCHANGED <<payment, gateway>>

\* The foreign keys delete what refers to the job, a payment created meanwhile too.
DropJob(c) ==
  /\ call[c].kind = "drop"
  /\ Exists
  /\ job' = [NoJob EXCEPT !.status = "DELETED"]
  /\ payment' = NoPayments
  /\ chat' = "NONE"
  /\ applied' = FALSE
  /\ final' = FALSE
  /\ End(c)
  /\ UNCHANGED gateway

CheckApply(c) ==
  /\ job.status = "OPEN" /\ ~ applied
  /\ Begin(c, "apply")
  /\ UNCHANGED <<rows, gateway>>

\* The application stays although the call throws for a flagged job.
WriteApply(c) ==
  /\ call[c].kind = "apply"
  /\ Exists
  /\ applied' = TRUE
  /\ End(c)
  /\ UNCHANGED <<job, payment, chat, final, gateway>>

-----------------------------------------------------------------------------
(* Administrators flag and unflag. *)

ReadForFlag(c) ==
  /\ Exists
  /\ Read(c, "flag", [NoJob EXCEPT !.type = job.type, !.fixer = job.fixer])
  /\ UNCHANGED <<rows, gateway>>

\* The conversation with the fixer that was read is closed.
Flag(c) ==
  /\ call[c].kind = "flag"
  /\ Exists
  /\ job' = [job EXCEPT !.flagged = TRUE]
  /\ chat' = IF call[c].saw.type = "URGENT" /\ call[c].saw.fixer = "HIRED" THEN "CLOSED" ELSE chat
  /\ End(c)
  /\ UNCHANGED <<payment, applied, final, gateway>>

ReadForUnflag(c) ==
  /\ Exists /\ job.flagged
  /\ Read(c, "unflag", [NoJob EXCEPT !.status = job.status])
  /\ UNCHANGED <<rows, gateway>>

\* The successful payment that was created last: the posting fee comes after the urgent one.
LastSuccessful ==
  IF payment["POSTING"].status = "SUCCESS" THEN "POSTING"
  ELSE IF payment["URGENT"].status = "SUCCESS" THEN "URGENT" ELSE "NONE"

FindSuccessful(c) ==
  /\ call[c].kind = "unflag"
  /\ call' = [call EXCEPT ![c].kind = "unflagging", ![c].row = LastSuccessful]
  /\ UNCHANGED <<rows, gateway>>

\* (bug) a paid draft is opened without its fixer
UnflagNoFixer(c) ==
  LET opens == call[c].saw.status = "DRAFT" /\ call[c].row # "NONE"
  IN  /\ call[c].kind = "unflagging"
      /\ Exists
      /\ job' = [job EXCEPT !.flagged = FALSE, !.status = IF opens THEN "OPEN" ELSE @]
      /\ End(c)
      /\ UNCHANGED <<payment, chat, applied, final, gateway>>

\* A paid draft is opened, with its fixer and the conversation if the payment found is that
\* of an urgent hire.
Unflag(c) ==
  LET urgent == call[c].row = "URGENT"
      opens == call[c].saw.status = "DRAFT" /\ call[c].row # "NONE"
  IN  /\ call[c].kind = "unflagging"
      /\ Exists
      /\ job' = [job EXCEPT !.flagged = FALSE,
                            !.status = IF opens THEN "OPEN" ELSE @,
                            !.fixer = IF opens /\ urgent THEN "HIRED" ELSE @]
      /\ chat' = IF urgent THEN "ACTIVE" ELSE chat
      /\ End(c)
      /\ UNCHANGED <<payment, applied, final, gateway>>

-----------------------------------------------------------------------------
(* What the chat and modules Negotiation and FinalPayment do to the job. *)

\* The client writes first: before anything is paid, too.
WriteFirst ==
  /\ chat = "INACTIVE"
  /\ chat' = "ACTIVE"
  /\ UNCHANGED <<job, payment, applied, final, gateway, call>>

\* The job goes to a fixer, and every conversation with another one is closed.
Assign(status, fixer) ==
  /\ fixer = "HIRED" => job.type = "URGENT"
  /\ job' = [job EXCEPT !.status = status, !.fixer = fixer]
  /\ chat' = IF fixer = "OTHER" /\ chat # "NONE" THEN "CLOSED" ELSE chat
  /\ UNCHANGED <<payment, applied, gateway, call>>

\* A price is agreed on an open job.
Agree(fixer) ==
  /\ job.status = "OPEN"
  /\ Assign("OPEN", fixer)
  /\ final' = TRUE

\* The FINAL payment succeeds, whatever became of the job since the agreement.
StartJob(fixer) ==
  /\ final
  /\ Assign("IN_PROGRESS", fixer)
  /\ final' = FALSE

\* The FINAL payment runs out; the cron job releases the job it finds open.
RunOut ==
  /\ final
  /\ final' = FALSE
  /\ \/ UNCHANGED <<job, chat>>
     \/ /\ job.status = "OPEN"
        /\ job' = [job EXCEPT !.status = IF job.type = "URGENT" THEN "DRAFT" ELSE "OPEN",
                              !.fixer = "NONE"]
        /\ chat' \in {chat, IF chat = "NONE" THEN "NONE" ELSE "CLOSED"}
  /\ UNCHANGED <<payment, applied, gateway, call>>

-----------------------------------------------------------------------------
Next ==
  \/ \E c \in Calls :
       \/ \E text \in Texts : CreateJob(c, text) \/ CheckEdit(c, text)
       \/ \E r \in References : WriteCharge(c, r) \/ WriteContinue(c, r)
       \/ RequestCharge(c) \/ CheckCharge(c) \/ CheckContinue(c)
       \/ \E t \in Types : FindPayment(c, t)
       \/ ScreenJob(c) \/ PublishPosting(c) \/ PublishUrgent(c) \/ FindPublished(c)
       \/ WriteEdit(c)
       \/ RequestDelete(c) \/ Archive(c) \/ CheckDelete(c) \/ PurgePayments(c) \/ DropJob(c)
       \/ CheckApply(c) \/ WriteApply(c)
       \/ ReadForFlag(c) \/ Flag(c)
       \/ ReadForUnflag(c) \/ FindSuccessful(c) \/ Unflag(c)
       \/ Abort(c)
  \/ \E text \in Texts, r \in References : HireUrgently(text, r)
  \/ \E r \in References : Pay(r)
  \/ WriteFirst
  \/ \E fixer \in Fixers : Agree(fixer) \/ StartJob(fixer)
  \/ RunOut

Spec == Init /\ [][Next]_vars

-----------------------------------------------------------------------------
(* Properties. *)

PaidFor(t) == issued[t] \cap paid # {}

\* Nothing is published before the client has paid the fee that publishes it, whichever
\* reference was paid, replaced or reported late: a standard job takes the posting fee, an
\* urgent one either (handleWebhook, continuePayment, unflagJob).
PublishedAfterPayment ==
  job.status \in {"OPEN", "IN_PROGRESS"} =>
    PaidFor("POSTING") \/ (job.type = "URGENT" /\ PaidFor("URGENT"))

\* What is on the marketplace - open, not flagged, without a fixer - has its posting fee paid.
\* In particular the fee of an urgent hire alone never lists the job, although callbacks,
\* flags, unflags and expirations all write fixer and status (listOpenJobs, unflagJob).
ListedAsPaid ==
  job.status = "OPEN" /\ ~ job.flagged /\ job.fixer = "NONE" => PaidFor("POSTING")

\* A flag is cleared only by an administrator's unflag, or when one of the job's payments
\* becomes successful: a second report of a payment, which decided before the flag was set,
\* does not (completePostingPayment, completeUrgentHirePayment).
FlagOutlivesReports ==
  [][job.flagged /\ Exists' /\ ~ job'.flagged =>
       \/ \E c \in Calls : call[c].kind = "unflagging" /\ call'[c] = NoCall
       \/ \E t \in Types : payment[t].status = "PENDING" /\ payment'[t].status = "SUCCESS"]_vars

\* A payment that succeeded is neither reset nor given a new reference, unless two calls that
\* saw no posting fee at all are both creating it, or the job is being deleted.
SuccessIsKept ==
  [][\A t \in Types : payment[t].status = "SUCCESS" =>
       \/ payment'[t] = payment[t]
       \/ t = "POSTING" /\ \E c \in Calls : call[c].kind = "charging" /\ call'[c] = NoCall
       \/ \E c \in Calls : call[c].kind \in {"purge", "drop"} /\ call'[c] # call[c]]_vars
=============================================================================
