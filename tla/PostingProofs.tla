---------------------------- MODULE PostingProofs ----------------------------
(***************************************************************************)
(* Proofs about module Posting, for any number of references and calls:    *)
(* nothing is published or listed unpaid, and a flag and a successful      *)
(* payment outlive what races with them.                                   *)
(***************************************************************************)
EXTENDS Posting, TLAPS

RowsOK ==
  /\ job \in Job
  /\ payment \in [Types -> Payment]
  /\ \A t \in Types : payment[t].status # "NONE" => payment[t].ref \in issued[t] /\ Exists
  /\ chat \in {"NONE", "INACTIVE", "ACTIVE", "CLOSED"}
  /\ applied \in BOOLEAN
  /\ final \in BOOLEAN
  /\ issued \in [Types -> SUBSET References]
  /\ paid \in SUBSET (issued["POSTING"] \cup issued["URGENT"])

\* A fee that publishes the job is paid.
Earned == PaidFor("POSTING") \/ (job.type = "URGENT" /\ PaidFor("URGENT"))

\* What needs a payment is there only after one.
RowsPaid ==
  /\ job.status \in {"OPEN", "IN_PROGRESS"} => Earned
  /\ final => Exists /\ Earned
  /\ \A t \in Types : payment[t].status = "SUCCESS" => PaidFor(t)

\* An open job without a fixer has its posting fee paid, flagged or not.
Placed == job.status = "OPEN" /\ job.fixer = "NONE" => PaidFor("POSTING")

UrgentRow == payment["URGENT"].status # "NONE" => job.type = "URGENT"

Unmade == job.status = "NONE" => ~ job.flagged

RowInv == RowsOK /\ RowsPaid /\ Placed /\ UrgentRow /\ Unmade

Reports == {"callback", "publish", "continue"}
Knowing == {"callback", "publish", "unflagging"}

CallsOK == call \in [Calls -> Call \cup {NoCall}]

RowsNamed == \A c \in Calls : call[c].kind \in Reports => call[c].row \in Types

\* A payment that a call reports or has found successful was paid.
CallsPaid ==
  \A c \in Calls : call[c].kind \in Knowing /\ call[c].row # "NONE" => PaidFor(call[c].row)

\* Only an urgent job has a payment of an urgent hire.
UrgentCalls ==
  \A c \in Calls : call[c].kind \in Knowing /\ call[c].row = "URGENT" =>
    job.status # "NONE" /\ (Exists => job.type = "URGENT")

CallInv == CallsOK /\ RowsNamed /\ CallsPaid /\ UrgentCalls

IInv == RowInv /\ CallInv

\* The job is the same, or it is created now, or deleted.
JobKept ==
  /\ job.status # "NONE" => job'.status # "NONE"
  /\ job.status # "NONE" /\ Exists' => Exists /\ job'.type = job.type

PaidKept == paid \subseteq paid' /\ \A t \in Types : issued[t] \subseteq issued'[t]

-----------------------------------------------------------------------------
LEMMA NoCallType ==
  /\ NoCall.kind = "idle" /\ NoCall.row = "NONE" /\ NoCall.kind \notin Reports \cup Knowing
  /\ NoJob \in Job /\ NoPayment \in Payment /\ NoPayments \in [Types -> Payment]
BY DEF NoCall, NoJob, Job, NoPayment, NoPayments, Payment, Texts, Reports, Knowing

LEMMA CallType ==
  ASSUME CallsOK, NEW c \in Calls
  PROVE  call[c].kind # "idle" => call[c] \in Call
BY DEF CallsOK, NoCall

LEMMA InitInv == Init => IInv
<1> SUFFICES ASSUME Init PROVE IInv
  OBVIOUS
<1>1. RowsOK
  BY NoCallType DEF Init, RowsOK, NoPayment, NoPayments, NoJob
<1>2. CallInv
  BY DEF Init, CallInv, CallsOK, RowsNamed, CallsPaid, UrgentCalls, NoCall, Reports, Knowing
<1>3. RowsPaid /\ Placed /\ UrgentRow /\ Unmade
  BY DEF Init, RowsPaid, Placed, UrgentRow, Unmade, NoJob, NoPayment, NoPayments, Types
<1> QED
  BY <1>1, <1>2, <1>3 DEF IInv, RowInv

LEMMA PaidForKept ==
  ASSUME PaidKept, NEW t \in Types, PaidFor(t)
  PROVE  issued'[t] \cap paid' # {}
BY DEF PaidKept, PaidFor

\* A call moves on while the rows change or not; others may end.
LEMMA CallsStep ==
  ASSUME IInv, RowInv', JobKept, PaidKept,
         NEW c \in Calls, NEW new \in Call \cup {NoCall}, call' \in [Calls -> Call \cup {NoCall}],
         call'[c] = new, \A d \in Calls \ {c} : call'[d] = call[d] \/ call'[d] = NoCall,
         new.kind \in Reports => new.row \in Types,
         new.kind \in Knowing /\ new.row # "NONE" => PaidFor(new.row),
         new.kind \in Knowing /\ new.row = "URGENT" =>
           job.status # "NONE" /\ (Exists => job.type = "URGENT")
  PROVE  IInv'
<1> USE DEF IInv, CallInv
<1>1. \A d \in Calls : call'[d] = new \/ call'[d] = call[d] \/ call'[d] = NoCall
  OBVIOUS
<1>2. CallsOK' /\ RowsNamed'
  BY <1>1, NoCallType DEF CallsOK, RowsNamed
<1>3. CallsPaid'
  <2> SUFFICES ASSUME NEW d \in Calls, call'[d].kind \in Knowing, call'[d].row # "NONE"
               PROVE  issued'[call'[d].row] \cap paid' # {}
    BY DEF CallsPaid, PaidFor
  <2>1. PaidFor(call'[d].row) /\ call'[d] \in Call
    <3>1. call'[d] # NoCall /\ call'[d] \in Call
      BY NoCallType
    <3>2. CASE call'[d] = new
      BY <3>1, <3>2
    <3>3. CASE call'[d] = call[d]
      BY <3>1, <3>3 DEF CallsPaid
    <3> QED
      BY <1>1, <3>1, <3>2, <3>3
  <2>2. call'[d].row \in Types
    BY <2>1 DEF Call
  <2> QED
    BY <2>1, <2>2, PaidForKept
<1>4. UrgentCalls'
  <2> SUFFICES ASSUME NEW d \in Calls, call'[d].kind \in Knowing, call'[d].row = "URGENT"
               PROVE  job'.status # "NONE" /\ (Exists' => job'.type = "URGENT")
    BY DEF UrgentCalls
  <2>1. job.status # "NONE" /\ (Exists => job.type = "URGENT")
    BY <1>1, NoCallType DEF UrgentCalls
  <2> QED
    BY <2>1 DEF JobKept
<1> QED
  BY <1>2, <1>3, <1>4

LEMMA CallStep ==
  ASSUME IInv, RowInv', JobKept, PaidKept,
         NEW c \in Calls, NEW new \in Call \cup {NoCall}, call' = [call EXCEPT ![c] = new],
         new.kind \in Reports => new.row \in Types,
         new.kind \in Knowing /\ new.row # "NONE" => PaidFor(new.row),
         new.kind \in Knowing /\ new.row = "URGENT" =>
           job.status # "NONE" /\ (Exists => job.type = "URGENT")
  PROVE  IInv'
<1>1. /\ call'[c] = new /\ call' \in [Calls -> Call \cup {NoCall}]
      /\ \A d \in Calls \ {c} : call'[d] = call[d]
  BY DEF IInv, CallInv, CallsOK
<1> QED
  BY <1>1, CallsStep

LEMMA SameRows ==
  ASSUME IInv, UNCHANGED <<rows, gateway>>
  PROVE  RowInv' /\ JobKept /\ PaidKept
BY DEF IInv, RowInv, RowsOK, RowsPaid, Earned, PaidFor, Placed, UrgentRow, Unmade, JobKept, PaidKept,
   Exists, rows, gateway

\* A call that only reads.
LEMMA ReadStep ==
  ASSUME IInv, UNCHANGED <<rows, gateway>>,
         NEW c \in Calls, NEW new \in Call \cup {NoCall}, call' = [call EXCEPT ![c] = new],
         new.kind \in Reports => new.row \in Types,
         new.kind \in Knowing /\ new.row # "NONE" => PaidFor(new.row),
         new.kind \in Knowing /\ new.row = "URGENT" =>
           job.status # "NONE" /\ (Exists => job.type = "URGENT")
  PROVE  IInv'
BY SameRows, CallStep

\* A call that commits its writes and ends.
LEMMA CommitStep ==
  ASSUME IInv, NEW c \in Calls, End(c), RowInv', JobKept, PaidKept
  PROVE  IInv'
BY NoCallType, CallStep DEF End

\* A step of which no call knows.
LEMMA RowStep ==
  ASSUME IInv, UNCHANGED call, RowInv', JobKept, PaidKept
  PROVE  IInv'
<1>1. CallsOK' /\ RowsNamed'
  BY DEF IInv, CallInv, CallsOK, RowsNamed
<1>2. CallsPaid'
  BY DEF IInv, CallInv, CallsOK, CallsPaid, PaidKept, PaidFor, Call, NoCall
<1>3. UrgentCalls'
  BY DEF IInv, CallInv, UrgentCalls, JobKept
<1> QED
  BY <1>1, <1>2, <1>3 DEF IInv, CallInv

\* The fresh calls: one that was idle keeps what it has selected of the job.
LEMMA FreshStep ==
  ASSUME IInv, UNCHANGED <<rows, gateway>>, NEW c \in Calls,
         NEW kind \in Kinds \ {"callback", "publish", "continue", "unflagging"},
         NEW selected \in Job, Begin(c, kind) \/ Read(c, kind, selected)
  PROVE  IInv'
<1>1. kind \notin Reports \cup Knowing
  BY DEF Reports, Knowing
<1>2. CASE Begin(c, kind)
  <2> DEFINE new == [NoCall EXCEPT !.kind = kind]
  <2>1. new \in Call /\ new.kind = kind
    BY NoCallType DEF NoCall, Call, Texts
  <2>2. call' = [call EXCEPT ![c] = new]
    BY <1>2 DEF Begin
  <2> HIDE DEF new
  <2> QED
    BY <1>1, <2>1, <2>2, ReadStep
<1>3. CASE Read(c, kind, selected)
  <2> DEFINE new == [NoCall EXCEPT !.kind = kind, !.saw = selected]
  <2>1. new \in Call /\ new.kind = kind
    BY DEF NoCall, Call, Texts
  <2>2. call' = [call EXCEPT ![c] = new]
    BY <1>3 DEF Read
  <2> HIDE DEF new
  <2> QED
    BY <1>1, <2>1, <2>2, ReadStep
<1> QED
  BY <1>2, <1>3

LEMMA BecomeStep ==
  ASSUME IInv, UNCHANGED <<rows, gateway>>, NEW c \in Calls, call[c].kind # "idle",
         NEW kind \in Kinds \ {"callback", "publish", "continue", "unflagging"}, Become(c, kind)
  PROVE  IInv'
<1> DEFINE new == [call[c] EXCEPT !.kind = kind]
<1>1. call[c] \in Call
  BY CallType DEF IInv, CallInv
<1>2. new \in Call /\ new.kind = kind /\ kind \notin Reports \cup Knowing
  BY <1>1 DEF Call, Reports, Knowing
<1>3. call' = [call EXCEPT ![c] = new]
  BY DEF Become
<1> HIDE DEF new
<1> QED
  BY <1>2, <1>3, ReadStep

LEMMA AbortInv ==
  ASSUME IInv, NEW c \in Calls, End(c), UNCHANGED <<rows, gateway>>
  PROVE  IInv'
BY SameRows, CommitStep

\* A payment that is charged is pending, under a reference issued for its type.
LEMMA ChargeRows ==
  ASSUME IInv, Exists, NEW t \in Types, NEW r \in References, Charge(t, r),
         t = "URGENT" => job.type = "URGENT", UNCHANGED <<job, chat, applied, final>>
  PROVE  RowInv' /\ JobKept /\ PaidKept
<1>1. RowsOK'
  <2>1. payment' \in [Types -> Payment] /\ issued' \in [Types -> SUBSET References]
    BY DEF Charge, IInv, RowInv, RowsOK, Payment
  <2>2. \A u \in Types : payment'[u].status # "NONE" => payment'[u].ref \in issued'[u]
    BY DEF Charge, IInv, RowInv, RowsOK, Payment
  <2>3. paid' \in SUBSET (issued'["POSTING"] \cup issued'["URGENT"])
    BY DEF Charge, IInv, RowInv, RowsOK, Types
  <2> QED
    BY <2>1, <2>2, <2>3 DEF IInv, RowInv, RowsOK, Exists
<1>2. PaidKept
  BY DEF Charge, PaidKept, IInv, RowInv, RowsOK
<1>3. \A u \in Types : PaidFor(u) => PaidFor(u)'
  BY <1>2 DEF PaidKept, PaidFor
<1>4. RowsPaid' /\ Placed'
  <2>1. Earned => Earned'
    BY <1>3 DEF Earned, Types
  <2>2. \A u \in Types : payment'[u].status = "SUCCESS" => PaidFor(u)'
    BY <1>3 DEF Charge, IInv, RowInv, RowsOK, RowsPaid
  <2> QED
    BY <1>3, <2>1, <2>2 DEF IInv, RowInv, RowsPaid, Placed, Exists, Types
<1>5. UrgentRow' /\ Unmade' /\ JobKept
  BY DEF Charge, IInv, RowInv, RowsOK, UrgentRow, Unmade, JobKept, Exists, Types
<1> QED
  BY <1>1, <1>2, <1>4, <1>5 DEF RowInv

\* The job changes, the payments do not.
LEMMA JobRows ==
  ASSUME IInv, UNCHANGED <<payment, applied, issued, paid>>, final' \in BOOLEAN,
         job' \in Job, Exists, Exists', job'.type = job.type,
         chat' \in {"NONE", "INACTIVE", "ACTIVE", "CLOSED"},
         job'.status \in {"OPEN", "IN_PROGRESS"} \/ final' => Earned,
         job'.status = "OPEN" /\ job'.fixer = "NONE" => PaidFor("POSTING")
  PROVE  RowInv' /\ JobKept /\ PaidKept
<1>1. \A u \in Types : PaidFor(u) => PaidFor(u)'
  BY DEF PaidFor
<1>2. RowsOK'
  BY DEF IInv, RowInv, RowsOK
<1>3. RowsPaid' /\ Placed'
  BY <1>1 DEF IInv, RowInv, RowsPaid, Placed, Earned, Types
<1>4. UrgentRow' /\ Unmade' /\ JobKept /\ PaidKept
  BY DEF IInv, RowInv, UrgentRow, Unmade, JobKept, PaidKept, Exists
<1> QED
  BY <1>2, <1>3, <1>4 DEF RowInv

-----------------------------------------------------------------------------
(* Creating and charging. *)

LEMMA CreateJobInv ==
  ASSUME IInv, NEW c \in Calls, NEW text \in Texts, CreateJob(c, text)
  PROVE  IInv'
<1> DEFINE new == [NoCall EXCEPT !.kind = "charge"]
<1>1. new \in Call /\ new.kind \notin Reports \cup Knowing
  BY NoCallType DEF NoCall, Call, Texts, Kinds, Reports, Knowing
<1>2. /\ job.status = "NONE" /\ call' = [call EXCEPT ![c] = new]
      /\ job' = [NoJob EXCEPT !.status = "DRAFT", !.text = text]
      /\ UNCHANGED <<payment, chat, applied, final, issued, paid>>
  BY DEF CreateJob, Begin, gateway
<1> HIDE DEF new
<1>3. /\ job' \in Job /\ job'.status = "DRAFT" /\ ~ final
      /\ \A t \in Types : payment[t].status = "NONE"
  BY <1>2 DEF NoJob, Job, IInv, RowInv, RowsOK, RowsPaid, Exists, Payment
<1>4. RowInv' /\ JobKept /\ PaidKept
  BY <1>2, <1>3
  DEF IInv, RowInv, RowsOK, RowsPaid, Placed, UrgentRow, Unmade, JobKept, PaidKept, Exists, Types
<1> QED
  BY <1>1, <1>2, <1>4, CallStep

LEMMA HireUrgentlyInv ==
  ASSUME IInv, NEW text \in Texts, NEW r \in References, HireUrgently(text, r)
  PROVE  IInv'
<1>1. /\ job' \in Job /\ job'.status = "DRAFT" /\ job'.type = "URGENT" /\ ~ final
      /\ \A t \in Types : payment[t].status = "NONE"
  BY DEF HireUrgently, NoJob, Job, Texts, Fixers, IInv, RowInv, RowsOK, RowsPaid, Exists, Payment
<1>2. payment' \in [Types -> Payment] /\ issued' \in [Types -> SUBSET References]
  BY DEF HireUrgently, Charge, IInv, RowInv, RowsOK, Payment
<1>3. \A u \in Types : /\ payment'[u].status # "NONE" => payment'[u].ref \in issued'[u]
                       /\ payment'[u].status # "SUCCESS"
  BY <1>1 DEF HireUrgently, Charge, IInv, RowInv, RowsOK, Payment
<1>4. PaidKept /\ paid' \in SUBSET (issued'["POSTING"] \cup issued'["URGENT"])
  BY DEF HireUrgently, Charge, IInv, RowInv, RowsOK, Types, PaidKept
<1>5. chat' = "INACTIVE" /\ applied' = applied /\ final' = final /\ call' = call /\ job.status = "NONE"
  BY DEF HireUrgently
<1>6. RowInv' /\ JobKept
  BY <1>1, <1>2, <1>3, <1>4, <1>5
  DEF IInv, RowInv, RowsOK, RowsPaid, Placed, UrgentRow, Unmade, JobKept, Exists
<1> QED
  BY <1>4, <1>5, <1>6, RowStep

LEMMA RequestChargeInv ==
  ASSUME IInv, NEW c \in Calls, RequestCharge(c)
  PROVE  IInv'
BY NoCallType, FreshStep DEF RequestCharge, Kinds

LEMMA CheckChargeInv ==
  ASSUME IInv, NEW c \in Calls, CheckCharge(c)
  PROVE  IInv'
BY BecomeStep, AbortInv DEF CheckCharge, Kinds

LEMMA WriteChargeInv ==
  ASSUME IInv, NEW c \in Calls, NEW r \in References, WriteCharge(c, r)
  PROVE  IInv'
<1>1. RowInv' /\ JobKept /\ PaidKept
  BY ChargeRows DEF WriteCharge, Types
<1> QED
  BY <1>1, CommitStep DEF WriteCharge

LEMMA CheckContinueInv ==
  ASSUME IInv, NEW c \in Calls, CheckContinue(c)
  PROVE  IInv'
<1> PICK t \in Types : call' = [call EXCEPT ![c] =
                          [NoCall EXCEPT !.kind = "continue", !.row = t, !.ref = payment[t].ref]]
  BY DEF CheckContinue, Types
<1> DEFINE new == [NoCall EXCEPT !.kind = "continue", !.row = t, !.ref = payment[t].ref]
<1>1. payment[t].ref \in References \cup {None}
  BY DEF IInv, RowInv, RowsOK, Payment
<1>2. new \in Call /\ new.kind = "continue" /\ new.row \in Types
  BY <1>1, NoCallType DEF NoCall, Call, Texts, Kinds
<1>3. call' = [call EXCEPT ![c] = new] /\ UNCHANGED <<rows, gateway>>
  BY DEF CheckContinue
<1> HIDE DEF new
<1> QED
  BY <1>2, <1>3, ReadStep DEF Knowing

LEMMA WriteContinueInv ==
  ASSUME IInv, NEW c \in Calls, NEW r \in References, WriteContinue(c, r)
  PROVE  IInv'
<1>1. call[c].row \in Types /\ payment[call[c].row].status # "NONE"
  BY DEF WriteContinue, IInv, CallInv, RowsNamed, Reports
<1>2. Exists /\ (call[c].row = "URGENT" => job.type = "URGENT")
  BY <1>1 DEF IInv, RowInv, RowsOK, UrgentRow, Unmade
<1>3. RowInv' /\ JobKept /\ PaidKept
  BY <1>1, <1>2, ChargeRows DEF WriteContinue
<1> QED
  BY <1>3, CommitStep DEF WriteContinue

LEMMA PayInv ==
  ASSUME IInv, NEW r \in References, Pay(r)
  PROVE  IInv'
<1>1. /\ UNCHANGED <<job, payment, chat, applied, final, issued, call>> /\ paid \subseteq paid'
      /\ paid' \in SUBSET (issued["POSTING"] \cup issued["URGENT"])
  BY DEF Pay, rows, IInv, RowInv, RowsOK
<1>2. PaidKept /\ \A u \in Types : PaidFor(u) => PaidFor(u)'
  BY <1>1 DEF PaidKept, PaidFor
<1>3. RowInv' /\ JobKept
  BY <1>1, <1>2
  DEF IInv, RowInv, RowsOK, RowsPaid, Placed, UrgentRow, Unmade, JobKept, Exists, Types, Earned
<1> QED
  BY <1>1, <1>2, <1>3, RowStep

-----------------------------------------------------------------------------
(* Reports of the payment. *)

LEMMA FindPaymentInv ==
  ASSUME IInv, NEW c \in Calls, NEW t \in Types, FindPayment(c, t)
  PROVE  IInv'
<1> DEFINE new == [NoCall EXCEPT !.kind = "callback", !.row = t]
<1>1. new \in Call /\ new.kind = "callback" /\ new.row = t
  BY NoCallType DEF NoCall, Call, Texts, Kinds
<1>2. call' = [call EXCEPT ![c] = new] /\ UNCHANGED <<rows, gateway>>
  BY DEF FindPayment
<1>3. PaidFor(t) /\ Exists /\ (t = "URGENT" => job.type = "URGENT")
  BY DEF FindPayment, PaidReferences, PaidFor, IInv, RowInv, RowsOK, UrgentRow, Unmade
<1> HIDE DEF new
<1> QED
  BY <1>1, <1>2, <1>3, ReadStep DEF Exists

LEMMA ScreenJobInv ==
  ASSUME IInv, NEW c \in Calls, ScreenJob(c)
  PROVE  IInv'
<1> DEFINE flagging == job.flagged \/ job.text = "BANNED"
           new == [call[c] EXCEPT !.kind = "publish", !.flagging = flagging]
<1>1. call[c].kind = "callback" /\ UNCHANGED <<rows, gateway>> /\ call[c] \in Call
  BY CallType DEF ScreenJob, IInv, CallInv
<1>2. CASE payment[call[c].row].status = "PENDING"
  <2>1. flagging \in BOOLEAN
    OBVIOUS
  <2>2. call' = [call EXCEPT ![c] = new]
    BY <1>2 DEF ScreenJob
  <2> HIDE DEF flagging
  <2>3. new \in Call /\ new.kind = "publish" /\ new.row = call[c].row
    BY <1>1, <2>1 DEF Call, Kinds
  <2> HIDE DEF new
  <2>4. /\ call[c].row \in Types
        /\ call[c].row # "NONE" => PaidFor(call[c].row)
        /\ call[c].row = "URGENT" => job.status # "NONE" /\ (Exists => job.type = "URGENT")
    BY <1>1 DEF IInv, CallInv, RowsNamed, CallsPaid, UrgentCalls, Reports, Knowing
  <2> QED
    BY <1>1, <2>2, <2>3, <2>4, ReadStep
<1>3. CASE payment[call[c].row].status # "PENDING"
  BY <1>1, <1>3, AbortInv DEF ScreenJob
<1> QED
  BY <1>2, <1>3

\* What both reports do to the payment and the job.
LEMMA PublishRows ==
  ASSUME IInv, NEW c \in Calls, call[c].kind = "publish", NEW t \in Types, call[c].row = t,
         Claimable(t), payment' = [payment EXCEPT ![t].status = "SUCCESS"],
         NEW fixer \in Fixers \cup {"NONE"}, job' = [Published(call[c].flagging) EXCEPT !.fixer = fixer],
         t = "POSTING" \/ call[c].flagging \/ fixer # "NONE",
         chat' \in {"NONE", "INACTIVE", "ACTIVE", "CLOSED"}, End(c),
         UNCHANGED <<applied, final, issued, paid>>
  PROVE  IInv'
<1> DEFINE held == call[c].flagging
<1>1. held \in BOOLEAN
  BY CallType DEF IInv, CallInv, Call
<1>2. PaidFor(t) /\ Exists /\ payment[t].ref \in issued[t] /\ (t = "URGENT" => job.type = "URGENT")
  BY DEF Claimable, IInv, RowInv, RowsOK, UrgentRow, Unmade, CallInv, CallsPaid, Knowing, Types
<1>3. /\ job' \in Job /\ job'.type = job.type /\ job'.fixer = fixer
      /\ job'.status = IF held THEN "DRAFT" ELSE "OPEN"
  BY <1>1 DEF Published, IInv, RowInv, RowsOK, Job
<1> HIDE DEF held
<1>4. /\ payment' \in [Types -> Payment] /\ Exists'
      /\ \A u \in Types : payment'[u].ref = payment[u].ref
      /\ \A u \in Types \ {t} : payment'[u].status = payment[u].status
      /\ payment'[t].status = "SUCCESS"
  BY <1>3 DEF IInv, RowInv, RowsOK, Payment, Exists
<1>5. RowsOK'
  BY <1>2, <1>3, <1>4 DEF IInv, RowInv, RowsOK
<1>6. Earned' /\ \A u \in Types : PaidFor(u) => PaidFor(u)'
  BY <1>2, <1>3 DEF Earned, PaidFor, Types
<1>7. RowsPaid'
  BY <1>2, <1>4, <1>6 DEF IInv, RowInv, RowsPaid
<1>8. Placed'
  BY <1>2, <1>3, <1>6 DEF Placed, held
<1>9. UrgentRow' /\ Unmade' /\ JobKept /\ PaidKept
  BY <1>2, <1>3, <1>4 DEF IInv, RowInv, UrgentRow, Unmade, JobKept, PaidKept, Exists, Types
<1> QED
  BY <1>5, <1>7, <1>8, <1>9, CommitStep DEF RowInv

LEMMA PublishPostingInv ==
  ASSUME IInv, NEW c \in Calls, PublishPosting(c)
  PROVE  IInv'
<1>1. job.fixer \in Fixers \cup {"NONE"} /\ chat \in {"NONE", "INACTIVE", "ACTIVE", "CLOSED"}
  BY DEF IInv, RowInv, RowsOK, Job
<1>2. Published(call[c].flagging) = [Published(call[c].flagging) EXCEPT !.fixer = job.fixer]
  BY DEF Published, IInv, RowInv, RowsOK, Job
<1>3. /\ call[c].kind = "publish" /\ call[c].row = "POSTING" /\ Claimable("POSTING") /\ End(c)
      /\ payment' = [payment EXCEPT !["POSTING"].status = "SUCCESS"]
      /\ job' = Published(call[c].flagging) /\ chat' = chat
      /\ UNCHANGED <<applied, final, issued, paid>>
  BY DEF PublishPosting, gateway
<1> QED
  BY <1>1, <1>2, <1>3, PublishRows DEF Types

LEMMA PublishUrgentInv ==
  ASSUME IInv, NEW c \in Calls, PublishUrgent(c)
  PROVE  IInv'
<1> DEFINE fixer == IF call[c].flagging THEN "NONE" ELSE "HIRED"
<1>1. fixer \in Fixers \cup {"NONE"} /\ (call[c].flagging \/ fixer # "NONE")
  BY DEF Fixers
<1>2. /\ call[c].kind = "publish" /\ call[c].row = "URGENT" /\ Claimable("URGENT") /\ End(c)
      /\ payment' = [payment EXCEPT !["URGENT"].status = "SUCCESS"]
      /\ job' = [Published(call[c].flagging) EXCEPT !.fixer = fixer]
      /\ chat' \in {"NONE", "INACTIVE", "ACTIVE", "CLOSED"}
      /\ UNCHANGED <<applied, final, issued, paid>>
  BY DEF PublishUrgent, gateway
<1> HIDE DEF fixer
<1> QED
  BY <1>1, <1>2, PublishRows DEF Types

LEMMA FindPublishedInv ==
  ASSUME IInv, NEW c \in Calls, FindPublished(c)
  PROVE  IInv'
BY AbortInv DEF FindPublished, Abort

-----------------------------------------------------------------------------
(* Edits, deletion, applications. *)

LEMMA CheckEditInv ==
  ASSUME IInv, NEW c \in Calls, NEW text \in Texts, CheckEdit(c, text)
  PROVE  IInv'
<1> DEFINE new == [NoCall EXCEPT !.kind = "edit", !.text = text]
<1>1. new \in Call /\ new.kind \notin Reports \cup Knowing
  BY NoCallType DEF NoCall, Call, Kinds, Reports, Knowing
<1>2. call' = [call EXCEPT ![c] = new] /\ UNCHANGED <<rows, gateway>>
  BY DEF CheckEdit
<1> HIDE DEF new
<1> QED
  BY <1>1, <1>2, ReadStep

LEMMA WriteEditInv ==
  ASSUME IInv, NEW c \in Calls, WriteEdit(c)
  PROVE  IInv'
<1>1. call[c].text \in Texts
  BY CallType DEF WriteEdit, IInv, CallInv, Call
<1>2. /\ job' \in Job /\ job'.type = job.type /\ job'.status = job.status
      /\ job'.fixer = job.fixer
  BY <1>1 DEF WriteEdit, IInv, RowInv, RowsOK, Job
<1>3. RowInv' /\ JobKept /\ PaidKept
  BY <1>2, JobRows DEF WriteEdit, gateway, IInv, RowInv, RowsOK, RowsPaid, Placed, Exists
<1> QED
  BY <1>3, CommitStep DEF WriteEdit

LEMMA RequestDeleteInv ==
  ASSUME IInv, NEW c \in Calls, RequestDelete(c)
  PROVE  IInv'
<1>1. [NoJob EXCEPT !.status = job.status, !.flagged = job.flagged] \in Job
  BY DEF IInv, RowInv, RowsOK, NoJob, Job, Texts
<1> QED
  BY <1>1, FreshStep DEF RequestDelete, Kinds

LEMMA ArchiveInv ==
  ASSUME IInv, NEW c \in Calls, Archive(c)
  PROVE  IInv'
BY AbortInv DEF Archive

LEMMA CheckDeleteInv ==
  ASSUME IInv, NEW c \in Calls, CheckDelete(c)
  PROVE  IInv'
BY BecomeStep DEF CheckDelete, Kinds

\* Without payments, whatever the job has become.
LEMMA NoPaymentRows ==
  ASSUME IInv, payment' = NoPayments, final' = FALSE, UNCHANGED <<issued, paid>>,
         job' \in Job, chat' \in {"NONE", "INACTIVE", "ACTIVE", "CLOSED"}, applied' \in BOOLEAN,
         job' = job \/ job'.status = "DELETED", job.status # "NONE"
  PROVE  RowInv' /\ JobKept /\ PaidKept
<1>1. RowsOK' /\ \A t \in Types : payment'[t].status = "NONE"
  BY NoCallType DEF IInv, RowInv, RowsOK, NoPayments, NoPayment
<1>2. \A u \in Types : PaidFor(u) => PaidFor(u)'
  BY DEF PaidFor
<1>3. RowsPaid' /\ Placed'
  BY <1>1, <1>2 DEF IInv, RowInv, RowsPaid, Placed, Earned, Types
<1>4. UrgentRow' /\ Unmade' /\ JobKept /\ PaidKept
  BY <1>1 DEF UrgentRow, Unmade, JobKept, PaidKept, Exists, Types
<1> QED
  BY <1>1, <1>3, <1>4 DEF RowInv

LEMMA PurgePaymentsInv ==
  ASSUME IInv, NEW c \in Calls, PurgePayments(c)
  PROVE  IInv'
<1> DEFINE new == [call[c] EXCEPT !.kind = "drop"]
<1>1. call[c] \in Call /\ call[c].kind = "purge"
  BY CallType DEF PurgePayments, IInv, CallInv
<1>2. new \in Call /\ new.kind \notin Reports \cup Knowing
  BY <1>1 DEF Call, Kinds, Reports, Knowing
<1>3. /\ call' = [d \in Calls |-> IF d = c THEN new
                                 ELSE IF call[d].kind \in {"callback", "publish"} THEN NoCall
                                 ELSE call[d]]
      /\ payment' = NoPayments /\ final' = FALSE
      /\ UNCHANGED <<job, chat, applied, issued, paid>>
  BY DEF PurgePayments, gateway
<1> HIDE DEF new
<1>4. /\ call' \in [Calls -> Call \cup {NoCall}] /\ call'[c] = new
      /\ \A d \in Calls \ {c} : call'[d] = call[d] \/ call'[d] = NoCall
  BY <1>2, <1>3 DEF IInv, CallInv, CallsOK
<1>5. RowInv' /\ JobKept /\ PaidKept
  <2>1. CASE job.status # "NONE"
    BY <1>3, <2>1, NoPaymentRows DEF IInv, RowInv, RowsOK
  <2>2. CASE job.status = "NONE"
    <3>1. RowsOK' /\ \A t \in Types : payment'[t].status = "NONE"
      BY <1>3, NoCallType DEF IInv, RowInv, RowsOK, NoPayments, NoPayment
    <3> QED
      BY <1>3, <2>2, <3>1
      DEF IInv, RowInv, RowsPaid, Placed, UrgentRow, Unmade, JobKept, PaidKept, Exists, Types
  <2> QED
    BY <2>1, <2>2
<1> QED
  BY <1>2, <1>4, <1>5, CallsStep

LEMMA DropJobInv ==
  ASSUME IInv, NEW c \in Calls, DropJob(c)
  PROVE  IInv'
<1>1. job' \in Job /\ job'.status = "DELETED"
  BY DEF DropJob, NoJob, Job, Texts
<1>2. RowInv' /\ JobKept /\ PaidKept
  BY <1>1, NoPaymentRows DEF DropJob, gateway, Exists
<1> QED
  BY <1>2, CommitStep DEF DropJob

LEMMA CheckApplyInv ==
  ASSUME IInv, NEW c \in Calls, CheckApply(c)
  PROVE  IInv'
BY NoCallType, FreshStep DEF CheckApply, Kinds

LEMMA WriteApplyInv ==
  ASSUME IInv, NEW c \in Calls, WriteApply(c)
  PROVE  IInv'
<1>1. UNCHANGED <<job, payment, chat, final, issued, paid>> /\ applied' \in BOOLEAN /\ End(c)
  BY DEF WriteApply, gateway
<1>2. RowInv' /\ JobKept /\ PaidKept
  BY <1>1 DEF IInv, RowInv, RowsOK, RowsPaid, Earned, PaidFor, Placed, UrgentRow, Unmade, JobKept, PaidKept,
    Exists
<1> QED
  BY <1>1, <1>2, CommitStep

-----------------------------------------------------------------------------
(* Flags, the chat, the start and the release of the job. *)

LEMMA ReadForFlagInv ==
  ASSUME IInv, NEW c \in Calls, ReadForFlag(c)
  PROVE  IInv'
<1>1. [NoJob EXCEPT !.type = job.type, !.fixer = job.fixer] \in Job
  BY DEF IInv, RowInv, RowsOK, NoJob, Job, Texts
<1> QED
  BY <1>1, FreshStep DEF ReadForFlag, Kinds

LEMMA FlagInv ==
  ASSUME IInv, NEW c \in Calls, Flag(c)
  PROVE  IInv'
<1>1. /\ job' \in Job /\ job'.type = job.type /\ job'.status = job.status
      /\ job'.fixer = job.fixer
  BY DEF Flag, IInv, RowInv, RowsOK, Job
<1>2. RowInv' /\ JobKept /\ PaidKept
  BY <1>1, JobRows DEF Flag, gateway, IInv, RowInv, RowsOK, RowsPaid, Placed, Exists
<1> QED
  BY <1>2, CommitStep DEF Flag

LEMMA ReadForUnflagInv ==
  ASSUME IInv, NEW c \in Calls, ReadForUnflag(c)
  PROVE  IInv'
<1>1. [NoJob EXCEPT !.status = job.status] \in Job
  BY DEF IInv, RowInv, RowsOK, NoJob, Job, Texts
<1> QED
  BY <1>1, FreshStep DEF ReadForUnflag, Kinds

LEMMA FindSuccessfulInv ==
  ASSUME IInv, NEW c \in Calls, FindSuccessful(c)
  PROVE  IInv'
<1> DEFINE new == [call[c] EXCEPT !.kind = "unflagging", !.row = LastSuccessful]
<1>1. /\ call[c].kind = "unflag" /\ call[c] \in Call /\ UNCHANGED <<rows, gateway>>
      /\ call' = [call EXCEPT ![c] = new]
  BY CallType DEF FindSuccessful, IInv, CallInv
<1>2. /\ LastSuccessful \in Types \cup {"NONE"}
      /\ LastSuccessful # "NONE" => payment[LastSuccessful].status = "SUCCESS"
  BY DEF LastSuccessful, Types
<1>3. /\ LastSuccessful # "NONE" => PaidFor(LastSuccessful)
      /\ LastSuccessful = "URGENT" => Exists /\ job.type = "URGENT"
  BY <1>2 DEF IInv, RowInv, RowsOK, RowsPaid, UrgentRow, Unmade
<1>4. new \in Call /\ new.kind = "unflagging" /\ new.row = LastSuccessful
  BY <1>1, <1>2 DEF Call, Kinds
<1> HIDE DEF new
<1> QED
  BY <1>1, <1>3, <1>4, ReadStep DEF Reports, Exists

LEMMA UnflagInv ==
  ASSUME IInv, NEW c \in Calls, Unflag(c)
  PROVE  IInv'
<1> DEFINE urgent == call[c].row = "URGENT"
           opens == call[c].saw.status = "DRAFT" /\ call[c].row # "NONE"
<1>1. /\ call[c].kind = "unflagging" /\ Exists
      /\ job' = [job EXCEPT !.flagged = FALSE,
                            !.status = IF opens THEN "OPEN" ELSE @,
                            !.fixer = IF opens /\ urgent THEN "HIRED" ELSE @]
      /\ chat' = IF urgent THEN "ACTIVE" ELSE chat
      /\ End(c)
      /\ UNCHANGED <<payment, applied, final, issued, paid>>
  BY DEF Unflag, gateway
<1>2. call[c].row \in Types \cup {"NONE"}
  BY <1>1, CallType DEF IInv, CallInv, Call
<1>3. /\ opens => PaidFor("POSTING") \/ (urgent /\ PaidFor("URGENT"))
      /\ opens /\ ~ urgent => PaidFor("POSTING")
      /\ urgent => job.type = "URGENT"
  BY <1>1, <1>2 DEF IInv, CallInv, CallsPaid, UrgentCalls, Knowing, Types
<1> HIDE DEF urgent, opens
<1>4. /\ job' \in Job /\ job'.type = job.type
      /\ job'.status = IF opens THEN "OPEN" ELSE job.status
      /\ job'.fixer = IF opens /\ urgent THEN "HIRED" ELSE job.fixer
  BY <1>1 DEF IInv, RowInv, RowsOK, Job, Fixers
<1>5. RowInv' /\ JobKept /\ PaidKept
  <2>1. Exists' /\ (job'.status \in {"OPEN", "IN_PROGRESS"} \/ final' => Earned)
    BY <1>1, <1>3, <1>4 DEF IInv, RowInv, RowsPaid, Earned, Exists
  <2>2. job'.status = "OPEN" /\ job'.fixer = "NONE" => PaidFor("POSTING")
    BY <1>3, <1>4 DEF IInv, RowInv, Placed
  <2>3. chat' \in {"NONE", "INACTIVE", "ACTIVE", "CLOSED"} /\ final' \in BOOLEAN
    BY <1>1 DEF IInv, RowInv, RowsOK
  <2> QED
    BY <1>1, <1>4, <2>1, <2>2, <2>3, JobRows
<1> QED
  BY <1>1, <1>5, CommitStep

LEMMA WriteFirstInv ==
  ASSUME IInv, WriteFirst
  PROVE  IInv'
<1>1. UNCHANGED <<job, payment, applied, final, issued, paid, call>> /\ chat' = "ACTIVE"
  BY DEF WriteFirst, gateway
<1>2. RowInv' /\ JobKept /\ PaidKept
  BY <1>1 DEF IInv, RowInv, RowsOK, RowsPaid, Earned, PaidFor, Placed, UrgentRow, Unmade, JobKept, PaidKept,
    Exists
<1> QED
  BY <1>1, <1>2, RowStep

LEMMA AssignInv ==
  ASSUME IInv, Exists, Earned, NEW status \in {"OPEN", "IN_PROGRESS"}, NEW fixer \in Fixers,
         Assign(status, fixer), final' \in BOOLEAN
  PROVE  IInv'
<1>1. /\ job' \in Job /\ job'.type = job.type /\ job'.status = status /\ job'.fixer # "NONE"
      /\ chat' \in {"NONE", "INACTIVE", "ACTIVE", "CLOSED"}
      /\ UNCHANGED <<payment, applied, issued, paid, call>>
  BY DEF Assign, gateway, IInv, RowInv, RowsOK, Job, Fixers
<1>2. RowInv' /\ JobKept /\ PaidKept
  BY <1>1, JobRows DEF Exists
<1> QED
  BY <1>1, <1>2, RowStep

LEMMA AgreeInv ==
  ASSUME IInv, NEW fixer \in Fixers, Agree(fixer)
  PROVE  IInv'
BY AssignInv DEF Agree, IInv, RowInv, RowsPaid, Exists

LEMMA StartJobInv ==
  ASSUME IInv, NEW fixer \in Fixers, StartJob(fixer)
  PROVE  IInv'
BY AssignInv DEF StartJob, IInv, RowInv, RowsPaid

LEMMA RunOutInv ==
  ASSUME IInv, RunOut
  PROVE  IInv'
<1>1. /\ final /\ final' = FALSE /\ UNCHANGED <<payment, applied, issued, paid, call>>
      /\ chat' \in {"NONE", "INACTIVE", "ACTIVE", "CLOSED"} /\ Exists /\ Earned
  BY DEF RunOut, gateway, IInv, RowInv, RowsOK, RowsPaid
<1>2. RowInv' /\ JobKept /\ PaidKept
  <2>1. CASE job' = job
    BY <1>1, <2>1, JobRows DEF IInv, RowInv, RowsOK, RowsPaid, Placed, Exists
  <2>2. CASE /\ job.status = "OPEN"
             /\ job' = [job EXCEPT !.status = IF job.type = "URGENT" THEN "DRAFT" ELSE "OPEN",
                                   !.fixer = "NONE"]
    <3>1. /\ job' \in Job /\ job'.type = job.type /\ Exists'
          /\ job'.status = "OPEN" => job.type # "URGENT"
          /\ job'.status # "IN_PROGRESS"
      BY <2>2 DEF IInv, RowInv, RowsOK, Job, Exists
    <3> QED
      BY <1>1, <3>1, JobRows DEF Earned
  <2> QED
    BY <2>1, <2>2 DEF RunOut
<1> QED
  BY <1>1, <1>2, RowStep

-----------------------------------------------------------------------------
LEMMA NextInv == IInv /\ [Next]_vars => IInv'
<1> SUFFICES ASSUME IInv, [Next]_vars PROVE IInv'
  OBVIOUS
<1>1. CASE UNCHANGED vars
  BY <1>1, SameRows, RowStep DEF vars
<1>2. ASSUME NEW c \in Calls, Abort(c) PROVE IInv'
  BY <1>2, AbortInv DEF Abort
<1> QED
  BY <1>1, <1>2, CreateJobInv, HireUrgentlyInv, RequestChargeInv, CheckChargeInv, WriteChargeInv,
     CheckContinueInv, WriteContinueInv, PayInv, FindPaymentInv, ScreenJobInv, PublishPostingInv,
     PublishUrgentInv, FindPublishedInv, CheckEditInv, WriteEditInv, RequestDeleteInv, ArchiveInv,
     CheckDeleteInv, PurgePaymentsInv, DropJobInv, CheckApplyInv, WriteApplyInv, ReadForFlagInv,
     FlagInv, ReadForUnflagInv, FindSuccessfulInv, UnflagInv, WriteFirstInv, AgreeInv, StartJobInv,
     RunOutInv
  DEF Next

\* The inductive invariant holds in every reachable state.
THEOREM Invariance == Spec => []IInv
BY InitInv, NextInv, PTL DEF Spec

\* Every row keeps its type, and a payment its job and its reference.
THEOREM TypeCorrect == Spec => []TypeOK
<1>1. IInv => TypeOK
  BY DEF IInv, RowInv, RowsOK, CallInv, CallsOK, TypeOK, Exists
<1> QED
  BY <1>1, Invariance, PTL

\* Nothing is published before the client has paid a fee that publishes it (handleWebhook,
\* continuePayment, unflagJob).
THEOREM PublishedPaid == Spec => []PublishedAfterPayment
<1>1. IInv => PublishedAfterPayment
  BY DEF IInv, RowInv, RowsPaid, Earned, PublishedAfterPayment
<1> QED
  BY <1>1, Invariance, PTL

\* An urgent hire gets on the marketplace only by a posting fee that was paid, too
\* (completePostingPayment, completeUrgentHirePayment, unflagJob, the expiration).
THEOREM ListedPaid == Spec => []ListedAsPaid
<1>1. IInv => ListedAsPaid
  BY DEF IInv, RowInv, Placed, ListedAsPaid
<1> QED
  BY <1>1, Invariance, PTL

-----------------------------------------------------------------------------
(* What a step may not do. *)

FlagKeeping == job.flagged => job'.flagged \/ ~ Exists'
Rewriting == \E c \in Calls : call[c].kind = "charging" /\ call'[c] = NoCall
Deleting == \E c \in Calls : call[c].kind \in {"purge", "drop"} /\ call'[c] # call[c]

\* The steps that write a payment or clear a flag, and which call takes them.
LEMMA Writers ==
  ASSUME IInv, [Next]_vars
  PROVE  \/ payment' = payment /\ FlagKeeping
         \/ payment' = payment /\ \E c \in Calls : Unflag(c)
         \/ Deleting /\ FlagKeeping
         \/ \E t \in Types : /\ \A u \in Types \ {t} : payment'[u] = payment[u]
                             /\ payment[t].status # "SUCCESS" \/ (t = "POSTING" /\ Rewriting)
                             /\ \/ FlagKeeping
                                \/ payment[t].status = "PENDING" /\ payment'[t].status = "SUCCESS"
<1>0. /\ NoCall.kind = "idle" /\ call \in [Calls -> Call \cup {NoCall}]
      /\ payment \in [Types -> Payment] /\ job \in Job
      /\ \A t \in Types : payment[t].status # "NONE" => Exists
  BY DEF NoCall, IInv, CallInv, CallsOK, RowInv, RowsOK
<1>1. ASSUME NEW c \in Calls, NEW r \in References, WriteCharge(c, r)
      PROVE  Rewriting /\ job' = job /\ \A u \in Types \ {"POSTING"} : payment'[u] = payment[u]
  BY <1>0, <1>1 DEF WriteCharge, Charge, End, Rewriting
<1>2. ASSUME NEW c \in Calls, PurgePayments(c)
      PROVE  Deleting /\ job' = job
  <2>1. call[c].kind = "purge" /\ call[c] \in Call /\ job' = job
    BY <1>0, <1>2 DEF PurgePayments
  <2>2. call'[c].kind = "drop"
    BY <1>0, <1>2, <2>1 DEF PurgePayments, Call
  <2> QED
    BY <2>1, <2>2 DEF Deleting
<1>3. ASSUME NEW c \in Calls, DropJob(c)
      PROVE  Deleting /\ ~ Exists'
  BY <1>0, <1>3 DEF DropJob, End, NoJob, Exists, Deleting
<1>4. ASSUME NEW c \in Calls, NEW text \in Texts, CreateJob(c, text)
      PROVE  payment' = payment /\ FlagKeeping
  <2>1. job.status = "NONE" /\ payment' = payment
    BY <1>4 DEF CreateJob
  <2>2. ~ job.flagged
    BY <2>1 DEF IInv, RowInv, Unmade
  <2> QED
    BY <2>1, <2>2 DEF FlagKeeping
<1>5. ASSUME NEW text \in Texts, NEW r \in References, HireUrgently(text, r)
      PROVE  /\ \A u \in Types \ {"URGENT"} : payment'[u] = payment[u]
             /\ payment["URGENT"].status # "SUCCESS" /\ FlagKeeping
  <2>1. job.status = "NONE" /\ \A u \in Types \ {"URGENT"} : payment'[u] = payment[u]
    BY <1>0, <1>5 DEF HireUrgently, Charge
  <2>2. ~ job.flagged
    BY <2>1 DEF IInv, RowInv, Unmade
  <2> QED
    BY <1>0, <2>1, <2>2 DEF FlagKeeping, Exists, Types
<1>6. ASSUME NEW c \in Calls, NEW r \in References, WriteContinue(c, r)
      PROVE  /\ \A u \in Types \ {call[c].row} : payment'[u] = payment[u]
             /\ call[c].row \in Types /\ payment[call[c].row].status # "SUCCESS" /\ job' = job
  BY <1>0, <1>6 DEF WriteContinue, Charge, IInv, CallInv, RowsNamed, Reports
<1>7. ASSUME NEW c \in Calls, PublishPosting(c) \/ PublishUrgent(c)
      PROVE  \E t \in Types : /\ \A u \in Types \ {t} : payment'[u] = payment[u]
                              /\ payment[t].status = "PENDING" /\ payment'[t].status = "SUCCESS"
  <2>1. PICK t \in Types : Claimable(t) /\ payment' = [payment EXCEPT ![t].status = "SUCCESS"]
    BY <1>7 DEF PublishPosting, PublishUrgent, Types
  <2>2. payment[t] \in Payment /\ payment[t].status = "PENDING"
    BY <1>0, <2>1 DEF Claimable
  <2>3. payment'[t].status = "SUCCESS" /\ \A u \in Types \ {t} : payment'[u] = payment[u]
    BY <1>0, <2>1, <2>2 DEF Payment
  <2> QED
    BY <2>2, <2>3
<1>8. ASSUME NEW c \in Calls, Unflag(c) PROVE payment' = payment
  BY <1>8 DEF Unflag
<1>9. ASSUME NEW c \in Calls, WriteEdit(c) \/ Flag(c)
      PROVE  payment' = payment /\ FlagKeeping
  BY <1>0, <1>9 DEF WriteEdit, Flag, Job, FlagKeeping
<1>10. ASSUME \/ \E fixer \in Fixers : Agree(fixer) \/ StartJob(fixer)
              \/ RunOut
       PROVE  payment' = payment /\ FlagKeeping
  BY <1>0, <1>10 DEF Agree, StartJob, Assign, RunOut, Job, FlagKeeping
<1>11. ASSUME NEW c \in Calls,
              \/ RequestCharge(c) \/ CheckCharge(c) \/ CheckContinue(c) \/ Archive(c)
              \/ ScreenJob(c) \/ FindPublished(c) \/ RequestDelete(c) \/ CheckDelete(c)
              \/ CheckApply(c) \/ WriteApply(c) \/ ReadForFlag(c) \/ ReadForUnflag(c)
              \/ FindSuccessful(c) \/ Abort(c)
              \/ \E text \in Texts : CheckEdit(c, text)
              \/ \E t \in Types : FindPayment(c, t)
       PROVE  payment' = payment /\ job' = job
  BY <1>11 DEF RequestCharge, CheckCharge, CheckContinue, FindPayment, ScreenJob, FindPublished, Abort,
     RequestDelete, CheckDelete, Archive, CheckApply, WriteApply, ReadForFlag, ReadForUnflag,
     FindSuccessful, CheckEdit, rows
<1>12. ASSUME WriteFirst \/ \E r \in References : Pay(r) PROVE payment' = payment /\ job' = job
  BY <1>12 DEF WriteFirst, Pay, rows
<1>13. CASE UNCHANGED vars
  BY <1>13 DEF vars, rows, FlagKeeping
<1>14. job' = job \/ ~ Exists' => FlagKeeping
  BY DEF FlagKeeping
<1>15. "POSTING" \in Types /\ "URGENT" \in Types
  BY DEF Types
<1> QED
  BY <1>1, <1>2, <1>3, <1>4, <1>5, <1>6, <1>7, <1>8, <1>9, <1>10, <1>11, <1>12, <1>13, <1>14, <1>15
  DEF Next

\* A flag outlives every report but the first one of each payment (completePostingPayment,
\* completeUrgentHirePayment).
THEOREM FlagKept == Spec => FlagOutlivesReports
<1>1. IInv /\ [Next]_vars =>
        [job.flagged /\ Exists' /\ ~ job'.flagged =>
           \/ \E c \in Calls : call[c].kind = "unflagging" /\ call'[c] = NoCall
           \/ \E t \in Types : payment[t].status = "PENDING" /\ payment'[t].status = "SUCCESS"]_vars
  <2> SUFFICES ASSUME IInv, [Next]_vars, job.flagged, Exists', ~ job'.flagged,
                      ~ \E t \in Types : payment[t].status = "PENDING" /\ payment'[t].status = "SUCCESS"
               PROVE  \E c \in Calls : call[c].kind = "unflagging" /\ call'[c] = NoCall
    OBVIOUS
  <2>1. PICK c \in Calls : Unflag(c)
    BY Writers DEF FlagKeeping
  <2> QED
    BY <2>1 DEF Unflag, End, IInv, CallInv, CallsOK
<1> QED
  BY <1>1, Invariance, PTL DEF Spec, FlagOutlivesReports

\* A successful payment is kept (createPostingPayment, continuePayment, deleteDraftJob).
THEOREM PaymentKept == Spec => SuccessIsKept
<1>1. IInv /\ [Next]_vars =>
        [\A t \in Types : payment[t].status = "SUCCESS" =>
           \/ payment'[t] = payment[t]
           \/ t = "POSTING" /\ \E c \in Calls : call[c].kind = "charging" /\ call'[c] = NoCall
           \/ \E c \in Calls : call[c].kind \in {"purge", "drop"} /\ call'[c] # call[c]]_vars
  <2> SUFFICES ASSUME IInv, [Next]_vars, NEW t \in Types, payment[t].status = "SUCCESS",
                      payment'[t] # payment[t], ~ Deleting
               PROVE  t = "POSTING" /\ Rewriting
    BY DEF Deleting, Rewriting
  <2>1. PICK u \in Types : /\ \A w \in Types \ {u} : payment'[w] = payment[w]
                           /\ payment[u].status # "SUCCESS" \/ (u = "POSTING" /\ Rewriting)
    <3>1. payment' # payment
      OBVIOUS
    <3> QED
      BY <3>1, Writers, Zenon
  <2>2. u = t
    BY <2>1
  <2> QED
    BY <2>1, <2>2
<1> QED
  BY <1>1, Invariance, PTL DEF Spec, SuccessIsKept
=============================================================================
