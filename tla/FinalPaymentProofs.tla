------------------------- MODULE FinalPaymentProofs -------------------------
(* Theorems of module FinalPayment, for every number of fixers, prices,    *)
(* attempts, callbacks and calls.                                          *)
EXTENDS FinalPayment, TLAPS

\* A callback that passed its check of Monnify stands for a paid transaction: what
\* was read stays true, because a payment is never taken back.
ConfirmedPaid ==
  \A d \in Callbacks : callback[d].pc \in {"look", "expire", "activate", "commit", "record"} =>
                         charge[callback[d].reference] = "paid"

\* The row's reference was drawn, so that no later attempt draws it again.
ReferenceUsed == payment.status # "NONE" => charge[payment.reference] # "unused"

\* The inductive invariant.
IInv ==
  /\ TypeOK
  /\ AttemptsAreAgreed
  /\ ActivationOwnsRow
  /\ StartedAsAgreed
  /\ StartedAfterPayment
  /\ ConfirmedPaid
  /\ ReferenceUsed

\* It holds of a job before any agreement.
LEMMA InitIInv == Init => IInv
BY NoneAssumption DEF Init, IInv, TypeOK, AttemptsAreAgreed, ActivationOwnsRow, StartedAsAgreed,
   StartedAfterPayment, ConfirmedPaid, ReferenceUsed, Job, NoPayment, Idle, NoPair

\* A new attempt: the row is typed, and of known terms.
LEMMA Attempt ==
  ASSUME TypeOK, ReferenceUsed, NEW terms \in Pair, NEW outcomes \in SUBSET {"open", "failed"},
         NewAttempt(terms, outcomes)
  PROVE  /\ payment' \in Payment /\ payment'.terms = terms /\ payment'.status = "PENDING"
         /\ charge' \in [References -> {"unused", "failed", "open", "paid"}]
         /\ \A r \in References : charge[r] = "paid" => charge'[r] = "paid"
         /\ ReferenceUsed'
         /\ payment.status # "NONE" => payment'.reference # payment.reference
         /\ payLock = None
<1>1. PICK r \in References, o \in outcomes :
        /\ charge[r] = "unused"
        /\ payment' = [status |-> "PENDING", reference |-> r, terms |-> terms, overdue |-> FALSE]
        /\ charge' = [charge EXCEPT ![r] = o]
  BY DEF NewAttempt
<1>2. payLock = None
  BY DEF NewAttempt
<1>3. QED
  BY <1>1, <1>2 DEF TypeOK, Payment, ReferenceUsed

\* Every step of the agreement, of a new attempt, of a callback and of the
\* expiration job keeps it.
LEMMA StepIInv == IInv /\ [Next]_vars => IInv'
<1> SUFFICES ASSUME IInv, [Next]_vars PROVE IInv'
  OBVIOUS
<1> USE DEF IInv
<1>1. ASSUME NEW f \in Fixers, OpenChat(f) PROVE IInv'
  BY <1>1 DEF OpenChat, rows, processes, TypeOK, AttemptsAreAgreed, ActivationOwnsRow,
     StartedAsAgreed, StartedAfterPayment, ConfirmedPaid, ReferenceUsed
<1>2. ASSUME NEW f \in Fixers, NEW p \in Prices, NEW q \in Prices, Agree(f, p, q) PROVE IInv'
  <2>1. Terms(f, q) \in Pair
    BY DEF Terms, Pair
  <2>2. /\ payment' \in Payment /\ payment'.terms = Terms(f, q)
        /\ payment'.status = "PENDING" /\ payLock = None
        /\ charge' \in [References -> {"unused", "failed", "open", "paid"}]
        /\ \A r \in References : charge[r] = "paid" => charge'[r] = "paid"
        /\ ReferenceUsed'
    BY <1>2, <2>1, Attempt DEF Agree
  <2>3. job' \in Job /\ job'.status = "OPEN"
    BY <1>2 DEF Agree, TypeOK, Job
  <2>4. /\ chat' \in [Fixers -> {"NONE", "OPEN", "CLOSED"}]
        /\ agreed' \in [Fixers -> Prices \cup {None}]
        /\ agreements' \in SUBSET Pair
        /\ agreements' = agreements \cup {Terms(f, q)}
        /\ UNCHANGED processes
    BY <1>2, <2>1 DEF Agree, TypeOK, CloseOthers
  <2>5. TypeOK'
    BY <2>2, <2>3, <2>4 DEF TypeOK, processes
  <2>6. \A g \in Fixers : agreed'[g] = IF g = f THEN q ELSE agreed[g]
    BY <1>2 DEF Agree, TypeOK
  <2>7. AttemptsAreAgreed'
    BY <2>2, <2>4, <2>6 DEF AttemptsAreAgreed, processes
  <2>8. ActivationOwnsRow' /\ StartedAsAgreed' /\ StartedAfterPayment'
    BY <2>2, <2>3, <2>4 DEF ActivationOwnsRow, StartedAsAgreed, StartedAfterPayment, processes
  <2>9. ConfirmedPaid'
    BY <2>2, <2>4 DEF ConfirmedPaid, processes, TypeOK, Callback, Idle
  <2>10. QED
    BY <2>2, <2>5, <2>7, <2>8, <2>9
<1>3. ASSUME NEW f \in Fixers, Reopen(f) PROVE IInv'
  BY <1>3 DEF Reopen, rows, processes, TypeOK, AttemptsAreAgreed, ActivationOwnsRow,
     StartedAsAgreed, StartedAfterPayment, ConfirmedPaid, ReferenceUsed
<1>4. ASSUME NEW c \in Calls, NEW f \in Fixers, CheckFinal(c, f) PROVE IInv'
  <2>1. Terms(f, agreed[f]) \in Pair /\ Terms(f, agreed[f]) \in agreements
    BY <1>4 DEF CheckFinal, Terms, Pair, TypeOK, AttemptsAreAgreed
  <2>2. /\ call' \in [Calls -> Pair \cup {NoPair}]
        /\ \A b \in Calls : call'[b] # NoPair => call'[b] \in agreements
    BY <1>4, <2>1 DEF CheckFinal, TypeOK, AttemptsAreAgreed
  <2>3. UNCHANGED <<rows, charge, payLock, recorded, callback, scan>>
    BY <1>4 DEF CheckFinal
  <2>4. QED
    BY <2>2, <2>3 DEF rows, TypeOK, AttemptsAreAgreed, ActivationOwnsRow, StartedAsAgreed,
       StartedAfterPayment, ConfirmedPaid, ReferenceUsed
<1>5. ASSUME NEW c \in Calls, WriteFinal(c) PROVE IInv'
  <2>1. call[c] \in Pair /\ call[c] \in agreements
    BY <1>5 DEF WriteFinal, TypeOK, AttemptsAreAgreed
  <2>2. /\ payment' \in Payment /\ payment'.terms = call[c]
        /\ payment'.status = "PENDING" /\ payLock = None
        /\ charge' \in [References -> {"unused", "failed", "open", "paid"}]
        /\ \A r \in References : charge[r] = "paid" => charge'[r] = "paid"
        /\ ReferenceUsed'
    BY <1>5, <2>1, Attempt DEF WriteFinal
  <2>3. /\ call' = [call EXCEPT ![c] = NoPair]
        /\ UNCHANGED <<job, chat, agreed, agreements, payLock, recorded, callback, scan>>
    BY <1>5 DEF WriteFinal
  <2>4. TypeOK'
    BY <2>2, <2>3 DEF TypeOK
  <2>5. AttemptsAreAgreed' /\ ActivationOwnsRow' /\ StartedAsAgreed' /\ StartedAfterPayment'
    BY <2>1, <2>2, <2>3 DEF AttemptsAreAgreed, ActivationOwnsRow, StartedAsAgreed,
       StartedAfterPayment, TypeOK
  <2>6. ConfirmedPaid'
    BY <2>2, <2>3 DEF ConfirmedPaid, TypeOK, Callback, Idle
  <2>7. QED
    BY <2>2, <2>4, <2>5, <2>6
<1>6. ASSUME NEW r \in References, Pay(r) PROVE IInv'
  BY <1>6 DEF Pay, rows, processes, TypeOK, AttemptsAreAgreed, ActivationOwnsRow,
     StartedAsAgreed, StartedAfterPayment, ConfirmedPaid, ReferenceUsed
<1>7. CASE Tick
  <2>1. /\ payment' \in Payment /\ payment'.terms = payment.terms
        /\ payment'.reference = payment.reference /\ payment'.status = "PENDING"
        /\ payment.status = "PENDING"
    <3>1. payment.status = "PENDING" /\ payment' = [payment EXCEPT !.overdue = TRUE]
      BY <1>7 DEF Tick
    <3>2. payment \in Payment
      BY <3>1 DEF TypeOK, NoPayment
    <3>3. QED
      BY <3>1, <3>2 DEF Payment
  <2>2. UNCHANGED <<job, chat, agreed, agreements, charge, processes>>
    BY <1>7 DEF Tick
  <2>3. QED
    BY <2>1, <2>2 DEF processes, TypeOK, AttemptsAreAgreed, ActivationOwnsRow, StartedAsAgreed,
       StartedAfterPayment, ConfirmedPaid, ReferenceUsed
<1>8. ASSUME NEW d \in Callbacks, NEW r \in References, Webhook(d, r) \/ Verify(d, r) PROVE IInv'
  <2>1. UNCHANGED <<rows, charge, payLock, recorded, call, scan>>
    BY <1>8 DEF Webhook, Verify, Start
  <2>2. /\ callback' \in [Callbacks -> Callback \cup {Idle}]
        /\ \A e \in Callbacks \ {d} : callback'[e] = callback[e]
        /\ callback'[d].pc \in {"look", "ask"}
        /\ callback'[d].pc = "look" => charge[callback'[d].reference] = "paid"
        /\ callback[d] = Idle
    BY <1>8 DEF Webhook, Verify, Start, TypeOK, Callback
  <2>3. QED
    BY <2>1, <2>2 DEF rows, TypeOK, AttemptsAreAgreed, ActivationOwnsRow, Idle,
       StartedAsAgreed, StartedAfterPayment, ConfirmedPaid, ReferenceUsed
<1>9. ASSUME NEW d \in Callbacks, Answer(d) PROVE IInv'
  BY <1>9 DEF Answer, Goto, rows, TypeOK, Callback, Idle, AttemptsAreAgreed, ActivationOwnsRow,
     StartedAsAgreed, StartedAfterPayment, ConfirmedPaid, ReferenceUsed
<1>10. ASSUME NEW d \in Callbacks, Look(d) PROVE IInv'
  <2>1. UNCHANGED <<rows, charge, payLock, recorded, call, scan>> /\ callback[d].pc = "look"
    BY <1>10 DEF Look
  <2>2. callback[d] \in Callback
    BY <2>1 DEF TypeOK, Idle
  <2>3. /\ callback' \in [Callbacks -> Callback \cup {Idle}]
        /\ \A e \in Callbacks \ {d} : callback'[e] = callback[e]
        /\ callback'[d].pc \in {"idle", "record", "expire", "activate"}
        /\ callback'[d].pc # "idle" => callback'[d].reference = callback[d].reference
        /\ callback'[d].pc = "activate" => callback'[d].terms \in agreements
    BY <1>10, <2>2 DEF Look, Finish, Goto, Activates, TypeOK, Callback, Idle, Payment, NoPayment,
       AttemptsAreAgreed
  <2>4. QED
    BY <2>1, <2>3 DEF rows, TypeOK, AttemptsAreAgreed, ActivationOwnsRow,
       StartedAsAgreed, StartedAfterPayment, ConfirmedPaid, ReferenceUsed
<1>11. ASSUME NEW d \in Callbacks, Expire(d) PROVE IInv'
  <2>1. callback[d].pc = "expire" /\ callback[d] \in Callback
    BY <1>11 DEF Expire, TypeOK, Idle
  <2>2. /\ callback' \in [Callbacks -> Callback \cup {Idle}]
        /\ \A e \in Callbacks \ {d} : callback'[e] = callback[e]
        /\ callback'[d].pc \in {"idle", "record"}
        /\ callback'[d].pc # "idle" => callback'[d].reference = callback[d].reference
    BY <1>11, <2>1 DEF Expire, Finish, Goto, TypeOK, Callback, Idle
  <2>3. /\ payment' \in Payment \cup {NoPayment} /\ payment'.terms = payment.terms
        /\ payment'.reference = payment.reference
        /\ payment'.status = "NONE" <=> payment.status = "NONE"
        /\ payLock = None
        /\ UNCHANGED <<job, chat, agreed, agreements, charge, payLock, recorded, call, scan>>
    BY <1>11 DEF Expire, TypeOK, Payment, NoPayment
  <2>4. QED
    BY <2>1, <2>2, <2>3 DEF TypeOK, AttemptsAreAgreed, ActivationOwnsRow, StartedAsAgreed,
       StartedAfterPayment, ConfirmedPaid, ReferenceUsed
<1>12. ASSUME NEW d \in Callbacks, Activate(d) PROVE IInv'
  <2>1. /\ callback[d].pc = "activate" /\ callback[d] \in Callback /\ payLock = None
        /\ payment.status = "PENDING"
        /\ payLock' = d
        /\ UNCHANGED <<rows, charge, recorded, call, scan>>
    BY <1>12 DEF Activate, Unpaid, TypeOK, Idle
  <2>2. /\ callback' \in [Callbacks -> Callback \cup {Idle}]
        /\ \A e \in Callbacks \ {d} : callback'[e] = callback[e]
        /\ callback'[d].pc = "commit" /\ callback'[d].terms = callback[d].terms
        /\ callback'[d].reference = callback[d].reference
    BY <1>12, <2>1 DEF Activate, Goto, TypeOK, Callback
  <2>3. \A e \in Callbacks : callback[e].pc # "commit"
    BY <2>1, NoneAssumption DEF ActivationOwnsRow
  <2>4. QED
    BY <2>1, <2>2, <2>3 DEF rows, TypeOK, AttemptsAreAgreed, ActivationOwnsRow, StartedAsAgreed,
       StartedAfterPayment, ConfirmedPaid, ReferenceUsed
<1>13. ASSUME NEW d \in Callbacks, TooLate(d) PROVE IInv'
  <2>1. /\ callback[d].pc = "activate" /\ callback[d] \in Callback
        /\ UNCHANGED <<rows, charge, payLock, recorded, call, scan>>
    BY <1>13 DEF TooLate, TypeOK, Idle
  <2>2. /\ callback' \in [Callbacks -> Callback \cup {Idle}]
        /\ \A e \in Callbacks \ {d} : callback'[e] = callback[e]
        /\ callback'[d].pc \in {"idle", "record"}
        /\ callback'[d].pc # "idle" => callback'[d].reference = callback[d].reference
    BY <1>13, <2>1 DEF TooLate, Finish, Goto, TypeOK, Callback, Idle
  <2>3. QED
    BY <2>1, <2>2 DEF rows, TypeOK, AttemptsAreAgreed, ActivationOwnsRow, StartedAsAgreed,
       StartedAfterPayment, ConfirmedPaid, ReferenceUsed
<1>14. ASSUME NEW d \in Callbacks, CommitActivation(d) PROVE IInv'
  <2> callback[d].pc = "commit"
    BY <1>14 DEF CommitActivation
  <2>a. payLock = d /\ payment.status = "PENDING"
    BY NoneAssumption DEF ActivationOwnsRow
  <2>b. callback[d] \in Callback
    BY DEF TypeOK, Idle
  <2>c. callback[d].terms \in agreements /\ charge[callback[d].reference] = "paid"
    BY DEF AttemptsAreAgreed, ConfirmedPaid
  <2>1. /\ callback[d].pc = "commit" /\ callback[d] \in Callback /\ payLock = d
        /\ payment.status = "PENDING" /\ callback[d].terms \in agreements
        /\ charge[callback[d].reference] = "paid" /\ callback[d].reference \in References
    BY <2>a, <2>b, <2>c DEF Callback
  <2>2. /\ callback' \in [Callbacks -> Callback \cup {Idle}]
        /\ \A e \in Callbacks \ {d} : callback'[e] = callback[e]
        /\ callback'[d].pc \in {"idle", "record"}
        /\ callback'[d].pc # "idle" => callback'[d].reference = callback[d].reference
    BY <1>14, <2>1 DEF CommitActivation, Finish, Goto, TypeOK, Callback, Idle
  <2>3. /\ payment' \in Payment /\ payment'.terms = payment.terms
        /\ payment'.reference = payment.reference /\ payLock' = None
        /\ chat' \in [Fixers -> {"NONE", "OPEN", "CLOSED"}]
        /\ UNCHANGED <<agreed, agreements, charge, recorded, call, scan>>
    BY <1>14, <2>1 DEF CommitActivation, TypeOK, Payment, NoPayment
  <2>4. /\ job' \in Job /\ job'.status = "IN_PROGRESS"
        /\ Terms(job'.fixer, job'.price) = callback[d].terms
    <3>1. callback[d].terms \in Pair
      BY <2>1 DEF TypeOK
    <3>2. QED
      BY <1>14, <3>1 DEF CommitActivation, TypeOK, Job, Pair, Terms
  <2>5. TypeOK' /\ AttemptsAreAgreed'
    BY <2>1, <2>2, <2>3, <2>4 DEF TypeOK, AttemptsAreAgreed
  <2>6. \A e \in Callbacks : callback'[e].pc # "commit"
    BY <2>1, <2>2 DEF ActivationOwnsRow
  <2>7. ActivationOwnsRow' /\ StartedAsAgreed' /\ StartedAfterPayment'
    BY <2>1, <2>3, <2>4, <2>6 DEF ActivationOwnsRow, StartedAsAgreed, StartedAfterPayment
  <2>8. ConfirmedPaid' /\ ReferenceUsed'
    BY <2>1, <2>2, <2>3 DEF ConfirmedPaid, ReferenceUsed
  <2>9. QED
    BY <2>5, <2>7, <2>8
<1>15. ASSUME NEW d \in Callbacks, Record(d) PROVE IInv'
  <2>1. callback[d].pc = "record" /\ callback[d].reference \in References
    BY <1>15 DEF Record, TypeOK, Idle, Callback
  <2>2. QED
    BY <1>15, <2>1 DEF Record, rows, TypeOK, Idle, AttemptsAreAgreed, ActivationOwnsRow,
       StartedAsAgreed, StartedAfterPayment, ConfirmedPaid, ReferenceUsed
<1>16. ASSUME NEW d \in Callbacks, Stop(d) PROVE IInv'
  <2>1. /\ callback' = [callback EXCEPT ![d] = Idle]
        /\ payLock' = IF payLock = d THEN None ELSE payLock
        /\ UNCHANGED <<rows, charge, recorded, call, scan>>
    BY <1>16 DEF Stop
  <2>2. ActivationOwnsRow'
    BY <2>1 DEF rows, ActivationOwnsRow, TypeOK, Idle
  <2>3. QED
    BY <2>1, <2>2 DEF rows, TypeOK, Idle, AttemptsAreAgreed, StartedAsAgreed, StartedAfterPayment,
       ConfirmedPaid, ReferenceUsed
<1>17. CASE Scan \/ MissedClaim \/ LeaveScan
  <2>1. scan' \in References \cup {None} /\ UNCHANGED <<rows, charge, payLock, recorded, callback, call>>
    BY <1>17 DEF Scan, MissedClaim, LeaveScan, Expirable, TypeOK, Payment, NoPayment
  <2>2. QED
    BY <2>1 DEF rows, TypeOK, AttemptsAreAgreed, ActivationOwnsRow, StartedAsAgreed,
       StartedAfterPayment, ConfirmedPaid, ReferenceUsed
<1>18. CASE Claim
  <2>1. /\ payLock = None /\ payment.status = "PENDING"
        /\ payment' = [payment EXCEPT !.status = "EXPIRED"]
        /\ scan' = None
        /\ UNCHANGED <<agreed, agreements, charge, payLock, recorded, callback, call>>
    BY <1>18 DEF Claim, Claimable
  <2>2. /\ payment' \in Payment /\ payment'.terms = payment.terms
        /\ payment'.reference = payment.reference
    BY <2>1 DEF TypeOK, Payment, NoPayment
  <2>3. /\ job' \in Job /\ chat' \in [Fixers -> {"NONE", "OPEN", "CLOSED"}]
        /\ job'.status = "IN_PROGRESS" => job' = job
    BY <1>18 DEF Claim, Releases, TypeOK, Job
  <2>4. QED
    BY <2>1, <2>2, <2>3 DEF TypeOK, AttemptsAreAgreed, ActivationOwnsRow, StartedAsAgreed,
       StartedAfterPayment, ConfirmedPaid, ReferenceUsed
<1>19. CASE UNCHANGED vars
  BY <1>19 DEF vars, rows, processes, TypeOK, AttemptsAreAgreed, ActivationOwnsRow,
     StartedAsAgreed, StartedAfterPayment, ConfirmedPaid, ReferenceUsed
<1>20. QED
  BY <1>1, <1>2, <1>3, <1>4, <1>5, <1>6, <1>7, <1>8, <1>9, <1>10, <1>11, <1>12, <1>13, <1>14,
     <1>15, <1>16, <1>17, <1>18, <1>19 DEF Next

\* The inductive invariant: types, the owner of a locked row, and for everything
\* read or written the agreement and the payment it stands for.
THEOREM FinalPaymentSafe == Spec => []IInv
<1>1. Init => IInv
  BY InitIInv
<1>2. IInv /\ [Next]_vars => IInv'
  BY StepIInv
<1>3. QED
  BY <1>1, <1>2, PTL DEF Spec

\* Rows, calls and callbacks keep their types: no row is written with a missing
\* fixer or price (FinalPayment's TypeOK).
THEOREM TypeCorrect == Spec => []TypeOK
BY FinalPaymentSafe, PTL DEF IInv

\* A job only starts with a fixer at a price that were agreed together.
THEOREM StartsAsAgreed == Spec => []StartedAsAgreed
BY FinalPaymentSafe, PTL DEF IInv

\* No job starts before the client has paid some attempt.
THEOREM StartsAfterPayment == Spec => []StartedAfterPayment
BY FinalPaymentSafe, PTL DEF IInv

\* Rows, calls and callbacks carry the terms of one agreement.
THEOREM AttemptsKeepTerms == Spec => []AttemptsAreAgreed
BY FinalPaymentSafe, PTL DEF IInv

\* An activation commits the very row it claimed.
THEOREM ActivationIsExclusive == Spec => []ActivationOwnsRow
BY FinalPaymentSafe, PTL DEF IInv

\* A paid or expired attempt is never changed again: each writer finds that it is
\* too late, and a new attempt has a reference of its own.
THEOREM TerminalStays == Spec => TerminalIsFinal
<1> DEFINE Final == payment.status \in {"SUCCESS", "EXPIRED"} /\ payment'.reference = payment.reference
                      => payment'.status = payment.status
<1>1. IInv /\ [Next]_vars => [Final]_vars
  <2> SUFFICES ASSUME IInv, Next, payment.status \in {"SUCCESS", "EXPIRED"},
                      payment'.reference = payment.reference
               PROVE  payment'.status = payment.status
    OBVIOUS
  <2>1. ASSUME NEW f \in Fixers, NEW p \in Prices, NEW q \in Prices, Agree(f, p, q) PROVE FALSE
    <3>1. Terms(f, q) \in Pair /\ NewAttempt(Terms(f, q), {"open"})
      BY <2>1 DEF Agree, Terms, Pair
    <3>2. QED
      BY <3>1, Attempt DEF IInv
  <2>2. ASSUME NEW c \in Calls, WriteFinal(c) PROVE FALSE
    <3>1. call[c] \in Pair /\ NewAttempt(call[c], {"open", "failed"})
      BY <2>2 DEF WriteFinal, IInv, TypeOK
    <3>2. QED
      BY <3>1, Attempt DEF IInv
  <2>3. ASSUME NEW d \in Callbacks, CommitActivation(d) PROVE FALSE
    BY <2>3, NoneAssumption DEF CommitActivation, IInv, ActivationOwnsRow
  <2>4. CASE Tick \/ Claim
    BY <2>4 DEF Tick, Claim, Claimable
  <2>5. ASSUME NEW d \in Callbacks, Expire(d) PROVE payment' = payment
    BY <2>5 DEF Expire
  <2>6. ASSUME NEW f \in Fixers, OpenChat(f) \/ Reopen(f) PROVE payment' = payment
    BY <2>6 DEF OpenChat, Reopen
  <2>7. ASSUME NEW c \in Calls, NEW f \in Fixers, CheckFinal(c, f) PROVE payment' = payment
    BY <2>7 DEF CheckFinal, rows
  <2>8. ASSUME NEW r \in References, Pay(r) PROVE payment' = payment
    BY <2>8 DEF Pay, rows
  <2>9. ASSUME NEW d \in Callbacks, NEW r \in References, Webhook(d, r) \/ Verify(d, r)
        PROVE payment' = payment
    BY <2>9 DEF Webhook, Verify, Start, rows
  <2>10. ASSUME NEW d \in Callbacks,
               Answer(d) \/ Look(d) \/ Activate(d) \/ TooLate(d) \/ Record(d) \/ Stop(d)
         PROVE payment' = payment
    BY <2>10 DEF Answer, Look, Activate, TooLate, Record, Stop, rows
  <2>11. CASE Scan \/ MissedClaim \/ LeaveScan
    BY <2>11 DEF Scan, MissedClaim, LeaveScan, rows
  <2>12. QED
    BY <2>1, <2>2, <2>3, <2>4, <2>5, <2>6, <2>7, <2>8, <2>9, <2>10, <2>11 DEF Next
<1>2. QED
  BY <1>1, FinalPaymentSafe, PTL DEF Spec, TerminalIsFinal

\* A started job is never taken back.
THEOREM StartedStays == Spec => InProgressNeverReset
<1> DEFINE Stays == job.status = "IN_PROGRESS" => job'.status = "IN_PROGRESS"
<1>1. IInv /\ [Next]_vars => [Stays]_vars
  <2> SUFFICES ASSUME IInv, Next, job.status = "IN_PROGRESS" PROVE job'.status = "IN_PROGRESS"
    OBVIOUS
  <2> job \in Job
    BY DEF IInv, TypeOK
  <2>1. ASSUME NEW f \in Fixers, OpenChat(f) \/ Reopen(f) PROVE job' = job
    BY <2>1 DEF OpenChat, Reopen
  <2>2. ASSUME NEW f \in Fixers, NEW p \in Prices, NEW q \in Prices, Agree(f, p, q) PROVE FALSE
    BY <2>2 DEF Agree
  <2>3. ASSUME NEW c \in Calls, NEW f \in Fixers, CheckFinal(c, f) PROVE job' = job
    BY <2>3 DEF CheckFinal, rows
  <2>4. ASSUME NEW c \in Calls, WriteFinal(c) PROVE job' = job
    BY <2>4 DEF WriteFinal
  <2>5. CASE Tick \/ Scan \/ MissedClaim \/ LeaveScan
    BY <2>5 DEF Tick, Scan, MissedClaim, LeaveScan, rows
  <2>6. CASE Claim
    BY <2>6 DEF Claim, Releases
  <2>7. ASSUME NEW r \in References, Pay(r) PROVE job' = job
    BY <2>7 DEF Pay, rows
  <2>8. ASSUME NEW d \in Callbacks, NEW r \in References, Webhook(d, r) \/ Verify(d, r)
        PROVE job' = job
    BY <2>8 DEF Webhook, Verify, Start, rows
  <2>9. ASSUME NEW d \in Callbacks, Expire(d) \/ Answer(d) \/ Look(d) \/ Activate(d) \/ TooLate(d)
                                      \/ Record(d) \/ Stop(d)
        PROVE job' = job
    BY <2>9 DEF Expire, Answer, Look, Activate, TooLate, Record, Stop, rows
  <2>10. ASSUME NEW d \in Callbacks, CommitActivation(d) PROVE job'.status = "IN_PROGRESS"
    BY <2>10 DEF CommitActivation, Job
  <2>11. QED
    BY <2>1, <2>2, <2>3, <2>4, <2>5, <2>6, <2>7, <2>8, <2>9, <2>10 DEF Next
<1>2. QED
  BY <1>1, FinalPaymentSafe, PTL DEF Spec, InProgressNeverReset
=============================================================================
