-------------------------- MODULE NegotiationProofs --------------------------
(***************************************************************************)
(* Proofs about module Negotiation, for any number of fixers, prices and   *)
(* calls: what row locks make exclusive, that agreements and payments      *)
(* agree, that the calls implement module Deals, and which transactions    *)
(* can be part of a deadlock.                                              *)
(***************************************************************************)
EXTENDS Negotiation, FiniteSums

\* The number of rows a call of each kind can have written.
DoneOK(k) ==
  /\ k.kind \in {"rejecting", "expire"} => k.done \in 0..1
  /\ k.kind \in {"accepting", "activate"} => k.done \in 0..3
  /\ k.kind = "paying" => k.done \in 3..4
  /\ k.kind = "release" => k.done \in 1..3
  /\ k.kind \notin {"rejecting", "expire", "accepting", "activate", "paying", "release"} => k.done = 0

\* The rows a call keeps locked.
HasNegotiation(k, f) == k.kind \in {"rejecting", "accepting", "paying"} /\ k.done >= 1 /\ k.fixer = f
HasJob(k) == k.kind \in {"accepting", "paying", "activate", "release"} /\ k.done >= 2
HasPayment(k) ==
  (k.kind \in {"activate", "release", "expire"} /\ k.done >= 1) \/ (k.kind = "paying" /\ k.done = 4)

Apart(k, l) ==
  /\ ~ (HasJob(k) /\ HasJob(l))
  /\ ~ (HasPayment(k) /\ HasPayment(l))
  /\ \A f \in Fixers : ~ (HasNegotiation(k, f) /\ HasNegotiation(l, f))

\* What a call that has come so far relies on.
CallOK(k) ==
  /\ DoneOK(k)
  /\ k.kind \in {"rejecting", "accepting", "paying"} /\ k.done > 0 =>
       negotiation[k.fixer].status = "LOCKED"
  /\ k.kind = "paying" =>
       /\ job.status = "OPEN" /\ payment.status # "SUCCESS"
       /\ payment.status = "PENDING" => payment.overdue
  /\ k.kind = "activate" /\ k.done >= 1 => payment.status = "PENDING"
  /\ (k.kind = "expire" /\ k.done = 1) \/ k.kind = "release" =>
       payment.status = "PENDING" /\ payment.overdue
  /\ k.kind \in {"expire", "release"} =>
       payment.status # "NONE" /\ k.fixer = payment.terms.fixer
  /\ k.kind \in {"propose", "lock", "close"} => Exists(k.fixer)
  /\ k.kind \in {"lock", "accepting", "paying", "activate"} => k.price # None
  /\ \A g \in k.closing : Exists(g) /\ g # k.fixer
  /\ k.kind \in {"accepting", "paying"} /\ k.done >= 3 =>
       \A g \in Fixers \ {k.fixer} : Agreed(g) => g \in k.closing

RowsOK ==
  /\ negotiation \in [Fixers -> Row]
  /\ \A f \in Fixers : negotiation[f].status \in {"LOCKED", "AGREED"} =>
       negotiation[f].price # None /\ negotiation[f].by # None /\ Exists(f)
  /\ conversation \in [Fixers -> {"NONE", "OPEN", "CLOSED"}]
  /\ job \in [status : {"OPEN", "IN_PROGRESS"}, terms : Terms]
  /\ payment \in [status : {"NONE", "PENDING", "SUCCESS", "EXPIRED"}, terms : Terms,
                  overdue : BOOLEAN]
  /\ payment.status # "NONE" =>
       payment.terms.fixer \in Fixers /\ payment.terms.price \in Prices /\ Exists(payment.terms.fixer)

IInv ==
  /\ RowsOK /\ AttemptFollowsJob /\ OneOpenAgreement
  /\ call \in [Calls -> Call \cup {NoCall}]
  /\ \A c \in Calls : CallOK(call[c])
  /\ \A c \in Calls : \A d \in Calls \ {c} : Apart(call[c], call[d])

-----------------------------------------------------------------------------
(* Locks. *)

LEMMA TablesAre ==
  /\ Tables("rejecting") = <<"negotiation">>
  /\ Tables("accepting") = <<"negotiation", "job", "conversation">>
  /\ Tables("paying") = <<"negotiation", "job", "conversation", "payment">>
  /\ Tables("activate") = <<"payment", "job", "conversation">>
  /\ Tables("release") = <<"payment", "job", "ownConversation">>
  /\ Tables("expire") = <<"payment">>
  /\ \A kind : kind \notin {"rejecting", "accepting", "paying", "activate", "release", "expire"} =>
       Tables(kind) = <<>>
<1>1. Tables("rejecting") = <<"negotiation">>
  BY Zenon DEF Tables
<1>2. Tables("accepting") = <<"negotiation", "job", "conversation">>
  BY Zenon DEF Tables
<1>3. Tables("paying") = <<"negotiation", "job", "conversation", "payment">>
  BY Zenon DEF Tables
<1>4. Tables("activate") = <<"payment", "job", "conversation">>
  BY Zenon DEF Tables
<1>5. Tables("release") = <<"payment", "job", "ownConversation">>
  BY Zenon DEF Tables
<1>6. Tables("expire") = <<"payment">>
  BY Zenon DEF Tables
<1>7. ASSUME NEW kind,
             kind \notin {"rejecting", "accepting", "paying", "activate", "release", "expire"}
      PROVE  Tables(kind) = <<>>
  BY <1>7, Zenon DEF Tables
<1> QED
  BY <1>1, <1>2, <1>3, <1>4, <1>5, <1>6, <1>7

LEMMA RowsOfTable ==
  ASSUME NEW table, NEW f
  PROVE  /\ <<"job", None>> \in RowsOf(table, f) <=> table = "job"
         /\ <<"payment", None>> \in RowsOf(table, f) <=> table = "payment"
         /\ \A g : <<"negotiation", g>> \in RowsOf(table, f) <=> table = "negotiation" /\ g = f
         /\ \A g : <<"conversation", g>> \in RowsOf(table, f) =>
              table \in {"conversation", "ownConversation"}
<1>1. CASE table = "negotiation"
  <2>1. RowsOf(table, f) = {<<table, f>>}
    BY <1>1, Zenon DEF RowsOf
  <2> QED
    BY <1>1, <2>1
<1>2. CASE table = "ownConversation"
  <2>1. RowsOf(table, f) = {<<"conversation", f>>}
    BY <1>2, Zenon DEF RowsOf
  <2> QED
    BY <1>2, <2>1
<1>3. CASE table = "conversation"
  <2>1. RowsOf(table, f) = {<<table, g>> : g \in Fixers \ {f}}
    BY <1>3, Zenon DEF RowsOf
  <2> QED
    BY <1>3, <2>1
<1>4. CASE table \notin {"negotiation", "ownConversation", "conversation"}
  <2>1. RowsOf(table, f) = {<<table, None>>}
    BY <1>4, Zenon DEF RowsOf
  <2> QED
    BY <1>4, <2>1
<1> QED
  BY <1>1, <1>2, <1>3, <1>4

LEMMA InLocked ==
  ASSUME NEW d \in Calls, NEW row
  PROVE  row \in Locked(d) <=>
           \E i \in 1..call[d].done : row \in RowsOf(Tables(call[d].kind)[i], call[d].fixer)
BY DEF Locked

\* The tables that come first.
LEMMA Positions ==
  ASSUME NEW T, NEW n \in 0..4, NEW table
  PROVE  (\E i \in 1..n : T[i] = table) <=>
           \/ n >= 1 /\ T[1] = table
           \/ n >= 2 /\ T[2] = table
           \/ n >= 3 /\ T[3] = table
           \/ n >= 4 /\ T[4] = table
<1>1. 1..n = {i \in {1, 2, 3, 4} : i <= n}
  OBVIOUS
<1> QED
  BY <1>1

\* What a call has locked, and that the conversations are locked after the job.
LEMMA LockedRows ==
  ASSUME NEW d \in Calls, DoneOK(call[d])
  PROVE  /\ <<"job", None>> \in Locked(d) <=> HasJob(call[d])
         /\ <<"payment", None>> \in Locked(d) <=> HasPayment(call[d])
         /\ \A f : <<"negotiation", f>> \in Locked(d) <=> HasNegotiation(call[d], f)
         /\ \A g : <<"conversation", g>> \in Locked(d) => HasJob(call[d])
<1> DEFINE T == Tables(call[d].kind)
           n == call[d].done
           Has(table) == \E i \in 1..n : T[i] = table
<1>1. <<"job", None>> \in Locked(d) <=> Has("job")
  <2>1. <<"job", None>> \in Locked(d) <=> \E i \in 1..n : <<"job", None>> \in RowsOf(T[i], call[d].fixer)
    BY InLocked
  <2>2. \A i \in 1..n : <<"job", None>> \in RowsOf(T[i], call[d].fixer) <=> T[i] = "job"
    BY RowsOfTable
  <2> QED
    BY <2>1, <2>2
<1>2. <<"payment", None>> \in Locked(d) <=> Has("payment")
  <2>1. <<"payment", None>> \in Locked(d) <=>
          \E i \in 1..n : <<"payment", None>> \in RowsOf(T[i], call[d].fixer)
    BY InLocked
  <2>2. \A i \in 1..n : <<"payment", None>> \in RowsOf(T[i], call[d].fixer) <=> T[i] = "payment"
    BY RowsOfTable
  <2> QED
    BY <2>1, <2>2
<1>3. \A f : <<"negotiation", f>> \in Locked(d) <=> Has("negotiation") /\ call[d].fixer = f
  <2> SUFFICES ASSUME NEW f
               PROVE  <<"negotiation", f>> \in Locked(d) <=> Has("negotiation") /\ call[d].fixer = f
    OBVIOUS
  <2>1. <<"negotiation", f>> \in Locked(d) <=>
          \E i \in 1..n : <<"negotiation", f>> \in RowsOf(T[i], call[d].fixer)
    BY InLocked
  <2>2. \A i \in 1..n : <<"negotiation", f>> \in RowsOf(T[i], call[d].fixer) <=>
                        T[i] = "negotiation" /\ f = call[d].fixer
    BY RowsOfTable
  <2> QED
    BY <2>1, <2>2
<1>4. \A g : <<"conversation", g>> \in Locked(d) => Has("conversation") \/ Has("ownConversation")
  <2> SUFFICES ASSUME NEW g, <<"conversation", g>> \in Locked(d)
               PROVE  Has("conversation") \/ Has("ownConversation")
    OBVIOUS
  <2>1. PICK i \in 1..n : <<"conversation", g>> \in RowsOf(T[i], call[d].fixer)
    BY InLocked, Zenon
  <2>2. T[i] \in {"conversation", "ownConversation"}
    BY <2>1, RowsOfTable
  <2> QED
    BY <2>2
<1> HIDE DEF Has
<1>5. CASE call[d].kind = "rejecting"
  <2>1. n \in 0..4 /\ n <= 1
    BY <1>5 DEF DoneOK
  <2>0. T = <<"negotiation">>
    BY <1>5, TablesAre
  <2>2. T[1] = "negotiation"
    BY <2>0
  <2> HIDE DEF T, n
  <2>3. \A table : Has(table) <=>
          (n >= 1 /\ table = "negotiation")
    BY <2>1, <2>2, Positions DEF Has
  <2> QED
    BY <1>1, <1>2, <1>3, <1>4, <1>5, <2>1, <2>3 DEF HasJob, HasPayment, HasNegotiation, n
<1>6. CASE call[d].kind = "accepting"
  <2>1. n \in 0..4 /\ n <= 3
    BY <1>6 DEF DoneOK
  <2>0. T = <<"negotiation", "job", "conversation">>
    BY <1>6, TablesAre
  <2>2. T[1] = "negotiation" /\ T[2] = "job" /\ T[3] = "conversation"
    BY <2>0
  <2> HIDE DEF T, n
  <2>3. \A table : Has(table) <=>
          (n >= 1 /\ table = "negotiation") \/ (n >= 2 /\ table = "job") \/ (n >= 3 /\ table = "conversation")
    BY <2>1, <2>2, Positions DEF Has
  <2> QED
    BY <1>1, <1>2, <1>3, <1>4, <1>6, <2>1, <2>3 DEF HasJob, HasPayment, HasNegotiation, n
<1>7. CASE call[d].kind = "paying"
  <2>1. n \in 0..4 /\ n <= 4 /\ n >= 3
    BY <1>7 DEF DoneOK
  <2>0. T = <<"negotiation", "job", "conversation", "payment">>
    BY <1>7, TablesAre
  <2>2. T[1] = "negotiation" /\ T[2] = "job" /\ T[3] = "conversation" /\ T[4] = "payment"
    BY <2>0
  <2> HIDE DEF T, n
  <2>3. \A table : Has(table) <=>
          \/ n >= 1 /\ table = "negotiation"
          \/ n >= 2 /\ table = "job"
          \/ n >= 3 /\ table = "conversation"
          \/ n >= 4 /\ table = "payment"
    BY <2>1, <2>2, Positions DEF Has
  <2> QED
    BY <1>1, <1>2, <1>3, <1>4, <1>7, <2>1, <2>3 DEF HasJob, HasPayment, HasNegotiation, n
<1>8. CASE call[d].kind = "activate"
  <2>1. n \in 0..4 /\ n <= 3
    BY <1>8 DEF DoneOK
  <2>0. T = <<"payment", "job", "conversation">>
    BY <1>8, TablesAre
  <2>2. T[1] = "payment" /\ T[2] = "job" /\ T[3] = "conversation"
    BY <2>0
  <2> HIDE DEF T, n
  <2>3. \A table : Has(table) <=>
          (n >= 1 /\ table = "payment") \/ (n >= 2 /\ table = "job") \/ (n >= 3 /\ table = "conversation")
    BY <2>1, <2>2, Positions DEF Has
  <2> QED
    BY <1>1, <1>2, <1>3, <1>4, <1>8, <2>1, <2>3 DEF HasJob, HasPayment, HasNegotiation, n
<1>9. CASE call[d].kind = "release"
  <2>1. n \in 0..4 /\ n <= 3 /\ n >= 1
    BY <1>9 DEF DoneOK
  <2>0. T = <<"payment", "job", "ownConversation">>
    BY <1>9, TablesAre
  <2>2. T[1] = "payment" /\ T[2] = "job" /\ T[3] = "ownConversation"
    BY <2>0
  <2> HIDE DEF T, n
  <2>3. \A table : Has(table) <=>
          (n >= 1 /\ table = "payment") \/ (n >= 2 /\ table = "job") \/ (n >= 3 /\ table = "ownConversation")
    BY <2>1, <2>2, Positions DEF Has
  <2> QED
    BY <1>1, <1>2, <1>3, <1>4, <1>9, <2>1, <2>3 DEF HasJob, HasPayment, HasNegotiation, n
<1>10. CASE call[d].kind = "expire"
  <2>1. n \in 0..4 /\ n <= 1
    BY <1>10 DEF DoneOK
  <2>0. T = <<"payment">>
    BY <1>10, TablesAre
  <2>2. T[1] = "payment"
    BY <2>0
  <2> HIDE DEF T, n
  <2>3. \A table : Has(table) <=>
          (n >= 1 /\ table = "payment")
    BY <2>1, <2>2, Positions DEF Has
  <2> QED
    BY <1>1, <1>2, <1>3, <1>4, <1>10, <2>1, <2>3 DEF HasJob, HasPayment, HasNegotiation, n
<1>11. CASE call[d].kind \notin {"rejecting", "accepting", "paying", "activate", "release", "expire"}
  <2>1. n = 0
    BY <1>11 DEF DoneOK
  <2>2. \A table : ~ Has(table)
    BY <2>1 DEF Has
  <2> QED
    BY <1>1, <1>2, <1>3, <1>4, <1>11, <2>2 DEF HasJob, HasPayment, HasNegotiation
<1> QED
  BY <1>5, <1>6, <1>7, <1>8, <1>9, <1>10, <1>11

\* The next row of a transaction is the one it needs.
LEMMA NeededRow ==
  ASSUME NEW c \in Calls, call[c].kind \notin {"propose", "lock", "close", "late"}
  PROVE  Needed(c) = IF Unfinished(c) THEN RowsOf(NextTable(c), call[c].fixer) ELSE {}
BY Zenon DEF Needed

\* Who waits for nobody takes a row that nobody has.
LEMMA WaitFree ==
  ASSUME \A d \in Calls : DoneOK(call[d]), NEW c \in Calls, WaitsFor(c) = {}, NEW d \in Calls \ {c}
  PROVE  /\ call[c].kind \in {"propose", "lock"}
              \/ (call[c].kind \in {"rejecting", "accepting"} /\ call[c].done = 0)
            => ~ HasNegotiation(call[d], call[c].fixer)
         /\ call[c].kind \in {"accepting", "activate", "release"} /\ call[c].done = 1
            => ~ HasJob(call[d])
         /\ (call[c].kind = "paying" /\ call[c].done = 3)
              \/ (call[c].kind \in {"activate", "expire"} /\ call[c].done = 0)
              \/ call[c].kind = "late"
            => ~ HasPayment(call[d])
<1> DEFINE f == call[c].fixer
<1>1. Locked(d) \cap Needed(c) = {}
  BY DEF WaitsFor, Holders
<1>2. /\ <<"job", None>> \in Locked(d) <=> HasJob(call[d])
      /\ <<"payment", None>> \in Locked(d) <=> HasPayment(call[d])
      /\ <<"negotiation", f>> \in Locked(d) <=> HasNegotiation(call[d], f)
  BY LockedRows
<1>3. CASE call[c].kind \in {"propose", "lock"}
  <2>1. Needed(c) = {<<"negotiation", f>>}
    BY <1>3, Zenon DEF Needed
  <2> QED
    BY <1>1, <1>2, <1>3, <2>1
<1>4. CASE call[c].kind \in {"rejecting", "accepting"} /\ call[c].done = 0
  <2>1. Unfinished(c) /\ NextTable(c) = "negotiation"
    BY <1>4, TablesAre DEF Unfinished, NextTable
  <2>2. <<"negotiation", f>> \in Needed(c)
    BY <1>4, <2>1, NeededRow, RowsOfTable
  <2> QED
    BY <1>1, <1>2, <1>4, <2>2
<1>5. CASE call[c].kind \in {"accepting", "activate", "release"} /\ call[c].done = 1
  <2>1. Unfinished(c) /\ NextTable(c) = "job"
    BY <1>5, TablesAre DEF Unfinished, NextTable
  <2>2. <<"job", None>> \in Needed(c)
    BY <1>5, <2>1, NeededRow, RowsOfTable
  <2> QED
    BY <1>1, <1>2, <1>5, <2>2
<1>6. CASE call[c].kind = "paying" /\ call[c].done = 3
  <2>1. Unfinished(c) /\ NextTable(c) = "payment"
    BY <1>6, TablesAre DEF Unfinished, NextTable
  <2>2. <<"payment", None>> \in Needed(c)
    BY <1>6, <2>1, NeededRow, RowsOfTable
  <2> QED
    BY <1>1, <1>2, <1>6, <2>2
<1>7. CASE call[c].kind \in {"activate", "expire"} /\ call[c].done = 0
  <2>1. Unfinished(c) /\ NextTable(c) = "payment"
    BY <1>7, TablesAre DEF Unfinished, NextTable
  <2>2. <<"payment", None>> \in Needed(c)
    BY <1>7, <2>1, NeededRow, RowsOfTable
  <2> QED
    BY <1>1, <1>2, <1>7, <2>2
<1>8. CASE call[c].kind = "late"
  <2>1. Needed(c) = {<<"payment", None>>}
    BY <1>8, Zenon DEF Needed
  <2> QED
    BY <1>1, <1>2, <1>8, <2>1
<1> QED
  BY <1>3, <1>4, <1>5, <1>6, <1>7, <1>8

\* A transaction that has written all its rows.
LEMMA FinishedRows ==
  ASSUME NEW c \in Calls, DoneOK(call[c]), ~ Unfinished(c)
  PROVE  /\ call[c].kind = "rejecting" => call[c].done = 1
         /\ call[c].kind = "paying" => call[c].done = 4
         /\ call[c].kind \in {"activate", "release"} => call[c].done = 3
<1>1. CASE call[c].kind = "rejecting"
  <2>1. Len(Tables(call[c].kind)) = 1
    BY <1>1, TablesAre
  <2>2. ~ (call[c].done < 1)
    BY <2>1, Zenon DEF Unfinished
  <2>3. call[c].done \in 0..1
    BY <1>1 DEF DoneOK
  <2> QED
    BY <1>1, <2>2, <2>3
<1>2. CASE call[c].kind = "paying"
  <2>1. Len(Tables(call[c].kind)) = 4
    BY <1>2, TablesAre
  <2>2. ~ (call[c].done < 4)
    BY <2>1, Zenon DEF Unfinished
  <2>3. call[c].done \in 3..4
    BY <1>2 DEF DoneOK
  <2> QED
    BY <1>2, <2>2, <2>3
<1>3. CASE call[c].kind \in {"activate", "release"}
  <2>1. Len(Tables(call[c].kind)) = 3
    BY <1>3, TablesAre
  <2>2. ~ (call[c].done < 3)
    BY <2>1, Zenon DEF Unfinished
  <2>3. call[c].done \in 0..3
    BY <1>3 DEF DoneOK
  <2> QED
    BY <1>3, <2>2, <2>3
<1> QED
  BY <1>1, <1>2, <1>3

LEMMA UnfinishedRows ==
  ASSUME NEW c \in Calls, DoneOK(call[c]), Unfinished(c)
  PROVE  /\ call[c].kind = "paying" => call[c].done = 3
         /\ call[c].kind = "release" => call[c].done \in 1..2
<1>1. CASE call[c].kind = "paying"
  <2>1. Len(Tables(call[c].kind)) = 4
    BY <1>1, TablesAre
  <2>2. call[c].done < 4
    BY <2>1, Zenon DEF Unfinished
  <2>3. call[c].done \in 3..4
    BY <1>1 DEF DoneOK
  <2> QED
    BY <1>1, <2>2, <2>3
<1>2. CASE call[c].kind = "release"
  <2>1. Len(Tables(call[c].kind)) = 3
    BY <1>2, TablesAre
  <2>2. call[c].done < 3
    BY <2>1, Zenon DEF Unfinished
  <2>3. call[c].done \in 1..3
    BY <1>2 DEF DoneOK
  <2> QED
    BY <1>2, <2>2, <2>3
<1> QED
  BY <1>1, <1>2

LEMMA InitInv == Init => IInv
<1> SUFFICES ASSUME Init PROVE IInv
  OBVIOUS
<1>1. RowsOK
  BY DEF Init, DealInit, RowsOK, Unlocked, Row, Terms, NoTerms
<1>2. call \in [Calls -> Call \cup {NoCall}] /\ \A c \in Calls : CallOK(call[c])
  BY DEF Init, DealInit, NoCall, CallOK, DoneOK
<1>3. AttemptFollowsJob /\ OneOpenAgreement
  BY DEF Init, DealInit, AttemptFollowsJob, OneOpenAgreement, Agreed, Unlocked
<1>4. \A c \in Calls : \A d \in Calls \ {c} : Apart(call[c], call[d])
  BY DEF Init, NoCall, Apart, HasJob, HasPayment, HasNegotiation
<1> QED
  BY <1>1, <1>2, <1>3, <1>4 DEF IInv

-----------------------------------------------------------------------------
(* Steps. *)

LEMMA CallType ==
  ASSUME IInv, NEW c \in Calls
  PROVE  /\ call[c] \in Call \cup {NoCall}
         /\ call[c].kind # "idle" => call[c] \in Call /\ call[c].fixer \in Fixers
         /\ DoneOK(call[c]) /\ call[c].done \in 0..4
<1>1. call[c] \in Call \cup {NoCall}
  BY DEF IInv
<1>2. call[c].kind # "idle" => call[c] \in Call /\ call[c].fixer \in Fixers
  BY <1>1 DEF NoCall, Call
<1>3. DoneOK(call[c]) /\ call[c].done \in 0..4
  BY <1>1 DEF IInv, CallOK, NoCall, Call
<1> QED
  BY <1>1, <1>2, <1>3

LEMMA CallFields ==
  ASSUME NEW k \in Call \cup {NoCall}
  PROVE  /\ k.closing \subseteq Fixers /\ k.done \in 0..4
         /\ k.kind # "idle" => k.fixer \in Fixers
BY DEF Call, NoCall

\* A step that moves one call on: what the others rely on stays, what it has taken is its own.
LEMMA MoveInv ==
  ASSUME IInv, NEW c \in Calls, NEW new \in Call \cup {NoCall}, call' = [call EXCEPT ![c] = new],
         RowsOK', AttemptFollowsJob', OneOpenAgreement', CallOK(new)',
         \A k \in Call \cup {NoCall} : (\E d \in Calls \ {c} : k = call[d]) => CallOK(k)',
         \A d \in Calls \ {c} : Apart(new, call[d])
  PROVE  IInv'
<1>1. call'[c] = new /\ \A d \in Calls \ {c} : call'[d] = call[d]
  BY DEF IInv
<1>2. call' \in [Calls -> Call \cup {NoCall}]
  BY DEF IInv
<1>3. ASSUME NEW d \in Calls PROVE CallOK(call[d])'
  <2>1. CASE d = c
    BY <1>1, <2>1
  <2>2. CASE d # c
    <3>1. PICK k \in Call \cup {NoCall} : k = call[d]
      BY CallType
    <3>2. CallOK(k)'
      BY <2>2, <3>1
    <3>3. call'[d] = k
      BY <1>1, <2>2, <3>1
    <3> QED
      BY <3>2, <3>3
  <2> QED
    BY <2>1, <2>2
<1>4. \A d \in Calls \ {c} : Apart(call[d], new)
  BY DEF Apart
<1>5. \A d \in Calls : \A e \in Calls \ {d} : Apart(call'[d], call'[e])
  BY <1>1, <1>4 DEF IInv
<1>6. (\A d \in Calls : \A e \in Calls \ {d} : Apart(call[d], call[e]))'
  BY <1>5 DEF Apart, HasJob, HasPayment, HasNegotiation
<1> QED
  BY <1>2, <1>3, <1>6 DEF IInv

LEMMA RowsSame ==
  ASSUME IInv, UNCHANGED rows
  PROVE  /\ RowsOK' /\ AttemptFollowsJob' /\ OneOpenAgreement'
         /\ \A k : CallOK(k)' <=> CallOK(k)
BY DEF IInv, rows, RowsOK, AttemptFollowsJob, OneOpenAgreement, CallOK, Agreed, Exists

\* No row changes.
LEMMA ReadStep ==
  ASSUME IInv, UNCHANGED rows, NEW c \in Calls, NEW new \in Call \cup {NoCall},
         call' = [call EXCEPT ![c] = new], CallOK(new),
         \A d \in Calls \ {c} : Apart(new, call[d])
  PROVE  IInv'
<1>1. \A k \in Call \cup {NoCall} : (\E d \in Calls \ {c} : k = call[d]) => CallOK(k)'
  BY RowsSame DEF IInv
<1>2. CallOK(new)'
  BY RowsSame
<1> QED
  BY <1>1, <1>2, RowsSame, MoveInv

LEMMA NoCallOK ==
  /\ NoCall.kind = "idle" /\ CallOK(NoCall) /\ CallOK(NoCall)'
  /\ \A c \in Calls : Apart(NoCall, call[c])
BY DEF NoCall, CallOK, DoneOK, Apart, HasJob, HasPayment, HasNegotiation

LEMMA AbortInv ==
  ASSUME IInv, NEW c \in Calls, End(c), UNCHANGED rows
  PROVE  IInv'
BY NoCallOK, ReadStep DEF End

\* A commit, or a single statement: the call ends.
LEMMA CommitStep ==
  ASSUME IInv, NEW c \in Calls, End(c), RowsOK', AttemptFollowsJob', OneOpenAgreement',
         \A k \in Call \cup {NoCall} : (\E d \in Calls \ {c} : k = call[d]) => CallOK(k)'
  PROVE  IInv'
BY NoCallOK, MoveInv DEF End

\* A call that moves on without a row more.
LEMMA SameLocks ==
  ASSUME IInv, NEW c \in Calls, NEW new,
         HasJob(new) => HasJob(call[c]), HasPayment(new) => HasPayment(call[c]),
         \A f \in Fixers : HasNegotiation(new, f) => HasNegotiation(call[c], f)
  PROVE  \A d \in Calls \ {c} : Apart(new, call[d])
BY DEF IInv, Apart

-----------------------------------------------------------------------------
(* Calls that start. *)

\* A conversation that is opened now was there for nobody's agreement.
LEMMA OpenedRows ==
  ASSUME IInv, NEW f \in Fixers, Opened(f) \/ UNCHANGED conversation,
         UNCHANGED <<negotiation, job, payment>>
  PROVE  /\ RowsOK' /\ AttemptFollowsJob' /\ OneOpenAgreement'
         /\ \A k \in Call \cup {NoCall} : CallOK(k) => CallOK(k)'
         /\ Opened(f) => Exists(f)'
         /\ \A g \in Fixers : Exists(g) => Exists(g)'
<1>1. /\ conversation' \in [Fixers -> {"NONE", "OPEN", "CLOSED"}]
      /\ \A g \in Fixers : conversation[g] # "NONE" => conversation'[g] = conversation[g]
      /\ Opened(f) => conversation'[f] # "NONE"
  BY DEF IInv, RowsOK, Opened
<1>0. /\ Opened(f) => Exists(f)'
      /\ \A g \in Fixers : Exists(g) => Exists(g)'
  BY <1>1 DEF Exists
<1>2. RowsOK' /\ AttemptFollowsJob'
  BY <1>0, <1>1 DEF IInv, RowsOK, AttemptFollowsJob
<1>3. \A g \in Fixers : Agreed(g)' => Agreed(g)
  <2> SUFFICES ASSUME NEW g \in Fixers, Agreed(g)' PROVE Agreed(g)
    OBVIOUS
  <2>1. negotiation[g].status = "AGREED" /\ conversation'[g] = "OPEN"
    BY DEF Agreed
  <2>2. conversation[g] # "NONE"
    BY <2>1 DEF IInv, RowsOK, Exists
  <2> QED
    BY <1>1, <2>1, <2>2 DEF Agreed
<1>4. OneOpenAgreement'
  BY <1>3 DEF IInv, OneOpenAgreement, Agreed
<1>5. ASSUME NEW k \in Call \cup {NoCall}, CallOK(k) PROVE CallOK(k)'
  <2>1. k.closing \subseteq Fixers /\ (k.kind # "idle" => k.fixer \in Fixers)
    BY CallFields
  <2>2. UNCHANGED <<negotiation, job, payment>>
    OBVIOUS
  <2> QED
    BY <1>0, <1>3, <1>5, <2>1, <2>2 DEF CallOK
<1> QED
  BY <1>0, <1>2, <1>4, <1>5

LEMMA StartStep ==
  ASSUME IInv, NEW c \in Calls,
         NEW kind \in {"propose", "lock", "close", "accept", "reject", "activate", "expire", "late"},
         NEW role \in Roles, NEW f \in Fixers, NEW p \in Prices \cup {None},
         Start(c, kind, role, f, p), Opened(f) \/ UNCHANGED conversation,
         kind \in {"propose", "lock"} => Opened(f),
         kind = "close" => Exists(f),
         kind \in {"lock", "activate"} => p # None,
         kind = "expire" => payment.status # "NONE" /\ f = payment.terms.fixer
  PROVE  IInv'
<1> DEFINE new == [kind |-> kind, role |-> role, fixer |-> f, price |-> p, done |-> 0, closing |-> {}]
<1>1. /\ new \in Call /\ new.kind = kind /\ new.fixer = f /\ new.price = p /\ new.done = 0
      /\ new.closing = {}
  BY DEF Call, Kinds
<1>2. call' = [call EXCEPT ![c] = new] /\ UNCHANGED <<negotiation, job, payment>>
  BY DEF Start
<1> HIDE DEF new
<1>3. /\ RowsOK' /\ AttemptFollowsJob' /\ OneOpenAgreement'
      /\ \A k \in Call \cup {NoCall} : CallOK(k) => CallOK(k)'
      /\ Opened(f) => Exists(f)'
      /\ Exists(f) => Exists(f)'
  BY <1>2, OpenedRows
<1>4. CallOK(new)'
  BY <1>1, <1>2, <1>3 DEF CallOK, DoneOK
<1>5. \A k \in Call \cup {NoCall} : (\E d \in Calls \ {c} : k = call[d]) => CallOK(k)'
  BY <1>3 DEF IInv
<1>6. \A d \in Calls \ {c} : Apart(new, call[d])
  BY <1>1 DEF Apart, HasJob, HasPayment, HasNegotiation
<1> QED
  BY <1>1, <1>2, <1>3, <1>4, <1>5, <1>6, MoveInv

LEMMA CheckInv ==
  ASSUME IInv, NEW c \in Calls, NEW f \in Fixers,
         \/ CheckPropose(c, f)
         \/ CheckClose(c, f)
         \/ \E role \in Roles, p \in Prices : CheckLock(c, role, f, p)
         \/ \E role \in Roles, kind \in {"accept", "reject"} : CheckRespond(c, kind, role, f)
  PROVE  IInv'
<1>1. "CLIENT" \in Roles /\ \A p \in Prices : p # None
  BY NoneAssumption DEF Roles
<1>2. CASE CheckPropose(c, f)
  BY <1>1, <1>2, StartStep DEF CheckPropose
<1>3. CASE CheckClose(c, f)
  BY <1>1, <1>3, StartStep DEF CheckClose, Exists
<1>4. ASSUME NEW role \in Roles, NEW p \in Prices, CheckLock(c, role, f, p) PROVE IInv'
  BY <1>1, <1>4, StartStep DEF CheckLock
<1>5. ASSUME NEW role \in Roles, NEW kind \in {"accept", "reject"}, CheckRespond(c, kind, role, f)
      PROVE  IInv'
  BY <1>5, StartStep DEF CheckRespond
<1> QED
  BY <1>2, <1>3, <1>4, <1>5

LEMMA StartEndInv ==
  ASSUME IInv, NEW c \in Calls, StartActivation(c) \/ StartExpiration(c) \/ StartLate(c)
  PROVE  IInv'
<1>1. /\ "CLIENT" \in Roles /\ payment.terms.fixer \in Fixers /\ payment.status # "NONE"
      /\ payment.terms.price \in Prices
  BY DEF Roles, StartActivation, StartExpiration, StartLate, IInv, RowsOK
<1>4. \A p \in Prices : p # None
  BY NoneAssumption
<1>2. PICK f \in Fixers, p \in Prices : f = payment.terms.fixer /\ p = payment.terms.price
  BY <1>1
<1>3. /\ UNCHANGED conversation
      /\ \E kind \in {"activate", "expire", "late"} : Start(c, kind, "CLIENT", f, p)
  BY <1>2 DEF StartActivation, StartExpiration, StartLate
<1> QED
  BY <1>1, <1>2, <1>3, <1>4, StartStep

-----------------------------------------------------------------------------
(* Single statements. *)

\* A negotiation is written that no other call has locked, and is not agreed by that.
LEMMA NegotiationWrite ==
  ASSUME IInv, NEW c \in Calls, End(c), NEW f \in Fixers, NEW row \in Row,
         \A d \in Calls \ {c} : ~ HasNegotiation(call[d], f),
         negotiation' = [negotiation EXCEPT ![f] = row],
         UNCHANGED <<conversation, job, payment>>,
         row.status # "AGREED",
         row.status = "LOCKED" => row.price # None /\ row.by # None /\ Exists(f)
  PROVE  IInv'
<1>1. negotiation'[f] = row /\ \A g \in Fixers \ {f} : negotiation'[g] = negotiation[g]
  BY DEF IInv, RowsOK
<1>2. RowsOK' /\ AttemptFollowsJob'
  BY <1>1 DEF IInv, RowsOK, AttemptFollowsJob, Exists
<1>3. \A g \in Fixers : Agreed(g)' => Agreed(g)
  BY <1>1 DEF Agreed
<1>4. OneOpenAgreement'
  BY <1>3 DEF IInv, OneOpenAgreement, Agreed
<1>5. ASSUME NEW k \in Call \cup {NoCall}, NEW d \in Calls \ {c}, k = call[d] PROVE CallOK(k)'
  <2>1. CallOK(k) /\ (k.kind # "idle" => k.fixer \in Fixers) /\ k.done \in 0..4
    BY <1>5, CallType DEF IInv
  <2>2. k.kind \in {"rejecting", "accepting", "paying"} /\ k.done > 0 => k.fixer # f
    BY <1>5, <2>1 DEF HasNegotiation
  <2> QED
    BY <1>1, <1>3, <2>1, <2>2 DEF CallOK, Exists
<1> QED
  BY <1>2, <1>4, <1>5, CommitStep

LEMMA ProposeInv ==
  ASSUME IInv, NEW c \in Calls, Propose(c)
  PROVE  IInv'
<1>1. PICK f \in Fixers : f = call[c].fixer
  BY CallType DEF Propose
<1>2. \A d \in Calls \ {c} : ~ HasNegotiation(call[d], f)
  BY <1>1, WaitFree, CallType DEF Propose
<1>3. Unlocked \in Row /\ Unlocked.status = "OPEN"
  BY DEF Unlocked, Row
<1> QED
  BY <1>1, <1>2, <1>3, NegotiationWrite DEF Propose

LEMMA LockInv ==
  ASSUME IInv, NEW c \in Calls, Lock(c)
  PROVE  IInv'
<1>1. PICK f \in Fixers : f = call[c].fixer
  BY CallType DEF Lock
<1>2. \A d \in Calls \ {c} : ~ HasNegotiation(call[d], f)
  BY <1>1, WaitFree, CallType DEF Lock
<1>3. PICK row : row = LockedAt(call[c].price, call[c].role)
  OBVIOUS
<1>4. /\ call[c].price \in Prices /\ call[c].role \in Roles /\ call[c].role # None
      /\ Exists(f)
  BY <1>1, CallType, NoneAssumption DEF Lock, Call, IInv, CallOK, Roles
<1>5. row \in Row /\ row.status = "LOCKED" /\ row.price # None /\ row.by # None
  BY <1>3, <1>4, NoneAssumption DEF Row, LockedAt
<1>6. negotiation' = [negotiation EXCEPT ![f] = row] /\ End(c) /\ UNCHANGED <<conversation, job, payment>>
  BY <1>1, <1>3 DEF Lock
<1> QED
  BY <1>2, <1>4, <1>5, <1>6, NegotiationWrite

LEMMA CommitRejectInv ==
  ASSUME IInv, NEW c \in Calls, CommitReject(c)
  PROVE  IInv'
<1>1. PICK f \in Fixers : f = call[c].fixer
  BY CallType DEF CommitReject
<1>2. call[c].done = 1
  BY FinishedRows, CallType DEF CommitReject
<1>3. \A d \in Calls \ {c} : ~ HasNegotiation(call[d], f)
  BY <1>1, <1>2 DEF CommitReject, IInv, Apart, HasNegotiation
<1>4. Rejected \in Row /\ Rejected.status = "REJECTED"
  BY DEF Rejected, Row
<1> QED
  BY <1>1, <1>3, <1>4, NegotiationWrite DEF CommitReject

LEMMA CloseInv ==
  ASSUME IInv, NEW c \in Calls, Close(c)
  PROVE  IInv'
<1>1. PICK f \in Fixers : f = call[c].fixer
  BY CallType DEF Close
<1>2. /\ conversation' = [conversation EXCEPT ![f] = "CLOSED"]
      /\ End(c) /\ UNCHANGED <<negotiation, job, payment>>
  BY <1>1 DEF Close
<1>4. /\ \A g \in Fixers : Agreed(g)' => Agreed(g)
      /\ \A g \in Fixers : Exists(g) => Exists(g)'
  BY <1>2 DEF Agreed, IInv, RowsOK, Exists
<1>3. RowsOK' /\ AttemptFollowsJob'
  BY <1>2, <1>4 DEF IInv, RowsOK, AttemptFollowsJob
<1>5. OneOpenAgreement'
  BY <1>4 DEF IInv, OneOpenAgreement, Agreed
<1>6. ASSUME NEW k \in Call \cup {NoCall}, NEW d \in Calls \ {c}, k = call[d] PROVE CallOK(k)'
  <2>1. CallOK(k) /\ k.closing \subseteq Fixers /\ (k.kind # "idle" => k.fixer \in Fixers)
    BY <1>6, CallFields DEF IInv
  <2> QED
    BY <1>2, <1>4, <2>1 DEF CallOK
<1> QED
  BY <1>2, <1>3, <1>5, <1>6, CommitStep

-----------------------------------------------------------------------------
(* Transactions before their commit. *)

LEMMA ReadLockedInv ==
  ASSUME IInv, NEW c \in Calls, ReadLocked(c)
  PROVE  IInv'
<1>1. PICK f \in Fixers : f = call[c].fixer
  BY CallType DEF ReadLocked
<1>2. negotiation[f].price \in Prices \cup {None}
  BY DEF IInv, RowsOK, Row
<1>3. PICK kind \in {"accepting", "rejecting"} :
        kind = IF call[c].kind = "accept" THEN "accepting" ELSE "rejecting"
  OBVIOUS
<1>4. PICK new : new = [call[c] EXCEPT !.kind = kind, !.price = negotiation[f].price]
  OBVIOUS
<1>5. call[c] \in Call /\ call[c].done = 0
  BY CallType DEF ReadLocked, DoneOK
<1>6. /\ new \in Call /\ new.kind = kind /\ new.done = 0
      /\ new.price = negotiation[f].price /\ new.fixer = f /\ new.closing = call[c].closing
  BY <1>1, <1>2, <1>4, <1>5 DEF Call, Kinds
<1>10. negotiation[f].price # None
  BY <1>1 DEF ReadLocked, Answerable, IInv, RowsOK
<1>7. call' = [call EXCEPT ![c] = new]
  BY <1>1, <1>3, <1>4, <1>5 DEF ReadLocked, Call, IInv
<1>8. CallOK(new)
  <2>1. CallOK(call[c])
    BY DEF IInv
  <2> QED
    BY <1>1, <1>6, <1>10, <2>1 DEF CallOK, DoneOK
<1>9. \A d \in Calls \ {c} : Apart(new, call[d])
  BY <1>6 DEF Apart, HasJob, HasPayment, HasNegotiation
<1> QED
  BY <1>6, <1>7, <1>8, <1>9, ReadStep DEF ReadLocked

\* One row more.
LEMMA AdvanceStep ==
  ASSUME IInv, NEW c \in Calls, call[c].kind # "idle", call[c].done < 4, Advance(c), UNCHANGED rows,
         NEW new, new = [call[c] EXCEPT !.done = @ + 1], CallOK(new),
         \A d \in Calls \ {c} : Apart(new, call[d])
  PROVE  IInv'
<1>1. call[c] \in Call
  BY CallType
<1>2. new \in Call
  BY <1>1 DEF Call
<1>3. call' = [call EXCEPT ![c] = new]
  BY DEF Advance
<1> QED
  BY <1>2, <1>3, ReadStep

LEMMA Advanced ==
  ASSUME IInv, NEW c \in Calls, call[c].kind # "idle",
         NEW new, new = [call[c] EXCEPT !.done = @ + 1]
  PROVE  /\ new.kind = call[c].kind /\ new.fixer = call[c].fixer /\ new.done = call[c].done + 1
         /\ new.price = call[c].price /\ new.closing = call[c].closing
BY CallType DEF Call

LEMMA ClaimInv ==
  ASSUME IInv, NEW c \in Calls, Claim(c)
  PROVE  IInv'
<1>1. PICK new : new = [call[c] EXCEPT !.done = @ + 1]
  OBVIOUS
<1>2. /\ new.kind = call[c].kind /\ new.fixer = call[c].fixer /\ new.done = 1
      /\ new.price = call[c].price /\ new.closing = call[c].closing
  BY <1>1, Advanced DEF Claim
<1>3. CallOK(new)
  <2>1. CallOK(call[c])
    BY DEF IInv
  <2> QED
    BY <1>2, <2>1 DEF Claim, StillLocked, CallOK, DoneOK
<1>4. \A d \in Calls \ {c} : ~ HasNegotiation(call[d], call[c].fixer)
  BY WaitFree, CallType DEF Claim
<1>5. \A d \in Calls \ {c} : Apart(new, call[d])
  BY <1>2, <1>4 DEF Claim, Apart, HasJob, HasPayment, HasNegotiation
<1> QED
  BY <1>1, <1>3, <1>5, AdvanceStep DEF Claim

LEMMA WriteRowInv ==
  ASSUME IInv, NEW c \in Calls, WriteRow(c)
  PROVE  IInv'
<1>1. PICK new : new = [call[c] EXCEPT !.done = @ + 1]
  OBVIOUS
<1>2. /\ call[c].kind \in {"accepting", "paying", "activate", "release"}
      /\ CallOK(call[c]) /\ DoneOK(call[c]) /\ \A d \in Calls : DoneOK(call[d])
  BY CallType DEF WriteRow, IInv
<1>3. /\ new.kind = call[c].kind /\ new.fixer = call[c].fixer /\ new.done = call[c].done + 1
      /\ new.price = call[c].price /\ new.closing = call[c].closing
  BY <1>1, <1>2, Advanced
<1>4. CASE call[c].kind = "accepting" /\ call[c].done = 1
  <2>1. CallOK(new)
    BY <1>2, <1>3, <1>4 DEF CallOK, DoneOK
  <2>2. \A d \in Calls \ {c} : ~ HasJob(call[d]) /\ Apart(call[c], call[d])
    BY <1>2, <1>4, WaitFree DEF WriteRow, IInv
  <2>3. \A d \in Calls \ {c} : Apart(new, call[d])
    BY <1>3, <1>4, <2>2 DEF Apart, HasPayment, HasNegotiation
  <2> QED
    BY <1>1, <1>4, <2>1, <2>3, AdvanceStep DEF WriteRow
<1>5. CASE call[c].kind = "paying"
  <2>0. call[c].done = 3
    BY <1>2, <1>5, UnfinishedRows DEF WriteRow
  <2>1. CallOK(new)
    BY <1>2, <1>3, <1>5, <2>0 DEF CallOK, DoneOK
  <2>2. \A d \in Calls \ {c} : ~ HasPayment(call[d]) /\ Apart(call[c], call[d])
    BY <1>2, <1>5, <2>0, WaitFree DEF WriteRow, IInv
  <2>3. \A d \in Calls \ {c} : Apart(new, call[d])
    BY <1>3, <1>5, <2>0, <2>2 DEF Apart, HasJob, HasNegotiation
  <2> QED
    BY <1>1, <1>5, <2>0, <2>1, <2>3, AdvanceStep DEF WriteRow
<1>6. CASE call[c].kind \in {"activate", "release"} /\ call[c].done = 1
  <2>1. CallOK(new)
    BY <1>2, <1>3, <1>6 DEF CallOK, DoneOK
  <2>2. \A d \in Calls \ {c} : ~ HasJob(call[d]) /\ Apart(call[c], call[d])
    BY <1>2, <1>6, WaitFree DEF WriteRow, IInv
  <2>3. \A d \in Calls \ {c} : Apart(new, call[d])
    BY <1>3, <1>6, <2>2 DEF Apart, HasPayment, HasNegotiation
  <2> QED
    BY <1>1, <1>6, <2>1, <2>3, AdvanceStep DEF WriteRow
<1>7. CASE call[c].kind = "release" /\ call[c].done = 2
  <2>1. CallOK(new)
    BY <1>2, <1>3, <1>7 DEF CallOK, DoneOK
  <2>2. \A d \in Calls \ {c} : Apart(new, call[d])
    BY <1>3, <1>7, SameLocks DEF HasJob, HasPayment, HasNegotiation
  <2> QED
    BY <1>1, <1>7, <2>1, <2>2, AdvanceStep DEF WriteRow
<1>8. call[c].kind = "release" => call[c].done = 1 \/ call[c].done = 2
  BY <1>2, UnfinishedRows DEF WriteRow
<1> QED
  BY <1>4, <1>5, <1>6, <1>7, <1>8 DEF WriteRow

LEMMA CloseOthersInv ==
  ASSUME IInv, NEW c \in Calls, CloseOthers(c)
  PROVE  IInv'
<1>1. PICK closing : closing = {g \in Fixers \ {call[c].fixer} : conversation[g] = "OPEN"}
  OBVIOUS
<1>2. PICK new : new = [call[c] EXCEPT !.done = @ + 1, !.closing = closing]
  OBVIOUS
<1>3. call[c] \in Call /\ call[c].done = 2 /\ closing \in SUBSET Fixers
  BY <1>1, CallType DEF CloseOthers
<1>4. /\ new \in Call /\ new.kind = call[c].kind /\ new.fixer = call[c].fixer
      /\ new.price = call[c].price /\ new.done = 3 /\ new.closing = closing
  <2>1. /\ new.kind = call[c].kind /\ new.role = call[c].role /\ new.fixer = call[c].fixer
        /\ new.price = call[c].price /\ new.done = call[c].done + 1 /\ new.closing = closing
    BY <1>2, <1>3 DEF Call
  <2>2. new = [kind |-> call[c].kind, role |-> call[c].role, fixer |-> call[c].fixer,
               price |-> call[c].price, done |-> call[c].done + 1, closing |-> closing]
    BY <1>2, <1>3 DEF Call
  <2>3. call[c].done + 1 = 3
    BY <1>3
  <2> QED
    BY <1>3, <2>1, <2>2, <2>3 DEF Call
<1>5. call' = [call EXCEPT ![c] = new]
  BY <1>1, <1>2, <1>3 DEF CloseOthers, Call, IInv
<1>6. CallOK(new)
  <2>1. CallOK(call[c])
    BY DEF IInv
  <2>2. /\ \A g \in Fixers \ {new.fixer} : Agreed(g) => g \in new.closing
        /\ \A g \in new.closing : Exists(g) /\ g # new.fixer
    BY <1>1, <1>4 DEF Agreed, Exists
  <2> QED
    BY <1>3, <1>4, <2>1, <2>2 DEF CloseOthers, CallOK, DoneOK
<1>7. \A d \in Calls \ {c} : Apart(new, call[d])
  BY <1>3, <1>4, SameLocks DEF CloseOthers, HasJob, HasPayment, HasNegotiation
<1> QED
  BY <1>4, <1>5, <1>6, <1>7, ReadStep DEF CloseOthers

\* A call that goes on as a transaction of another kind.
LEMMA BecomeStep ==
  ASSUME IInv, NEW c \in Calls, call[c].kind # "idle", NEW kind \in Kinds, Become(c, kind), UNCHANGED rows,
         NEW new, new = [call[c] EXCEPT !.kind = kind], CallOK(new),
         \A d \in Calls \ {c} : Apart(new, call[d])
  PROVE  IInv'
<1>1. call[c] \in Call
  BY CallType
<1>2. new \in Call
  BY <1>1 DEF Call
<1>3. call' = [call EXCEPT ![c] = new]
  BY DEF Become
<1> QED
  BY <1>2, <1>3, ReadStep

LEMMA CheckPaymentInv ==
  ASSUME IInv, NEW c \in Calls, CheckPayment(c)
  PROVE  IInv'
<1>1. CASE Payable(call[c].fixer)
  <2>1. PICK new : new = [call[c] EXCEPT !.kind = "paying"]
    OBVIOUS
  <2>2. call[c] \in Call /\ CallOK(call[c])
    BY CallType DEF CheckPayment, IInv
  <2>3. /\ new.kind = "paying" /\ new.fixer = call[c].fixer /\ new.done = 3
        /\ new.price = call[c].price /\ new.closing = call[c].closing
    BY <2>1, <2>2 DEF Call, CheckPayment
  <2>4. CallOK(new)
    BY <1>1, <2>2, <2>3 DEF CheckPayment, CallOK, DoneOK, Payable, Negotiable
  <2>5. \A d \in Calls \ {c} : Apart(new, call[d])
    BY <2>3, SameLocks DEF CheckPayment, HasJob, HasPayment, HasNegotiation
  <2>6. "paying" \in Kinds
    BY DEF Kinds
  <2> QED
    BY <1>1, <2>1, <2>4, <2>5, <2>6, BecomeStep DEF CheckPayment
<1>2. CASE ~ Payable(call[c].fixer)
  BY <1>2, AbortInv DEF CheckPayment
<1> QED
  BY <1>1, <1>2

LEMMA ClaimPaymentInv ==
  ASSUME IInv, NEW c \in Calls, ClaimPayment(c)
  PROVE  IInv'
<1>1. CASE StillPending(call[c].kind)
  <2>1. PICK new : new = [call[c] EXCEPT !.done = @ + 1]
    OBVIOUS
  <2>2. /\ new.kind = call[c].kind /\ new.fixer = call[c].fixer /\ new.done = 1
        /\ new.price = call[c].price /\ new.closing = call[c].closing
    BY <2>1, Advanced DEF ClaimPayment
  <2>6. CallOK(call[c])
    BY DEF IInv
  <2>3. CallOK(new)
    BY <1>1, <2>2, <2>6 DEF ClaimPayment, StillPending, CallOK, DoneOK
  <2>4. \A d \in Calls \ {c} : ~ HasPayment(call[d])
    BY WaitFree, CallType DEF ClaimPayment
  <2>5. \A d \in Calls \ {c} : Apart(new, call[d])
    BY <2>2, <2>4 DEF ClaimPayment, Apart, HasJob, HasNegotiation
  <2> QED
    BY <1>1, <2>1, <2>3, <2>5, AdvanceStep DEF ClaimPayment
<1>2. CASE ~ StillPending(call[c].kind)
  BY <1>2, AbortInv DEF ClaimPayment
<1> QED
  BY <1>1, <1>2

-----------------------------------------------------------------------------
(* The payment runs out, and commits. *)

\* The payment of an attempt that nobody else has locked ends unpaid.
LEMMA ExpiredRows ==
  ASSUME IInv, payment.status = "PENDING", payment' = [payment EXCEPT !.status = "EXPIRED"],
         UNCHANGED <<negotiation, conversation, job>>
  PROVE  /\ RowsOK' /\ AttemptFollowsJob' /\ OneOpenAgreement'
         /\ \A k \in Call \cup {NoCall} : CallOK(k) /\ ~ HasPayment(k) => CallOK(k)'
<1>0. /\ payment'.status = "EXPIRED" /\ payment'.terms = payment.terms
      /\ payment' \in [status : {"NONE", "PENDING", "SUCCESS", "EXPIRED"}, terms : Terms, overdue : BOOLEAN]
  BY DEF IInv, RowsOK
<1>1. RowsOK' /\ AttemptFollowsJob' /\ OneOpenAgreement'
  BY <1>0 DEF IInv, RowsOK, AttemptFollowsJob, OneOpenAgreement, Agreed, Exists
<1>2. ASSUME NEW k \in Call \cup {NoCall}, CallOK(k), ~ HasPayment(k) PROVE CallOK(k)'
  <2>1. /\ ~ (k.kind = "expire" /\ k.done = 1) /\ k.kind # "release"
        /\ ~ (k.kind = "activate" /\ k.done >= 1)
    BY <1>2 DEF HasPayment, CallOK, DoneOK
  <2>3. \A g : (Agreed(g)' <=> Agreed(g)) /\ (Exists(g)' <=> Exists(g))
    BY DEF Agreed, Exists
  <2> QED
    BY <1>0, <1>2, <2>1, <2>3 DEF CallOK
<1> QED
  BY <1>1, <1>2

LEMMA ReadJobInv ==
  ASSUME IInv, NEW c \in Calls, ReadJob(c)
  PROVE  IInv'
<1>1. CASE job.status = "OPEN"
  <2>1. PICK new : new = [call[c] EXCEPT !.kind = "release"]
    OBVIOUS
  <2>2. call[c] \in Call /\ CallOK(call[c])
    BY CallType DEF ReadJob, IInv
  <2>3. /\ new.kind = "release" /\ new.fixer = call[c].fixer /\ new.done = 1
        /\ new.closing = call[c].closing
    BY <2>1, <2>2 DEF Call, ReadJob
  <2>4. CallOK(new)
    BY <2>2, <2>3 DEF ReadJob, CallOK, DoneOK
  <2>5. \A d \in Calls \ {c} : Apart(new, call[d])
    BY <2>3, SameLocks DEF ReadJob, HasJob, HasPayment, HasNegotiation
  <2>6. "release" \in Kinds /\ UNCHANGED rows
    BY <1>1 DEF Kinds, ReadJob, rows
  <2> QED
    BY <1>1, <2>1, <2>4, <2>5, <2>6, BecomeStep DEF ReadJob
<1>2. CASE job.status # "OPEN"
  <2>1. HasPayment(call[c])
    BY DEF ReadJob, HasPayment
  <2>2. \A d \in Calls \ {c} : ~ HasPayment(call[d]) /\ CallOK(call[d])
    BY <2>1 DEF IInv, Apart
  <2>3. /\ RowsOK' /\ AttemptFollowsJob' /\ OneOpenAgreement'
        /\ \A k \in Call \cup {NoCall} : CallOK(k) /\ ~ HasPayment(k) => CallOK(k)'
    BY <1>2, ExpiredRows DEF ReadJob, IInv, CallOK
  <2> QED
    BY <1>2, <2>2, <2>3, CommitStep DEF ReadJob
<1> QED
  BY <1>1, <1>2

\* No call moves.
LEMMA RowsStep ==
  ASSUME IInv, UNCHANGED call, RowsOK', AttemptFollowsJob', OneOpenAgreement',
         \A k \in Call \cup {NoCall} : (\E d \in Calls : k = call[d]) => CallOK(k)'
  PROVE  IInv'
<1>1. ASSUME NEW d \in Calls PROVE CallOK(call[d])'
  <2>1. PICK k \in Call \cup {NoCall} : k = call[d]
    BY CallType
  <2>2. CallOK(k)' /\ call'[d] = k
    BY <2>1
  <2> QED
    BY <2>2
<1>2. (\A d \in Calls : \A e \in Calls \ {d} : Apart(call[d], call[e]))'
  BY DEF IInv, Apart, HasJob, HasPayment, HasNegotiation
<1>3. call' \in [Calls -> Call \cup {NoCall}]
  BY DEF IInv
<1> QED
  BY <1>1, <1>2, <1>3 DEF IInv

LEMMA TickInv ==
  ASSUME IInv, Tick
  PROVE  IInv'
<1>0. /\ payment'.status = payment.status /\ payment'.terms = payment.terms /\ payment'.overdue
      /\ payment' \in [status : {"NONE", "PENDING", "SUCCESS", "EXPIRED"}, terms : Terms, overdue : BOOLEAN]
      /\ UNCHANGED <<negotiation, conversation, job, call>>
  BY DEF Tick, RunOut, IInv, RowsOK
<1>1. RowsOK' /\ AttemptFollowsJob' /\ OneOpenAgreement'
  BY <1>0 DEF IInv, RowsOK, AttemptFollowsJob, OneOpenAgreement, Agreed, Exists
<1>2. ASSUME NEW k \in Call \cup {NoCall}, NEW d \in Calls, k = call[d] PROVE CallOK(k)'
  <2>1. CallOK(k)
    BY <1>2 DEF IInv
  <2>3. \A g : (Agreed(g)' <=> Agreed(g)) /\ (Exists(g)' <=> Exists(g))
    BY <1>0 DEF Agreed, Exists
  <2> QED
    BY <1>0, <2>1, <2>3 DEF CallOK
<1> QED
  BY <1>0, <1>1, <1>2, RowsStep

LEMMA ExpireLateInv ==
  ASSUME IInv, NEW c \in Calls, ExpireLate(c)
  PROVE  IInv'
<1>1. \A d \in Calls \ {c} : ~ HasPayment(call[d]) /\ CallOK(call[d])
  BY WaitFree, CallType DEF ExpireLate, IInv
<1>2. CASE payment.status = "PENDING"
  <2>1. /\ RowsOK' /\ AttemptFollowsJob' /\ OneOpenAgreement'
        /\ \A k \in Call \cup {NoCall} : CallOK(k) /\ ~ HasPayment(k) => CallOK(k)'
    BY <1>2, ExpiredRows DEF ExpireLate
  <2> QED
    BY <1>1, <2>1, CommitStep DEF ExpireLate
<1>3. CASE payment.status # "PENDING"
  BY <1>3, AbortInv DEF ExpireLate, rows
<1> QED
  BY <1>2, <1>3

\* A commit, which may end other calls with its own.
LEMMA EndStep ==
  ASSUME IInv, NEW c \in Calls, call' \in [Calls -> Call \cup {NoCall}], call'[c] = NoCall,
         \A d \in Calls : call'[d] \in {call[d], NoCall},
         RowsOK', AttemptFollowsJob', OneOpenAgreement',
         \A k \in Call \cup {NoCall} : (\E d \in Calls \ {c} : k = call[d] /\ k = call'[d]) => CallOK(k)'
  PROVE  IInv'
<1>1. ASSUME NEW d \in Calls PROVE CallOK(call[d])'
  <2>1. CASE call'[d] = NoCall
    BY <2>1, NoCallOK
  <2>2. CASE call'[d] # NoCall
    <3>1. PICK k \in Call \cup {NoCall} : k = call'[d]
      OBVIOUS
    <3>2. d # c /\ k = call[d]
      BY <2>2, <3>1
    <3> QED
      BY <3>1, <3>2
  <2> QED
    BY <2>1, <2>2
<1>2. ASSUME NEW d \in Calls, NEW e \in Calls \ {d} PROVE Apart(call'[d], call'[e])
  <2>1. CASE call'[d] = NoCall \/ call'[e] = NoCall
    BY <2>1 DEF NoCall, Apart, HasJob, HasPayment, HasNegotiation
  <2>2. CASE call'[d] = call[d] /\ call'[e] = call[e]
    BY <2>2 DEF IInv
  <2> QED
    BY <2>1, <2>2
<1>3. (\A d \in Calls : \A e \in Calls \ {d} : Apart(call[d], call[e]))'
  BY <1>2 DEF Apart, HasJob, HasPayment, HasNegotiation
<1> QED
  BY <1>1, <1>3 DEF IInv

\* A commit of a call that has the job and the payment: nobody else relies on either but who
\* still has to claim the payment.
LEMMA BothRowsStep ==
  ASSUME IInv, NEW c \in Calls, HasJob(call[c]), HasPayment(call[c]),
         call' \in [Calls -> Call \cup {NoCall}], call'[c] = NoCall,
         \A d \in Calls : call'[d] \in {call[d], NoCall},
         RowsOK', AttemptFollowsJob', OneOpenAgreement',
         \A g \in Fixers : Exists(g) => Exists(g)',
         \A g \in Fixers : negotiation'[g] = negotiation[g] \/ HasNegotiation(call[c], g),
         payment'.status # "NONE",
         payment'.terms = payment.terms \/ \A d \in Calls : call'[d].kind # "expire"
  PROVE  IInv'
<1>1. ASSUME NEW k \in Call \cup {NoCall}, NEW d \in Calls \ {c}, k = call[d], k = call'[d]
      PROVE  CallOK(k)'
  <2>1. /\ CallOK(k) /\ DoneOK(k) /\ (k.kind # "idle" => k.fixer \in Fixers)
        /\ k.done \in 0..4 /\ k.closing \subseteq Fixers
    BY <1>1, CallType, CallFields DEF IInv
  <2>2. Apart(call[c], k)
    BY <1>1 DEF IInv
  <2>3. ~ HasJob(k) /\ ~ HasPayment(k)
    BY <2>2 DEF Apart
  <2>4. /\ ~ (k.kind \in {"accepting", "paying"} /\ k.done >= 3) /\ k.kind # "paying"
        /\ ~ (k.kind = "activate" /\ k.done >= 1)
        /\ ~ (k.kind = "expire" /\ k.done = 1) /\ k.kind # "release"
    BY <2>1, <2>3 DEF HasJob, HasPayment, DoneOK
  <2>5. k.kind \in {"rejecting", "accepting", "paying"} /\ k.done > 0 =>
          negotiation'[k.fixer] = negotiation[k.fixer]
    BY <2>1, <2>2 DEF Apart, HasNegotiation
  <2>6. k.kind = "expire" => payment'.terms = payment.terms
    BY <1>1
  <2> QED
    BY <2>1, <2>4, <2>5, <2>6 DEF CallOK
<1> QED
  BY <1>1, EndStep

LEMMA EndedCalls ==
  ASSUME IInv, NEW c \in Calls, End(c)
  PROVE  /\ call' \in [Calls -> Call \cup {NoCall}] /\ call'[c] = NoCall
         /\ \A d \in Calls : call'[d] \in {call[d], NoCall}
BY DEF IInv, End

\* The conversations of the others are closed, none is opened.
LEMMA ClosedRows ==
  ASSUME IInv, NEW c \in Calls, conversation' = Closed(c)
  PROVE  /\ conversation' \in [Fixers -> {"NONE", "OPEN", "CLOSED"}]
         /\ \A g \in Fixers : /\ Exists(g) => Exists(g)'
                              /\ conversation'[g] = "OPEN" =>
                                   conversation[g] = "OPEN" /\ g \notin call[c].closing
BY DEF IInv, RowsOK, Closed, Exists

LEMMA CommitAcceptInv ==
  ASSUME IInv, NEW c \in Calls, CommitAccept(c)
  PROVE  IInv'
<1>1. PICK f \in Fixers : f = call[c].fixer
  BY CallType DEF CommitAccept
<1>2. call[c].kind = "paying" /\ call[c].done = 4 /\ CallOK(call[c])
  BY FinishedRows, CallType DEF CommitAccept, IInv
<1>3. HasJob(call[c]) /\ HasPayment(call[c]) /\ HasNegotiation(call[c], f)
  BY <1>1, <1>2 DEF HasJob, HasPayment, HasNegotiation
<1>4. /\ negotiation[f].status = "LOCKED" /\ job.status = "OPEN"
      /\ \A g \in Fixers \ {f} : Agreed(g) => g \in call[c].closing
  BY <1>1, <1>2 DEF CallOK
<1>5. /\ negotiation' = [negotiation EXCEPT ![f].status = "AGREED"]
      /\ conversation' = Closed(c)
      /\ job' = [job EXCEPT !.terms = [fixer |-> f, price |-> call[c].price]]
      /\ payment' = [status |-> "PENDING", overdue |-> FALSE,
                     terms |-> [fixer |-> f, price |-> negotiation[f].price]]
  BY <1>1 DEF CommitAccept
<1>6. /\ conversation' \in [Fixers -> {"NONE", "OPEN", "CLOSED"}]
      /\ \A g \in Fixers : /\ Exists(g) => Exists(g)'
                           /\ conversation'[g] = "OPEN" =>
                                conversation[g] = "OPEN" /\ g \notin call[c].closing
  BY <1>5, ClosedRows
<1>7. /\ \A g \in Fixers \ {f} : negotiation'[g] = negotiation[g]
      /\ negotiation'[f].status = "AGREED" /\ negotiation'[f].price = negotiation[f].price
      /\ negotiation'[f].by = negotiation[f].by
      /\ negotiation' \in [Fixers -> Row]
  BY <1>5 DEF IInv, RowsOK, Row
<1>8. call[c].price \in Prices \cup {None} /\ negotiation[f].price \in Prices
  BY <1>2, <1>4, CallType DEF Call, IInv, RowsOK, Row
<1>9. /\ job'.status = "OPEN" /\ job'.terms.fixer = f
      /\ job' \in [status : {"OPEN", "IN_PROGRESS"}, terms : Terms]
  BY <1>4, <1>5, <1>8 DEF IInv, RowsOK, Terms
<1>10. /\ payment' \in [status : {"NONE", "PENDING", "SUCCESS", "EXPIRED"}, terms : Terms, overdue : BOOLEAN]
       /\ payment'.terms.fixer = f /\ payment'.terms.price \in Prices /\ payment'.status = "PENDING"
  BY <1>5, <1>8 DEF Terms
<1>11. RowsOK'
  <2>1. Exists(f)
    BY <1>4 DEF RowsOK, IInv
  <2>2. \A g \in Fixers : negotiation'[g].status \in {"LOCKED", "AGREED"} =>
          negotiation'[g].price # None /\ negotiation'[g].by # None /\ Exists(g)'
    BY <1>4, <1>6, <1>7 DEF RowsOK, IInv
  <2> QED
    BY <1>6, <1>7, <1>9, <1>10, <2>1, <2>2 DEF RowsOK
<1>12. AttemptFollowsJob'
  BY <1>9, <1>10 DEF AttemptFollowsJob
<1>13. \A g \in Fixers \ {f} : ~ Agreed(g)'
  BY <1>4, <1>6, <1>7 DEF Agreed
<1>14. OneOpenAgreement'
  BY <1>13 DEF OneOpenAgreement, Agreed
<1>15. call' = [d \in Calls |-> IF d = c \/ call[d].kind = "expire" THEN NoCall ELSE call[d]]
  BY DEF CommitAccept
<1>16. /\ call' \in [Calls -> Call \cup {NoCall}] /\ call'[c] = NoCall
       /\ \A d \in Calls : call'[d] \in {call[d], NoCall} /\ call'[d].kind # "expire"
  BY <1>15, NoCallOK DEF IInv
<1> QED
  BY <1>3, <1>6, <1>7, <1>10, <1>11, <1>12, <1>14, <1>16, BothRowsStep

LEMMA CommitActivationInv ==
  ASSUME IInv, NEW c \in Calls, CommitActivation(c)
  PROVE  IInv'
<1>1. call[c].kind = "activate" /\ call[c].done = 3 /\ call[c] \in Call
  BY FinishedRows, CallType DEF CommitActivation
<1>2. HasJob(call[c]) /\ HasPayment(call[c])
  BY <1>1 DEF HasJob, HasPayment
<1>3. /\ conversation' \in [Fixers -> {"NONE", "OPEN", "CLOSED"}]
      /\ \A g \in Fixers : /\ Exists(g) => Exists(g)'
                           /\ conversation'[g] = "OPEN" => conversation[g] = "OPEN"
  BY ClosedRows DEF CommitActivation
<1>4. payment'.status = "SUCCESS" /\ payment'.terms = payment.terms
  BY DEF CommitActivation, IInv, RowsOK
<1>5. /\ payment.terms.fixer \in Fixers /\ payment.terms.price \in Prices
      /\ Exists(payment.terms.fixer)
  BY <1>1 DEF IInv, CallOK, RowsOK
<1> QED
  <2>1. job' \in [status : {"OPEN", "IN_PROGRESS"}, terms : Terms]
    BY <1>1 DEF CommitActivation, Terms, Call
  <2>2. payment' \in [status : {"NONE", "PENDING", "SUCCESS", "EXPIRED"}, terms : Terms, overdue : BOOLEAN]
    BY DEF CommitActivation, IInv, RowsOK
  <2>3. OneOpenAgreement'
    BY <1>3 DEF CommitActivation, IInv, OneOpenAgreement, Agreed
  <2>4. RowsOK'
    BY <1>3, <1>4, <1>5, <2>1, <2>2 DEF CommitActivation, IInv, RowsOK
  <2>5. AttemptFollowsJob'
    BY <1>4 DEF AttemptFollowsJob
  <2> QED
    BY <1>2, <1>3, <1>4, <2>3, <2>4, <2>5, BothRowsStep, EndedCalls DEF CommitActivation

LEMMA CommitReleaseInv ==
  ASSUME IInv, NEW c \in Calls, CommitRelease(c)
  PROVE  IInv'
<1>1. PICK f \in Fixers : f = call[c].fixer
  BY CallType DEF CommitRelease
<1>2. call[c].kind = "release" /\ call[c].done = 3
  BY FinishedRows, CallType DEF CommitRelease
<1>3. HasJob(call[c]) /\ HasPayment(call[c])
  BY <1>2 DEF HasJob, HasPayment
<1>4. /\ conversation' \in [Fixers -> {"NONE", "OPEN", "CLOSED"}]
      /\ \A g \in Fixers : /\ Exists(g) => Exists(g)'
                           /\ conversation'[g] = "OPEN" => conversation[g] = "OPEN"
  BY <1>1 DEF CommitRelease, IInv, RowsOK, Exists
<1>8. payment'.status = "EXPIRED" /\ payment'.terms = payment.terms
  BY DEF CommitRelease, IInv, RowsOK
<1>5. RowsOK'
  <2>1. /\ job' \in [status : {"OPEN", "IN_PROGRESS"}, terms : Terms]
        /\ payment' \in [status : {"NONE", "PENDING", "SUCCESS", "EXPIRED"}, terms : Terms, overdue : BOOLEAN]
        /\ payment'.status = "EXPIRED" /\ payment'.terms = payment.terms
    BY DEF CommitRelease, IInv, RowsOK, NoTerms, Terms
  <2>2. /\ payment.terms.fixer \in Fixers /\ payment.terms.price \in Prices
        /\ Exists(payment.terms.fixer)
    BY <1>2 DEF IInv, CallOK, RowsOK
  <2> QED
    BY <1>4, <2>1, <2>2 DEF CommitRelease, IInv, RowsOK
<1>6. AttemptFollowsJob'
  BY DEF CommitRelease, IInv, RowsOK, AttemptFollowsJob
<1>7. OneOpenAgreement'
  BY <1>4 DEF CommitRelease, IInv, OneOpenAgreement, Agreed
<1> QED
  BY <1>3, <1>4, <1>5, <1>6, <1>7, <1>8, BothRowsStep, EndedCalls DEF CommitRelease

-----------------------------------------------------------------------------
LEMMA NextInv == IInv /\ [Next]_vars => IInv'
<1> SUFFICES ASSUME IInv, [Next]_vars PROVE IInv'
  OBVIOUS
<1>1. ASSUME NEW c \in Calls, NEW f \in Fixers,
             \/ CheckPropose(c, f)
             \/ CheckClose(c, f)
             \/ \E role \in Roles, p \in Prices : CheckLock(c, role, f, p)
             \/ \E role \in Roles, kind \in {"accept", "reject"} : CheckRespond(c, kind, role, f)
      PROVE  IInv'
  BY <1>1, CheckInv
<1>2. ASSUME NEW c \in Calls, StartActivation(c) \/ StartExpiration(c) \/ StartLate(c)
      PROVE  IInv'
  BY <1>2, StartEndInv
<1>3. ASSUME NEW c \in Calls, Run(c) PROVE IInv'
  <2>1. CASE Propose(c) \/ Lock(c) \/ Close(c)
    BY <2>1, ProposeInv, LockInv, CloseInv
  <2>2. CASE ReadLocked(c) \/ Claim(c) \/ WriteRow(c) \/ CloseOthers(c) \/ CheckPayment(c)
    BY <2>2, ReadLockedInv, ClaimInv, WriteRowInv, CloseOthersInv, CheckPaymentInv
  <2>3. CASE FailRespond(c)
    BY <2>3, AbortInv DEF FailRespond, Abort
  <2>4. CASE CommitReject(c) \/ CommitAccept(c) \/ CommitActivation(c) \/ CommitRelease(c)
    BY <2>4, CommitRejectInv, CommitAcceptInv, CommitActivationInv, CommitReleaseInv
  <2>5. CASE ClaimPayment(c) \/ ReadJob(c) \/ ExpireLate(c)
    BY <2>5, ClaimPaymentInv, ReadJobInv, ExpireLateInv
  <2> QED
    BY <1>3, <2>1, <2>2, <2>3, <2>4, <2>5 DEF Run
<1>4. ASSUME NEW c \in Calls, Abort(c) PROVE IInv'
  BY <1>4, AbortInv DEF Abort
<1>5. CASE Tick
  BY <1>5, TickInv
<1>6. CASE UNCHANGED vars
  <2>1. UNCHANGED rows /\ UNCHANGED call
    BY <1>6 DEF vars
  <2> QED
    BY <2>1, RowsSame, RowsStep DEF IInv
<1> QED
  BY <1>1, <1>2, <1>3, <1>4, <1>5, <1>6 DEF Next

\* The inductive invariant: who holds a row, and what the holders of the job's and the payment's
\* row rely on.
THEOREM Invariance == Spec => []IInv
BY InitInv, NextInv, PTL DEF Spec

\* The rows and the calls have the types of the schema, and a price that is locked or agreed is known
\* together with who locked it.
THEOREM TypeCorrect == Spec => []TypeOK
<1>1. IInv => TypeOK
  BY DEF IInv, RowsOK, TypeOK
<1> QED
  BY <1>1, Invariance, PTL

\* Whatever overlapped, an attempt that can be paid is one for the fixer the job is held for.
THEOREM PaymentFollowsJob == Spec => []AttemptFollowsJob
<1>1. IInv => AttemptFollowsJob
  BY DEF IInv
<1> QED
  BY <1>1, Invariance, PTL

\* No two agreed negotiations of a job have their conversations open.
THEOREM OneAgreement == Spec => []OneOpenAgreement
<1>1. IInv => OneOpenAgreement
  BY DEF IInv
<1> QED
  BY <1>1, Invariance, PTL

\* A negotiation that a response has claimed stays as it is until the response ends.
THEOREM ClaimKept == Spec => []ClaimHolds
<1>1. IInv => ClaimHolds
  BY DEF IInv, CallOK, ClaimHolds
<1> QED
  BY <1>1, Invariance, PTL

\* No agreement, activation or expiration takes a payment that is paid or can still be paid away;
\* of the calls that end one, only the late callback does not look at its time.
THEOREM AttemptKept == Spec => LiveAttemptKept
<1> DEFINE Kept == /\ payment.status = "SUCCESS" => UNCHANGED payment
                   /\ payment.status = "PENDING" /\ ~ payment.overdue =>
                        /\ payment'.terms = payment.terms
                        /\ \/ payment'.status \in {"PENDING", "SUCCESS"}
                           \/ payment'.status = "EXPIRED" /\ \E c \in Calls : ExpireLate(c)
<1>1. IInv /\ [Next]_vars => [Kept]_vars
  <2> SUFFICES ASSUME IInv, [Next]_vars PROVE Kept
    OBVIOUS
  <2>1. ASSUME NEW c \in Calls, CommitAccept(c) PROVE Kept
    BY <2>1 DEF CommitAccept, IInv, CallOK
  <2>2. ASSUME NEW c \in Calls, ReadJob(c) \/ CommitRelease(c) PROVE Kept
    BY <2>2 DEF ReadJob, CommitRelease, IInv, CallOK
  <2>3. ASSUME NEW c \in Calls, CommitActivation(c) PROVE Kept
    BY <2>3 DEF CommitActivation, IInv, RowsOK
  <2>4. CASE Tick
    BY <2>4 DEF Tick, RunOut, IInv, RowsOK
  <2>11. ASSUME NEW c \in Calls, ExpireLate(c) PROVE Kept
    <3>1. payment' = payment \/ (payment'.status = "EXPIRED" /\ payment'.terms = payment.terms
                                /\ payment.status = "PENDING")
      BY <2>11 DEF ExpireLate, IInv, RowsOK
    <3>2. \E d \in Calls : ExpireLate(d)
      BY <2>11
    <3> QED
      BY <3>1, <3>2
  <2>5. CASE UNCHANGED payment
    BY <2>5
  <2>6. ASSUME NEW c \in Calls, NEW f \in Fixers,
               \/ CheckPropose(c, f)
               \/ CheckClose(c, f)
               \/ \E role \in Roles, p \in Prices : CheckLock(c, role, f, p)
               \/ \E role \in Roles, kind \in {"accept", "reject"} : CheckRespond(c, kind, role, f)
        PROVE  UNCHANGED payment
    BY <2>6 DEF CheckPropose, CheckClose, CheckLock, CheckRespond, Start
  <2>7. ASSUME NEW c \in Calls, StartActivation(c) \/ StartExpiration(c) \/ StartLate(c)
        PROVE  UNCHANGED payment
    BY <2>7 DEF StartActivation, StartExpiration, StartLate, Start
  <2>8. ASSUME NEW c \in Calls, Run(c) PROVE Kept
    <3>1. CASE \/ Propose(c) \/ Lock(c) \/ Close(c) \/ ReadLocked(c) \/ Claim(c) \/ FailRespond(c)
               \/ WriteRow(c) \/ CloseOthers(c) \/ CheckPayment(c) \/ CommitReject(c) \/ ClaimPayment(c)
      BY <3>1, <2>5 DEF Propose, Lock, Close, ReadLocked, Claim, FailRespond, Abort, WriteRow, CloseOthers,
                        CheckPayment, CommitReject, ClaimPayment, rows
    <3> QED
      BY <2>1, <2>2, <2>3, <2>8, <2>11, <3>1 DEF Run
  <2>9. ASSUME NEW c \in Calls, Abort(c) PROVE UNCHANGED payment
    BY <2>9 DEF Abort, rows
  <2>10. CASE UNCHANGED vars
    BY <2>10 DEF vars, rows
  <2> HIDE DEF Kept
  <2> QED
    BY <2>4, <2>5, <2>6, <2>7, <2>8, <2>9, <2>10 DEF Next
<1> QED
  BY <1>1, Invariance, PTL DEF Spec, LiveAttemptKept

-----------------------------------------------------------------------------
(* Negotiation implements Deals: what a transaction commits, or a late UPDATE writes, is one of
   the indivisible operations, and nothing else touches a row. *)

LEMMA CheckDeals ==
  ASSUME IInv, NEW c \in Calls, NEW f \in Fixers,
         \/ CheckPropose(c, f)
         \/ CheckClose(c, f)
         \/ \E role \in Roles, p \in Prices : CheckLock(c, role, f, p)
         \/ \E role \in Roles, kind \in {"accept", "reject"} : CheckRespond(c, kind, role, f)
  PROVE  OpenChat(f) \/ UNCHANGED rows
<1>1. UNCHANGED <<negotiation, job, payment>>
  BY DEF CheckPropose, CheckClose, CheckLock, CheckRespond, Start
<1>2. Opened(f) \/ UNCHANGED conversation
  BY DEF CheckPropose, CheckClose, CheckLock, CheckRespond
<1>3. CASE Opened(f)
  <2>1. CASE Exists(f)
    <3>1. UNCHANGED conversation
      BY <1>3, <2>1 DEF Opened, Exists, IInv, RowsOK
    <3> QED
      BY <1>1, <3>1 DEF rows
  <2>2. CASE ~ Exists(f)
    <3>1. conversation' = [conversation EXCEPT ![f] = "OPEN"]
      BY <1>3, <2>2 DEF Opened, Exists
    <3> QED
      BY <1>1, <2>2, <3>1 DEF OpenChat
  <2> QED
    BY <2>1, <2>2
<1> QED
  BY <1>1, <1>2, <1>3 DEF rows

LEMMA SingleDeals ==
  ASSUME IInv, NEW c \in Calls, Propose(c) \/ Lock(c) \/ Close(c) \/ CommitReject(c)
  PROVE  \E f \in Fixers :
           \/ CloseChat(f) \/ Write(f, Unlocked) \/ RejectPrice(f)
           \/ \E p \in Prices, role \in Roles : Write(f, LockedAt(p, role))
<1>1. PICK f \in Fixers : f = call[c].fixer
  BY CallType DEF Propose, Lock, Close, CommitReject
<1>2. CallOK(call[c])
  BY DEF IInv
<1>3. CASE Propose(c)
  BY <1>1, <1>2, <1>3 DEF Propose, CallOK, Write
<1>4. CASE Lock(c)
  <2>1. call[c].price \in Prices /\ call[c].role \in Roles
    BY <1>2, <1>4, CallType DEF Lock, Call, CallOK
  <2>2. Write(f, LockedAt(call[c].price, call[c].role))
    BY <1>1, <1>2, <1>4 DEF Lock, CallOK, Write
  <2> QED
    BY <2>1, <2>2
<1>5. CASE Close(c)
  BY <1>1, <1>2, <1>5 DEF Close, CallOK, CloseChat
<1>6. CASE CommitReject(c)
  <2>1. call[c].kind = "rejecting" /\ call[c].done = 1
    BY <1>6, FinishedRows, CallType DEF CommitReject
  <2>2. negotiation[f].status = "LOCKED"
    BY <1>1, <1>2, <2>1 DEF CallOK
  <2>3. Exists(f)
    BY <2>2 DEF IInv, RowsOK
  <2>4. RejectPrice(f)
    BY <1>1, <1>6, <2>2, <2>3 DEF CommitReject, RejectPrice, Write
  <2> QED
    BY <2>4
<1> QED
  BY <1>3, <1>4, <1>5, <1>6

LEMMA AgreeDeals ==
  ASSUME IInv, NEW c \in Calls, CommitAccept(c) \/ CommitActivation(c)
  PROVE  \E f \in Fixers : \E p \in Prices, others \in SUBSET {g \in Fixers \ {f} : Exists(g)} :
           Agree(f, p, others) \/ Activate(f, p, others)
<1>1. PICK f \in Fixers : f = call[c].fixer
  BY CallType DEF CommitAccept, CommitActivation
<1>2. CallOK(call[c]) /\ call[c] \in Call
  BY CallType DEF IInv, CommitAccept, CommitActivation
<1>3. PICK p \in Prices : p = call[c].price
  BY <1>2 DEF Call, CallOK, CommitAccept, CommitActivation
<1>4. PICK others \in SUBSET {g \in Fixers \ {f} : Exists(g)} : others = call[c].closing
  BY <1>1, <1>2, CallFields DEF CallOK
<1>5. CASE CommitAccept(c)
  <2>1. call[c].kind = "paying" /\ call[c].done = 4
    BY <1>5, FinishedRows, CallType DEF CommitAccept
  <2>2. /\ job.status = "OPEN" /\ ~ Live /\ negotiation[f].status = "LOCKED"
        /\ {g \in Fixers \ {f} : Agreed(g)} \subseteq others
    BY <1>1, <1>2, <1>4, <2>1 DEF CallOK, Live
  <2>3. Shut(others)
    BY <1>4, <1>5 DEF CommitAccept, Closed, Shut
  <2>4. Agree(f, p, others)
    BY <1>1, <1>3, <1>5, <2>2, <2>3 DEF CommitAccept, Agree
  <2> QED
    BY <2>4
<1>6. CASE CommitActivation(c)
  <2>1. call[c].kind = "activate" /\ call[c].done = 3
    BY <1>6, FinishedRows, CallType DEF CommitActivation
  <2>2. payment.status = "PENDING"
    BY <1>2, <2>1 DEF CallOK
  <2>3. Shut(others)
    BY <1>4, <1>6 DEF CommitActivation, Closed, Shut
  <2>4. Activate(f, p, others)
    BY <1>1, <1>3, <1>6, <2>2, <2>3 DEF CommitActivation, Activate
  <2> QED
    BY <2>4
<1> QED
  BY <1>5, <1>6

LEMMA LapseDeals ==
  ASSUME IInv, NEW c \in Calls, ReadJob(c) \/ CommitRelease(c) \/ ExpireLate(c)
  PROVE  Lapse \/ Release \/ UNCHANGED rows
<1>1. CallOK(call[c])
  BY DEF IInv
<1>2. CASE ReadJob(c)
  BY <1>1, <1>2 DEF ReadJob, CallOK, Lapse, Lapsed, rows
<1>3. CASE CommitRelease(c)
  BY <1>1, <1>3 DEF CommitRelease, CallOK, Release, Lapsed
<1>4. CASE ExpireLate(c)
  BY <1>4 DEF ExpireLate, Lapse, Lapsed, rows
<1> QED
  BY <1>2, <1>3, <1>4

\* Every call, however its steps interleave with the others', does to the rows what one of the
\* indivisible operations of Deals does, at one moment.
THEOREM Implements == Spec => ImplementsDeals
<1>1. Init => DealInit
  BY DEF Init
<1>2. IInv /\ [Next]_vars => [DealNext]_rows
  <2> SUFFICES ASSUME IInv, [Next]_vars PROVE DealNext \/ UNCHANGED rows
    OBVIOUS
  <2>1. ASSUME NEW c \in Calls, NEW f \in Fixers,
               \/ CheckPropose(c, f)
               \/ CheckClose(c, f)
               \/ \E role \in Roles, p \in Prices : CheckLock(c, role, f, p)
               \/ \E role \in Roles, kind \in {"accept", "reject"} : CheckRespond(c, kind, role, f)
        PROVE  DealNext \/ UNCHANGED rows
    BY <2>1, CheckDeals DEF DealNext
  <2>2. ASSUME NEW c \in Calls, StartActivation(c) \/ StartExpiration(c) \/ StartLate(c)
        PROVE  UNCHANGED rows
    BY <2>2 DEF StartActivation, StartExpiration, StartLate, Start, rows
  <2>3. ASSUME NEW c \in Calls, Run(c) PROVE DealNext \/ UNCHANGED rows
    <3>1. CASE Propose(c) \/ Lock(c) \/ Close(c) \/ CommitReject(c)
      BY <3>1, SingleDeals DEF DealNext
    <3>2. CASE CommitAccept(c) \/ CommitActivation(c)
      BY <3>2, AgreeDeals DEF DealNext
    <3>3. CASE ReadJob(c) \/ CommitRelease(c) \/ ExpireLate(c)
      BY <3>3, LapseDeals DEF DealNext
    <3>4. CASE \/ ReadLocked(c) \/ Claim(c) \/ FailRespond(c) \/ WriteRow(c) \/ CloseOthers(c)
               \/ CheckPayment(c) \/ ClaimPayment(c)
      BY <3>4 DEF ReadLocked, Claim, FailRespond, Abort, WriteRow, CloseOthers, CheckPayment, ClaimPayment
    <3> QED
      BY <2>3, <3>1, <3>2, <3>3, <3>4 DEF Run
  <2>4. ASSUME NEW c \in Calls, Abort(c) PROVE UNCHANGED rows
    BY <2>4 DEF Abort
  <2>5. CASE Tick
    BY <2>5 DEF Tick, DealNext
  <2>6. CASE UNCHANGED vars
    BY <2>6 DEF vars
  <2> QED
    BY <2>1, <2>2, <2>3, <2>4, <2>5, <2>6 DEF Next
<1> QED
  BY <1>1, <1>2, Invariance, PTL DEF Spec, ImplementsDeals, DealSpec

-----------------------------------------------------------------------------
(* What Deals promises, from its indivisible operations alone. *)

DealInv ==
  /\ negotiation \in [Fixers -> Row]
  /\ \A f \in Fixers : negotiation[f].status \in {"LOCKED", "AGREED"} => Exists(f)
  /\ conversation \in [Fixers -> {"NONE", "OPEN", "CLOSED"}]
  /\ job \in [status : {"OPEN", "IN_PROGRESS"}, terms : Terms]
  /\ payment \in [status : {"NONE", "PENDING", "SUCCESS", "EXPIRED"}, terms : Terms,
                  overdue : BOOLEAN]
  /\ AttemptFollowsJob /\ OneOpenAgreement

\* Conversations and negotiations: no operation on one of them makes it an open agreement.
LEMMA ChatDeals ==
  ASSUME DealInv, NEW f \in Fixers,
         \/ OpenChat(f) \/ CloseChat(f)
         \/ Write(f, Unlocked) \/ RejectPrice(f)
         \/ \E p \in Prices, role \in Roles : Write(f, LockedAt(p, role))
  PROVE  DealInv' /\ UNCHANGED <<job, payment>>
<1>1. CASE OpenChat(f) \/ CloseChat(f)
  <2>1. /\ UNCHANGED <<negotiation, job, payment>>
        /\ conversation' \in [Fixers -> {"NONE", "OPEN", "CLOSED"}]
        /\ \A g \in Fixers : Exists(g) => Exists(g)'
        /\ \A g \in Fixers : conversation'[g] = "OPEN" => conversation[g] = "OPEN" \/ ~ Exists(g)
    BY <1>1 DEF OpenChat, CloseChat, DealInv, Exists
  <2>2. \A g \in Fixers : Agreed(g)' => Agreed(g)
    BY <2>1 DEF DealInv, Agreed
  <2> QED
    BY <2>1, <2>2 DEF DealInv, AttemptFollowsJob, OneOpenAgreement
<1>2. ASSUME NEW row \in Row, row.status # "AGREED", Write(f, row)
      PROVE  DealInv' /\ UNCHANGED <<job, payment>>
  <2>1. /\ UNCHANGED <<conversation, job, payment>> /\ Exists(f)
        /\ negotiation'[f] = row /\ negotiation' \in [Fixers -> Row]
        /\ \A g \in Fixers \ {f} : negotiation'[g] = negotiation[g]
    BY <1>2 DEF Write, DealInv
  <2>2. \A g \in Fixers : Agreed(g)' => Agreed(g)
    BY <1>2, <2>1 DEF Agreed
  <2>3. \A g \in Fixers : negotiation'[g].status \in {"LOCKED", "AGREED"} => Exists(g)'
    BY <2>1 DEF DealInv, Exists
  <2> QED
    BY <2>1, <2>2, <2>3 DEF DealInv, AttemptFollowsJob, OneOpenAgreement
<1>3. /\ Unlocked \in Row /\ Unlocked.status # "AGREED" /\ Rejected \in Row /\ Rejected.status # "AGREED"
      /\ \A p \in Prices, role \in Roles : LockedAt(p, role) \in Row /\ LockedAt(p, role).status # "AGREED"
  BY DEF Unlocked, Rejected, LockedAt, Row
<1> QED
  BY <1>1, <1>2, <1>3 DEF RejectPrice

LEMMA AgreementDeals ==
  ASSUME DealInv, NEW f \in Fixers, NEW p \in Prices,
         NEW others \in SUBSET {g \in Fixers \ {f} : Exists(g)},
         Agree(f, p, others) \/ Activate(f, p, others)
  PROVE  DealInv' /\ (payment.status # "SUCCESS" /\ (Live => payment'.terms = payment.terms))
<1>1. /\ conversation' \in [Fixers -> {"NONE", "OPEN", "CLOSED"}]
      /\ \A g \in Fixers : /\ Exists(g) => Exists(g)'
                           /\ conversation'[g] = "OPEN" => conversation[g] = "OPEN" /\ g \notin others
  BY DEF Agree, Activate, Shut, DealInv, Exists
<1>2. job' \in [status : {"OPEN", "IN_PROGRESS"}, terms : Terms]
  BY DEF Agree, Activate, DealInv, Terms
<1>3. CASE Agree(f, p, others)
  <2>1. /\ negotiation' \in [Fixers -> Row] /\ negotiation[f].status = "LOCKED"
        /\ \A g \in Fixers \ {f} : negotiation'[g] = negotiation[g]
    BY <1>3 DEF Agree, DealInv, Row
  <2>2. negotiation[f].price \in Prices \cup {None}
    BY DEF DealInv, Row
  <2>3. /\ payment' \in [status : {"NONE", "PENDING", "SUCCESS", "EXPIRED"}, terms : Terms,
                          overdue : BOOLEAN]
        /\ payment'.terms.fixer = f /\ job'.terms.fixer = f /\ job'.status = "OPEN"
    BY <1>3, <2>2 DEF Agree, Terms, DealInv
  <2>4. \A g \in Fixers \ {f} : ~ Agreed(g)'
    BY <1>1, <1>3, <2>1 DEF Agree, Agreed
  <2>5. \A g \in Fixers : negotiation'[g].status \in {"LOCKED", "AGREED"} => Exists(g)'
    BY <1>1, <2>1 DEF DealInv
  <2>6. AttemptFollowsJob' /\ OneOpenAgreement'
    BY <2>3, <2>4 DEF AttemptFollowsJob, OneOpenAgreement
  <2> QED
    BY <1>1, <1>2, <1>3, <2>1, <2>3, <2>5, <2>6 DEF Agree, Live, DealInv
<1>4. CASE Activate(f, p, others)
  <2>1. /\ payment' \in [status : {"NONE", "PENDING", "SUCCESS", "EXPIRED"}, terms : Terms,
                          overdue : BOOLEAN]
        /\ payment'.status = "SUCCESS" /\ payment'.terms = payment.terms /\ payment.status = "PENDING"
        /\ UNCHANGED negotiation
    BY <1>4 DEF Activate, DealInv
  <2>2. \A g \in Fixers : Agreed(g)' => Agreed(g)
    BY <1>1, <2>1 DEF Agreed
  <2>3. \A g \in Fixers : negotiation'[g].status \in {"LOCKED", "AGREED"} => Exists(g)'
    BY <1>1, <2>1 DEF DealInv
  <2> QED
    BY <1>1, <1>2, <2>1, <2>2, <2>3 DEF DealInv, AttemptFollowsJob, OneOpenAgreement
<1> QED
  BY <1>3, <1>4

LEMMA AttemptDeals ==
  ASSUME DealInv, RunOut \/ Lapse \/ Release
  PROVE  DealInv' /\ payment.status # "SUCCESS" /\ payment'.terms = payment.terms
<1>1. /\ payment' \in [status : {"NONE", "PENDING", "SUCCESS", "EXPIRED"}, terms : Terms,
                        overdue : BOOLEAN]
      /\ payment.status = "PENDING" /\ payment'.terms = payment.terms /\ UNCHANGED negotiation
  BY DEF RunOut, Lapse, Release, Lapsed, DealInv
<1>2. /\ job' \in [status : {"OPEN", "IN_PROGRESS"}, terms : Terms]
      /\ AttemptFollowsJob'
  BY DEF RunOut, Lapse, Release, Lapsed, DealInv, AttemptFollowsJob, Terms, NoTerms
<1>3. /\ conversation' \in [Fixers -> {"NONE", "OPEN", "CLOSED"}]
      /\ \A g \in Fixers : /\ Exists(g) => Exists(g)'
                           /\ conversation'[g] = "OPEN" => conversation[g] = "OPEN"
  BY DEF RunOut, Lapse, Release, DealInv, Exists
<1>4. \A g \in Fixers : Agreed(g)' => Agreed(g)
  BY <1>1, <1>3 DEF Agreed
<1>5. \A g \in Fixers : negotiation'[g].status \in {"LOCKED", "AGREED"} => Exists(g)'
  BY <1>1, <1>3 DEF DealInv
<1> QED
  BY <1>1, <1>2, <1>3, <1>4, <1>5 DEF DealInv, OneOpenAgreement

\* Indivisible operations keep the attempt with the fixer the job is held for and one agreement
\* open, and none replaces an attempt that is paid or can still be: what Negotiation has to be
\* shown is that its calls amount to them.
THEOREM DealsKeepOrder == DealSpec => [](AttemptFollowsJob /\ OneOpenAgreement) /\ AttemptStays
<1> DEFINE Stays == /\ payment.status = "SUCCESS" => UNCHANGED payment
                    /\ Live => payment'.terms = payment.terms
<1>1. DealInit => DealInv
  BY DEF DealInit, DealInv, Unlocked, Row, Terms, NoTerms, AttemptFollowsJob, OneOpenAgreement, Agreed
<1>2. DealInv /\ [DealNext]_rows => DealInv' /\ [Stays]_rows
  <2> SUFFICES ASSUME DealInv, [DealNext]_rows PROVE DealInv' /\ Stays
    OBVIOUS
  <2>1. ASSUME NEW f \in Fixers,
               \/ OpenChat(f) \/ CloseChat(f)
               \/ Write(f, Unlocked) \/ RejectPrice(f)
               \/ \E p \in Prices, role \in Roles : Write(f, LockedAt(p, role))
        PROVE  DealInv' /\ Stays
    BY <2>1, ChatDeals
  <2>2. ASSUME NEW f \in Fixers, NEW p \in Prices,
               NEW others \in SUBSET {g \in Fixers \ {f} : Exists(g)},
               Agree(f, p, others) \/ Activate(f, p, others)
        PROVE  DealInv' /\ Stays
    BY <2>2, AgreementDeals
  <2>3. CASE RunOut \/ Lapse \/ Release
    BY <2>3, AttemptDeals
  <2>4. CASE UNCHANGED rows
    BY <2>4 DEF rows, DealInv, Exists, Agreed, AttemptFollowsJob, OneOpenAgreement
  <2> HIDE DEF Stays
  <2> QED
    BY <2>1, <2>2, <2>3, <2>4 DEF DealNext
<1>3. DealInv => AttemptFollowsJob /\ OneOpenAgreement
  BY DEF DealInv
<1> QED
  BY <1>1, <1>2, <1>3, PTL DEF DealSpec, AttemptStays

-----------------------------------------------------------------------------
(* Deadlocks. *)

\* Who waits and is waited for is past its first row and before its last.
LEMMA InBetween ==
  ASSUME NEW c \in Calls, DoneOK(call[c]), Needed(c) # {}, Locked(c) # {}
  PROVE  /\ call[c].kind \in {"accepting", "paying", "activate", "release"}
         /\ call[c].done >= 1
         /\ call[c].kind = "accepting" => call[c].done \in 1..2
         /\ \A g : <<"negotiation", g>> \notin Needed(c)
<1>1. call[c].done # 0
  <2> SUFFICES ASSUME call[c].done = 0 PROVE FALSE
    OBVIOUS
  <2>1. 1..call[c].done = {}
    OBVIOUS
  <2> QED
    BY <2>1 DEF Locked
<1>2. call[c].kind \in {"rejecting", "expire", "accepting", "activate", "paying", "release"}
  BY <1>1 DEF DoneOK
<1>3. Unfinished(c) /\ Needed(c) = RowsOf(NextTable(c), call[c].fixer)
  BY <1>2, NeededRow
<1>4. CASE call[c].kind \in {"rejecting", "expire"}
  <2>1. Len(Tables(call[c].kind)) = 1
    BY <1>4, TablesAre
  <2> QED
    BY <1>1, <1>3, <1>4, <2>1 DEF DoneOK, Unfinished
<1>5. CASE call[c].kind = "accepting"
  <2>1. Tables(call[c].kind) = <<"negotiation", "job", "conversation">>
    BY <1>5, TablesAre
  <2>2. call[c].done \in 1..2
    <3>1. Len(Tables(call[c].kind)) = 3
      BY <2>1
    <3>2. call[c].done < 3
      BY <1>3, <3>1, Zenon DEF Unfinished
    <3>3. call[c].done \in 0..3
      BY <1>5 DEF DoneOK
    <3> QED
      BY <1>1, <3>2, <3>3
  <2>3. NextTable(c) # "negotiation"
    BY <2>1, <2>2 DEF NextTable
  <2> QED
    BY <1>3, <1>5, <2>2, <2>3, RowsOfTable
<1>6. CASE call[c].kind = "paying"
  <2>1. Tables(call[c].kind) = <<"negotiation", "job", "conversation", "payment">>
    BY <1>6, TablesAre
  <2>2. call[c].done = 3
    BY <1>3, <1>6, UnfinishedRows
  <2>3. NextTable(c) # "negotiation"
    BY <2>1, <2>2 DEF NextTable
  <2> QED
    BY <1>3, <1>6, <2>2, <2>3, RowsOfTable
<1>7. CASE call[c].kind = "activate"
  <2>1. Tables(call[c].kind) = <<"payment", "job", "conversation">>
    BY <1>7, TablesAre
  <2>2. call[c].done \in 1..2
    <3>1. Len(Tables(call[c].kind)) = 3
      BY <2>1
    <3>2. call[c].done < 3
      BY <1>3, <3>1, Zenon DEF Unfinished
    <3>3. call[c].done \in 0..3
      BY <1>7 DEF DoneOK
    <3> QED
      BY <1>1, <3>2, <3>3
  <2>3. NextTable(c) # "negotiation"
    BY <2>1, <2>2 DEF NextTable
  <2> QED
    BY <1>3, <1>7, <2>2, <2>3, RowsOfTable
<1>8. CASE call[c].kind = "release"
  <2>1. Tables(call[c].kind) = <<"payment", "job", "ownConversation">>
    BY <1>8, TablesAre
  <2>2. call[c].done \in 1..2
    BY <1>3, <1>8, UnfinishedRows
  <2>3. NextTable(c) # "negotiation"
    BY <2>1, <2>2 DEF NextTable
  <2> QED
    BY <1>3, <1>8, <2>2, <2>3, RowsOfTable
<1> QED
  BY <1>2, <1>4, <1>5, <1>6, <1>7, <1>8

\* Agreements queue for the job, which they write first: a cycle has both an agreement that has come
\* to the payment and the end of a payment attempt.
THEOREM DeadlockVictims == Spec => []OnlyPaymentDeadlocks
<1>1. IInv => OnlyPaymentDeadlocks
  <2> SUFFICES ASSUME IInv, NEW c \in Calls, Deadlocked(c)
               PROVE  call[c].kind \in {"paying", "activate", "release"}
    BY DEF OnlyPaymentDeadlocks
  <2>1. PICK S \in SUBSET Calls :
          c \in S /\ \A d \in S : /\ WaitsFor(d) \cap S # {}
                                  /\ \E e \in S : d \in WaitsFor(e)
    BY DEF Deadlocked
  <2>2. ASSUME NEW d \in S PROVE Needed(d) # {} /\ Locked(d) # {}
    BY <2>1 DEF WaitsFor, Holders
  <2>3. ASSUME NEW d \in S
        PROVE  /\ call[d].kind \in {"accepting", "paying", "activate", "release"}
               /\ call[d].kind = "accepting" => call[d].done \in 1..2
               /\ \A g : <<"negotiation", g>> \notin Needed(d)
    BY <2>2, InBetween, CallType
  <2>4. CASE call[c].kind = "accepting" /\ call[c].done = 1
    <3>1. Locked(c) \subseteq {<<"negotiation", call[c].fixer>>}
      <4> SUFFICES ASSUME NEW row \in Locked(c) PROVE row = <<"negotiation", call[c].fixer>>
        OBVIOUS
      <4>1. PICK i \in 1..1 : row \in RowsOf(Tables(call[c].kind)[i], call[c].fixer)
        BY <2>4, InLocked
      <4>2. Tables(call[c].kind)[i] = "negotiation"
        BY <2>4, <4>1, TablesAre
      <4>3. RowsOf("negotiation", call[c].fixer) = {<<"negotiation", call[c].fixer>>}
        BY Zenon DEF RowsOf
      <4> QED
        BY <4>1, <4>2, <4>3
    <3>2. PICK e \in S : c \in WaitsFor(e)
      BY <2>1
    <3>3. Locked(c) \cap Needed(e) # {}
      BY <3>2 DEF WaitsFor, Holders
    <3> QED
      BY <2>3, <3>1, <3>2, <3>3
  <2>5. CASE call[c].kind = "accepting" /\ call[c].done = 2
    <3>1. Needed(c) = {<<"conversation", g>> : g \in Fixers \ {call[c].fixer}}
      <4>1. Tables(call[c].kind) = <<"negotiation", "job", "conversation">>
        BY <2>5, TablesAre
      <4>2. Unfinished(c) /\ NextTable(c) = "conversation"
        BY <2>5, <4>1 DEF Unfinished, NextTable
      <4>3. RowsOf("conversation", call[c].fixer) = {<<"conversation", g>> : g \in Fixers \ {call[c].fixer}}
        BY Zenon DEF RowsOf
      <4> QED
        BY <2>5, <4>2, <4>3, NeededRow
    <3>2. PICK d \in Calls \ {c} : Locked(d) \cap Needed(c) # {}
      BY <2>1 DEF WaitsFor, Holders
    <3>3. PICK g : <<"conversation", g>> \in Locked(d)
      BY <3>1, <3>2
    <3>4. HasJob(call[d])
      BY <3>3, LockedRows, CallType
    <3>5. HasJob(call[c])
      BY <2>5 DEF HasJob
    <3> QED
      BY <3>4, <3>5 DEF IInv, Apart
  <2> QED
    BY <2>1, <2>3, <2>4, <2>5
<1> QED
  BY <1>1, Invariance, PTL
-----------------------------------------------------------------------------
(* Lock waits come to an end. *)

\* Unless an agreement and the end of a payment attempt wait for each other, which the
\* database notices, some call in progress waits for nobody: never is everyone
\* waiting for everyone.
SomebodyGoes ==
  \/ \A c \in Calls : call[c].kind = "idle"
  \/ \E c \in Calls : call[c].kind # "idle" /\ WaitsFor(c) = {}
  \/ \E c, d \in Calls : /\ Deadlocked(c) /\ call[c].kind = "paying"
                         /\ Deadlocked(d) /\ call[d].kind \in {"activate", "release"}

\* A call that is waited for has written a row.
LEMMA Waited ==
  ASSUME IInv, NEW c \in Calls, NEW d \in WaitsFor(c)
  PROVE  /\ d \in Calls \ {c} /\ Locked(d) \cap Needed(c) # {}
         /\ call[d].done >= 1 /\ call[d].kind # "idle"
<1>1. d \in Calls \ {c} /\ Locked(d) \cap Needed(c) # {}
  BY DEF WaitsFor, Holders
<1>2. PICK i \in 1..call[d].done : TRUE
  BY <1>1 DEF Locked
<1>3. call[d].done \in 0..4 /\ DoneOK(call[d])
  BY <1>1, CallType
<1>4. call[d].done >= 1
  BY <1>2, <1>3
<1> QED
  BY <1>1, <1>3, <1>4 DEF DoneOK

\* An agreement at the payment waits for that row and, once it has it, for none.
LEMMA PayingNeeds ==
  ASSUME IInv, NEW c \in Calls, call[c].kind = "paying"
  PROVE  /\ Needed(c) \subseteq {<<"payment", None>>}
         /\ HasPayment(call[c]) => Needed(c) = {}
<1>1. call[c].done \in 3..4
  BY CallType DEF DoneOK
<1>2. Tables(call[c].kind) = <<"negotiation", "job", "conversation", "payment">>
  BY TablesAre
<1>3. Needed(c) = IF Unfinished(c) THEN RowsOf(NextTable(c), call[c].fixer) ELSE {}
  BY NeededRow
<1>4. Unfinished(c) <=> call[c].done = 3
  <2>1. Len(<<"negotiation", "job", "conversation", "payment">>) = 4
    OBVIOUS
  <2>2. Unfinished(c) <=> call[c].done < 4
    BY <1>2, <2>1, Zenon DEF Unfinished
  <2> QED
    BY <1>1, <2>2
<1>5. CASE call[c].done = 3
  <2>1. NextTable(c) = "payment"
    BY <1>2, <1>5 DEF NextTable
  <2>2. RowsOf("payment", call[c].fixer) = {<<"payment", None>>}
    BY Zenon DEF RowsOf
  <2>3. ~ HasPayment(call[c])
    BY <1>5 DEF HasPayment
  <2> QED
    BY <1>3, <1>4, <1>5, <2>1, <2>2, <2>3
<1>6. CASE call[c].done = 4
  BY <1>3, <1>4, <1>6
<1> QED
  BY <1>1, <1>5, <1>6

\* Whatever calls overlap, one of them can go on: waiting calls that wait for each other
\* include an agreement at the payment and an activation or a release at the job.
THEOREM NobodyHangs == Spec => []SomebodyGoes
<1>1. ASSUME IInv, OnlyPaymentDeadlocks PROVE SomebodyGoes
  <2> DEFINE S == {c \in Calls : call[c].kind # "idle"}
             W == [c \in Calls |-> WaitsFor(c)]
  <2> SUFFICES ASSUME S # {}, \A c \in S : WaitsFor(c) # {}
               PROVE  \E c, d \in Calls : /\ Deadlocked(c) /\ call[c].kind = "paying"
                                          /\ Deadlocked(d) /\ call[d].kind \in {"activate", "release"}
    BY DEF SomebodyGoes
  <2>1. ASSUME NEW c \in S, NEW d \in WaitsFor(c) PROVE d \in S
    BY <1>1, Waited
  <2>2. \A c \in S : W[c] \cap S # {}
    BY <2>1
  <2>3. IsFiniteSet(S)
    BY CallsAssumption, FS_Subset
  <2> HIDE DEF W
  <2>4. PICK T \in SUBSET S :
          T # {} /\ \A d \in T : W[d] \cap T # {} /\ \E e \in T : d \in W[e]
    BY <2>2, <2>3, WaitCycle
  <2> USE DEF W
  <2>5. \A c \in T : c \in Calls /\ WaitsFor(c) \cap T # {} /\ \E e \in T : c \in WaitsFor(e)
    BY <2>4
  <2>6. \A c \in T : Deadlocked(c)
    BY <2>5 DEF Deadlocked
  <2>7. \A c \in T : call[c].kind \in {"paying", "activate", "release"} /\ call[c].done >= 1
    BY <1>1, <2>5, <2>6, Waited DEF OnlyPaymentDeadlocks
  <2>8. PICK c \in T, d \in T : d \in WaitsFor(c)
    BY <2>4, <2>5
  <2>9. PICK e \in T : e \in WaitsFor(d)
    BY <2>5
  <2>10. CASE \A t \in T : call[t].kind = "paying"
    <3>1. <<"payment", None>> \in Locked(d)
      <4>1. Locked(d) \cap Needed(c) # {}
        BY <1>1, <2>5, <2>8, Waited
      <4>2. Needed(c) \subseteq {<<"payment", None>>}
        BY <1>1, <2>5, <2>10, PayingNeeds
      <4> QED
        BY <4>1, <4>2
    <3>2. Needed(d) = {}
      BY <1>1, <2>5, <2>10, <3>1, LockedRows, PayingNeeds, CallType
    <3> QED
      BY <1>1, <2>5, <2>9, <3>2, Waited
  <2>11. CASE \A t \in T : call[t].kind # "paying"
    <3>1. HasPayment(call[d]) /\ HasPayment(call[e])
      BY <2>7, <2>11 DEF HasPayment
    <3>2. e # d
      BY <1>1, <2>5, <2>9, Waited
    <3> QED
      BY <1>1, <2>5, <3>1, <3>2 DEF IInv, Apart
  <2> QED
    BY <2>5, <2>6, <2>7, <2>10, <2>11
<1> QED
  BY <1>1, Invariance, DeadlockVictims, PTL
=============================================================================
