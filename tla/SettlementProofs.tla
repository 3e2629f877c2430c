-------------------------- MODULE SettlementProofs --------------------------
(***************************************************************************)
(* Proofs about module Settlement, for any number of jobs, fixers, calls   *)
(* and platform wallets and all prices: the safety invariants, that the    *)
(* books of the fixers and of the platform implement module Ledger, and    *)
(* which calls lock waits can stop.  Then about module Payouts: it implements    *)
(* Settlement and EarningsBook, and no money gets lost between them.       *)
(***************************************************************************)
EXTENDS Payouts, FiniteSums

\* A settlement that has inserted its payout and holds the unique key.
Settling(c) == call[c].kind = "settle" /\ call[c].done > 0

\* A transaction has written some of its rows; one past the platform wallet has chosen it.
ProgressOK ==
  \A c \in Calls :
    /\ call[c].done <= Len(Tables(call[c].kind))
    /\ call[c].kind = "settle" /\ call[c].done >= 3 => call[c].platform # None

\* All the money of a job is booked or none of it.
BookedTogether ==
  \A j \in Jobs :
    \/ payout[j] = None /\ earning[j] = None /\ commission[j] = None
    \/ payout[j] = PayoutOf(j) /\ earning[j] = PayoutOf(j) /\ commission[j] = CommissionOf(j)

\* A job that is completed, or is about to be completed once more, was paid out.
PaidOut ==
  /\ \A j \in Jobs : job[j].status = "COMPLETED" => payout[j] # None /\ j \in reviewed
  /\ \A c \in Calls : call[c].kind = "finish" => payout[call[c].job] # None

\* A settlement that holds the key of a job is the first and the only one.
SettlesAlone ==
  \A c \in Calls : Settling(c) =>
    /\ payout[call[c].job] = None
    /\ \A d \in Calls \ {c} : Settling(d) => call[d].job # call[c].job

IInv ==
  /\ TypeOK
  /\ ProgressOK
  /\ BookedTogether
  /\ PaidOut
  /\ SettlesAlone
  /\ StatusFollowsDispute
  /\ RequestedIsPending

-----------------------------------------------------------------------------
LEMMA TablesOf ==
  ASSUME NEW kind
  PROVE  /\ Len(Tables(kind)) \in 0..4
         /\ kind = "settle" => /\ Len(Tables(kind)) = 4
                               /\ Tables(kind)[1] = "payout"
                               /\ Tables(kind)[2] = "wallet"
                               /\ Tables(kind)[3] = "platform"
                               /\ Tables(kind)[4] = "job"
         /\ kind # "settle" => \A i \in 1..Len(Tables(kind)) : Tables(kind)[i] # "platform"
         /\ kind \in {"idle", "approve", "lookup"} => Len(Tables(kind)) = 0
<1>1. CASE kind \in {"request", "reject"}
  <2>1. Tables(kind) = <<"completion", "job">>
    BY <1>1, Zenon DEF Tables
  <2> QED
    BY <1>1, <2>1
<1>2. CASE kind = "open"
  <2>1. Tables(kind) = <<"dispute", "job">>
    BY <1>2, Zenon DEF Tables
  <2> QED
    BY <1>2, <2>1
<1>3. CASE kind = "resolve"
  <2>1. Tables(kind) = <<"dispute", "job", "completion">>
    BY <1>3, Zenon DEF Tables
  <2> QED
    BY <1>3, <2>1
<1>4. CASE kind = "settle"
  <2>1. Tables(kind) = <<"payout", "wallet", "platform", "job">>
    BY <1>4, Zenon DEF Tables
  <2> QED
    BY <1>4, <2>1
<1>5. CASE kind = "finish"
  <2>1. Tables(kind) = <<"job">>
    BY <1>5, Zenon DEF Tables
  <2> QED
    BY <1>5, <2>1
<1>6. CASE kind \notin {"request", "reject", "open", "resolve", "settle", "finish"}
  <2>1. Tables(kind) = <<>>
    BY <1>6, Zenon DEF Tables
  <2> QED
    BY <1>6, <2>1
<1> QED
  BY <1>1, <1>2, <1>3, <1>4, <1>5, <1>6

LEMMA Tenth ==
  ASSUME NEW p \in Nat
  PROVE  /\ p \div 10 \in Nat
         /\ p - p \div 10 \in Nat
         /\ p # 0 => p - p \div 10 # 0
         /\ (p - p \div 10) + p \div 10 = p
<1>1. p \div 10 \in Int /\ 0 <= p \div 10 /\ p \div 10 <= p /\ (p # 0 => p \div 10 < p)
  OBVIOUS
<1> DEFINE q == p \div 10
<1> HIDE DEF q
<1>2. q \in Int /\ 0 <= q /\ q <= p /\ (p # 0 => q < p)
  BY <1>1 DEF q
<1>3. q \in Nat /\ p - q \in Nat /\ (p # 0 => p - q # 0) /\ (p - q) + q = p
  BY <1>2
<1> QED
  BY <1>3 DEF q

\* The shares of a price are natural numbers that add up to it.
LEMMA Shares ==
  ASSUME NEW j \in Jobs
  PROVE  /\ CommissionOf(j) \in Nat
         /\ PayoutOf(j) \in Nat \ {0}
         /\ CommissionOf(j) # None /\ PayoutOf(j) # None
         /\ PayoutOf(j) + CommissionOf(j) = Price[j]
<1>1. Price[j] \in Nat \ {0}
  BY JobsAssumption
<1> QED
  BY <1>1, Tenth, NoneAssumption DEF CommissionOf, PayoutOf

LEMMA InitInv == Init => IInv
<1> SUFFICES ASSUME Init PROVE IInv
  OBVIOUS
<1>1. TypeOK
  BY DEF Init, TypeOK
<1>2. ProgressOK
  BY TablesOf DEF Init, ProgressOK, NoCall
<1>3. BookedTogether /\ PaidOut /\ SettlesAlone
  BY DEF Init, NoCall, BookedTogether, PaidOut, SettlesAlone, Settling
<1>4. StatusFollowsDispute /\ RequestedIsPending
  BY DEF Init, StatusFollowsDispute, RequestedIsPending
<1> QED
  BY <1>1, <1>2, <1>3, <1>4 DEF IInv

-----------------------------------------------------------------------------
(* Steps that only move a call along. *)

\* A call that ends, or starts, without a commit disturbs nothing.
LEMMA IdleStep ==
  ASSUME IInv, NEW c \in Calls, UNCHANGED <<jobRows, moneyRows>>,
         NEW new \in Call \cup {NoCall}, call' = [call EXCEPT ![c] = new],
         new.done = 0, new.kind = "finish" => payout[new.job] # None
  PROVE  IInv'
<1> USE DEF jobRows, moneyRows
<1>1. TypeOK'
  BY DEF IInv, TypeOK
<1>2. ProgressOK'
  <2> SUFFICES ASSUME NEW d \in Calls
               PROVE  /\ call'[d].done <= Len(Tables(call'[d].kind))
                      /\ call'[d].kind = "settle" /\ call'[d].done >= 3 => call'[d].platform # None
    BY DEF ProgressOK
  <2>1. CASE d = c
    BY <2>1, TablesOf DEF IInv, TypeOK
  <2>2. CASE d # c
    BY <2>2 DEF IInv, TypeOK, ProgressOK
  <2> QED
    BY <2>1, <2>2
<1>3. BookedTogether' /\ StatusFollowsDispute' /\ RequestedIsPending'
  BY DEF IInv, BookedTogether, StatusFollowsDispute, RequestedIsPending, PayoutOf, CommissionOf
<1>4. PaidOut'
  BY DEF IInv, TypeOK, PaidOut
<1>5. SettlesAlone'
  BY DEF IInv, TypeOK, SettlesAlone, Settling
<1> QED
  BY <1>1, <1>2, <1>3, <1>4, <1>5 DEF IInv

LEMMA CallType ==
  ASSUME TypeOK, NEW c \in Calls
  PROVE  /\ call[c] \in Call \cup {NoCall}
         /\ call[c].kind # "idle" => call[c] \in Call
         /\ call[c].done \in 0..4
         /\ call[c].kind \in {"approve", "lookup"} /\ ProgressOK => call[c].done = 0
<1>1. call[c] \in Call \cup {NoCall}
  BY DEF TypeOK
<1>2. call[c].kind # "idle" => call[c] \in Call
  BY <1>1 DEF NoCall
<1>3. call[c].done \in 0..4
  BY <1>1 DEF NoCall, Call
<1>4. call[c].kind \in {"approve", "lookup"} /\ ProgressOK => call[c].done = 0
  BY <1>3, TablesOf DEF ProgressOK
<1> QED
  BY <1>1, <1>2, <1>3, <1>4

LEMMA AbortInv ==
  ASSUME IInv, NEW c \in Calls, Abort(c)
  PROVE  IInv'
<1>1. NoCall.done = 0 /\ NoCall.kind # "finish"
  BY DEF NoCall
<1> QED
  BY <1>1, IdleStep DEF Abort, End

LEMMA StartInv ==
  ASSUME IInv, NEW c \in Calls, NEW kind \in Kinds, NEW j \in Jobs, Start(c, kind, j)
  PROVE  IInv'
<1> DEFINE new == [kind |-> kind, job |-> j, done |-> 0, platform |-> None]
<1>1. new \in Call /\ new.done = 0 /\ new.kind = kind
  BY DEF Call
<1>2. kind # "finish"
  <2>1. MayStart("finish", j) = FALSE
    BY Zenon DEF MayStart
  <2> QED
    BY <2>1 DEF Start
<1>3. call' = [call EXCEPT ![c] = new] /\ UNCHANGED <<jobRows, moneyRows>>
  BY DEF Start
<1> HIDE DEF new
<1> QED
  BY <1>1, <1>2, <1>3, IdleStep

LEMMA ReadJobInv ==
  ASSUME IInv, NEW c \in Calls, ReadJob(c)
  PROVE  IInv'
<1>1. UNCHANGED <<jobRows, moneyRows>> /\ call[c].kind = "approve" /\ TypeOK /\ ProgressOK
  BY DEF ReadJob, IInv
<1>2. CASE job[call[c].job].status = "IN_PROGRESS"
  <2> DEFINE new == [call[c] EXCEPT !.kind = "lookup"]
  <2>1. new \in Call /\ new.done = 0 /\ new.kind = "lookup"
    BY <1>1, CallType DEF Call, Kinds
  <2>2. call' = [call EXCEPT ![c] = new]
    BY <1>2 DEF ReadJob
  <2> HIDE DEF new
  <2> QED
    BY <1>1, <2>1, <2>2, IdleStep
<1>3. CASE job[call[c].job].status # "IN_PROGRESS"
  <2>1. Abort(c)
    BY <1>1, <1>3 DEF ReadJob, Abort
  <2> QED
    BY <2>1, AbortInv
<1> QED
  BY <1>2, <1>3

LEMMA ReadPayoutInv ==
  ASSUME IInv, NEW c \in Calls, ReadPayout(c)
  PROVE  IInv'
<1> DEFINE next == IF payout[call[c].job] = None THEN "settle" ELSE "finish"
           new == [call[c] EXCEPT !.kind = next]
<1>1. UNCHANGED <<jobRows, moneyRows>> /\ call[c].kind = "lookup" /\ TypeOK /\ ProgressOK
  BY DEF ReadPayout, IInv
<1>2. call[c] \in Call /\ call[c].done = 0
  BY <1>1, CallType
<1>3. /\ new \in Call /\ new.done = 0
      /\ new.kind = "finish" => payout[new.job] # None
  BY <1>2 DEF Call, Kinds
<1>4. call' = [call EXCEPT ![c] = new]
  BY DEF ReadPayout
<1> HIDE DEF new
<1> QED
  BY <1>1, <1>3, <1>4, IdleStep

LEMMA FailInsertInv ==
  ASSUME IInv, NEW c \in Calls, FailInsert(c)
  PROVE  IInv'
BY AbortInv DEF FailInsert

\* One more statement of a transaction; the first one of a settlement takes the key.
LEMMA AdvanceInv ==
  ASSUME IInv, NEW c \in Calls, UNCHANGED <<jobRows, moneyRows>>,
         NEW new \in Call, call' = [call EXCEPT ![c] = new],
         new.kind = call[c].kind, new.job = call[c].job, Unfinished(c),
         new.done = call[c].done + 1,
         new.kind = "settle" /\ new.done >= 3 => new.platform # None,
         new.kind = "settle" /\ call[c].done = 0 =>
           /\ payout[new.job] = None
           /\ \A d \in Calls \ {c} : Settling(d) => call[d].job # new.job
  PROVE  IInv'
<1> USE DEF jobRows, moneyRows
<1>0. call[c].done \in 0..4 /\ TypeOK
  BY CallType DEF IInv
<1>1. TypeOK'
  BY <1>0 DEF TypeOK
<1>2. ProgressOK'
  <2> SUFFICES ASSUME NEW d \in Calls
               PROVE  /\ call'[d].done <= Len(Tables(call'[d].kind))
                      /\ call'[d].kind = "settle" /\ call'[d].done >= 3 => call'[d].platform # None
    BY DEF ProgressOK
  <2>1. CASE d = c
    <3>1. Len(Tables(call[c].kind)) \in 0..4
      BY TablesOf
    <3> QED
      BY <2>1, <1>0, <3>1 DEF Unfinished, TypeOK
  <2>2. CASE d # c
    BY <2>2, <1>0 DEF IInv, TypeOK, ProgressOK
  <2> QED
    BY <2>1, <2>2
<1>3. BookedTogether' /\ StatusFollowsDispute' /\ RequestedIsPending'
  BY DEF IInv, BookedTogether, StatusFollowsDispute, RequestedIsPending, PayoutOf, CommissionOf
<1>4. PaidOut'
  BY <1>0 DEF IInv, TypeOK, PaidOut
<1>5. SettlesAlone'
  <2>1. call'[c] = new /\ \A d \in Calls \ {c} : call'[d] = call[d]
    BY <1>0 DEF TypeOK
  <2>2. Settling(c)' => /\ payout[new.job] = None
                        /\ \A d \in Calls \ {c} : Settling(d) => call[d].job # new.job
    <3>1. CASE call[c].done = 0
      BY <2>1, <3>1 DEF Settling
    <3>2. CASE call[c].done # 0
      <4>1. Settling(c)' => Settling(c)
        BY <1>0, <2>1, <3>2 DEF Settling
      <4> QED
        BY <4>1 DEF IInv, SettlesAlone
    <3> QED
      BY <3>1, <3>2
  <2>3. \A d \in Calls \ {c} : Settling(d)' <=> Settling(d)
    BY <2>1 DEF Settling
  <2>4. \A d \in Calls : Settling(d)' => payout[call'[d].job] = None
    BY <2>1, <2>2, <2>3 DEF IInv, SettlesAlone
  <2>5. \A d \in Calls : \A e \in Calls \ {d} :
          Settling(d)' /\ Settling(e)' => call'[e].job # call'[d].job
    BY <2>1, <2>2, <2>3 DEF IInv, SettlesAlone
  <2> QED
    BY <2>4, <2>5 DEF SettlesAlone
<1> QED
  BY <1>1, <1>2, <1>3, <1>4, <1>5 DEF IInv

LEMMA WriteRowInv ==
  ASSUME IInv, NEW c \in Calls, WriteRow(c)
  PROVE  IInv'
<1> DEFINE new == [call[c] EXCEPT !.done = @ + 1]
           j == call[c].job
<1>1. /\ Unfinished(c) /\ NextTable(c) # "platform" /\ WaitsFor(c) = {} /\ ~ KeyTaken(c)
      /\ call' = [call EXCEPT ![c].done = @ + 1]
      /\ UNCHANGED <<jobRows, moneyRows>>
  BY DEF WriteRow
<1>2. call[c].done \in 0..4 /\ Len(Tables(call[c].kind)) \in 0..4 /\ call[c] \in Call
  <2>1. call[c].done \in 0..4 /\ (call[c].kind # "idle" => call[c] \in Call)
    BY CallType DEF IInv
  <2>2. call[c].kind # "idle"
    BY <1>1, <2>1, TablesOf DEF Unfinished
  <2> QED
    BY <2>1, <2>2, TablesOf
<1>3. /\ new \in Call /\ new.kind = call[c].kind /\ new.job = j
      /\ new.done = call[c].done + 1 /\ new.platform = call[c].platform
      /\ call' = [call EXCEPT ![c] = new]
  <2>1. call[c].done + 1 \in 0..4
    <3> DEFINE n == call[c].done
               l == Len(Tables(call[c].kind))
    <3>1. n \in 0..4 /\ l \in 0..4 /\ n < l
      BY <1>1, <1>2 DEF Unfinished
    <3> HIDE DEF n, l
    <3>2. n + 1 \in 0..4
      BY <3>1
    <3> QED
      BY <3>2 DEF n
  <2>2. new \in Call
    BY <1>2, <2>1 DEF Call
  <2>3. /\ new.kind = call[c].kind /\ new.job = j
        /\ new.done = call[c].done + 1 /\ new.platform = call[c].platform
    BY <1>2 DEF Call
  <2> QED
    BY <1>1, <2>2, <2>3
<1>4. ASSUME call[c].kind = "settle" PROVE call[c].done # 2
  BY <1>1, <1>4, TablesOf DEF NextTable
<1>5. new.kind = "settle" /\ new.done >= 3 => new.platform # None
  BY <1>2, <1>3, <1>4 DEF IInv, ProgressOK
<1>6. ASSUME new.kind = "settle", call[c].done = 0
      PROVE  /\ payout[new.job] = None
             /\ \A d \in Calls \ {c} : Settling(d) => call[d].job # new.job
  <2>1. NextTable(c) = "payout" /\ call[c].kind = "settle"
    BY <1>3, <1>6, TablesOf DEF NextTable
  <2>2. payout[j] = None
    BY <1>1, <2>1 DEF KeyTaken
  <2>3. RowId(c, "payout") = j
    BY Zenon DEF RowId
  <2>4. ~ NoRowToLock(c)
    BY <2>1 DEF NoRowToLock
  <2>5. Holders(c, <<"payout", j>>) = {}
    BY <1>1, <2>1, <2>3, <2>4 DEF WaitsFor
  <2>6. ASSUME NEW d \in Calls \ {c}, Settling(d) PROVE <<"payout", call[d].job>> \in Locked(d)
    <3>1. RowId(d, "payout") = call[d].job
      BY Zenon DEF RowId
    <3>2. Tables(call[d].kind)[1] = "payout" /\ call[d].done \in 0..4
      BY <2>6, TablesOf, CallType DEF IInv, Settling
    <3>3. 1 \in 1..call[d].done
      BY <2>6, <3>2 DEF Settling
    <3> QED
      BY <3>1, <3>2, <3>3, Zenon DEF Locked
  <2>7. \A d \in Calls \ {c} : Settling(d) => call[d].job # j
    BY <2>5, <2>6 DEF Holders
  <2> QED
    BY <1>3, <2>2, <2>7
<1> HIDE DEF new
<1> QED
  BY <1>1, <1>3, <1>5, <1>6, AdvanceInv

LEMMA CreditPlatformInv ==
  ASSUME IInv, NEW c \in Calls, CreditPlatform(c)
  PROVE  IInv'
<1>1. Unfinished(c) /\ NextTable(c) = "platform" /\ UNCHANGED <<jobRows, moneyRows>>
  BY DEF CreditPlatform
<1>2. call[c].done \in 0..4 /\ Len(Tables(call[c].kind)) \in 0..4
  BY CallType, TablesOf DEF IInv
<1>3. call[c].kind = "settle"
  <2>1. call[c].done + 1 \in 1..Len(Tables(call[c].kind))
    BY <1>1, <1>2 DEF Unfinished
  <2> QED
    BY <1>1, <2>1, TablesOf DEF NextTable
<1>4. call[c] \in Call /\ call[c].done = 2
  <2>1. call[c].done < 4
    BY <1>1, <1>2, <1>3, TablesOf DEF Unfinished
  <2>2. call[c].done = 0 => NextTable(c) = "payout"
    BY <1>3, TablesOf DEF NextTable
  <2>3. call[c].done = 1 => NextTable(c) = "wallet"
    BY <1>3, TablesOf DEF NextTable
  <2>4. call[c].done = 3 => NextTable(c) = "job"
    BY <1>3, TablesOf DEF NextTable
  <2> QED
    BY <1>1, <1>2, <1>3, <2>1, <2>2, <2>3, <2>4, CallType DEF IInv
<1>5. PICK w \in PlatformChoice :
        call' = [call EXCEPT ![c].done = @ + 1, ![c].platform = w]
  BY DEF CreditPlatform
<1>6. w \in PlatformWallets /\ w # None
  BY <1>5, NoneAssumption DEF PlatformChoice, IInv, TypeOK
<1> DEFINE new == [call[c] EXCEPT !.done = @ + 1, !.platform = w]
<1>7. /\ new \in Call /\ new.kind = "settle" /\ new.job = call[c].job
      /\ new.done = call[c].done + 1 /\ new.platform # None
  <2>1. call[c].done + 1 = 3 /\ 3 \in 0..4
    BY <1>4
  <2>2. new \in Call
    BY <1>4, <1>6, <2>1 DEF Call
  <2> QED
    BY <1>3, <1>4, <1>6, <2>2 DEF Call
<1>8. call' = [call EXCEPT ![c] = new]
  BY <1>5 DEF IInv, TypeOK
<1> HIDE DEF new
<1>9. ~ (new.kind = "settle" /\ call[c].done = 0) /\ new.kind = call[c].kind
  BY <1>3, <1>4, <1>7
<1> QED
  BY <1>1, <1>7, <1>8, <1>9, AdvanceInv

-----------------------------------------------------------------------------
(* Commits. *)

\* What a commit leaves of the other calls, if it pays out none of their jobs.
LEMMA EndedCall ==
  ASSUME IInv, NEW c \in Calls, End(c),
         \A d \in Calls \ {c} : Settling(d) => payout'[call[d].job] = payout[call[d].job]
  PROVE  /\ call' \in [Calls -> Call \cup {NoCall}]
         /\ ProgressOK'
         /\ SettlesAlone'
<1>1. /\ call' \in [Calls -> Call \cup {NoCall}]
      /\ call'[c] = NoCall
      /\ \A d \in Calls \ {c} : call'[d] = call[d]
  BY DEF IInv, TypeOK, End
<1>2. ProgressOK'
  <2> SUFFICES ASSUME NEW d \in Calls
               PROVE  /\ call'[d].done <= Len(Tables(call'[d].kind))
                      /\ call'[d].kind = "settle" /\ call'[d].done >= 3 => call'[d].platform # None
    BY DEF ProgressOK
  <2>1. CASE d = c
    <3>1. Len(Tables("idle")) = 0
      BY TablesOf
    <3> QED
      BY <1>1, <2>1, <3>1 DEF NoCall
  <2>2. CASE d # c
    BY <1>1, <2>2 DEF IInv, ProgressOK
  <2> QED
    BY <2>1, <2>2
<1>3. SettlesAlone'
  <2>1. ~ Settling(c)' /\ \A d \in Calls \ {c} : Settling(d)' <=> Settling(d)
    BY <1>1 DEF Settling, NoCall
  <2>2. \A d \in Calls : Settling(d)' => payout'[call'[d].job] = None
    BY <1>1, <2>1 DEF IInv, SettlesAlone
  <2>3. \A d \in Calls : \A e \in Calls \ {d} :
          Settling(d)' /\ Settling(e)' => call'[e].job # call'[d].job
    BY <1>1, <2>1 DEF IInv, SettlesAlone
  <2> QED
    BY <2>2, <2>3 DEF SettlesAlone
<1> QED
  BY <1>1, <1>2, <1>3

LEMMA WrittenCall ==
  ASSUME IInv, NEW c \in Calls, NEW kind \in Kinds, Written(c, kind)
  PROVE  /\ call[c] \in Call
         /\ call[c].job \in Jobs
         /\ kind = "settle" => call[c].done = 4 /\ call[c].platform \in PlatformWallets
<1>1. call[c].kind = kind /\ ~ Unfinished(c) /\ kind # "idle"
  BY DEF Written, Kinds
<1>2. call[c] \in Call
  BY <1>1, CallType DEF IInv
<1>3. ASSUME kind = "settle" PROVE call[c].done = 4 /\ call[c].platform \in PlatformWallets
  <2> DEFINE n == call[c].done
             l == Len(Tables(call[c].kind))
  <2>1. l = 4 /\ n \in 0..4 /\ ~ (n < l)
    BY <1>1, <1>3, TablesOf, CallType DEF IInv, Unfinished
  <2> HIDE DEF n, l
  <2>2. n = 4
    BY <2>1
  <2>3. call[c].platform # None
    BY <1>1, <1>3, <2>2 DEF IInv, ProgressOK, n
  <2> QED
    BY <1>2, <2>2, <2>3 DEF Call, n
<1> QED
  BY <1>2, <1>3 DEF Call

\* A commit of job rows alone: what is to show of them.
LEMMA JobCommit ==
  ASSUME IInv, NEW c \in Calls, End(c), UNCHANGED <<reviewed, moneyRows>>,
         job' \in [Jobs -> [status : {"IN_PROGRESS", "DISPUTED", "COMPLETED"}, requested : BOOLEAN]],
         completion' \in [Jobs -> {"NONE", "PENDING", "REJECTED"}],
         dispute' \in [Jobs -> {"NONE", "OPEN", "RESOLVED"}],
         \A j \in Jobs : job'[j].status = "COMPLETED" => job[j].status = "COMPLETED",
         StatusFollowsDispute', RequestedIsPending'
  PROVE  IInv'
<1>1. ProgressOK' /\ SettlesAlone' /\ call' \in [Calls -> Call \cup {NoCall}]
  BY EndedCall DEF moneyRows
<1>2. TypeOK'
  BY <1>1 DEF IInv, TypeOK, moneyRows
<1>3. BookedTogether'
  BY DEF IInv, BookedTogether, moneyRows, PayoutOf, CommissionOf
<1>4. PaidOut'
  BY DEF IInv, TypeOK, PaidOut, moneyRows, End, NoCall
<1> QED
  BY <1>1, <1>2, <1>3, <1>4 DEF IInv

LEMMA CommitRequestInv ==
  ASSUME IInv, NEW c \in Calls, CommitRequest(c)
  PROVE  IInv'
<1>1. call[c].job \in Jobs
  BY WrittenCall DEF CommitRequest, Kinds
<1>2. End(c) /\ UNCHANGED <<reviewed, moneyRows, dispute>>
  BY DEF CommitRequest
<1>3. /\ job' \in [Jobs -> [status : {"IN_PROGRESS", "DISPUTED", "COMPLETED"}, requested : BOOLEAN]]
      /\ completion' \in [Jobs -> {"NONE", "PENDING", "REJECTED"}]
      /\ \A j \in Jobs : job'[j].status = job[j].status
  BY <1>1 DEF CommitRequest, IInv, TypeOK
<1>4. dispute' \in [Jobs -> {"NONE", "OPEN", "RESOLVED"}] /\ StatusFollowsDispute'
  BY <1>2, <1>3 DEF IInv, TypeOK, StatusFollowsDispute
<1>5. RequestedIsPending'
  BY <1>1 DEF CommitRequest, IInv, TypeOK, RequestedIsPending
<1> QED
  BY <1>2, <1>3, <1>4, <1>5, JobCommit

LEMMA CommitRejectInv ==
  ASSUME IInv, NEW c \in Calls, CommitReject(c)
  PROVE  IInv'
<1>1. call[c].job \in Jobs
  BY WrittenCall DEF CommitReject, Kinds
<1>2. End(c) /\ UNCHANGED <<reviewed, moneyRows, dispute>>
  BY DEF CommitReject
<1>3. /\ job' \in [Jobs -> [status : {"IN_PROGRESS", "DISPUTED", "COMPLETED"}, requested : BOOLEAN]]
      /\ completion' \in [Jobs -> {"NONE", "PENDING", "REJECTED"}]
      /\ \A j \in Jobs : job'[j].status = job[j].status
  BY <1>1 DEF CommitReject, IInv, TypeOK
<1>4. dispute' \in [Jobs -> {"NONE", "OPEN", "RESOLVED"}] /\ StatusFollowsDispute'
  BY <1>2, <1>3 DEF IInv, TypeOK, StatusFollowsDispute
<1>5. RequestedIsPending'
  BY <1>1 DEF CommitReject, IInv, TypeOK, RequestedIsPending
<1> QED
  BY <1>2, <1>3, <1>4, <1>5, JobCommit

LEMMA CommitOpenInv ==
  ASSUME IInv, NEW c \in Calls, CommitOpen(c)
  PROVE  IInv'
<1>1. call[c].job \in Jobs
  BY WrittenCall DEF CommitOpen, Kinds
<1> QED
  BY <1>1, JobCommit
  DEF CommitOpen, IInv, TypeOK, StatusFollowsDispute, RequestedIsPending

LEMMA CommitResolveInv ==
  ASSUME IInv, NEW c \in Calls, CommitResolve(c)
  PROVE  IInv'
<1>1. call[c].job \in Jobs
  BY WrittenCall DEF CommitResolve, Kinds
<1> QED
  BY <1>1, JobCommit
  DEF CommitResolve, IInv, TypeOK, StatusFollowsDispute, RequestedIsPending

\* The job becomes COMPLETED, and is paid out then.
LEMMA CompletedInv ==
  ASSUME IInv, NEW j \in Jobs, Completed(j), payout'[j] # None,
         \A i \in Jobs : payout[i] # None => payout'[i] # None,
         NEW c \in Calls, End(c)
  PROVE  /\ job' \in [Jobs -> [status : {"IN_PROGRESS", "DISPUTED", "COMPLETED"}, requested : BOOLEAN]]
         /\ reviewed' \in SUBSET Jobs
         /\ UNCHANGED <<completion, dispute>>
         /\ PaidOut'
         /\ StatusFollowsDispute'
         /\ RequestedIsPending'
<1>1. /\ job' \in [Jobs -> [status : {"IN_PROGRESS", "DISPUTED", "COMPLETED"}, requested : BOOLEAN]]
      /\ reviewed' \in SUBSET Jobs
      /\ job'[j].status = "COMPLETED" /\ j \in reviewed'
      /\ \A i \in Jobs : job'[i].requested = job[i].requested
      /\ \A i \in Jobs \ {j} : job'[i] = job[i] /\ (i \in reviewed' <=> i \in reviewed)
  BY DEF IInv, TypeOK, Completed
<1>2. PaidOut'
  <2>1. \A i \in Jobs : job'[i].status = "COMPLETED" => payout'[i] # None /\ i \in reviewed'
    BY <1>1 DEF IInv, PaidOut
  <2>2. \A d \in Calls : call'[d].kind = "finish" =>
          call[d].kind = "finish" /\ call'[d] = call[d] /\ call[d].job \in Jobs
    BY CallType DEF End, NoCall, IInv, TypeOK, Call
  <2> QED
    BY <2>1, <2>2 DEF IInv, PaidOut
<1>3. StatusFollowsDispute' /\ RequestedIsPending'
  BY <1>1 DEF IInv, StatusFollowsDispute, RequestedIsPending, Completed
<1> QED
  BY <1>1, <1>2, <1>3 DEF Completed

LEMMA CommitFinishInv ==
  ASSUME IInv, NEW c \in Calls, CommitFinish(c)
  PROVE  IInv'
<1>1. call[c].job \in Jobs /\ call[c].kind = "finish"
  BY WrittenCall DEF CommitFinish, Kinds, Written
<1>2. UNCHANGED moneyRows /\ End(c) /\ Completed(call[c].job) /\ payout[call[c].job] # None
  BY <1>1 DEF CommitFinish, IInv, PaidOut
<1>3. ProgressOK' /\ SettlesAlone' /\ call' \in [Calls -> Call \cup {NoCall}]
  BY <1>2, EndedCall DEF moneyRows
<1>4. /\ job' \in [Jobs -> [status : {"IN_PROGRESS", "DISPUTED", "COMPLETED"}, requested : BOOLEAN]]
      /\ reviewed' \in SUBSET Jobs
      /\ UNCHANGED <<completion, dispute>>
      /\ PaidOut' /\ StatusFollowsDispute' /\ RequestedIsPending'
  BY <1>1, <1>2, CompletedInv DEF moneyRows
<1>5. TypeOK'
  BY <1>2, <1>3, <1>4 DEF IInv, TypeOK, moneyRows
<1>6. BookedTogether'
  BY <1>2 DEF IInv, BookedTogether, moneyRows, PayoutOf, CommissionOf
<1> QED
  BY <1>3, <1>4, <1>5, <1>6 DEF IInv

LEMMA CommitSettleInv ==
  ASSUME IInv, NEW c \in Calls, CommitSettle(c)
  PROVE  IInv'
<1> DEFINE j == call[c].job
           w == call[c].platform
<1>1. /\ j \in Jobs /\ w \in PlatformWallets /\ Settling(c)
  BY WrittenCall DEF CommitSettle, Kinds, Written, Settling
<1>2. /\ payout' = [payout EXCEPT ![j] = PayoutOf(j)]
      /\ wallet' = [wallet EXCEPT ![FixerOf[j]] = @ + PayoutOf(j)]
      /\ earning' = [earning EXCEPT ![j] = PayoutOf(j)]
      /\ platforms' = platforms \cup {w}
      /\ commission' = [commission EXCEPT ![j] = CommissionOf(j)]
      /\ platform' = [platform EXCEPT ![w] = @ + CommissionOf(j)]
      /\ Completed(j)
      /\ End(c)
  BY DEF CommitSettle
<1>3. /\ PayoutOf(j) \in Nat /\ CommissionOf(j) \in Nat
      /\ PayoutOf(j) # None /\ CommissionOf(j) # None
  BY <1>1, Shares
<1>4. \A d \in Calls \ {c} : Settling(d) => payout'[call[d].job] = payout[call[d].job]
  BY <1>1, <1>2 DEF IInv, TypeOK, SettlesAlone
<1> HIDE DEF j, w
<1>5. ProgressOK' /\ SettlesAlone' /\ call' \in [Calls -> Call \cup {NoCall}]
  BY <1>2, <1>4, EndedCall
<1>6. /\ payout'[j] = PayoutOf(j) /\ earning'[j] = PayoutOf(j) /\ commission'[j] = CommissionOf(j)
      /\ \A i \in Jobs \ {j} : payout'[i] = payout[i] /\ earning'[i] = earning[i]
                               /\ commission'[i] = commission[i]
  BY <1>1, <1>2 DEF IInv, TypeOK
<1>7. /\ job' \in [Jobs -> [status : {"IN_PROGRESS", "DISPUTED", "COMPLETED"}, requested : BOOLEAN]]
      /\ reviewed' \in SUBSET Jobs
      /\ UNCHANGED <<completion, dispute>>
      /\ PaidOut' /\ StatusFollowsDispute' /\ RequestedIsPending'
  BY <1>1, <1>2, <1>3, <1>6, CompletedInv
<1>8. TypeOK'
  <2>1. /\ payout' \in [Jobs -> Nat \cup {None}]
        /\ earning' \in [Jobs -> Nat \cup {None}]
        /\ commission' \in [Jobs -> Nat \cup {None}]
    BY <1>1, <1>2, <1>3 DEF IInv, TypeOK
  <2>2. wallet' \in [Fixers -> Nat]
    <3>1. FixerOf[j] \in Fixers /\ wallet \in [Fixers -> Nat]
      BY <1>1, FixersAssumption DEF IInv, TypeOK
    <3>2. wallet[FixerOf[j]] + PayoutOf(j) \in Nat
      BY <1>3, <3>1
    <3> QED
      BY <1>2, <3>1, <3>2
  <2>3. platforms' \in SUBSET PlatformWallets
    BY <1>1, <1>2 DEF IInv, TypeOK
  <2>4. platform' \in [PlatformWallets -> Nat]
    BY <1>1, <1>2, <1>3 DEF IInv, TypeOK
  <2> QED
    BY <1>5, <1>7, <2>1, <2>2, <2>3, <2>4 DEF IInv, TypeOK
<1>9. BookedTogether'
  <2>1. \A i \in Jobs : PayoutOf(i)' = PayoutOf(i) /\ CommissionOf(i)' = CommissionOf(i)
    BY DEF PayoutOf, CommissionOf
  <2> QED
    BY <1>6, <2>1 DEF IInv, BookedTogether, PayoutOf, CommissionOf
<1> QED
  BY <1>5, <1>7, <1>8, <1>9 DEF IInv

LEMMA NextInv == IInv /\ [Next]_vars => IInv'
<1> SUFFICES ASSUME IInv, [Next]_vars PROVE IInv'
  OBVIOUS
<1>1. ASSUME NEW c \in Calls, NEW kind \in Kinds, NEW j \in Jobs, Start(c, kind, j) PROVE IInv'
  BY <1>1, StartInv
<1>2. ASSUME NEW c \in Calls, Run(c) PROVE IInv'
  BY <1>2, ReadJobInv, ReadPayoutInv, WriteRowInv, FailInsertInv, CreditPlatformInv,
     CommitRequestInv, CommitRejectInv, CommitOpenInv, CommitResolveInv, CommitSettleInv,
     CommitFinishInv
  DEF Run
<1>3. ASSUME NEW c \in Calls, Abort(c) PROVE IInv'
  BY <1>3, AbortInv
<1>4. CASE UNCHANGED vars
  BY <1>4 DEF vars, jobRows, moneyRows, IInv, TypeOK, ProgressOK, BookedTogether, PaidOut, SettlesAlone,
              Settling, StatusFollowsDispute, RequestedIsPending, PayoutOf, CommissionOf
<1> QED
  BY <1>1, <1>2, <1>3, <1>4 DEF Next

\* The inductive invariant holds in every reachable state.
THEOREM Invariance == Spec => []IInv
BY InitInv, NextInv, PTL DEF Spec

\* Every variable keeps its type (the tables of job-completion and disputes).
THEOREM TypeCorrect == Spec => []TypeOK
<1>1. IInv => TypeOK
  BY DEF IInv
<1> QED
  BY <1>1, Invariance, PTL

\* A completed job is paid out in full, and reviewed (approveAndSettle), for all prices.
THEOREM CompletedPaid == Spec => []CompletedIsPaid
<1>1. IInv => CompletedIsPaid
  <2> SUFFICES ASSUME IInv, NEW j \in Jobs, payout[j] # None
               PROVE  /\ earning[j] = payout[j]
                      /\ commission[j] # None
                      /\ payout[j] + commission[j] = Price[j]
    BY DEF CompletedIsPaid, IInv, PaidOut
  <2> QED
    BY Shares DEF IInv, BookedTogether
<1> QED
  BY <1>1, Invariance, PTL

\* A job and its dispute agree (openDispute, resolveDisputeAmicably, approveAndSettle).
THEOREM DisputeFollowed == Spec => []StatusFollowsDispute
<1>1. IInv => StatusFollowsDispute
  BY DEF IInv
<1> QED
  BY <1>1, Invariance, PTL

\* completedRequestedAt and the completion request agree (requestCompletion, rejectCompletion,
\* resolveDisputeAmicably).
THEOREM RequestFollowed == Spec => []RequestedIsPending
<1>1. IInv => RequestedIsPending
  BY DEF IInv
<1> QED
  BY <1>1, Invariance, PTL

-----------------------------------------------------------------------------
(* The books implement module Ledger. *)

LEMMA OnlySettleBooks ==
  ASSUME [Next]_vars
  PROVE  UNCHANGED moneyRows \/ \E c \in Calls : CommitSettle(c)
BY Zenon DEF Next, vars, Run, Abort, Start, ReadJob, ReadPayout, WriteRow, FailInsert, CreditPlatform,
       CommitRequest, CommitReject, CommitOpen, CommitResolve, CommitFinish

\* A settlement books a job whose payout and commission are not there yet.
LEMMA SettleBooks ==
  ASSUME IInv, NEW c \in Calls, CommitSettle(c)
  PROVE  \E j \in Jobs : \E w \in PlatformWallets :
           /\ payout[j] = None /\ commission[j] = None
           /\ payout' = [payout EXCEPT ![j] = PayoutOf(j)]
           /\ commission' = [commission EXCEPT ![j] = CommissionOf(j)]
           /\ wallet' = [wallet EXCEPT ![FixerOf[j]] = @ + PayoutOf(j)]
           /\ platform' = [platform EXCEPT ![w] = @ + CommissionOf(j)]
<1>1. /\ call[c].job \in Jobs /\ call[c].platform \in PlatformWallets /\ Settling(c)
  BY WrittenCall DEF CommitSettle, Kinds, Written, Settling
<1>2. payout[call[c].job] = None
  BY <1>1 DEF IInv, SettlesAlone
<1>3. commission[call[c].job] = None
  BY <1>1, <1>2, Shares DEF IInv, BookedTogether
<1> QED
  BY <1>1, <1>2, <1>3, Zenon DEF CommitSettle

LEMMA FixerStep ==
  ASSUME IInv, [Next]_vars
  PROVE  [FixerLedger!Next]_(FixerLedger!ledgerVars)
<1>1. CASE UNCHANGED moneyRows
  BY <1>1 DEF moneyRows, FixerLedger!ledgerVars
<1>2. CASE \E c \in Calls : CommitSettle(c)
  <2>1. PICK j \in Jobs : /\ payout[j] = None
                          /\ payout' = [payout EXCEPT ![j] = PayoutOf(j)]
                          /\ wallet' = [wallet EXCEPT ![FixerOf[j]] = @ + PayoutOf(j)]
    BY <1>2, SettleBooks
  <2>2. {i \in Jobs : payout'[i] # None} = {i \in Jobs : payout[i] # None} \cup {j}
    BY <2>1, Shares DEF IInv, TypeOK
  <2>3. FixerLedger!Book(j)
    BY <2>1, <2>2 DEF FixerLedger!Book
  <2> QED
    BY <2>3 DEF FixerLedger!Next
<1> QED
  BY <1>1, <1>2, OnlySettleBooks

\* Whatever approvals race, the fixers' wallets are a ledger that books each job once, on the
\* wallet of its fixer.
THEOREM FixerBooks == Spec => FixerPaidOnce
<1>1. Init => FixerLedger!Init
  BY DEF Init, FixerLedger!Init
<1>2. IInv /\ [Next]_vars => [FixerLedger!Next]_(FixerLedger!ledgerVars)
  BY FixerStep
<1> QED
  BY <1>1, <1>2, Invariance, PTL DEF Spec, FixerPaidOnce, FixerLedger!Spec

\* A commission that is credited to one wallet is added to what all of them hold.
LEMMA PlatformCredited ==
  ASSUME IInv, NEW j \in Jobs, NEW w \in PlatformWallets,
         platform' = [platform EXCEPT ![w] = @ + CommissionOf(j)]
  PROVE  SumFunctionOnSet(platform, PlatformWallets)' =
           SumFunctionOnSet(platform, PlatformWallets) + CommissionOf(j)
<1> DEFINE g == platform'
<1>1. /\ CommissionOf(j) \in Nat
      /\ \A x \in PlatformWallets : platform[x] \in Nat
      /\ g[w] = platform[w] + CommissionOf(j)
      /\ \A x \in PlatformWallets \ {w} : platform[x] = g[x]
  BY Shares DEF IInv, TypeOK
<1> HIDE DEF g
<1>2. \A x \in PlatformWallets : platform[x] \in Nat /\ g[x] \in Nat
  BY <1>1
<1>3. SumFunctionOnSet(g, PlatformWallets) + platform[w] =
        SumFunctionOnSet(platform, PlatformWallets) + g[w]
  BY <1>1, <1>2, SumChange, PlatformAssumption
<1>4. /\ SumFunctionOnSet(g, PlatformWallets) \in Nat
      /\ SumFunctionOnSet(platform, PlatformWallets) \in Nat
  BY <1>1, <1>2, SumType, PlatformAssumption
<1> QED
  BY <1>1, <1>3, <1>4 DEF g

LEMMA PlatformStep ==
  ASSUME IInv, [Next]_vars
  PROVE  [PlatformLedger!Next]_(PlatformLedger!ledgerVars)
<1>1. CASE UNCHANGED moneyRows
  BY <1>1 DEF moneyRows, PlatformLedger!ledgerVars
<1>2. CASE \E c \in Calls : CommitSettle(c)
  <2>1. PICK j \in Jobs, w \in PlatformWallets :
          /\ commission[j] = None
          /\ commission' = [commission EXCEPT ![j] = CommissionOf(j)]
          /\ platform' = [platform EXCEPT ![w] = @ + CommissionOf(j)]
    BY <1>2, SettleBooks
  <2>2. {i \in Jobs : commission'[i] # None} = {i \in Jobs : commission[i] # None} \cup {j}
    BY <2>1, Shares DEF IInv, TypeOK
  <2>3. SumFunctionOnSet(platform, PlatformWallets)' =
          SumFunctionOnSet(platform, PlatformWallets) + CommissionOf(j)
    BY <2>1, PlatformCredited
  <2> DEFINE sum == SumFunctionOnSet(platform, PlatformWallets)
  <2> HIDE DEF sum
  <2>4. [a \in {"platform"} |-> sum'] =
          [[a \in {"platform"} |-> sum] EXCEPT !["platform"] = @ + CommissionOf(j)]
    BY <2>3 DEF sum
  <2>5. PlatformLedger!Book(j)
    BY <2>1, <2>2, <2>4 DEF PlatformLedger!Book, sum
  <2> QED
    BY <2>5 DEF PlatformLedger!Next
<1> QED
  BY <1>1, <1>2, OnlySettleBooks

\* Whatever platform wallets the settlements find or create, together they are a ledger
\* that books the commission of each job once.
THEOREM PlatformBooks == Spec => CommissionBookedOnce
<1>1. Init => PlatformLedger!Init
  BY SumZero, PlatformAssumption DEF Init, PlatformLedger!Init
<1>2. IInv /\ [Next]_vars => [PlatformLedger!Next]_(PlatformLedger!ledgerVars)
  BY PlatformStep
<1> QED
  BY <1>1, <1>2, Invariance, PTL DEF Spec, CommissionBookedOnce, PlatformLedger!Spec

-----------------------------------------------------------------------------
(* Deadlocks. *)

\* The tables of the rows that a call keeps locked.
HeldTables(c) == {Tables(call[c].kind)[i] : i \in 1..call[c].done}

\* A call waits for a row of a table of which the other holds one.
LEMMA WaitsForTable ==
  ASSUME NEW c \in Calls, NEW d \in WaitsFor(c)
  PROVE  /\ d \in Calls /\ Unfinished(c) /\ NextTable(c) # "platform"
         /\ NextTable(c) \in HeldTables(d) /\ Locked(d) # {}
<1>1. /\ Unfinished(c) /\ NextTable(c) # "platform"
      /\ d \in Holders(c, <<NextTable(c), RowId(c, NextTable(c))>>)
  BY Zenon DEF WaitsFor
<1>2. d \in Calls /\ <<NextTable(c), RowId(c, NextTable(c))>> \in Locked(d)
  BY <1>1 DEF Holders
<1>3. PICK i \in 1..call[d].done :
        <<NextTable(c), RowId(c, NextTable(c))>> =
          <<Tables(call[d].kind)[i], RowId(d, Tables(call[d].kind)[i])>>
  BY <1>2 DEF Locked
<1>4. NextTable(c) = Tables(call[d].kind)[i]
  BY <1>3
<1> QED
  BY <1>1, <1>2, <1>4 DEF HeldTables

\* The calls that can be on a cycle: past their first row, before their last, and
\* not about to credit the platform.
LEMMA InBetween ==
  ASSUME IInv, NEW c \in Calls, Unfinished(c), NextTable(c) # "platform", Locked(c) # {}
  PROVE  \/ /\ call[c].kind \in {"request", "reject"}
            /\ NextTable(c) = "job" /\ HeldTables(c) = {"completion"}
         \/ /\ call[c].kind = "open"
            /\ NextTable(c) = "job" /\ HeldTables(c) = {"dispute"}
         \/ /\ call[c].kind = "resolve"
            /\ \/ NextTable(c) = "job" /\ HeldTables(c) = {"dispute"}
               \/ NextTable(c) = "completion" /\ HeldTables(c) = {"dispute", "job"}
         \/ /\ call[c].kind = "settle"
            /\ \/ NextTable(c) = "wallet" /\ HeldTables(c) = {"payout"}
               \/ NextTable(c) = "job" /\ HeldTables(c) = {"payout", "wallet", "platform"}
<1> DEFINE n == call[c].done
           T == Tables(call[c].kind)
<1>1. n \in 1..4
  <2>1. n \in 0..4
    BY CallType DEF IInv
  <2>2. n # 0
    <3>1. 1..0 = {}
      OBVIOUS
    <3> QED
      BY <3>1 DEF Locked
  <2> HIDE DEF n
  <2> QED
    BY <2>1, <2>2
<1>2. n < Len(T) /\ NextTable(c) = T[n + 1] /\ HeldTables(c) = {T[i] : i \in 1..n}
  BY DEF Unfinished, NextTable, HeldTables
<1>3. 1..1 = {1} /\ 1..2 = {1, 2} /\ 1..3 = {1, 2, 3}
  OBVIOUS
<1>4. CASE call[c].kind \in {"request", "reject"}
  <2>1. T = <<"completion", "job">>
    BY <1>4, Zenon DEF Tables
  <2> HIDE DEF n, T
  <2>2. n = 1 /\ T[1] = "completion" /\ T[2] = "job"
    BY <1>1, <1>2, <2>1
  <2>3. NextTable(c) = "job" /\ HeldTables(c) = {"completion"}
    BY <1>2, <1>3, <2>2
  <2> QED
    BY <1>4, <2>3
<1>5. CASE call[c].kind = "open"
  <2>1. T = <<"dispute", "job">>
    BY <1>5, Zenon DEF Tables
  <2> HIDE DEF n, T
  <2>2. n = 1 /\ T[1] = "dispute" /\ T[2] = "job"
    BY <1>1, <1>2, <2>1
  <2>3. NextTable(c) = "job" /\ HeldTables(c) = {"dispute"}
    BY <1>2, <1>3, <2>2
  <2> QED
    BY <1>5, <2>3
<1>6. CASE call[c].kind = "resolve"
  <2>1. T = <<"dispute", "job", "completion">>
    BY <1>6, Zenon DEF Tables
  <2> HIDE DEF n, T
  <2>2. n \in 1..2 /\ T[1] = "dispute" /\ T[2] = "job" /\ T[3] = "completion"
    BY <1>1, <1>2, <2>1
  <2>3. CASE n = 1
    BY <1>2, <1>3, <1>6, <2>2, <2>3
  <2>4. CASE n = 2
    <3>1. HeldTables(c) = {"dispute", "job"}
      BY <1>2, <1>3, <2>2, <2>4
    <3> QED
      BY <1>2, <1>6, <2>2, <2>4, <3>1
  <2> QED
    BY <2>2, <2>3, <2>4
<1>7. CASE call[c].kind = "settle"
  <2>1. T = <<"payout", "wallet", "platform", "job">>
    BY <1>7, Zenon DEF Tables
  <2> HIDE DEF n, T
  <2>2. n \in 1..3 /\ T[1] = "payout" /\ T[2] = "wallet" /\ T[3] = "platform" /\ T[4] = "job"
    BY <1>1, <1>2, <2>1
  <2>3. CASE n = 1
    BY <1>2, <1>3, <1>7, <2>2, <2>3
  <2>4. CASE n = 2
    BY <1>2, <2>2, <2>4
  <2>5. CASE n = 3
    <3>1. HeldTables(c) = {"payout", "wallet", "platform"}
      BY <1>2, <1>3, <2>2, <2>5
    <3> QED
      BY <1>2, <1>7, <2>2, <2>5, <3>1
  <2> QED
    BY <2>2, <2>3, <2>4, <2>5
<1>8. CASE call[c].kind = "finish"
  <2>1. T = <<"job">>
    BY <1>8, Zenon DEF Tables
  <2> HIDE DEF n, T
  <2> QED
    BY <1>1, <1>2, <2>1
<1>9. CASE call[c].kind \notin {"request", "reject", "open", "resolve", "settle", "finish"}
  <2>1. T = <<>>
    BY <1>9, Zenon DEF Tables
  <2> HIDE DEF n, T
  <2> QED
    BY <1>1, <1>2, <2>1
<1> QED
  BY <1>4, <1>5, <1>6, <1>7, <1>8, <1>9

\* Nobody who holds a row waits for a dispute, so who holds nothing else is not waited for; and
\* settlements take their rows in one order and the job last.  What is left are completion
\* requests and rejections, which all wait for a job, and only a resolution holds one.
LEMMA CyclesNeedResolution == IInv => OnlyResolutionsDeadlock
<1> SUFFICES ASSUME IInv, NEW S \in SUBSET Calls, S # {},
                    \A c \in S : WaitsFor(c) \cap S # {} /\ \E d \in S : c \in WaitsFor(d)
             PROVE  /\ \A c \in S : call[c].kind \in {"request", "reject", "resolve"}
                    /\ \E c \in S : call[c].kind = "resolve"
  BY DEF OnlyResolutionsDeadlock
<1>1. \A c \in S : \E d \in S : NextTable(c) \in HeldTables(d)
  BY WaitsForTable
<1>2. \A c \in S : \E d \in S : NextTable(d) \in HeldTables(c)
  BY WaitsForTable
<1>3. \A c \in S : Unfinished(c) /\ NextTable(c) # "platform" /\ Locked(c) # {}
  BY WaitsForTable
<1>4. \A c \in S :
         \/ /\ call[c].kind \in {"request", "reject"}
            /\ NextTable(c) = "job" /\ HeldTables(c) = {"completion"}
         \/ /\ call[c].kind = "open"
            /\ NextTable(c) = "job" /\ HeldTables(c) = {"dispute"}
         \/ /\ call[c].kind = "resolve"
            /\ \/ NextTable(c) = "job" /\ HeldTables(c) = {"dispute"}
               \/ NextTable(c) = "completion" /\ HeldTables(c) = {"dispute", "job"}
         \/ /\ call[c].kind = "settle"
            /\ \/ NextTable(c) = "wallet" /\ HeldTables(c) = {"payout"}
               \/ NextTable(c) = "job" /\ HeldTables(c) = {"payout", "wallet", "platform"}
  BY <1>3, InBetween
<1>5. \A c \in S : NextTable(c) \in {"job", "completion", "wallet"}
  BY <1>4
<1>6. \A c \in S : HeldTables(c) # {"payout"}
  BY <1>2, <1>5
<1>7. \A c \in S : NextTable(c) # "wallet"
  BY <1>4, <1>6
<1>8. ASSUME NEW c \in S PROVE call[c].kind \in {"request", "reject", "resolve"}
  <2>1. PICK d \in S : NextTable(d) \in HeldTables(c)
    BY <1>2
  <2>2. NextTable(d) \in {"job", "completion"}
    BY <1>5, <1>7
  <2> QED
    BY <1>4, <2>1, <2>2
<1>9. \E c \in S : call[c].kind = "resolve"
  <2>1. PICK c \in S : TRUE
    OBVIOUS
  <2>2. CASE NextTable(c) = "job"
    <3>1. PICK d \in S : "job" \in HeldTables(d)
      BY <1>1, <2>2
    <3> QED
      BY <1>4, <3>1
  <2>3. CASE NextTable(c) # "job"
    BY <1>4, <1>7, <2>3
  <2> QED
    BY <2>2, <2>3
<1> QED
  BY <1>8, <1>9

\* A settlement or a dispute being opened is never aborted for a deadlock, whatever runs beside it.
THEOREM ResolutionsInDeadlocks == Spec => []OnlyResolutionsDeadlock
<1> QED
  BY CyclesNeedResolution, Invariance, PTL

\* Unless a resolution is on a cycle of lock waits, which the database notices, some call in
\* progress waits for nobody.
SomebodyGoes ==
  \/ \A c \in Calls : call[c].kind = "idle"
  \/ \E c \in Calls : call[c].kind # "idle" /\ WaitsFor(c) = {}
  \/ \E c \in Calls : Deadlocked(c) /\ call[c].kind = "resolve"

\* Whatever calls overlap, one of them can go on: never is everyone waiting for everyone
\* without a resolution and a completion request, or its rejection, that took the job and the
\* request in opposite orders.
THEOREM NobodyHangs == Spec => []SomebodyGoes
<1>1. ASSUME IInv, OnlyResolutionsDeadlock PROVE SomebodyGoes
  <2> DEFINE S == {c \in Calls : call[c].kind # "idle"}
             W == [c \in Calls |-> WaitsFor(c)]
  <2> SUFFICES ASSUME S # {}, \A c \in S : WaitsFor(c) # {}
               PROVE  \E c \in Calls : Deadlocked(c) /\ call[c].kind = "resolve"
    BY DEF SomebodyGoes
  <2>1. ASSUME NEW c \in S, NEW d \in WaitsFor(c) PROVE d \in S
    <3>1. d \in Calls /\ Locked(d) # {}
      BY DEF WaitsFor, Holders
    <3>2. call[d] \in Call \cup {NoCall}
      BY <1>1, <3>1 DEF IInv, TypeOK
    <3>3. PICK i \in 1..call[d].done : TRUE
      BY <3>1 DEF Locked
    <3>4. call[d] # NoCall
      BY <3>3 DEF NoCall
    <3>5. call[d].kind # "idle"
      BY <3>2, <3>4 DEF Call, Kinds
    <3> QED
      BY <3>1, <3>5
  <2>2. \A c \in S : W[c] \cap S # {}
    BY <2>1
  <2>3. IsFiniteSet(S)
    BY CallsAssumption, FS_Subset
  <2> HIDE DEF W
  <2>4. PICK T \in SUBSET S :
          T # {} /\ \A d \in T : W[d] \cap T # {} /\ \E e \in T : d \in W[e]
    BY <2>2, <2>3, WaitCycle
  <2> USE DEF W
  <2>5. \A c \in T : c \in Calls /\ WaitsFor(c) \cap T # {} /\ \E e \in T : c \in WaitsFor(e)
    BY <2>4
  <2>6. \A c \in T : Deadlocked(c)
    BY <2>5 DEF Deadlocked
  <2>7. \E c \in T : call[c].kind = "resolve"
    BY <1>1, <2>4, <2>5 DEF OnlyResolutionsDeadlock
  <2> QED
    BY <2>5, <2>6, <2>7
<1> QED
  BY <1>1, Invariance, ResolutionsInDeadlocks, PTL

-----------------------------------------------------------------------------
(* Balances. *)

PaidJobs == {j \in Jobs : payout[j] # None}

PaidTo(F) == {j \in PaidJobs : FixerOf[j] \in F}

\* In the committed rows the balances are the sums of the entries: the wallets of any fixers
\* hold the payouts of their jobs, and the platform's wallets all commissions.
BalancesAreSums ==
  /\ \A F \in SUBSET Fixers :
       SumFunctionOnSet(wallet, F) = SumFunctionOnSet([j \in Jobs |-> PayoutOf(j)], PaidTo(F))
  /\ SumFunctionOnSet(platform, PlatformWallets) =
       SumFunctionOnSet([j \in Jobs |-> CommissionOf(j)], PaidJobs)

LEMMA BalancesInit == Init => BalancesAreSums
<1> SUFFICES ASSUME Init PROVE BalancesAreSums
  OBVIOUS
<1>1. PaidJobs = {} /\ \A F \in SUBSET Fixers : PaidTo(F) = {}
  BY DEF Init, PaidJobs, PaidTo
<1>2. SumFunctionOnSet(platform, PlatformWallets) = 0
  BY SumZero, PlatformAssumption DEF Init
<1>3. ASSUME NEW F \in SUBSET Fixers PROVE SumFunctionOnSet(wallet, F) = 0
  <2>1. IsFiniteSet(F) /\ \A f \in F : wallet[f] = 0
    BY FixersAssumption, FS_Subset DEF Init
  <2> QED
    BY <2>1, SumZero
<1> QED
  BY <1>1, <1>2, <1>3, SumOfNone DEF BalancesAreSums

\* A payout is added to what the wallets of a set of fixers hold, if its fixer is one of them.
LEMMA FixersCredited ==
  ASSUME IInv, NEW j \in Jobs, NEW F \in SUBSET Fixers,
         wallet' = [wallet EXCEPT ![FixerOf[j]] = @ + PayoutOf(j)]
  PROVE  /\ FixerOf[j] \in F =>
              SumFunctionOnSet(wallet, F)' = SumFunctionOnSet(wallet, F) + PayoutOf(j)
         /\ FixerOf[j] \notin F => SumFunctionOnSet(wallet, F)' = SumFunctionOnSet(wallet, F)
<1> DEFINE g == wallet'
           f == FixerOf[j]
<1>1. /\ PayoutOf(j) \in Nat /\ f \in Fixers /\ IsFiniteSet(F)
      /\ \A x \in F : wallet[x] \in Nat
      /\ g[f] = wallet[f] + PayoutOf(j)
      /\ \A x \in F \ {f} : wallet[x] = g[x]
  BY Shares, FixersAssumption, FS_Subset DEF IInv, TypeOK
<1> HIDE DEF g, f
<1>2. CASE f \in F
  <2>1. \A x \in F : wallet[x] \in Nat /\ g[x] \in Nat
    BY <1>1, <1>2
  <2>2. SumFunctionOnSet(g, F) + wallet[f] = SumFunctionOnSet(wallet, F) + g[f]
    BY <1>1, <1>2, <2>1, SumChange
  <2>3. SumFunctionOnSet(g, F) \in Nat /\ SumFunctionOnSet(wallet, F) \in Nat
    BY <1>1, <2>1, SumType
  <2>4. wallet[f] \in Nat
    BY <1>1, <1>2
  <2>5. SumFunctionOnSet(g, F) = SumFunctionOnSet(wallet, F) + PayoutOf(j)
    BY <1>1, <2>2, <2>3, <2>4
  <2> QED
    BY <1>2, <2>5 DEF g, f
<1>3. CASE f \notin F
  <2>1. \A x \in F : wallet[x] = g[x]
    BY <1>1, <1>3
  <2>2. SumFunctionOnSet(wallet, F) = SumFunctionOnSet(g, F)
    BY <1>1, <2>1, SumAgree
  <2> QED
    BY <1>3, <2>2 DEF g, f
<1> QED
  BY <1>2, <1>3

\* A settlement adds its payout and its commission to the entries and to the balances.
LEMMA BalancesStep ==
  ASSUME IInv, BalancesAreSums, [Next]_vars
  PROVE  BalancesAreSums'
<1> DEFINE P == [j \in Jobs |-> PayoutOf(j)]
           K == [j \in Jobs |-> CommissionOf(j)]
<1>1. CASE UNCHANGED moneyRows
  BY <1>1 DEF moneyRows, BalancesAreSums, PaidTo, PaidJobs, PayoutOf, CommissionOf
<1>2. CASE \E c \in Calls : CommitSettle(c)
  <2>1. PICK j \in Jobs, w \in PlatformWallets :
          /\ payout[j] = None
          /\ payout' = [payout EXCEPT ![j] = PayoutOf(j)]
          /\ wallet' = [wallet EXCEPT ![FixerOf[j]] = @ + PayoutOf(j)]
          /\ platform' = [platform EXCEPT ![w] = @ + CommissionOf(j)]
    BY <1>2, SettleBooks
  <2>2. PaidJobs' = PaidJobs \cup {j} /\ j \notin PaidJobs
    BY <2>1, Shares DEF IInv, TypeOK, PaidJobs
  <2>3. IsFiniteSet(PaidJobs) /\ \A x \in PaidJobs \cup {j} : P[x] \in Nat /\ K[x] \in Nat
    BY JobsAssumption, FS_Subset, Shares DEF PaidJobs
  <2>4. P' = P /\ K' = K
    BY DEF PayoutOf, CommissionOf
  <2>5. ASSUME NEW F \in SUBSET Fixers
        PROVE  SumFunctionOnSet(wallet, F)' = SumFunctionOnSet(P, PaidTo(F)')
    <3>1. SumFunctionOnSet(wallet, F) = SumFunctionOnSet(P, PaidTo(F))
      BY DEF BalancesAreSums
    <3>2. CASE FixerOf[j] \in F
      <4>1. PaidTo(F)' = PaidTo(F) \cup {j} /\ j \notin PaidTo(F)
        BY <2>2, <3>2 DEF PaidTo
      <4>2. IsFiniteSet(PaidTo(F)) /\ \A x \in PaidTo(F) \cup {j} : P[x] \in Nat
        BY <2>3, FS_Subset DEF PaidTo
      <4>3. P[j] = PayoutOf(j)
        OBVIOUS
      <4> HIDE DEF P
      <4>4. SumFunctionOnSet(P, PaidTo(F) \cup {j}) = SumFunctionOnSet(P, PaidTo(F)) + P[j]
        BY <4>1, <4>2, SumInsert
      <4> QED
        BY <2>1, <3>1, <3>2, <4>1, <4>3, <4>4, FixersCredited
    <3>3. CASE FixerOf[j] \notin F
      <4>1. PaidTo(F)' = PaidTo(F)
        BY <2>2, <3>3 DEF PaidTo
      <4> HIDE DEF P
      <4> QED
        BY <2>1, <3>1, <3>3, <4>1, FixersCredited
    <3> QED
      BY <3>2, <3>3
  <2>6. SumFunctionOnSet(K, PaidJobs \cup {j}) = SumFunctionOnSet(K, PaidJobs) + CommissionOf(j)
    <3> HIDE DEF K
    <3>1. SumFunctionOnSet(K, PaidJobs \cup {j}) = SumFunctionOnSet(K, PaidJobs) + K[j]
      BY <2>2, <2>3, SumInsert
    <3> QED
      BY <3>1 DEF K
  <2>7. SumFunctionOnSet(platform, PlatformWallets)' =
          SumFunctionOnSet(platform, PlatformWallets) + CommissionOf(j)
    BY <2>1, PlatformCredited
  <2>8. SumFunctionOnSet(platform, PlatformWallets) = SumFunctionOnSet(K, PaidJobs)
    BY DEF BalancesAreSums
  <2> HIDE DEF P, K
  <2>9. SumFunctionOnSet(platform, PlatformWallets)' = SumFunctionOnSet(K, PaidJobs')
    BY <2>2, <2>6, <2>7, <2>8
  <2> QED
    BY <2>4, <2>5, <2>9 DEF BalancesAreSums, P, K
<1> QED
  BY <1>1, <1>2, OnlySettleBooks

-----------------------------------------------------------------------------
(* Payouts: the earnings that settlements create, and the withdrawals from them. *)

\* What is proved about EarningsBook, for the tables of Payouts.  No lemma cited here speaks
\* of the variables of module Withdrawals, which are filled in with an arbitrary one.
W == INSTANCE WithdrawalsProofs WITH
  Earnings <- PayeeJobs, Withdrawals <- Requests, Payouts <- {PayoutOf(j) : j \in PayeeJobs},
  earning <- row, Admins <- {},
  rowLock <- row, draft <- row, reviewLock <- row, request <- row, review <- row

LEMMA BookAssumptions ==
  W!EarningsAssumption /\ W!WithdrawalsAssumption /\ W!AmountsAssumption /\ W!TxAssumption
<1>1. {PayoutOf(j) : j \in PayeeJobs} \subseteq Nat \ {0}
  BY Shares DEF PayeeJobs
<1>2. /\ PayeeJobs \subseteq Nat /\ IsFiniteSet(PayeeJobs)
      /\ IsFiniteSet(Requests) /\ Amounts \subseteq Nat \ {0}
  BY JobNumbers, JobsAssumption, RequestsAssumption, FS_Subset DEF PayeeJobs
<1>3. None \notin (Requests \cup {}) \cup PayeeJobs /\ IsFiniteSet({})
  BY NoneAssumption, RequestsAssumption, FS_EmptySet DEF PayeeJobs
<1> QED
  BY <1>1, <1>2, <1>3
  DEF W!EarningsAssumption, W!WithdrawalsAssumption, W!AmountsAssumption, W!TxAssumption, W!Txs,
      IsFiniteSet, W!IsFiniteSet

\* A job of the payee has a FixerEarning row when it was paid out, of that payout.
RowsFollow ==
  \A j \in PayeeJobs :
    /\ row[j].status = "NONE" <=> payout[j] = None
    /\ payout[j] # None => row[j].amount = PayoutOf(j)

PInv == IInv /\ BalancesAreSums /\ W!BookInv /\ RowsFollow

\* A step of Payouts is a step, or none, of module Settlement.
LEMMA PayoutStepSettles ==
  ASSUME [PayoutNext]_payoutVars
  PROVE  [Next]_vars
BY DEF PayoutNext, payoutVars, Settle, Proceed, RequestWithdrawal, ReviewWithdrawal, Next, Run

LEMMA SameSums ==
  ASSUME NEW f, NEW S
  PROVE  /\ W!SumFunctionOnSet(f, S) = SumFunctionOnSet(f, S)
         /\ Book!SumFunctionOnSet(f, S) = SumFunctionOnSet(f, S)
BY DEF W!SumFunctionOnSet, W!FoldFunctionOnSet, W!MapThenFoldSet,
       Book!SumFunctionOnSet, Book!FoldFunctionOnSet, Book!MapThenFoldSet,
       SumFunctionOnSet, FoldFunctionOnSet, MapThenFoldSet

\* The operations of EarningsBook, seen from here and from its proofs.
LEMMA SameGrant ==
  ASSUME NEW w, NEW n, Book!Grant(w, n)
  PROVE  W!Grant(w, n)
<1>1. Book!Splits(n) = W!Splits(n)
  BY SameSums DEF Book!Splits, W!Splits, Book!Total, W!Total
<1> QED
  BY <1>1, Zenon DEF Book!Grant, W!Grant, Book!CanReserve, W!CanReserve, Book!Reserved, W!Reserved,
     Book!Spendable, W!Spendable, Book!SpendableStatuses, W!SpendableStatuses

LEMMA SameDecide ==
  ASSUME NEW w, NEW op, Book!Decide(w, op)
  PROVE  W!Decide(w, op)
BY Zenon DEF Book!Decide, W!Decide, Book!Required, W!Required, Book!Outcome, W!Outcome,
   Book!Reviewed, W!Reviewed, Book!Restored, W!Restored, Book!Finalized, W!Finalized,
   Book!AllocationAfter, W!AllocationAfter, Book!NoAllocation, W!NoAllocation

LEMMA SameBook ==
  ASSUME [Book!BookNext]_(Book!bookVars)
  PROVE  [W!BookNext]_(W!bookVars)
<1>1. ASSUME NEW j, NEW n, Book!Earn(j, n) PROVE W!Earn(j, n)
  BY <1>1 DEF Book!Earn, W!Earn, Book!NewEarning, W!NewEarning
<1>2. CASE UNCHANGED Book!bookVars
  BY <1>2 DEF Book!bookVars, W!bookVars
<1> QED
  BY <1>1, <1>2, SameGrant, SameDecide DEF Book!BookNext, W!BookNext, Book!Reviews, W!Reviews

\* A request or a review creates no earning and keeps what it was worth.
LEMMA RowsSame ==
  ASSUME W!BookInv, NEW j \in PayeeJobs,
         \/ \E w \in Requests, n \in Amounts : Book!Grant(w, n)
         \/ \E w \in Requests, op \in Book!Reviews : Book!Decide(w, op)
  PROVE  /\ row'[j].amount = row[j].amount
         /\ row'[j].status = "NONE" <=> row[j].status = "NONE"
<1>1. \/ \E w \in Requests, n \in Amounts : W!Grant(w, n)
      \/ \E w \in Requests, op \in W!Reviews : W!Decide(w, op)
  BY SameGrant, SameDecide DEF Book!Reviews, W!Reviews
<1> QED
  BY <1>1, BookAssumptions, W!RowsStay

\* A settlement of a job of the payee finds no earning to update: it creates the job's earning.
LEMMA SettleEarns ==
  ASSUME PInv, NEW c \in Calls, Settle(c), call[c].job \in PayeeJobs
  PROVE  /\ \E j \in PayeeJobs, n \in {PayoutOf(i) : i \in PayeeJobs} : Book!Earn(j, n)
         /\ RowsFollow'
<1> DEFINE j == call[c].job
<1>1. /\ row \in [PayeeJobs -> W!EarningRow] /\ payout \in [Jobs -> Nat \cup {None}]
      /\ PayeeJobs \subseteq Jobs
  BY DEF PInv, IInv, TypeOK, W!BookInv, W!BookTypeOK, PayeeJobs
<1>2. CommitSettle(c) /\ j \in PayeeJobs /\ Settling(c)
  BY WrittenCall DEF Settle, CommitSettle, Kinds, Written, Settling, PInv
<1>3. payout[j] = None /\ payout' = [payout EXCEPT ![j] = PayoutOf(j)]
  BY <1>2, Zenon DEF PInv, IInv, SettlesAlone, CommitSettle
<1>4. row' = [i \in PayeeJobs |-> IF i = j THEN Upserted(row[i], PayoutOf(i)) ELSE row[i]]
  BY DEF Settle
<1> HIDE DEF j
<1>5. row[j].status = "NONE"
  BY <1>2, <1>3 DEF PInv, RowsFollow
<1>6. row' = [row EXCEPT ![j] = Book!NewEarning(PayoutOf(j))]
  <2> DEFINE new == Book!NewEarning(PayoutOf(j))
  <2>1. Upserted(row[j], PayoutOf(j)) = new
    BY <1>5, Zenon DEF Upserted
  <2>2. ASSUME NEW i \in PayeeJobs PROVE row'[i] = IF i = j THEN new ELSE row[i]
    BY <1>4, <2>1, Zenon
  <2>3. row' = [i \in PayeeJobs |-> row'[i]]
    BY <1>4, Zenon
  <2> HIDE DEF new
  <2>4. row' = [row EXCEPT ![j] = new]
    BY <1>1, <1>2, <2>2, <2>3
  <2> QED
    BY <2>4 DEF new
<1>7. Book!Earn(j, PayoutOf(j))
  BY <1>5, <1>6 DEF Book!Earn, Settle
<1>8. RowsFollow'
  <2>1. PayoutOf(j) # None
    BY <1>1, <1>2, Shares
  <2>2. row'[j].status = "AVAILABLE" /\ row'[j].amount = PayoutOf(j) /\ payout'[j] = PayoutOf(j)
    BY <1>1, <1>2, <1>3, <1>6 DEF Book!NewEarning
  <2>3. \A i \in PayeeJobs \ {j} : row'[i] = row[i] /\ payout'[i] = payout[i]
    BY <1>1, <1>3, <1>6
  <2> QED
    BY <2>1, <2>2, <2>3 DEF PInv, RowsFollow, PayeeJobs, PayoutOf, CommissionOf
<1> QED
  BY <1>2, <1>7, <1>8

\* A settlement for another fixer touches no earning of the payee.
LEMMA SettleElsewhere ==
  ASSUME PInv, NEW c \in Calls, Settle(c), call[c].job \notin PayeeJobs
  PROVE  UNCHANGED Book!bookVars /\ RowsFollow'
<1> DEFINE j == call[c].job
<1>1. /\ row \in [PayeeJobs -> W!EarningRow] /\ payout \in [Jobs -> Nat \cup {None}]
      /\ PayeeJobs \subseteq Jobs
  BY DEF PInv, IInv, TypeOK, W!BookInv, W!BookTypeOK, PayeeJobs
<1>2. row' = [i \in PayeeJobs |-> row[i]] /\ UNCHANGED <<withdrawal, allocation>>
  BY DEF Settle
<1>3. payout' = [payout EXCEPT ![j] = PayoutOf(j)]
  BY Zenon DEF Settle, CommitSettle
<1> HIDE DEF j
<1>4. row' = row
  BY <1>1, <1>2
<1>5. \A i \in PayeeJobs : payout'[i] = payout[i]
  BY <1>1, <1>3 DEF j
<1>6. RowsFollow'
  BY <1>4, <1>5 DEF PInv, RowsFollow, PayeeJobs, PayoutOf, CommissionOf
<1> QED
  BY <1>2, <1>4, <1>6 DEF Book!bookVars

\* Every step of Payouts is a step of EarningsBook, or leaves its tables alone.
LEMMA PayoutStepBooks ==
  ASSUME PInv, [PayoutNext]_payoutVars
  PROVE  [Book!BookNext]_(Book!bookVars) /\ RowsFollow'
<1>1. CASE \E c \in Calls : Settle(c)
  <2>1. PICK c \in Calls : Settle(c)
    BY <1>1
  <2>2. CASE call[c].job \in PayeeJobs
    BY <2>1, <2>2, SettleEarns DEF Book!BookNext
  <2>3. CASE call[c].job \notin PayeeJobs
    BY <2>1, <2>3, SettleElsewhere
  <2> QED
    BY <2>2, <2>3
<1>2. CASE \/ \E w \in Requests, n \in Amounts : RequestWithdrawal(w, n)
           \/ \E w \in Requests, op \in Book!Reviews : ReviewWithdrawal(w, op)
  <2>1. UNCHANGED vars
    BY <1>2 DEF RequestWithdrawal, ReviewWithdrawal
  <2>2. [Book!BookNext]_(Book!bookVars)
    BY <1>2 DEF RequestWithdrawal, ReviewWithdrawal, Book!BookNext
  <2>3. \A j \in PayeeJobs : /\ row'[j].amount = row[j].amount
                             /\ row'[j].status = "NONE" <=> row[j].status = "NONE"
    BY <1>2, RowsSame DEF PInv, RequestWithdrawal, ReviewWithdrawal
  <2>4. RowsFollow'
    BY <2>1, <2>3 DEF PInv, RowsFollow, vars, moneyRows, PayeeJobs, PayoutOf, CommissionOf
  <2> QED
    BY <2>2, <2>4
<1>3. CASE Proceed \/ UNCHANGED payoutVars
  BY <1>3 DEF Proceed, payoutVars, vars, moneyRows, Book!bookVars, PInv, RowsFollow, PayeeJobs,
              PayoutOf, CommissionOf
<1> QED
  BY <1>1, <1>2, <1>3 DEF PayoutNext

LEMMA PayoutInitInv == PayoutInit => PInv
<1> SUFFICES ASSUME PayoutInit PROVE PInv
  OBVIOUS
<1>1. IInv /\ BalancesAreSums
  BY InitInv, BalancesInit DEF PayoutInit
<1>2. W!BookInit
  BY DEF PayoutInit, Book!BookInit, W!BookInit, Book!NoEarning, W!NoEarning, Book!NoWithdrawal,
         W!NoWithdrawal, Book!NoAllocation, W!NoAllocation
<1>3. W!BookInv
  BY <1>2, BookAssumptions, W!BookInitInv
<1>4. RowsFollow
  BY DEF PayoutInit, Init, Book!BookInit, Book!NoEarning, RowsFollow, PayeeJobs
<1> QED
  BY <1>1, <1>3, <1>4 DEF PInv

LEMMA PayoutStepInv ==
  ASSUME PInv, [PayoutNext]_payoutVars
  PROVE  PInv'
<1>1. [Next]_vars
  BY PayoutStepSettles
<1>2. IInv' /\ BalancesAreSums'
  BY <1>1, NextInv, BalancesStep DEF PInv
<1>3. [Book!BookNext]_(Book!bookVars) /\ RowsFollow'
  BY PayoutStepBooks
<1>4. W!BookInv'
  BY <1>3, SameBook, BookAssumptions, W!BookStepInv DEF PInv
<1> QED
  BY <1>2, <1>3, <1>4 DEF PInv

THEOREM PayoutInvariance == PayoutSpec => []PInv
BY PayoutInitInv, PayoutStepInv, PTL DEF PayoutSpec

\* Seen without the withdrawals, Payouts is module Settlement.
THEOREM PayoutsSettle == PayoutSpec => Spec
<1>1. PayoutInit => Init
  BY DEF PayoutInit
<1> QED
  BY <1>1, PayoutStepSettles, PTL DEF PayoutSpec, Spec

\* The settlements are the environment that module EarningsBook assumes: each job of the payee
\* becomes one earning, of its payout, and nothing else creates or raises one.
THEOREM EarningsFed == PayoutSpec => Book!BookSpec
<1>1. PayoutInit => Book!BookInit
  BY DEF PayoutInit
<1> QED
  BY <1>1, PayoutStepBooks, PayoutInvariance, PTL DEF PayoutSpec, Book!BookSpec

\* Both books are kept while the fixer withdraws from the earnings.
THEOREM BooksKept == PayoutSpec => BooksImplemented
BY PayoutsSettle, FixerBooks, PlatformBooks, PTL DEF BooksImplemented

\* The payouts of the paid jobs are those of the payee and those of the other fixers.
LEMMA PayoutsSplit ==
  LET P == [j \in Jobs |-> PayoutOf(j)]
  IN  SumFunctionOnSet(P, PaidJobs) =
        SumFunctionOnSet(P, PaidTo({Payee})) + SumFunctionOnSet(P, PaidTo(Fixers \ {Payee}))
<1> DEFINE P == [j \in Jobs |-> PayoutOf(j)]
           S == PaidTo({Payee})
           T == PaidTo(Fixers \ {Payee})
           f == [j \in Jobs |-> IF FixerOf[j] = Payee THEN P[j] ELSE 0]
           g == [j \in Jobs |-> IF FixerOf[j] = Payee THEN 0 ELSE P[j]]
<1>1. /\ IsFiniteSet(PaidJobs) /\ PaidJobs \subseteq Jobs
      /\ S \subseteq PaidJobs /\ T \subseteq PaidJobs
  BY JobsAssumption, FS_Subset DEF PaidJobs, PaidTo
<1>2. \A j \in PaidJobs : /\ FixerOf[j] \in Fixers
                          /\ j \in S <=> FixerOf[j] = Payee
                          /\ j \in T <=> FixerOf[j] # Payee
  BY FixersAssumption DEF PaidJobs, PaidTo
<1>3. \A j \in PaidJobs : /\ f[j] \in Nat /\ g[j] \in Nat /\ P[j] = f[j] + g[j]
                          /\ j \in S => f[j] = P[j] /\ g[j] = 0
                          /\ j \in T => g[j] = P[j] /\ f[j] = 0
                          /\ j \in S \/ j \in T
  <2>1. \A j \in Jobs : P[j] \in Nat
    BY Shares
  <2> HIDE DEF P, S, T
  <2>2. \A j \in Jobs : /\ f[j] = IF FixerOf[j] = Payee THEN P[j] ELSE 0
                        /\ g[j] = IF FixerOf[j] = Payee THEN 0 ELSE P[j]
    OBVIOUS
  <2> HIDE DEF f, g
  <2> QED
    BY <1>1, <1>2, <2>1, <2>2
<1> HIDE DEF P, S, T, f, g
<1>4. SumFunctionOnSet(P, PaidJobs) = SumFunctionOnSet(f, PaidJobs) + SumFunctionOnSet(g, PaidJobs)
  BY <1>1, <1>3, SumAdd
<1>5. SumFunctionOnSet(f, PaidJobs) = SumFunctionOnSet(P, S)
  <2>0. /\ \A j \in PaidJobs : f[j] \in Nat
        /\ \A j \in PaidJobs \ S : f[j] = 0
    BY <1>3
  <2>1. SumFunctionOnSet(f, PaidJobs) = SumFunctionOnSet(f, S)
    BY <1>1, <2>0, SumRestrict
  <2>2. IsFiniteSet(S) /\ \A j \in S : f[j] = P[j]
    BY <1>1, <1>3, FS_Subset
  <2>3. SumFunctionOnSet(f, S) = SumFunctionOnSet(P, S)
    BY <2>2, SumAgree
  <2> QED
    BY <2>1, <2>3
<1>6. SumFunctionOnSet(g, PaidJobs) = SumFunctionOnSet(P, T)
  <2>0. /\ \A j \in PaidJobs : g[j] \in Nat
        /\ \A j \in PaidJobs \ T : g[j] = 0
    BY <1>3
  <2>1. SumFunctionOnSet(g, PaidJobs) = SumFunctionOnSet(g, T)
    BY <1>1, <2>0, SumRestrict
  <2>2. IsFiniteSet(T) /\ \A j \in T : g[j] = P[j]
    BY <1>1, <1>3, FS_Subset
  <2>3. SumFunctionOnSet(g, T) = SumFunctionOnSet(P, T)
    BY <2>2, SumAgree
  <2> QED
    BY <2>1, <2>3
<1> QED
  BY <1>4, <1>5, <1>6 DEF P, S, T

\* The prices of the paid jobs are their commissions and payouts; the commissions are what the
\* platform's wallets hold, and the payouts are what the other fixers' wallets hold and what the
\* payee's earnings were worth, of which the withdrawals hold what is not available any more.
LEMMA PaidIsAccounted == PInv => MoneyAccounted
<1> SUFFICES ASSUME PInv PROVE MoneyAccounted
  OBVIOUS
<1> DEFINE P == [j \in Jobs |-> PayoutOf(j)]
           K == [j \in Jobs |-> CommissionOf(j)]
           amounts == [j \in PayeeJobs |-> row[j].amount]
           available == [j \in PayeeJobs |-> row[j].available]
           S == PaidTo({Payee})
           T == PaidTo(Fixers \ {Payee})
<1>1. /\ IsFiniteSet(PaidJobs) /\ PaidJobs \subseteq Jobs /\ IsFiniteSet(Jobs)
      /\ IsFiniteSet(S) /\ IsFiniteSet(T) /\ IsFiniteSet(PayeeJobs)
      /\ S \subseteq PayeeJobs /\ T \subseteq Jobs /\ PayeeJobs \subseteq Jobs
      /\ \A j \in PayeeJobs : j \in S <=> j \in PaidJobs
  BY JobsAssumption, FS_Subset DEF PaidJobs, PaidTo, PayeeJobs
<1>2. \A j \in Jobs : P[j] \in Nat /\ K[j] \in Nat /\ Price[j] = P[j] + K[j]
  BY Shares
<1>3. \A j \in PayeeJobs : amounts[j] \in Nat /\ available[j] \in Nat
  BY DEF PInv, W!BookInv, W!BookTypeOK, W!EarningRow
<1>4. \A j \in S : amounts[j] = P[j]
  BY <1>1 DEF PInv, RowsFollow, PaidJobs
<1>5. \A j \in PayeeJobs \ S : amounts[j] = 0
  <2>1. \A j \in PayeeJobs \ S : row[j] = W!NoEarning
    BY <1>1 DEF PInv, RowsFollow, PaidJobs, W!BookInv, W!UnusedRowsEmpty
  <2> QED
    BY <2>1 DEF W!NoEarning
<1>6. /\ SumFunctionOnSet(platform, PlatformWallets) = SumFunctionOnSet(K, PaidJobs)
      /\ SumFunctionOnSet(wallet, Fixers \ {Payee}) = SumFunctionOnSet(P, T)
  BY DEF PInv, BalancesAreSums
<1>7. SumFunctionOnSet(P, PaidJobs) = SumFunctionOnSet(P, S) + SumFunctionOnSet(P, T)
  BY PayoutsSplit
<1> HIDE DEF P, K, amounts, available, S, T
<1>8. SumFunctionOnSet(Price, PaidJobs) = SumFunctionOnSet(P, PaidJobs) + SumFunctionOnSet(K, PaidJobs)
  BY <1>1, <1>2, SumAdd
<1>9. SumFunctionOnSet(amounts, PayeeJobs) = SumFunctionOnSet(P, S)
  <2>1. SumFunctionOnSet(amounts, PayeeJobs) = SumFunctionOnSet(amounts, S)
    BY <1>1, <1>3, <1>5, SumRestrict
  <2>2. SumFunctionOnSet(amounts, S) = SumFunctionOnSet(P, S)
    BY <1>1, <1>4, SumAgree
  <2> QED
    BY <2>1, <2>2
<1>10. SumFunctionOnSet(amounts, PayeeJobs) - SumFunctionOnSet(Book!Taken, Requests)
         = SumFunctionOnSet(available, PayeeJobs)
  <2>1. W!SumsAgree
    BY BookAssumptions, W!BookSums DEF PInv
  <2>2. W!Taken = Book!Taken
    BY DEF W!Taken, Book!Taken
  <2> QED
    BY <2>1, <2>2, SameSums DEF W!SumsAgree, W!Total, amounts, available
<1>11. SumFunctionOnSet(Book!Taken, Requests) \in Nat
  <2>1. \A w \in Requests : Book!Taken[w] \in Nat
    BY DEF PInv, W!BookInv, W!BookTypeOK, W!WithdrawalRow, Book!Taken
  <2> QED
    BY <2>1, SumType, RequestsAssumption
<1>12. /\ SumFunctionOnSet(amounts, PayeeJobs) \in Nat
       /\ SumFunctionOnSet(available, PayeeJobs) \in Nat
       /\ SumFunctionOnSet(K, PaidJobs) \in Nat /\ SumFunctionOnSet(P, T) \in Nat
  <2>1. /\ \A j \in PaidJobs : K[j] \in Nat
        /\ \A j \in T : P[j] \in Nat
    BY <1>1, <1>2
  <2> QED
    BY <1>1, <1>3, <2>1, SumType
<1>13. SumFunctionOnSet(Price, PaidJobs)
         = SumFunctionOnSet(platform, PlatformWallets) + SumFunctionOnSet(wallet, Fixers \ {Payee})
             + SumFunctionOnSet(available, PayeeJobs) + SumFunctionOnSet(Book!Taken, Requests)
  BY <1>6, <1>7, <1>8, <1>9, <1>10, <1>11, <1>12
<1> QED
  BY <1>13 DEF MoneyAccounted, PaidJobs, available

\* No milliFEC of a job is lost or paid twice between the job and the bank, for all prices and
\* amounts and any number of jobs, racing calls and withdrawals (approveAndSettle,
\* reserveForWithdrawal, rejectWithdrawal, markpaid).
THEOREM Accounted == PayoutSpec => []MoneyAccounted
BY PaidIsAccounted, PayoutInvariance, PTL
=============================================================================
