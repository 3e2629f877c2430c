------------------------- MODULE AdminAccessProofs -------------------------
(***************************************************************************)
(* Proofs about module AdminAccess, for any number of accounts, sessions   *)
(* and calls: access that was withdrawn stays withdrawn, and parallel      *)
(* failures cannot outrun the lockout.                                     *)
(***************************************************************************)
EXTENDS AdminAccess, FiniteSetTheorems, TLAPS

CallRow == [kind : Kinds \cup {"idle"}, admin : Admins \cup {None}, locks : BOOLEAN,
            token : Token \cup {NoToken}, serial : 0..MaxTokens, session : Sessions \cup {None}]

CallsOK ==
  /\ call \in [Calls -> CallRow]
  /\ \A c \in Calls :
       /\ call[c].kind # "idle" => call[c].admin \in Admins
       /\ call[c].kind \in {"refresh", "rotate"} => call[c].session \in Sessions
       /\ call[c].kind \in {"reset", "enter", "refresh", "rotate"} => call[c].token \in Token

RowsOK ==
  /\ admin \in [Admins -> Row]
  /\ session \in [Sessions -> [token : Token \cup {NoToken}, serial : 0..MaxTokens]]
  /\ access \in SUBSET Token
  /\ issued \in 0..MaxTokens

\* What was signed or will be signed: in a token, or in the hands of a call.
Known == access \cup {session[s].token : s \in Sessions} \cup {call[c].token : c \in Calls}

Pending(a) == {c \in Calls : call[c].kind = "bump" /\ call[c].admin = a}

\* A token is not ahead of its account; with the current version, it is of the current
\* era unless the version has still to follow.
Stale(t) ==
  /\ t.version <= admin[t.admin].version /\ t.era <= admin[t.admin].era
  /\ t.version = admin[t.admin].version => t.era = admin[t.admin].era \/ Pending(t.admin) # {}

NoneAhead == \A t \in Known \ {NoToken} : Stale(t)

VersionsOK == \A a \in Admins : admin[a].version + Cardinality(Pending(a)) <= MaxVersion

\* The failures in progress that will count and not lock.
Counting(a) == {c \in Calls : call[c].kind = "fail" /\ call[c].admin = a /\ ~ call[c].locks}

FailuresOK ==
  \A a \in Admins : admin[a].lock = "none" =>
    admin[a].attempts + Cardinality(Counting(a)) < LockAfter + Cardinality(Calls)

IInv == RowsOK /\ CallsOK /\ NoneAhead /\ VersionsOK /\ FailuresOK

-----------------------------------------------------------------------------
LEMMA Counts ==
  ASSUME NEW S, S \subseteq Calls
  PROVE  /\ IsFiniteSet(S)
         /\ Cardinality(S) \in Nat
         /\ Cardinality(S) <= Cardinality(Calls)
         /\ Cardinality(Calls) \in Nat
BY CallsAssumption, FS_Subset, FS_CardinalityType

LEMMA CountAdd ==
  ASSUME NEW S, S \subseteq Calls, NEW T, NEW c \in Calls, T = S \cup {c}
  PROVE  /\ Cardinality(T) <= Cardinality(S) + 1
         /\ c \notin S => Cardinality(T) = Cardinality(S) + 1
BY Counts, FS_AddElement

LEMMA CountRemove ==
  ASSUME NEW S, S \subseteq Calls, NEW T, NEW c \in S, T = S \ {c}
  PROVE  Cardinality(T) = Cardinality(S) - 1
BY Counts, FS_RemoveElement

LEMMA NoTokenApart == NoToken \notin Token /\ NoCall \in CallRow /\ NoCall.kind = "idle"
BY NoneAssumption, BoundsAssumption DEF NoToken, Token, NoCall, CallRow

LEMMA Bounds ==
  MaxAttempts \in Nat /\ MaxVersion \in Nat \ {0} /\ MaxTokens \in Nat /\ LockAfter \in Nat \ {0}
BY Counts, LockAssumption, BoundsAssumption DEF MaxAttempts

LEMMA InitInv == Init => IInv
<1> SUFFICES ASSUME Init PROVE IInv
  OBVIOUS
<1>1. RowsOK
  <2>1. NewRow \in Row
    BY Bounds DEF NewRow, Row
  <2>2. NoSession \in [token : Token \cup {NoToken}, serial : 0..MaxTokens]
    BY Bounds DEF NoSession
  <2> QED
    BY <2>1, <2>2, Bounds DEF Init, RowsOK
<1>2. CallsOK
  BY NoTokenApart DEF Init, CallsOK
<1>3. Known \subseteq {NoToken}
  BY DEF Init, Known, NoSession, NoCall
<1>4. \A a \in Admins : Pending(a) = {} /\ Counting(a) = {}
  BY DEF Init, Pending, Counting, NoCall
<1>5. VersionsOK /\ FailuresOK
  BY <1>4, FS_EmptySet, Bounds, Counts DEF Init, VersionsOK, FailuresOK, NewRow
<1> QED
  BY <1>1, <1>2, <1>3, <1>5 DEF IInv, NoneAhead

-----------------------------------------------------------------------------
(* Steps of calls that are about neither a withdrawal nor a failure. *)

\* Such a step may sign what is known or reset the failures.
LEMMA PlainStep ==
  ASSUME IInv, RowsOK', CallsOK',
         \A a \in Admins : Pending(a)' = Pending(a),
         \A a \in Admins : Counting(a)' \subseteq Counting(a),
         \A a \in Admins : /\ admin'[a].version = admin[a].version
                           /\ admin'[a].era = admin[a].era
                           /\ admin'[a].lock = "none" => \/ admin[a].lock = "none"
                                                           /\ admin'[a].attempts = admin[a].attempts
                                                         \/ admin'[a].attempts = 0,
         \A t \in Known' \ {NoToken} :
           \/ t \in Known
           \/ t \in Token /\ t.version = admin[t.admin].version /\ t.era = admin[t.admin].era
  PROVE  IInv'
<1>1. NoneAhead'
  <2> SUFFICES ASSUME NEW t \in Known' \ {NoToken} PROVE Stale(t)'
    BY DEF NoneAhead
  <2>1. t \in Token
    <3>1. Known \subseteq Token \cup {NoToken}
      BY DEF IInv, RowsOK, CallsOK, CallRow, Known
    <3> QED
      BY <3>1
  <2>2. /\ t.admin \in Admins
        /\ admin[t.admin].version \in Nat /\ admin[t.admin].era \in Nat
    BY <2>1, Bounds DEF IInv, RowsOK, Row, Token
  <2>3. Stale(t)
    BY <2>2 DEF IInv, NoneAhead, Stale
  <2> QED
    BY <2>2, <2>3 DEF Stale
<1>2. VersionsOK'
  BY DEF IInv, VersionsOK
<1>3. FailuresOK'
  <2> SUFFICES ASSUME NEW a \in Admins, admin'[a].lock = "none"
               PROVE  admin'[a].attempts + Cardinality(Counting(a)') < LockAfter + Cardinality(Calls)
    BY DEF FailuresOK
  <2>1. /\ Cardinality(Counting(a)') \in Nat /\ Cardinality(Counting(a)) \in Nat
        /\ Cardinality(Counting(a)') <= Cardinality(Counting(a))
        /\ Cardinality(Counting(a)') <= Cardinality(Calls)
        /\ Cardinality(Calls) \in Nat
    <3>1. Counting(a) \subseteq Calls /\ Counting(a)' \subseteq Counting(a)
      BY DEF Counting
    <3> QED
      BY <3>1, Counts, FS_Subset
  <2>2. CASE admin'[a].attempts = 0
    BY <2>1, <2>2, Bounds
  <2>3. CASE admin[a].lock = "none" /\ admin'[a].attempts = admin[a].attempts
    <3>1. admin[a].attempts \in Nat
      BY Bounds DEF IInv, RowsOK, Row
    <3> QED
      BY <2>1, <2>3, <3>1, Bounds DEF IInv, FailuresOK
  <2> QED
    BY <2>2, <2>3
<1> QED
  BY <1>1, <1>2, <1>3 DEF IInv

\* A call that moves on or ends, and is not about to bump a version.
LEMMA CallMoves ==
  ASSUME IInv, NEW c \in Calls, call[c].kind # "bump",
         NEW new \in CallRow, call' = [call EXCEPT ![c] = new],
         new.kind # "bump", new.kind = "fail" => new.locks,
         new.kind # "idle" => new.admin \in Admins,
         new.kind \in {"refresh", "rotate"} => new.session \in Sessions,
         new.kind \in {"reset", "enter", "refresh", "rotate"} => new.token \in Token
  PROVE  /\ CallsOK'
         /\ \A a \in Admins : Pending(a)' = Pending(a)
         /\ \A a \in Admins : Counting(a)' \subseteq Counting(a)
         /\ \A d \in Calls : call'[d].token = call[d].token \/ call'[d].token = new.token
<1>1. call'[c] = new /\ \A d \in Calls \ {c} : call'[d] = call[d]
  BY DEF IInv, CallsOK
<1>2. CallsOK'
  BY <1>1 DEF IInv, CallsOK
<1>3. \A a \in Admins : Pending(a)' = Pending(a)
  BY <1>1 DEF Pending
<1>4. \A a \in Admins : Counting(a)' \subseteq Counting(a)
  BY <1>1 DEF Counting
<1> QED
  BY <1>1, <1>2, <1>3, <1>4

\* Nothing but a call moves on, and it learns no token or one of the account as it is.
LEMMA CallStep ==
  ASSUME IInv, NEW c \in Calls, call[c].kind # "bump", UNCHANGED <<admin, session, access, issued>>,
         NEW new \in CallRow, call' = [call EXCEPT ![c] = new],
         new.kind # "bump", new.kind = "fail" => new.locks,
         new.kind # "idle" => new.admin \in Admins,
         new.kind \in {"refresh", "rotate"} => new.session \in Sessions,
         new.kind \in {"reset", "enter", "refresh", "rotate"} => new.token \in Token,
         \/ new.token \in Known \cup {NoToken}
         \/ /\ new.token \in Token
            /\ new.token.version = admin[new.token.admin].version
            /\ new.token.era = admin[new.token.admin].era
  PROVE  IInv'
<1>1. /\ CallsOK'
      /\ \A a \in Admins : Pending(a)' = Pending(a)
      /\ \A a \in Admins : Counting(a)' \subseteq Counting(a)
      /\ \A d \in Calls : call'[d].token = call[d].token \/ call'[d].token = new.token
  BY CallMoves
<1>2. RowsOK'
  BY DEF IInv, RowsOK
<1>3. Known' \subseteq Known \cup {new.token}
  BY <1>1 DEF Known
<1> QED
  BY <1>1, <1>2, <1>3, PlainStep

LEMMA EndStep ==
  ASSUME IInv, NEW c \in Calls, call[c].kind # "bump", UNCHANGED <<admin, session, access, issued>>, End(c)
  PROVE  IInv'
<1>1. NoCall \in CallRow /\ NoCall.kind = "idle" /\ NoCall.token = NoToken
  BY NoTokenApart DEF NoCall
<1> QED
  BY <1>1, CallStep DEF End

LEMMA TokenForOK ==
  ASSUME IInv, NEW a \in Admins
  PROVE  /\ TokenFor(a) \in Token
         /\ TokenFor(a).version = admin[TokenFor(a).admin].version
         /\ TokenFor(a).era = admin[TokenFor(a).admin].era
BY DEF IInv, RowsOK, Row, Token, TokenFor

LEMMA BeginStep ==
  ASSUME IInv, NEW c \in Calls, NEW a \in Admins, NEW kind \in Withdrawals \cup {"reactivate"},
         Begin(c, kind, a), UNCHANGED <<admin, session, access, issued>>
  PROVE  IInv'
<1> DEFINE new == [NoCall EXCEPT !.kind = kind, !.admin = a]
<1>1. /\ new \in CallRow /\ new.kind = kind /\ new.admin = a /\ new.token = NoToken
  BY NoTokenApart, Bounds DEF NoCall, CallRow, Kinds
<1>2. call[c].kind = "idle" /\ call' = [call EXCEPT ![c] = new]
  BY DEF Begin
<1> HIDE DEF new
<1> QED
  BY <1>1, <1>2, CallStep DEF Withdrawals

LEMMA LoginInv ==
  ASSUME IInv, NEW c \in Calls, NEW a \in Admins, NEW right \in BOOLEAN, Login(c, a, right)
  PROVE  IInv'
<1>1. call[c].kind = "idle" /\ UNCHANGED <<admin, session, access, issued>>
  BY DEF Login
<1>2. CASE right
  <2> DEFINE new == [NoCall EXCEPT !.kind = "reset", !.admin = a, !.token = TokenFor(a)]
  <2>1. /\ new \in CallRow /\ new.kind = "reset" /\ new.admin = a /\ new.token = TokenFor(a)
    <3> DEFINE t == TokenFor(a)
    <3>1. t \in Token
      BY TokenForOK
    <3> HIDE DEF t
    <3>2. [NoCall EXCEPT !.kind = "reset", !.admin = a, !.token = t] \in CallRow
      BY <3>1, NoTokenApart DEF NoCall, CallRow, Kinds
    <3> QED
      BY <3>2 DEF t, NoCall
  <2>2. call' = [call EXCEPT ![c] = new]
    BY <1>2 DEF Login
  <2> HIDE DEF new
  <2> QED
    BY <1>1, <2>1, <2>2, CallStep, TokenForOK
<1>3. CASE ~ right
  <2> DEFINE new == [NoCall EXCEPT !.kind = "fail", !.admin = a, !.locks = Locks(admin[a])]
  <2>1. /\ new \in CallRow /\ new.kind = "fail" /\ new.admin = a /\ new.token = NoToken
        /\ ~ new.locks => ~ Locks(admin[a])
    <3>1. Locks(admin[a]) \in BOOLEAN
      BY DEF Locks
    <3>2. new.locks = Locks(admin[a])
      BY DEF NoCall
    <3> QED
      BY <3>1, <3>2, NoTokenApart, Bounds DEF NoCall, CallRow, Kinds
  <2>2. call' = [call EXCEPT ![c] = new]
    BY <1>3 DEF Login
  <2> HIDE DEF new
  <2>3. CASE new.locks
    BY <1>1, <2>1, <2>2, <2>3, CallStep
  <2>4. CASE ~ new.locks
    <3>1. call'[c] = new /\ \A d \in Calls \ {c} : call'[d] = call[d]
      BY <2>2 DEF IInv, CallsOK
    <3>2. RowsOK' /\ CallsOK'
      BY <1>1, <2>1, <3>1, <2>2 DEF IInv, RowsOK, CallsOK
    <3>3. \A b \in Admins : Pending(b)' = Pending(b)
      BY <1>1, <2>1, <3>1 DEF Pending
    <3>4. NoneAhead'
      <4>1. Known' \subseteq Known \cup {NoToken}
        BY <1>1, <2>1, <3>1 DEF Known
      <4>2. \A t \in Known \ {NoToken} : t.admin \in Admins
        BY DEF Known, IInv, RowsOK, CallsOK, CallRow, Token
      <4> QED
        BY <1>1, <3>3, <4>1, <4>2 DEF IInv, NoneAhead, Stale
    <3>5. VersionsOK'
      BY <1>1, <3>3 DEF IInv, VersionsOK
    <3>6. FailuresOK'
      <4> SUFFICES ASSUME NEW b \in Admins, admin[b].lock = "none"
                   PROVE  admin[b].attempts + Cardinality(Counting(b)') < LockAfter + Cardinality(Calls)
        BY <1>1 DEF FailuresOK
      <4>1. CASE b = a
        <5> DEFINE n == Cardinality(Counting(b)')
                   m == Cardinality(Calls)
                   k == admin[b].attempts
        <5>1. n \in Nat /\ m \in Nat /\ n <= m
          <6>1. Counting(b)' \subseteq Calls
            BY DEF Counting
          <6> QED
            BY <6>1, Counts
        <5>2. ~ (k + 1 >= LockAfter) /\ k \in Nat
          BY <2>1, <2>4, <4>1, Bounds DEF Locks, IInv, RowsOK, Row
        <5> HIDE DEF n, m, k
        <5>3. k + n < LockAfter + m
          BY <5>1, <5>2, Bounds
        <5> QED
          BY <5>3 DEF n, m, k
      <4>2. CASE b # a
        <5>1. Counting(b)' = Counting(b)
          BY <1>1, <2>1, <3>1, <4>2 DEF Counting
        <5> QED
          BY <5>1 DEF IInv, FailuresOK
      <4> QED
        BY <4>1, <4>2
    <3> QED
      BY <3>2, <3>4, <3>5, <3>6 DEF IInv
  <2> QED
    BY <2>3, <2>4
<1> QED
  BY <1>2, <1>3

LEMMA UnlockedOK ==
  ASSUME NEW row \in Row
  PROVE  Unlocked(row) \in Row
<1>1. 0 \in 0..MaxAttempts
  BY Bounds
<1> QED
  BY <1>1 DEF Row, Unlocked

LEMMA ResetFailuresInv ==
  ASSUME IInv, NEW c \in Calls, ResetFailures(c)
  PROVE  IInv'
<1> DEFINE new == [call[c] EXCEPT !.kind = "enter"]
           b == call[c].admin
<1>1. /\ call[c].kind = "reset" /\ b \in Admins /\ call[c] \in CallRow /\ call[c].token \in Token
      /\ UNCHANGED <<session, access, issued>>
      /\ admin' = [admin EXCEPT ![b] = Unlocked(@)]
      /\ call' = [call EXCEPT ![c] = new]
  BY DEF ResetFailures, IInv, CallsOK
<1>2. new \in CallRow /\ new.kind = "enter" /\ new.admin = b /\ new.token = call[c].token
  BY <1>1 DEF CallRow, Kinds
<1> HIDE DEF new, b
<1>3. /\ CallsOK'
      /\ \A a \in Admins : Pending(a)' = Pending(a)
      /\ \A a \in Admins : Counting(a)' \subseteq Counting(a)
      /\ \A d \in Calls : call'[d].token = call[d].token \/ call'[d].token = new.token
  BY <1>1, <1>2, CallMoves
<1>4. Unlocked(admin[b]) \in Row
  BY <1>1, UnlockedOK DEF IInv, RowsOK
<1>5. RowsOK'
  BY <1>1, <1>4 DEF IInv, RowsOK
<1>6. \A a \in Admins : /\ admin'[a].version = admin[a].version
                        /\ admin'[a].era = admin[a].era
                        /\ admin'[a].lock = "none" => \/ admin[a].lock = "none"
                                                        /\ admin'[a].attempts = admin[a].attempts
                                                      \/ admin'[a].attempts = 0
  BY <1>1 DEF IInv, RowsOK, Row, Unlocked
<1>7. Known' \subseteq Known
  BY <1>1, <1>2, <1>3 DEF Known
<1> QED
  BY <1>3, <1>5, <1>6, <1>7, PlainStep

\* A session with a token that is known, or none, and the end of a call.
LEMMA SessionStep ==
  ASSUME IInv, NEW c \in Calls, call[c].kind # "bump", End(c), UNCHANGED admin, RowsOK',
         \A s \in Sessions : session'[s].token \in Known \cup {NoToken},
         access' \subseteq Known
  PROVE  IInv'
<1>0. NoCall \in CallRow /\ NoCall.kind = "idle" /\ NoCall.token = NoToken
  BY NoTokenApart DEF NoCall
<1>1. /\ CallsOK'
      /\ \A a \in Admins : Pending(a)' = Pending(a)
      /\ \A a \in Admins : Counting(a)' \subseteq Counting(a)
      /\ \A d \in Calls : call'[d].token = call[d].token \/ call'[d].token = NoToken
  BY <1>0, CallMoves DEF End
<1>2. Known' \subseteq Known \cup {NoToken}
  BY <1>1 DEF Known
<1> QED
  BY <1>1, <1>2, PlainStep

LEMMA IssueInv ==
  ASSUME IInv, NEW c \in Calls, call[c].kind \in {"enter", "rotate"}, End(c), UNCHANGED admin,
         NEW s \in Sessions, Issue(c, s)
  PROVE  IInv'
<1>1. call[c].token \in Token /\ call[c].token \in Known
  BY DEF IInv, CallsOK, Known
<1>2. /\ issued < MaxTokens
      /\ session' = [session EXCEPT ![s] = [token |-> call[c].token, serial |-> issued + 1]]
      /\ access' = access \cup {call[c].token}
      /\ issued' = issued + 1
  BY DEF Issue, Signed
<1>3. issued + 1 \in 0..MaxTokens
  BY <1>2, Bounds DEF IInv, RowsOK
<1>4. RowsOK'
  BY <1>1, <1>2, <1>3 DEF IInv, RowsOK
<1>5. \A x \in Sessions : session'[x].token \in Known
  BY <1>1, <1>2 DEF IInv, RowsOK, Known
<1>6. access' \subseteq Known
  BY <1>1, <1>2 DEF Known
<1> QED
  BY <1>4, <1>5, <1>6, SessionStep

LEMMA RefreshInv ==
  ASSUME IInv, NEW c \in Calls, NEW s \in Sessions, Refresh(c, s)
  PROVE  IInv'
<1> DEFINE t == session[s].token
           n == session[s].serial
<1>1. /\ t \in Token /\ t \in Known /\ n \in 0..MaxTokens
      /\ call[c].kind = "idle" /\ UNCHANGED <<admin, session, access, issued>>
      /\ call' = [call EXCEPT ![c] = [NoCall EXCEPT !.kind = "refresh", !.session = s,
                    !.admin = t.admin, !.token = t, !.serial = n]]
  BY DEF Refresh, Accepted, IInv, RowsOK, Known
<1> HIDE DEF t, n
<1> DEFINE new == [NoCall EXCEPT !.kind = "refresh", !.session = s, !.admin = t.admin,
                                 !.token = t, !.serial = n]
<1>2. t.admin \in Admins
  BY <1>1 DEF Token
<1>3. /\ new \in CallRow /\ new.kind = "refresh" /\ new.session = s /\ new.admin = t.admin
      /\ new.token = t
  BY <1>1, <1>2, NoTokenApart DEF NoCall, CallRow, Kinds
<1>4. call' = [call EXCEPT ![c] = new]
  BY <1>1
<1> HIDE DEF new
<1> QED
  BY <1>1, <1>2, <1>3, <1>4, CallStep

LEMMA FindSessionInv ==
  ASSUME IInv, NEW c \in Calls, FindSession(c)
  PROVE  IInv'
<1>1. call[c].kind = "refresh" /\ UNCHANGED <<admin, session, access, issued>>
  BY DEF FindSession
<1>2. CASE session[call[c].session].serial = call[c].serial
  <2> DEFINE new == [call[c] EXCEPT !.kind = "rotate"]
  <2>1. /\ call[c] \in CallRow /\ call[c].admin \in Admins /\ call[c].session \in Sessions
        /\ call[c].token \in Token /\ call[c].token \in Known
    BY <1>1 DEF IInv, CallsOK, Known
  <2>2. /\ new \in CallRow /\ new.kind = "rotate" /\ new.admin = call[c].admin
        /\ new.session = call[c].session /\ new.token = call[c].token
    BY <2>1 DEF CallRow, Kinds
  <2>3. call' = [call EXCEPT ![c] = new]
    BY <1>2 DEF FindSession
  <2> HIDE DEF new
  <2> QED
    BY <1>1, <2>1, <2>2, <2>3, CallStep
<1>3. CASE session[call[c].session].serial # call[c].serial
  BY <1>1, <1>3, EndStep DEF FindSession
<1> QED
  BY <1>2, <1>3

LEMMA LogoutInv ==
  ASSUME IInv, NEW s \in Sessions, Logout(s)
  PROVE  IInv'
<1>1. /\ session' = [session EXCEPT ![s] = NoSession]
      /\ UNCHANGED <<admin, access, issued, call>>
  BY DEF Logout
<1>2. RowsOK'
  BY <1>1, Bounds DEF IInv, RowsOK, NoSession
<1>3. CallsOK'
  BY <1>1 DEF IInv, CallsOK
<1>4. \A a \in Admins : Pending(a)' = Pending(a) /\ Counting(a)' \subseteq Counting(a)
  BY <1>1 DEF Pending, Counting
<1>5. Known' \subseteq Known \cup {NoToken}
  BY <1>1 DEF Known, NoSession, IInv, RowsOK
<1> QED
  BY <1>1, <1>2, <1>3, <1>4, <1>5, PlainStep

LEMMA LockExpiresInv ==
  ASSUME IInv, NEW b \in Admins, LockExpires(b)
  PROVE  IInv'
<1>1. /\ admin' = [admin EXCEPT ![b].lock = "expired"]
      /\ UNCHANGED <<session, access, issued, call>>
  BY DEF LockExpires
<1>2. RowsOK'
  BY <1>1 DEF IInv, RowsOK, Row
<1>3. CallsOK'
  BY <1>1 DEF IInv, CallsOK
<1>4. \A a \in Admins : Pending(a)' = Pending(a) /\ Counting(a)' \subseteq Counting(a)
  BY <1>1 DEF Pending, Counting
<1>5. Known' = Known
  BY <1>1 DEF Known
<1>6. \A a \in Admins : /\ admin'[a].version = admin[a].version
                        /\ admin'[a].era = admin[a].era
                        /\ admin'[a].lock = "none" => admin'[a].attempts = admin[a].attempts
                                                      /\ admin[a].lock = "none"
  BY <1>1 DEF IInv, RowsOK, Row
<1> QED
  BY <1>2, <1>3, <1>4, <1>5, <1>6, PlainStep

-----------------------------------------------------------------------------
(* Failures and withdrawals. *)

LEMMA RecordFailureInv ==
  ASSUME IInv, NEW c \in Calls, RecordFailure(c)
  PROVE  IInv'
<1>1. PICK b \in Admins :
      /\ b = call[c].admin
      /\ call[c].kind = "fail" /\ admin[b].attempts < MaxAttempts
      /\ admin' = [admin EXCEPT ![b].attempts = @ + 1,
                                ![b].lock = IF call[c].locks THEN "locked" ELSE @]
      /\ call' = [call EXCEPT ![c] = NoCall]
      /\ UNCHANGED <<session, access, issued>>
  BY DEF RecordFailure, IInv, CallsOK, End
<1>2. admin[b] \in Row /\ admin[b].attempts + 1 \in 0..MaxAttempts
  BY <1>1, Bounds DEF IInv, RowsOK, Row
<1>3. RowsOK'
  BY <1>1, <1>2 DEF IInv, RowsOK, Row
<1>4. call'[c] = NoCall /\ \A d \in Calls \ {c} : call'[d] = call[d]
  BY <1>1 DEF IInv, CallsOK
<1>5. CallsOK'
  BY <1>4, <1>1, NoTokenApart DEF IInv, CallsOK
<1>6. \A a \in Admins : Pending(a)' = Pending(a)
  BY <1>1, <1>4 DEF Pending, NoCall
<1>7. \A a \in Admins : /\ admin'[a].version = admin[a].version
                        /\ admin'[a].era = admin[a].era
  BY <1>1 DEF IInv, RowsOK, Row
<1>8. NoneAhead'
  <2>1. Known' \subseteq Known \cup {NoToken}
    BY <1>1, <1>4 DEF Known, NoCall
  <2>2. \A t \in Known \ {NoToken} : t.admin \in Admins
    BY DEF Known, IInv, RowsOK, CallsOK, CallRow, Token
  <2> QED
    BY <1>6, <1>7, <2>1, <2>2 DEF IInv, NoneAhead, Stale
<1>9. VersionsOK'
  BY <1>6, <1>7 DEF IInv, VersionsOK
<1>10. FailuresOK'
  <2> SUFFICES ASSUME NEW a \in Admins, admin'[a].lock = "none"
               PROVE  admin'[a].attempts + Cardinality(Counting(a)') < LockAfter + Cardinality(Calls)
    BY DEF FailuresOK
  <2>1. CASE a = b
    <3>1. ~ call[c].locks /\ admin[b].lock = "none" /\ admin'[a].attempts = admin[b].attempts + 1
      BY <1>1, <2>1 DEF IInv, RowsOK, Row
    <3>2. c \in Counting(b) /\ Counting(b) \subseteq Calls
      BY <1>1, <3>1 DEF Counting
    <3>3. Counting(b)' = Counting(b) \ {c}
      BY <1>4 DEF Counting, NoCall
    <3> DEFINE n == Cardinality(Counting(b))
               m == Cardinality(Calls)
               k == admin[b].attempts
    <3>4. n \in Nat /\ m \in Nat /\ Cardinality(Counting(b)') = n - 1
      BY <3>2, <3>3, Counts, CountRemove
    <3>5. k + n < LockAfter + m /\ k \in Nat
      BY <1>1, <1>2, <3>1 DEF IInv, FailuresOK, Row
    <3>6. Counting(a)' = Counting(b)'
      BY <2>1 DEF Counting
    <3> HIDE DEF n, m, k
    <3>7. (k + 1) + (n - 1) < LockAfter + m
      BY <3>4, <3>5, Bounds
    <3> QED
      BY <3>1, <3>4, <3>6, <3>7 DEF k, m
  <2>2. CASE a # b
    <3>1. Counting(a)' = Counting(a)
      BY <1>1, <1>4, <2>2 DEF Counting, NoCall
    <3>2. admin'[a] = admin[a]
      BY <1>1, <2>2 DEF IInv, RowsOK
    <3> QED
      BY <3>1, <3>2 DEF IInv, FailuresOK
  <2> QED
    BY <2>1, <2>2
<1> QED
  BY <1>3, <1>5, <1>8, <1>9, <1>10 DEF IInv

\* The first statement of a withdrawal or a reactivation: the version is still to follow.
LEMMA PendingStep ==
  ASSUME IInv, NEW c \in Calls, call[c].kind \in Withdrawals \cup {"reactivate"},
         NEW b, b = call[c].admin, Bounded(b), RowsOK',
         call' = [call EXCEPT ![c].kind = "bump"],
         \A a \in Admins : admin'[a].version = admin[a].version,
         \A a \in Admins \ {b} : admin'[a] = admin[a],
         admin'[b].era >= admin[b].era,
         admin'[b].lock = "none" => admin'[b].attempts = 0 \/ (admin[b].lock = "none"
                                                              /\ admin'[b].attempts = admin[b].attempts),
         Known' \subseteq Known \cup {NoToken}
  PROVE  IInv'
<1>1. /\ call'[c] = [call[c] EXCEPT !.kind = "bump"] /\ \A d \in Calls \ {c} : call'[d] = call[d]
      /\ b \in Admins /\ call[c] \in CallRow /\ call[c].kind \notin {"idle", "bump", "fail"}
  BY DEF IInv, CallsOK, Withdrawals
<1>2. /\ call'[c] \in CallRow /\ call'[c].kind = "bump" /\ call'[c].admin = b
  BY <1>1 DEF CallRow, Kinds
<1>3. CallsOK'
  BY <1>1, <1>2 DEF IInv, CallsOK
<1>4. /\ Pending(b)' = Pending(b) \cup {c} /\ c \notin Pending(b) /\ Pending(b) \subseteq Calls
      /\ \A a \in Admins \ {b} : Pending(a)' = Pending(a)
  BY <1>1, <1>2 DEF Pending
<1>5. \A a \in Admins : Counting(a)' = Counting(a)
  BY <1>1, <1>2 DEF Counting
<1>6. NoneAhead'
  <2> SUFFICES ASSUME NEW t \in Known \ {NoToken} PROVE Stale(t)'
    BY DEF NoneAhead
  <2>1. t \in Token /\ t.admin \in Admins
    BY DEF Known, IInv, RowsOK, CallsOK, CallRow, Token
  <2>2. Stale(t)
    BY DEF IInv, NoneAhead
  <2>3. CASE t.admin = b
    <3>1. t.era \in Nat /\ admin[b].era \in Nat /\ admin'[b].era \in Nat
      BY <1>1, <2>1 DEF IInv, RowsOK, Row, Token
    <3>2. t.version <= admin'[b].version /\ t.era <= admin'[b].era
      BY <1>1, <2>2, <2>3, <3>1 DEF Stale
    <3>3. Pending(b)' # {}
      BY <1>4
    <3> QED
      BY <2>3, <3>2, <3>3 DEF Stale
  <2>4. CASE t.admin # b
    BY <1>4, <2>1, <2>2, <2>4 DEF Stale
  <2> QED
    BY <2>3, <2>4
<1>7. VersionsOK'
  <2>1. Cardinality(Pending(b)') = Cardinality(Pending(b)) + 1 /\ Cardinality(Pending(b)) \in Nat
    BY <1>4, CountAdd, Counts
  <2>2. admin[b].version + Cardinality(Pending(b)) < MaxVersion
    BY DEF Bounded, Pending
  <2>3. admin[b].version \in Nat
    BY <1>1, Bounds DEF IInv, RowsOK, Row
  <2>4. admin'[b].version + Cardinality(Pending(b)') <= MaxVersion
    BY <1>1, <2>1, <2>2, <2>3, Bounds
  <2> QED
    BY <1>4, <2>4 DEF IInv, VersionsOK
<1>8. FailuresOK'
  <2> SUFFICES ASSUME NEW a \in Admins, admin'[a].lock = "none"
               PROVE  admin'[a].attempts + Cardinality(Counting(a)) < LockAfter + Cardinality(Calls)
    BY <1>5 DEF FailuresOK
  <2>1. CASE a = b /\ admin'[b].attempts = 0
    <3>1. Counting(a) \subseteq Calls
      BY DEF Counting
    <3> QED
      BY <2>1, <3>1, Counts, Bounds
  <2>2. CASE ~ (a = b /\ admin'[b].attempts = 0)
    BY <2>2 DEF IInv, FailuresOK
  <2> QED
    BY <2>1, <2>2
<1> QED
  BY <1>3, <1>6, <1>7, <1>8 DEF IInv

LEMMA WithdrawInv ==
  ASSUME IInv, NEW c \in Calls, Withdraw(c)
  PROVE  IInv'
<1> DEFINE b == call[c].admin
           row == IF call[c].kind = "password" THEN Unlocked(admin[b]) ELSE admin[b]
           new == [row EXCEPT !.era = @ + 1, !.active = @ /\ call[c].kind # "deactivate"]
<1>1. /\ call[c].kind \in Withdrawals
      /\ Bounded(b)
      /\ admin' = [admin EXCEPT ![b] = new]
      /\ session' = IF call[c].kind = "logoutAll"
                    THEN [s \in Sessions |-> IF session[s].token.admin = b THEN NoSession ELSE session[s]]
                    ELSE session
      /\ call' = [call EXCEPT ![c].kind = "bump"]
      /\ UNCHANGED <<access, issued>>
  BY DEF Withdraw
<1>2. b \in Admins /\ admin[b] \in Row
  BY <1>1 DEF IInv, CallsOK, RowsOK, Withdrawals
<1>3. /\ row \in Row /\ row.version = admin[b].version /\ row.era = admin[b].era
      /\ \/ row.attempts = 0
         \/ row.attempts = admin[b].attempts /\ row.lock = admin[b].lock
  BY <1>2, UnlockedOK DEF Unlocked, Row
<1> HIDE DEF row
<1>9. row.era \in Nat /\ admin[b].era \in Nat
  BY <1>2, <1>3 DEF Row
<1>4. /\ new \in Row /\ new.version = admin[b].version /\ new.era >= admin[b].era
      /\ \/ new.attempts = 0
         \/ new.attempts = admin[b].attempts /\ new.lock = admin[b].lock
  <2>1. (row.active /\ call[c].kind # "deactivate") \in BOOLEAN /\ row.era + 1 \in Nat
        /\ row.era + 1 >= admin[b].era
    BY <1>3, <1>9
  <2> QED
    BY <1>3, <2>1 DEF Row
<1> HIDE DEF b, new
<1>5. RowsOK'
  <2>1. session' \in [Sessions -> [token : Token \cup {NoToken}, serial : 0..MaxTokens]]
    BY <1>1, Bounds DEF IInv, RowsOK, NoSession
  <2> QED
    BY <1>1, <1>4, <2>1 DEF IInv, RowsOK
<1>6. /\ \A a \in Admins : admin'[a].version = admin[a].version
      /\ \A a \in Admins \ {b} : admin'[a] = admin[a]
      /\ admin'[b].era >= admin[b].era
      /\ admin'[b].lock = "none" => admin'[b].attempts = 0 \/ (admin[b].lock = "none"
                                                              /\ admin'[b].attempts = admin[b].attempts)
  BY <1>1, <1>2, <1>4 DEF IInv, RowsOK
<1>7. Known' \subseteq Known \cup {NoToken}
  <2>1. \A s \in Sessions : session'[s].token \in {session[s].token, NoToken}
    BY <1>1 DEF NoSession
  <2>2. \A d \in Calls : call'[d].token = call[d].token
    BY <1>1 DEF IInv, CallsOK, CallRow
  <2> QED
    BY <1>1, <2>1, <2>2 DEF Known
<1>8. b = call[c].admin
  BY DEF b
<1> QED
  BY <1>1, <1>5, <1>6, <1>7, <1>8, PendingStep

LEMMA ReactivateInv ==
  ASSUME IInv, NEW c \in Calls, Reactivate(c)
  PROVE  IInv'
<1> DEFINE b == call[c].admin
<1>1. /\ call[c].kind = "reactivate"
      /\ Bounded(b)
      /\ admin' = [admin EXCEPT ![b].active = TRUE]
      /\ call' = [call EXCEPT ![c].kind = "bump"]
      /\ UNCHANGED <<session, access, issued>>
  BY DEF Reactivate
<1>2. b \in Admins /\ admin[b] \in Row
  BY <1>1 DEF IInv, CallsOK, RowsOK
<1>3. b = call[c].admin
  OBVIOUS
<1> HIDE DEF b
<1>4. RowsOK'
  BY <1>1, <1>2 DEF IInv, RowsOK, Row
<1>5. /\ \A a \in Admins : admin'[a].version = admin[a].version
      /\ \A a \in Admins \ {b} : admin'[a] = admin[a]
      /\ admin'[b].era >= admin[b].era
      /\ admin'[b].lock = "none" => admin'[b].attempts = 0 \/ (admin[b].lock = "none"
                                                              /\ admin'[b].attempts = admin[b].attempts)
  BY <1>1, <1>2 DEF IInv, RowsOK, Row
<1>6. Known' = Known
  <2>1. \A d \in Calls : call'[d].token = call[d].token
    BY <1>1 DEF IInv, CallsOK, CallRow
  <2> QED
    BY <1>1, <2>1 DEF Known
<1> QED
  BY <1>1, <1>3, <1>4, <1>5, <1>6, PendingStep

LEMMA BumpInv ==
  ASSUME IInv, NEW c \in Calls, Bump(c)
  PROVE  IInv'
<1>1. PICK b \in Admins :
      /\ b = call[c].admin
      /\ call[c].kind = "bump" /\ admin[b] \in Row
      /\ admin' = [admin EXCEPT ![b].version = @ + 1]
      /\ call' = [call EXCEPT ![c] = NoCall]
      /\ UNCHANGED <<session, access, issued>>
  BY DEF Bump, End, IInv, CallsOK, RowsOK
<1>2. c \in Pending(b) /\ Pending(b) \subseteq Calls
  BY <1>1 DEF Pending
<1>3. call'[c] = NoCall /\ \A d \in Calls \ {c} : call'[d] = call[d]
  BY <1>1 DEF IInv, CallsOK
<1>4. /\ Pending(b)' = Pending(b) \ {c}
      /\ \A a \in Admins \ {b} : Pending(a)' = Pending(a)
  BY <1>1, <1>3 DEF Pending, NoCall
<1>5. \A a \in Admins : Counting(a)' = Counting(a)
  BY <1>1, <1>3 DEF Counting, NoCall
<1> DEFINE v == admin[b].version
           n == Cardinality(Pending(b))
<1>6. v \in Nat \ {0} /\ n \in Nat \ {0} /\ v + n <= MaxVersion /\ Cardinality(Pending(b)') = n - 1
  <2>1. n \in Nat /\ Cardinality(Pending(b)') = n - 1 /\ Cardinality(Pending(b)') \in Nat
    <3>1. Pending(b)' \subseteq Calls
      BY DEF Pending
    <3> QED
      BY <1>2, <1>4, <3>1, Counts, CountRemove
  <2>2. v \in Nat \ {0} /\ v + n <= MaxVersion
    BY <1>1, Bounds DEF IInv, VersionsOK, Row
  <2> HIDE DEF v, n
  <2> QED
    BY <2>1, <2>2
<1>7. v + 1 \in 1..MaxVersion /\ (v + 1) + (n - 1) <= MaxVersion
  <2> HIDE DEF v, n
  <2> QED
    BY <1>6, Bounds
<1>8. /\ admin'[b] = [admin[b] EXCEPT !.version = v + 1]
      /\ \A a \in Admins \ {b} : admin'[a] = admin[a]
  BY <1>1 DEF IInv, RowsOK
<1>9. /\ admin'[b] \in Row /\ admin'[b].version = v + 1 /\ admin'[b].era = admin[b].era
      /\ admin'[b].lock = admin[b].lock /\ admin'[b].attempts = admin[b].attempts
  BY <1>1, <1>7, <1>8 DEF Row
<1>10. RowsOK'
  BY <1>1, <1>9 DEF IInv, RowsOK
<1>11. CallsOK'
  BY <1>1, <1>3, NoTokenApart DEF IInv, CallsOK
<1>12. NoneAhead'
  <2>1. Known' \subseteq Known \cup {NoToken}
    BY <1>1, <1>3 DEF Known, NoCall
  <2> SUFFICES ASSUME NEW t \in Known \ {NoToken} PROVE Stale(t)'
    BY <2>1 DEF NoneAhead
  <2>2. t \in Token /\ t.admin \in Admins /\ t.version \in Nat
    BY Bounds DEF Known, IInv, RowsOK, CallsOK, CallRow, Token
  <2>3. Stale(t)
    BY DEF IInv, NoneAhead
  <2>4. CASE t.admin = b
    <3>1. t.version <= v /\ t.era <= admin[b].era
      BY <2>3, <2>4 DEF Stale
    <3>2. t.version <= v + 1 /\ t.version # v + 1
      <4> HIDE DEF v
      <4> QED
        BY <1>6, <2>2, <3>1
    <3> QED
      BY <1>9, <2>4, <3>1, <3>2 DEF Stale
  <2>5. CASE t.admin # b
    BY <1>4, <1>8, <2>2, <2>3, <2>5 DEF Stale
  <2> QED
    BY <2>4, <2>5
<1>13. VersionsOK'
  <2>1. admin'[b].version + Cardinality(Pending(b)') <= MaxVersion
    BY <1>6, <1>7, <1>9
  <2> QED
    BY <1>4, <1>8, <2>1 DEF IInv, VersionsOK
<1>14. FailuresOK'
  BY <1>5, <1>8, <1>9 DEF IInv, FailuresOK
<1> QED
  BY <1>10, <1>11, <1>12, <1>13, <1>14 DEF IInv

-----------------------------------------------------------------------------
LEMMA NextInv == IInv /\ [Next]_vars => IInv'
<1> SUFFICES ASSUME IInv, [Next]_vars PROVE IInv'
  OBVIOUS
<1>1. ASSUME NEW c \in Calls, NEW s \in Sessions, CreateSession(c, s) PROVE IInv'
  BY <1>1, IssueInv DEF CreateSession
<1>2. ASSUME NEW c \in Calls, Rotate(c) PROVE IInv'
  <2>1. call[c].session \in Sessions
    BY <1>2 DEF Rotate, IInv, CallsOK
  <2> QED
    BY <1>2, <2>1, IssueInv DEF Rotate
<1>3. ASSUME NEW c \in Calls, FailRotate(c) PROVE IInv'
  BY <1>3, EndStep DEF FailRotate
<1>4. ASSUME NEW c \in Calls, NEW a \in Admins, NEW kind \in Withdrawals, BeginWithdrawal(c, kind, a)
      PROVE  IInv'
  BY <1>4, BeginStep DEF BeginWithdrawal
<1>5. ASSUME NEW c \in Calls, NEW a \in Admins, BeginDeactivation(c, a) PROVE IInv'
  BY <1>5, BeginStep DEF BeginDeactivation, Withdrawals
<1>6. ASSUME NEW c \in Calls, NEW a \in Admins, BeginReactivation(c, a) PROVE IInv'
  BY <1>6, BeginStep DEF BeginReactivation
<1>7. CASE UNCHANGED vars
  BY <1>7 DEF vars, IInv, RowsOK, CallsOK, NoneAhead, Known, Stale, Pending, VersionsOK,
              FailuresOK, Counting
<1> QED
  BY <1>1, <1>2, <1>3, <1>4, <1>5, <1>6, <1>7, LoginInv, RecordFailureInv, ResetFailuresInv,
     RefreshInv, FindSessionInv, WithdrawInv, ReactivateInv, BumpInv, LockExpiresInv, LogoutInv
  DEF Next

\* The inductive invariant holds in every reachable state.
THEOREM Invariance == Spec => []IInv
BY InitInv, NextInv, PTL DEF Spec

\* Every row, token and call keeps its type, and no token is ahead of its account.
THEOREM TypeCorrect == Spec => []TypeOK
<1>1. IInv => TypeOK
  <2> SUFFICES ASSUME IInv PROVE TypeOK
    OBVIOUS
  <2>1. \A t \in access : t.version <= admin[t.admin].version /\ t.era <= admin[t.admin].era
    BY NoTokenApart DEF IInv, RowsOK, NoneAhead, Known, Stale
  <2> QED
    BY <2>1 DEF IInv, RowsOK, CallsOK, CallRow, TypeOK
<1> QED
  BY <1>1, Invariance, PTL

\* Access that was withdrawn stays withdrawn (login, refresh, deactivateAdmin, changePassword,
\* rotateAdminTotp, logoutAll and the version that admin-jwt.strategy compares).
THEOREM WithdrawnAccessStaysOut == Spec => []WithdrawnStaysOut
<1>1. IInv => WithdrawnStaysOut
  BY DEF IInv, NoneAhead, Known, Stale, Pending, WithdrawnStaysOut, Accepted
<1> QED
  BY <1>1, Invariance, PTL

\* Logins that fail together pass the lockout by at most the calls in progress (recordFailedLogin).
THEOREM LockoutBounded == Spec => []LockoutIsBounded
<1>1. IInv => LockoutIsBounded
  <2> SUFFICES ASSUME IInv, NEW a \in Admins, admin[a].lock = "none"
               PROVE  ~ (admin[a].attempts >= LockAfter + Cardinality(Calls))
    BY DEF LockoutIsBounded
  <2> DEFINE n == Cardinality(Counting(a))
             m == Cardinality(Calls)
             k == admin[a].attempts
  <2>1. n \in Nat /\ m \in Nat
    <3>1. Counting(a) \subseteq Calls
      BY DEF Counting
    <3> QED
      BY <3>1, Counts
  <2>2. k \in Nat /\ k + n < LockAfter + m
    BY Bounds DEF IInv, RowsOK, Row, FailuresOK
  <2> HIDE DEF n, m, k
  <2>3. ~ (k >= LockAfter + m)
    BY <2>1, <2>2, Bounds
  <2> QED
    BY <2>3 DEF m, k
<1> QED
  BY <1>1, Invariance, PTL
=============================================================================
