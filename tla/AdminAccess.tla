---------------------------- MODULE AdminAccess ----------------------------
(***************************************************************************)
(* The administrators' accounts and what gives access to them: login with  *)
(* its lockout, refresh, logout, and everything that withdraws access -    *)
(* a new password, a new TOTP secret, deactivation, logging out everywhere *)
(* (admin.service, admin-jwt.strategy).                                    *)
(*                                                                         *)
(* Nothing here runs in a transaction: every statement is a step.  Access  *)
(* is withdrawn in two of them, first the account (or its sessions), then  *)
(* sessionVersion, which every token carries.  A server that stops between *)
(* the two is a call that takes no further step.                           *)
(***************************************************************************)
EXTENDS Integers, FiniteSets

CONSTANTS Admins,       \* the accounts
          SuperAdmins,  \* those of role SUPER_ADMIN
          Others,       \* how many more active super admins there are
          Sessions,     \* ids of AdminSession rows
          Calls,        \* calls that can be in progress at once
          LockAfter,    \* failed logins that lock an account: 5 in the code
          MaxVersion,   \* bound on sessionVersion
          MaxTokens,    \* bound on the refresh tokens issued
          None          \* no account

ASSUME LockAssumption == LockAfter \in Nat \ {0}
ASSUME BoundsAssumption == MaxVersion \in Nat \ {0} /\ MaxTokens \in Nat
ASSUME RolesAssumption == SuperAdmins \subseteq Admins /\ IsFiniteSet(Admins) /\ Others \in Nat
ASSUME NoneAssumption == None \notin Admins \cup Sessions
ASSUME CallsAssumption == IsFiniteSet(Calls)

VARIABLES admin,    \* the Admin rows; era counts how often access was withdrawn
          session,  \* the AdminSession rows: what the refresh token says, and which one it is
          access,   \* what the access tokens that were issued say
          issued,   \* the number of refresh tokens issued
          call      \* the progress of each call

vars == <<admin, session, access, issued, call>>

MaxAttempts == LockAfter + Cardinality(Calls) + 1

Row == [active : BOOLEAN, version : 1..MaxVersion, era : Nat,
        attempts : 0..MaxAttempts, lock : {"none", "locked", "expired"}]
Token == [admin : Admins, version : 1..MaxVersion, era : Nat]
Withdrawals == {"password", "totp", "deactivate", "logoutAll"}
Kinds == {"login", "reset", "enter", "fail", "refresh", "rotate", "logout", "reactivate", "bump"}
         \cup Withdrawals

NewRow == [active |-> TRUE, version |-> 1, era |-> 0, attempts |-> 0, lock |-> "none"]
NoToken == [admin |-> None, version |-> 1, era |-> 0]
NoSession == [token |-> NoToken, serial |-> 0]
\* locks: whether a failure will lock the account; token: what a login or a refresh will sign;
\* serial: the refresh token that was given; session: its session.
NoCall == [kind |-> "idle", admin |-> None, locks |-> FALSE, token |-> NoToken, serial |-> 0,
           session |-> None]

Init ==
  /\ admin = [a \in Admins |-> NewRow]
  /\ session = [s \in Sessions |-> NoSession]
  /\ access = {}
  /\ issued = 0
  /\ call = [c \in Calls |-> NoCall]

-----------------------------------------------------------------------------
(* Calls and tokens. *)

End(c) == call' = [call EXCEPT ![c] = NoCall]

Begin(c, kind, a) ==
  /\ call[c].kind = "idle"
  /\ call' = [call EXCEPT ![c] = [NoCall EXCEPT !.kind = kind, !.admin = a]]

TokenFor(a) == [admin |-> a, version |-> admin[a].version, era |-> admin[a].era]

\* admin-jwt.strategy, and the same test in refresh.
Accepted(t) == t # NoToken /\ admin[t.admin].active /\ t.version = admin[t.admin].version

-----------------------------------------------------------------------------
(* login. *)

\* (bug) only the very failure that makes it enough locks
LocksOnce(row) == row.attempts + 1 = LockAfter

Locks(row) == row.attempts + 1 >= LockAfter

\* The account is read once: an active one that is not locked goes on.
Login(c, a, right) ==
  /\ admin[a].active /\ admin[a].lock # "locked"
  /\ call[c].kind = "idle"
  /\ call' = [call EXCEPT ![c] =
       IF right THEN [NoCall EXCEPT !.kind = "reset", !.admin = a, !.token = TokenFor(a)]
                ELSE [NoCall EXCEPT !.kind = "fail", !.admin = a, !.locks = Locks(admin[a])]]
  /\ UNCHANGED <<admin, session, access, issued>>

\* recordFailedLogin counts in the database, whether to lock was decided on what was read.
RecordFailure(c) ==
  LET a == call[c].admin
  IN  /\ call[c].kind = "fail"
      /\ admin[a].attempts < MaxAttempts
      /\ admin' = [admin EXCEPT ![a].attempts = @ + 1,
                                ![a].lock = IF call[c].locks THEN "locked" ELSE @]
      /\ End(c)
      /\ UNCHANGED <<session, access, issued>>

Unlocked(row) == [row EXCEPT !.attempts = 0, !.lock = "none"]

ResetFailures(c) ==
  /\ call[c].kind = "reset"
  /\ admin' = [admin EXCEPT ![call[c].admin] = Unlocked(@)]
  /\ call' = [call EXCEPT ![c].kind = "enter"]
  /\ UNCHANGED <<session, access, issued>>

\* (bug) the version is read again when the tokens are signed
SignedNow(c) == [call[c].token EXCEPT !.version = admin[call[c].admin].version]

\* The tokens carry the version that was read at the start.
Signed(c) == call[c].token

Issue(c, s) ==
  /\ issued < MaxTokens
  /\ session' = [session EXCEPT ![s] = [token |-> Signed(c), serial |-> issued + 1]]
  /\ access' = access \cup {Signed(c)}
  /\ issued' = issued + 1

\* The id is new: it can be one that was deleted as long as no call knows that.
CreateSession(c, s) ==
  /\ call[c].kind = "enter"
  /\ session[s] = NoSession /\ \A d \in Calls : call[d].session # s
  /\ Issue(c, s)
  /\ End(c)
  /\ UNCHANGED admin

LockExpires(a) ==
  /\ admin[a].lock = "locked"
  /\ admin' = [admin EXCEPT ![a].lock = "expired"]
  /\ UNCHANGED <<session, access, issued, call>>

-----------------------------------------------------------------------------
(* refresh and logout. *)

\* The account is read, then the session by the token.
Refresh(c, s) ==
  /\ Accepted(session[s].token)
  /\ call[c].kind = "idle"
  /\ call' = [call EXCEPT ![c] = [NoCall EXCEPT !.kind = "refresh", !.session = s,
                !.admin = session[s].token.admin, !.token = session[s].token,
                !.serial = session[s].serial]]
  /\ UNCHANGED <<admin, session, access, issued>>

FindSession(c) ==
  /\ call[c].kind = "refresh"
  /\ IF session[call[c].session].serial = call[c].serial
     THEN call' = [call EXCEPT ![c].kind = "rotate"]
     ELSE End(c)
  /\ UNCHANGED <<admin, session, access, issued>>

\* The update by id: of two refreshes that found the same session the later one wins, and
\* one for a session that was deleted fails.
Rotate(c) ==
  /\ call[c].kind = "rotate"
  /\ session[call[c].session] # NoSession
  /\ Issue(c, call[c].session)
  /\ End(c)
  /\ UNCHANGED admin

FailRotate(c) ==
  /\ call[c].kind = "rotate"
  /\ session[call[c].session] = NoSession
  /\ End(c)
  /\ UNCHANGED <<admin, session, access, issued>>

Logout(s) ==
  /\ session[s] # NoSession
  /\ session' = [session EXCEPT ![s] = NoSession]
  /\ UNCHANGED <<admin, access, issued, call>>

-----------------------------------------------------------------------------
(* Withdrawing access. *)

ActiveSuperAdmins == {a \in SuperAdmins : admin[a].active}

\* changePassword, rotateOwn2fa, logoutAll for the caller's account; rotateAdminTotp.
BeginWithdrawal(c, kind, a) ==
  /\ kind \in Withdrawals \ {"deactivate"}
  /\ kind = "totp" \/ admin[a].active
  /\ Begin(c, kind, a)
  /\ UNCHANGED <<admin, session, access, issued>>

\* The target is read, then the active super admins are counted.
BeginDeactivation(c, a) ==
  /\ Others > 0 \/ ActiveSuperAdmins \ {a} # {}
  /\ admin[a].active
  /\ a \in SuperAdmins => Cardinality(ActiveSuperAdmins) + Others > 1
  /\ Begin(c, "deactivate", a)
  /\ UNCHANGED <<admin, session, access, issued>>

Bounded(a) ==
  admin[a].version + Cardinality({c \in Calls : call[c].kind = "bump" /\ call[c].admin = a}) < MaxVersion

\* The first statement.  A new password also unlocks; sessions are only deleted by logoutAll.
Withdraw(c) ==
  LET a == call[c].admin
      row == IF call[c].kind = "password" THEN Unlocked(admin[a]) ELSE admin[a]
  IN  /\ call[c].kind \in Withdrawals
      /\ Bounded(a)
      /\ admin' = [admin EXCEPT ![a] = [row EXCEPT !.era = @ + 1,
                                                  !.active = @ /\ call[c].kind # "deactivate"]]
      /\ session' = IF call[c].kind = "logoutAll"
                    THEN [s \in Sessions |-> IF session[s].token.admin = a THEN NoSession ELSE session[s]]
                    ELSE session
      /\ call' = [call EXCEPT ![c].kind = "bump"]
      /\ UNCHANGED <<access, issued>>

BeginReactivation(c, a) ==
  /\ Others > 0 \/ ActiveSuperAdmins # {}
  /\ ~ admin[a].active
  /\ Begin(c, "reactivate", a)
  /\ UNCHANGED <<admin, session, access, issued>>

\* (bug) the version starts over
ReactivateAfresh(c) ==
  LET a == call[c].admin
  IN  /\ call[c].kind = "reactivate"
      /\ Bounded(a)
      /\ admin' = [admin EXCEPT ![a].active = TRUE, ![a].version = 1]
      /\ call' = [call EXCEPT ![c].kind = "bump"]
      /\ UNCHANGED <<session, access, issued>>

Reactivate(c) ==
  LET a == call[c].admin
  IN  /\ call[c].kind = "reactivate"
      /\ Bounded(a)
      /\ admin' = [admin EXCEPT ![a].active = TRUE]
      /\ call' = [call EXCEPT ![c].kind = "bump"]
      /\ UNCHANGED <<session, access, issued>>

\* incrementSessionVersion
Bump(c) ==
  /\ call[c].kind = "bump"
  /\ admin' = [admin EXCEPT ![call[c].admin].version = @ + 1]
  /\ End(c)
  /\ UNCHANGED <<session, access, issued>>

-----------------------------------------------------------------------------
Next ==
  \/ \E c \in Calls :
       \/ \E a \in Admins, right \in BOOLEAN : Login(c, a, right)
       \/ RecordFailure(c) \/ ResetFailures(c)
       \/ \E s \in Sessions : CreateSession(c, s) \/ Refresh(c, s)
       \/ FindSession(c) \/ Rotate(c) \/ FailRotate(c)
       \/ \E a \in Admins, kind \in Withdrawals : BeginWithdrawal(c, kind, a)
       \/ \E a \in Admins : BeginDeactivation(c, a) \/ BeginReactivation(c, a)
       \/ Withdraw(c) \/ Reactivate(c) \/ Bump(c)
  \/ \E a \in Admins : LockExpires(a)
  \/ \E s \in Sessions : Logout(s)

Spec == Init /\ [][Next]_vars

-----------------------------------------------------------------------------
(* Properties. *)

TypeOK ==
  /\ admin \in [Admins -> Row]
  /\ session \in [Sessions -> [token : Token \cup {NoToken}, serial : 0..MaxTokens]]
  /\ access \in SUBSET Token
  /\ \A t \in access : t.version <= admin[t.admin].version /\ t.era <= admin[t.admin].era
  /\ \A c \in Calls : call[c].kind \in Kinds \cup {"idle"}

\* Nothing that was issued before access was withdrawn is accepted afterwards - no access token,
\* no refresh token, nor what a login or a refresh that had read the account earlier issues
\* later - also after a reactivation, except while the version has still to follow.
WithdrawnStaysOut ==
  \A t \in access \cup {session[s].token : s \in Sessions} :
    Accepted(t) =>
      \/ t.era = admin[t.admin].era
      \/ \E c \in Calls : call[c].kind = "bump" /\ call[c].admin = t.admin

\* However many logins fail at the same time, each having read the count before the others
\* raised it, they cannot pass LockAfter by more than the calls in progress without a lock.
LockoutIsBounded ==
  \A a \in Admins : admin[a].attempts >= LockAfter + Cardinality(Calls) => admin[a].lock # "none"
=============================================================================
