------------------------- MODULE VerificationProofs -------------------------
(***************************************************************************)
(* Proofs about module Verification, for any number of users, officers'    *)
(* calls and faces: what makes an approval's clean-up safe without a       *)
(* transaction over the database and the collection of faces.              *)
(***************************************************************************)
EXTENDS Verification, TLAPS

\* What a call carries.
CallOK(k) ==
  /\ k.kind \in {"submit", "save"} => k.nin # None /\ k.selfie # None
  /\ k.kind \in {"save", "approve", "index", "reject", "verifyNin", "failNin"} =>
       identity[k.user].status # "NONE"
  /\ k.kind = "index" => k.selfie \in People /\ k.faceId = None
  /\ k.kind \in {"approve", "discard"} => k.faceId \in FaceIds /\ k.faceId # k.previous
  /\ k.kind = "replace" => k.previous \in FaceIds
  /\ k.kind \in {"idle", "submit", "save", "reject", "verifyNin", "failNin", "discard"} =>
       k.previous = None
  /\ "nin" \in k.checks => k.kind \in {"submit", "save"}
  /\ k.checks # {} => k.kind \in {"submit", "save", "index"}

\* A face that is indexed and in no row yet.
Fresh(k) ==
  k.kind \in {"approve", "discard"} =>
    face[k.faceId] \in People /\ \A u \in Users : identity[u].faceId # k.faceId

\* The face an approval will replace is the user's, or nobody's any more.
Replaced(k) ==
  k.previous # None =>
    /\ face[k.previous] # "new"
    /\ \A u \in Users : identity[u].faceId = k.previous => u = k.user /\ k.kind # "replace"

\* No call is to write, or to throw away, a face another one has indexed or will replace.
Apart(k, l) ==
  k.kind \in {"approve", "discard"} =>
    /\ l.kind \in {"approve", "discard"} => k.faceId # l.faceId
    /\ k.faceId # l.previous

OneFaceEach ==
  \A u, v \in Users : u # v /\ identity[u].faceId # None => identity[u].faceId # identity[v].faceId

IInv ==
  /\ TypeOK /\ FacesAreKept /\ OneFaceEach /\ OneAccountPerNin
  /\ \A c \in Calls : CallOK(call[c]) /\ Fresh(call[c]) /\ Replaced(call[c])
  /\ \A c, d \in Calls : c # d => Apart(call[c], call[d])

LEMMA InitInv == Init => IInv
<1> SUFFICES ASSUME Init PROVE IInv
  OBVIOUS
<1>1. TypeOK
  BY DEF Init, TypeOK, NoRow, Row
<1>2. FacesAreKept /\ OneFaceEach /\ OneAccountPerNin
  BY DEF Init, NoRow, FacesAreKept, OneFaceEach, OneAccountPerNin
<1>3. \A c \in Calls : CallOK(call[c]) /\ Fresh(call[c]) /\ Replaced(call[c])
  BY DEF Init, NoCall, CallOK, Fresh, Replaced
<1>4. \A c, d \in Calls : Apart(call[c], call[d])
  BY DEF Init, NoCall, Apart
<1> QED
  BY <1>1, <1>2, <1>3, <1>4 DEF IInv

-----------------------------------------------------------------------------
(* Steps. *)

LEMMA CallType ==
  ASSUME IInv, NEW c \in Calls
  PROVE  /\ call[c] \in Call \cup {NoCall}
         /\ call[c].kind # "idle" => call[c] \in Call /\ call[c].user \in Users
         /\ CallOK(call[c]) /\ Fresh(call[c]) /\ Replaced(call[c])
<1>1. call[c] \in Call \cup {NoCall}
  BY DEF IInv, TypeOK
<1>2. call[c].kind # "idle" => call[c] \in Call /\ call[c].user \in Users
  BY <1>1 DEF NoCall, Call
<1> QED
  BY <1>1, <1>2 DEF IInv

\* A step of one call.
LEMMA MoveInv ==
  ASSUME IInv, NEW c \in Calls, NEW new \in Call \cup {NoCall}, call' = [call EXCEPT ![c] = new],
         (TypeOK' <=> call' \in [Calls -> Call \cup {NoCall}]),
         FacesAreKept', OneFaceEach', OneAccountPerNin',
         CallOK(new)' /\ Fresh(new)' /\ Replaced(new)',
         \A k \in Call \cup {NoCall} : (\E d \in Calls \ {c} : k = call[d]) =>
           CallOK(k)' /\ Fresh(k)' /\ Replaced(k)',
         \A d \in Calls \ {c} : Apart(new, call[d]) /\ Apart(call[d], new)
  PROVE  IInv'
<1>1. call'[c] = new /\ \A d \in Calls \ {c} : call'[d] = call[d]
  BY DEF IInv, TypeOK
<1>2. call' \in [Calls -> Call \cup {NoCall}]
  BY DEF IInv, TypeOK
<1>3. ASSUME NEW d \in Calls PROVE CallOK(call[d])' /\ Fresh(call[d])' /\ Replaced(call[d])'
  <2>1. CASE d = c
    BY <1>1, <2>1
  <2>2. CASE d # c
    <3>1. PICK k \in Call \cup {NoCall} : k = call[d]
      BY CallType
    <3>2. CallOK(k)' /\ Fresh(k)' /\ Replaced(k)' /\ call'[d] = k
      BY <1>1, <2>2, <3>1
    <3> QED
      BY <3>2
  <2> QED
    BY <2>1, <2>2
<1>4. \A d, e \in Calls : d # e => Apart(call'[d], call'[e])
  BY <1>1 DEF IInv
<1>5. (\A d, e \in Calls : d # e => Apart(call[d], call[e]))'
  BY <1>4 DEF Apart
<1> QED
  BY <1>2, <1>3, <1>5 DEF IInv

\* Only the call changes, or the row's data or status.
LEMMA RowsStep ==
  ASSUME IInv, NEW c \in Calls, NEW new \in Call \cup {NoCall}, call' = [call EXCEPT ![c] = new],
         UNCHANGED <<reverify, face>>,
         identity' \in [Users -> Row],
         \A u \in Users : /\ identity'[u].faceId = identity[u].faceId
                          /\ identity[u].status # "NONE" => identity'[u].status # "NONE"
                          /\ identity'[u].status # "NONE" =>
                               identity'[u].nin # None /\ identity'[u].selfie # None,
         OneAccountPerNin',
         CallOK(new)', Fresh(new), Replaced(new),
         \A d \in Calls \ {c} : Apart(new, call[d]) /\ Apart(call[d], new)
  PROVE  IInv'
<1>1. FacesAreKept' /\ OneFaceEach'
  BY DEF IInv, FacesAreKept, OneFaceEach
<1>2. TypeOK' <=> call' \in [Calls -> Call \cup {NoCall}]
  BY DEF IInv, TypeOK
<1>3. \A k \in Call \cup {NoCall} : Fresh(k) => Fresh(k)'
  BY DEF Fresh
<1>4. \A k \in Call \cup {NoCall} : Replaced(k) => Replaced(k)'
  BY DEF Replaced
<1>5. \A k \in Call \cup {NoCall} : CallOK(k) => CallOK(k)'
  <2> SUFFICES ASSUME NEW k \in Call \cup {NoCall}, CallOK(k) PROVE CallOK(k)'
    OBVIOUS
  <2>1. k.kind # "idle" => k.user \in Users
    BY DEF Call, NoCall
  <2> QED
    BY <2>1 DEF CallOK
<1>6. \A k \in Call \cup {NoCall} : (\E d \in Calls \ {c} : k = call[d]) =>
        CallOK(k)' /\ Fresh(k)' /\ Replaced(k)'
  BY <1>3, <1>4, <1>5 DEF IInv
<1> QED
  BY <1>1, <1>2, <1>3, <1>4, <1>6, MoveInv

\* No row changes.
LEMMA ReadStep ==
  ASSUME IInv, NEW c \in Calls, NEW new \in Call \cup {NoCall}, call' = [call EXCEPT ![c] = new],
         UNCHANGED <<identity, reverify, face>>,
         CallOK(new), Fresh(new), Replaced(new),
         \A d \in Calls \ {c} : Apart(new, call[d]) /\ Apart(call[d], new)
  PROVE  IInv'
<1>1. /\ identity' \in [Users -> Row]
      /\ \A u \in Users : /\ identity'[u].faceId = identity[u].faceId
                          /\ identity[u].status # "NONE" => identity'[u].status # "NONE"
                          /\ identity'[u].status # "NONE" =>
                               identity'[u].nin # None /\ identity'[u].selfie # None
  BY DEF IInv, TypeOK
<1>2. OneAccountPerNin' /\ CallOK(new)'
  BY DEF IInv, OneAccountPerNin, CallOK
<1> QED
  BY <1>1, <1>2, RowsStep

\* A call that names no face, or the faces it named before, is apart from the others.
LEMMA SameFaces ==
  ASSUME IInv, NEW c \in Calls, NEW new,
         new.kind \in {"approve", "discard"} =>
           call[c].kind \in {"approve", "discard"} /\ new.faceId = call[c].faceId,
         new.previous = None \/ new.previous = call[c].previous,
         CallOK(new)
  PROVE  \A d \in Calls \ {c} : Apart(new, call[d]) /\ Apart(call[d], new)
BY NoneAssumption DEF IInv, Apart, CallOK

\* A step of a call that touches no row and names no new face.
LEMMA Quiet ==
  ASSUME IInv, NEW c \in Calls, NEW new \in Call \cup {NoCall}, call' = [call EXCEPT ![c] = new],
         UNCHANGED <<identity, reverify, face>>,
         CallOK(new),
         new.kind \in {"approve", "discard"} =>
           call[c].kind \in {"approve", "discard"} /\ new.faceId = call[c].faceId,
         \/ new.previous = None
         \/ new.previous = call[c].previous /\ new.user = call[c].user /\ new.kind # "replace"
  PROVE  IInv'
<1>1. Fresh(new) /\ Replaced(new)
  BY CallType DEF Fresh, Replaced
<1>2. \A d \in Calls \ {c} : Apart(new, call[d]) /\ Apart(call[d], new)
  BY SameFaces
<1> QED
  BY <1>1, <1>2, ReadStep

\* A call that gives up.
LEMMA EndStep ==
  ASSUME IInv, NEW c \in Calls, End(c), UNCHANGED <<identity, reverify, face>>
  PROVE  IInv'
<1>1. NoCall \in Call \cup {NoCall} /\ CallOK(NoCall) /\ NoCall.kind = "idle" /\ NoCall.previous = None
  BY DEF NoCall, CallOK
<1> QED
  BY <1>1, Quiet DEF End

\* What a submission leaves out, the row it read has.
LEMMA SubmitInv ==
  ASSUME IInv, NEW c \in Calls, NEW u \in Users, NEW nin \in Nins \cup {None},
         NEW selfie \in People \cup {None}, Submit(c, u, nin, selfie)
  PROVE  IInv'
<1> DEFINE new == [NoCall EXCEPT !.kind = IF identity[u].status = "NONE" THEN "submit" ELSE "save",
                             !.user = u,
                             !.nin = IF nin = None THEN identity[u].nin ELSE nin,
                             !.selfie = IF selfie = None THEN identity[u].selfie ELSE selfie,
                             !.checks = {"nin"} \cup IF selfie = None THEN {} ELSE {"search"}]
<1>1. /\ identity[u] \in Row
      /\ identity[u].status # "NONE" => identity[u].nin # None /\ identity[u].selfie # None
  BY DEF IInv, TypeOK
<1>2. new.nin \in Nins \cup {None} /\ new.selfie \in People \cup {None}
  BY <1>1 DEF NoCall, Row
<1>3. /\ new.kind = IF identity[u].status = "NONE" THEN "submit" ELSE "save"
      /\ new.user = u /\ new.checks \in SUBSET {"nin", "search"} /\ new.reupload = {}
      /\ new.match = None /\ new.faceId = None /\ new.previous = None
  BY DEF NoCall
<1>4. new.kind \in {"submit", "save"}
  BY <1>3
<1>5. new \in Call
  BY <1>2, <1>3, <1>4 DEF Call, Kinds, NoCall
<1>6. new.nin # None /\ new.selfie # None
  BY <1>1, Zenon DEF Submit, Brings, Fields, NoCall
<1>7. CallOK(new)
  BY <1>3, <1>4, <1>6 DEF CallOK
<1>8. call' = [call EXCEPT ![c] = new] /\ UNCHANGED <<identity, reverify, face>>
  BY DEF Submit, Begin
<1> HIDE DEF new
<1> QED
  BY <1>3, <1>4, <1>5, <1>7, <1>8, Quiet

LEMMA LookInv ==
  ASSUME IInv, NEW c \in Calls, Search(c) \/ FindOwner(c) \/ CheckNin(c)
  PROVE  IInv'
<1> DEFINE k == call[c]
<1>1. k.checks # {} /\ UNCHANGED <<identity, reverify, face>>
  BY DEF Search, FindOwner, CheckNin
<1>2. k \in Call /\ CallOK(k)
  BY <1>1, CallType DEF NoCall
<1>3. ASSUME NEW m \in FaceIds \cup {None}, NEW checks \in SUBSET {"nin", "search", "owner"},
             "nin" \in checks => "nin" \in k.checks,
             call' = [call EXCEPT ![c] = [k EXCEPT !.match = m, !.checks = checks]]
      PROVE  IInv'
  <2> DEFINE new == [k EXCEPT !.match = m, !.checks = checks]
  <2>1. /\ new \in Call /\ new.kind = k.kind /\ new.user = k.user /\ new.nin = k.nin
        /\ new.selfie = k.selfie /\ new.faceId = k.faceId /\ new.previous = k.previous
        /\ new.checks = checks
    BY <1>2, <1>3 DEF Call
  <2>2. CallOK(new)
    BY <1>1, <1>2, <1>3, <2>1 DEF CallOK
  <2>3. new.previous = None \/ new.kind # "replace"
    BY <1>1, <2>1, <1>2 DEF CallOK
  <2> HIDE DEF new
  <2>4. call' = [call EXCEPT ![c] = new]
    BY <1>3 DEF new
  <2> QED
    BY <1>1, <2>1, <2>2, <2>3, <2>4, Quiet
<1>4. CASE Search(c)
  <2>1. k.match \in FaceIds \cup {None} /\ k.checks \in SUBSET {"nin", "search", "owner"}
    BY <1>2 DEF Call
  <2>2. CASE \E i \in FaceIds :
               call' = [call EXCEPT ![c].match = i, ![c].checks = (@ \ {"search"}) \cup {"owner"}]
    <3>1. PICK i \in FaceIds :
            call' = [call EXCEPT ![c] = [k EXCEPT !.match = i,
                                                  !.checks = (k.checks \ {"search"}) \cup {"owner"}]]
      BY <2>2
    <3>2. PICK checks \in SUBSET {"nin", "search", "owner"} : checks = (k.checks \ {"search"}) \cup {"owner"}
      BY <2>1
    <3>3. "nin" \in checks => "nin" \in k.checks
      BY <3>2
    <3>4. call' = [call EXCEPT ![c] = [k EXCEPT !.match = i, !.checks = checks]]
      BY <3>1, <3>2
    <3> QED
      BY <3>3, <3>4, <1>3
  <2>3. CASE call' = [call EXCEPT ![c].checks = @ \ {"search"}]
    <3>1. call' = [call EXCEPT ![c] = [k EXCEPT !.match = k.match, !.checks = k.checks \ {"search"}]]
      BY <1>2, <2>3 DEF Call
    <3>2. k.checks \ {"search"} \in SUBSET {"nin", "search", "owner"}
      BY <2>1
    <3> QED
      BY <2>1, <3>1, <3>2, <1>3
  <2> QED
    BY <1>4, <2>2, <2>3 DEF Search
<1>5. CASE FindOwner(c)
  <2>1. CASE End(c)
    BY <1>1, <2>1, EndStep
  <2>2. CASE call' = [call EXCEPT ![c].checks = @ \ {"owner"}, ![c].match = None]
    <3>1. call' = [call EXCEPT ![c] = [k EXCEPT !.match = None, !.checks = k.checks \ {"owner"}]]
      BY <2>2
    <3>2. k.checks \ {"owner"} \in SUBSET {"nin", "search", "owner"}
      BY <1>2 DEF Call
    <3> QED
      BY <3>1, <3>2, <1>3
  <2> QED
    BY <1>5, <2>1, <2>2 DEF FindOwner
<1>6. CASE CheckNin(c)
  <2>1. CASE End(c)
    BY <1>1, <2>1, EndStep
  <2>2. CASE call' = [call EXCEPT ![c].checks = @ \ {"nin"}]
    <3>1. k.match \in FaceIds \cup {None} /\ k.checks \ {"nin"} \in SUBSET {"nin", "search", "owner"}
      BY <1>2 DEF Call
    <3>2. call' = [call EXCEPT ![c] = [k EXCEPT !.match = k.match, !.checks = k.checks \ {"nin"}]]
      BY <1>2, <2>2 DEF Call
    <3> QED
      BY <3>1, <3>2, <1>3
  <2> QED
    BY <1>6, <2>1, <2>2 DEF CheckNin
<1> QED
  BY <1>4, <1>5, <1>6

\* The unique column decides last, whatever was looked up before.
LEMMA SaveInv ==
  ASSUME IInv, NEW c \in Calls, Save(c)
  PROVE  IInv'
<1> DEFINE u == call[c].user
           row == [identity[u] EXCEPT !.status = "PENDING", !.reupload = {},
                                      !.nin = call[c].nin, !.selfie = call[c].selfie]
<1>1. call[c] \in Call /\ u \in Users /\ call[c].nin # None /\ call[c].selfie # None
  BY CallType DEF Save, NoCall, CallOK
<1>2. identity \in [Users -> Row] /\ identity[u] \in Row /\ End(c) /\ UNCHANGED <<reverify, face>>
  BY <1>1 DEF IInv, TypeOK, Save
<1>3. CASE ~Unique(c)
  BY <1>2, <1>3, EndStep DEF Save
<1>4. CASE Unique(c)
  <2>1. identity' = [identity EXCEPT ![u] = row]
    BY <1>2, <1>4 DEF Save, Row
  <2>2. /\ row \in Row /\ row.faceId = identity[u].faceId /\ row.status = "PENDING"
        /\ row.nin = call[c].nin /\ row.selfie = call[c].selfie
    BY <1>1, <1>2 DEF Row, Call
  <2> HIDE DEF row, u
  <2>3. /\ identity' \in [Users -> Row] /\ identity'[u] = row
        /\ \A v \in Users \ {u} : identity'[v] = identity[v]
    BY <1>1, <1>2, <2>1, <2>2
  <2>4. \A v \in Users : /\ identity'[v].faceId = identity[v].faceId
                         /\ identity[v].status # "NONE" => identity'[v].status # "NONE"
                         /\ identity'[v].status # "NONE" =>
                              identity'[v].nin # None /\ identity'[v].selfie # None
    BY <1>1, <2>2, <2>3 DEF IInv, TypeOK
  <2>5. OneAccountPerNin'
    <3>1. \A v \in Users \ {u} : identity[v].nin # row.nin
      BY <1>4, <2>2 DEF Unique, NinFree, u
    <3> QED
      BY <2>3, <3>1, <2>2, <1>1 DEF IInv, OneAccountPerNin
  <2>6. /\ NoCall \in Call \cup {NoCall} /\ CallOK(NoCall)' /\ Fresh(NoCall) /\ Replaced(NoCall)
        /\ call' = [call EXCEPT ![c] = NoCall]
    BY <1>2 DEF NoCall, CallOK, Fresh, Replaced, End
  <2>7. \A d \in Calls \ {c} : Apart(NoCall, call[d]) /\ Apart(call[d], NoCall)
    <3>1. NoCall.kind = "idle" /\ NoCall.previous = None /\ CallOK(NoCall)
      BY DEF NoCall, CallOK
    <3> QED
      BY <3>1, SameFaces
  <2> QED
    BY <1>2, <2>3, <2>4, <2>5, <2>6, <2>7, RowsStep
<1> QED
  BY <1>3, <1>4

\* An officer's verdict changes the row's verdicts only.
LEMMA VerdictStep ==
  ASSUME IInv, NEW c \in Calls, NEW u \in Users, NEW row \in Row,
         row.nin = identity[u].nin, row.selfie = identity[u].selfie, row.faceId = identity[u].faceId,
         identity[u].status # "NONE", row.status # "NONE",
         identity' = [identity EXCEPT ![u] = row], End(c), UNCHANGED <<reverify, face>>
  PROVE  IInv'
<1>1. identity' \in [Users -> Row] /\ identity'[u] = row /\ \A v \in Users \ {u} : identity'[v] = identity[v]
  BY DEF IInv, TypeOK
<1>2. \A v \in Users : /\ identity'[v].faceId = identity[v].faceId
                       /\ identity[v].status # "NONE" => identity'[v].status # "NONE"
                       /\ identity'[v].status # "NONE" =>
                            identity'[v].nin # None /\ identity'[v].selfie # None
  BY <1>1 DEF IInv, TypeOK
<1>3. OneAccountPerNin'
  BY <1>1 DEF IInv, OneAccountPerNin
<1>4. /\ NoCall \in Call \cup {NoCall} /\ CallOK(NoCall)' /\ Fresh(NoCall) /\ Replaced(NoCall)
      /\ call' = [call EXCEPT ![c] = NoCall]
  BY DEF NoCall, CallOK, Fresh, Replaced, End
<1>5. \A d \in Calls \ {c} : Apart(NoCall, call[d]) /\ Apart(call[d], NoCall)
  <2>1. NoCall.kind = "idle" /\ NoCall.previous = None /\ CallOK(NoCall)
    BY DEF NoCall, CallOK
  <2> QED
    BY <2>1, SameFaces
<1> QED
  BY <1>1, <1>2, <1>3, <1>4, <1>5, RowsStep

LEMMA VerdictInv ==
  ASSUME IInv, NEW c \in Calls, DecideNin(c) \/ Reject(c)
  PROVE  IInv'
<1> DEFINE u == call[c].user
<1>1. call[c] \in Call /\ u \in Users /\ identity[u].status # "NONE"
  BY CallType DEF DecideNin, Reject, NoCall, CallOK
<1>2. identity \in [Users -> Row] /\ identity[u] \in Row
  BY <1>1 DEF IInv, TypeOK
<1>3. CASE DecideNin(c)
  <2>1. PICK verdict \in {"VERIFIED", "FAILED"} : identity' = [identity EXCEPT ![u].ninStatus = verdict]
    BY <1>3 DEF DecideNin
  <2>2. identity' = [identity EXCEPT ![u] = [identity[u] EXCEPT !.ninStatus = verdict]]
    BY <2>1
  <2> DEFINE row == [identity[u] EXCEPT !.ninStatus = verdict]
  <2>3. /\ row \in Row /\ row.nin = identity[u].nin /\ row.selfie = identity[u].selfie
        /\ row.faceId = identity[u].faceId /\ row.status = identity[u].status
    BY <1>2 DEF Row
  <2> HIDE DEF row
  <2>4. identity' = [identity EXCEPT ![u] = row]
    BY <2>2 DEF row
  <2>5. End(c) /\ UNCHANGED <<reverify, face>>
    BY <1>3 DEF DecideNin
  <2> QED
    BY <1>1, <2>3, <2>4, <2>5, VerdictStep
<1>4. CASE Reject(c)
  <2> DEFINE row == [identity[u] EXCEPT !.status = "REJECTED", !.reupload = call[c].reupload]
  <2>0. PICK fields \in SUBSET Fields : fields = call[c].reupload
    BY <1>1 DEF Call
  <2>1. /\ row \in Row /\ row.nin = identity[u].nin /\ row.selfie = identity[u].selfie
        /\ row.faceId = identity[u].faceId /\ row.status = "REJECTED"
    BY <2>0, <1>2 DEF Row
  <2>2. End(c) /\ UNCHANGED <<reverify, face>>
        /\ identity' = [identity EXCEPT ![u].status = "REJECTED", ![u].reupload = call[c].reupload]
    BY <1>4 DEF Reject
  <2>3. identity' = [identity EXCEPT ![u] = row]
    BY <2>2, <1>1, <1>2
  <2> HIDE DEF row
  <2> QED
    BY <1>1, <2>1, <2>2, <2>3, VerdictStep
<1> QED
  BY <1>3, <1>4

LEMMA ReadInv ==
  ASSUME IInv, NEW c \in Calls, NEW u \in Users,
         \/ \E kind \in {"verifyNin", "failNin"} : ReadForNin(c, u, kind)
         \/ \E fields \in Requests : ReadForReject(c, u, fields)
  PROVE  IInv'
<1>1. UNCHANGED <<identity, reverify, face>> /\ identity[u].status # "NONE"
  BY DEF ReadForNin, ReadForReject
<1>2. ASSUME NEW new \in Call, new.kind \in {"verifyNin", "failNin", "reject"}, new.user = u,
             new.previous = None, new.checks = {}, call' = [call EXCEPT ![c] = new]
      PROVE  IInv'
  <2>1. CallOK(new)
    BY <1>1, <1>2 DEF CallOK
  <2> QED
    BY <1>1, <1>2, <2>1, Quiet
<1>3. CASE \E kind \in {"verifyNin", "failNin"} : ReadForNin(c, u, kind)
  <2>1. PICK kind \in {"verifyNin", "failNin"} :
          call' = [call EXCEPT ![c] = [NoCall EXCEPT !.kind = kind, !.user = u]]
    BY <1>3 DEF ReadForNin, Begin
  <2> DEFINE new == [NoCall EXCEPT !.kind = kind, !.user = u]
  <2>2. new \in Call /\ new.kind = kind /\ new.user = u /\ new.previous = None /\ new.checks = {}
    BY DEF NoCall, Call, Kinds
  <2> QED
    BY <2>1, <2>2, <1>2
<1>4. CASE \E fields \in Requests : ReadForReject(c, u, fields)
  <2>1. PICK fields \in Requests :
          call' = [call EXCEPT ![c] = [NoCall EXCEPT !.kind = "reject", !.user = u,
                                                     !.reupload = fields]]
    BY <1>4 DEF ReadForReject, Begin
  <2> DEFINE new == [NoCall EXCEPT !.kind = "reject", !.user = u, !.reupload = fields]
  <2>2. new \in Call /\ new.kind = "reject" /\ new.user = u /\ new.previous = None /\ new.checks = {}
    BY RequestsAssumption DEF NoCall, Call, Kinds
  <2> QED
    BY <2>1, <2>2, <1>2
<1> QED
  BY <1>3, <1>4

-----------------------------------------------------------------------------
(* Approvals. *)

LEMMA ReadForApprovalInv ==
  ASSUME IInv, NEW c \in Calls, NEW u \in Users, ReadForApproval(c, u)
  PROVE  IInv'
<1> DEFINE new == [NoCall EXCEPT !.kind = "index", !.user = u, !.selfie = identity[u].selfie,
                             !.checks = {"search"}, !.previous = identity[u].faceId]
<1>1. /\ call' = [call EXCEPT ![c] = new] /\ UNCHANGED <<identity, reverify, face>>
      /\ identity[u].status = "PENDING"
  BY DEF ReadForApproval, Begin
<1>2. identity[u] \in Row /\ identity[u].selfie # None
  BY <1>1 DEF IInv, TypeOK
<1>3. /\ new \in Call /\ new.kind = "index" /\ new.user = u /\ new.selfie = identity[u].selfie
      /\ new.checks = {"search"} /\ new.previous = identity[u].faceId /\ new.faceId = None
  BY <1>2 DEF NoCall, Call, Kinds, Row
<1> HIDE DEF new
<1>4. CallOK(new)
  BY <1>1, <1>2, <1>3 DEF CallOK, Row
<1>5. Fresh(new)
  BY <1>3 DEF Fresh
<1>6. Replaced(new)
  <2> SUFFICES ASSUME identity[u].faceId # None
      PROVE  /\ face[identity[u].faceId] # "new"
             /\ \A v \in Users : identity[v].faceId = identity[u].faceId => v = u
    BY <1>3 DEF Replaced
  <2>1. face[identity[u].faceId] \in People
    BY DEF IInv, FacesAreKept
  <2> QED
    BY <2>1, FacesAssumption DEF IInv, OneFaceEach
<1>8. ASSUME NEW d \in Calls PROVE Apart(new, call[d]) /\ Apart(call[d], new)
  <2>1. Apart(new, call[d])
    BY <1>3 DEF Apart
  <2>2. Fresh(call[d]) /\ CallOK(call[d])
    BY CallType
  <2>3. Apart(call[d], new)
    BY <1>3, <2>2 DEF Apart, Fresh
  <2> QED
    BY <2>1, <2>3
<1> QED
  BY <1>1, <1>3, <1>4, <1>5, <1>6, <1>8, ReadStep

\* A face that is new is nobody's yet.
LEMMA IndexInv ==
  ASSUME IInv, NEW c \in Calls, Index(c)
  PROVE  IInv'
<1>0. PICK k : k = call[c]
  OBVIOUS
<1>1. PICK i \in FaceIds : /\ face[i] = "new" /\ face' = [face EXCEPT ![i] = k.selfie]
                           /\ call' = [call EXCEPT ![c] = [k EXCEPT !.kind = "approve", !.faceId = i,
                                                                   !.selfie = None]]
  BY <1>0 DEF Index
<1>2. k \in Call /\ k.kind = "index" /\ k.checks = {} /\ CallOK(k) /\ Fresh(k) /\ Replaced(k)
  BY <1>0, CallType DEF Index, NoCall
<1>3. UNCHANGED <<identity, reverify>> /\ k.selfie \in People
  BY <1>2 DEF Index, CallOK
<1>a. PICK new : new = [k EXCEPT !.kind = "approve", !.faceId = i, !.selfie = None]
  OBVIOUS
<1>4. /\ new \in Call /\ new.kind = "approve" /\ new.user = k.user /\ new.faceId = i /\ new.checks = {}
      /\ new.previous = k.previous
  BY <1>2, <1>a DEF Call, Kinds
<1>5. call' = [call EXCEPT ![c] = new]
  BY <1>1, <1>a
<1>6. /\ face \in [FaceIds -> People \cup {"new", "deleted"}]
      /\ face' \in [FaceIds -> People \cup {"new", "deleted"}]
  BY <1>1, <1>3 DEF IInv, TypeOK
<1>7. face'[i] \in People /\ \A j \in FaceIds \ {i} : face'[j] = face[j]
  BY <1>1, <1>3, <1>6
<1>8. \A j \in FaceIds : face[j] # "new" => j # i
  BY <1>1
<1>9. \A u \in Users : identity[u].faceId # i
  BY <1>8, FacesAssumption, NoneAssumption DEF IInv, FacesAreKept
<1>10. FacesAreKept' /\ OneFaceEach' /\ OneAccountPerNin'
  <2>1. \A u \in Users : identity[u].faceId \in FaceIds \cup {None}
    BY DEF IInv, TypeOK, Row
  <2> QED
    BY <1>3, <1>7, <2>1 DEF IInv, FacesAreKept, OneFaceEach, OneAccountPerNin
<1>11. TypeOK' <=> call' \in [Calls -> Call \cup {NoCall}]
  BY <1>3, <1>6 DEF IInv, TypeOK
<1>12. ASSUME NEW l \in Call \cup {NoCall}, CallOK(l), Fresh(l), Replaced(l)
       PROVE  /\ CallOK(l)' /\ Fresh(l)' /\ Replaced(l)'
              /\ l.previous # i /\ (l.kind \in {"approve", "discard"} => l.faceId # i)
  <2>1. l.previous \in FaceIds \cup {None} /\ l.faceId \in FaceIds \cup {None}
    BY DEF Call, NoCall
  <2>2. l.previous # i
    BY <1>8, <2>1, <1>12, NoneAssumption DEF Replaced
  <2>3. l.kind \in {"approve", "discard"} => l.faceId # i
    BY <1>1, <1>12, FacesAssumption DEF Fresh
  <2>4. CallOK(l)'
    BY <1>12, <1>3 DEF CallOK
  <2>5. Fresh(l)'
    BY <1>12, <1>3, <1>7, <2>1, <2>3, NoneAssumption DEF Fresh, CallOK
  <2>6. Replaced(l)'
    BY <1>12, <1>3, <1>7, <2>1, <2>2 DEF Replaced
  <2> QED
    BY <2>2, <2>3, <2>4, <2>5, <2>6
<1>13. CallOK(new)'
  BY <1>2, <1>3, <1>4, <1>12 DEF CallOK
<1>14. Fresh(new)'
  BY <1>3, <1>4, <1>7, <1>9 DEF Fresh
<1>15. Replaced(new)' /\ k.previous # i
  <2>1. Replaced(k)' /\ k.previous # i
    BY <1>2, <1>12
  <2> QED
    BY <2>1, <1>4 DEF Replaced
<1>17. ASSUME NEW d \in Calls \ {c} PROVE Apart(new, call[d]) /\ Apart(call[d], new)
  <2>1. call[d].previous # i /\ (call[d].kind \in {"approve", "discard"} => call[d].faceId # i)
    BY <1>12, CallType
  <2>2. Apart(call[d], k)
    BY <1>0 DEF IInv
  <2> QED
    BY <1>4, <2>1, <2>2 DEF Apart
<1>18. \A l \in Call \cup {NoCall} : (\E d \in Calls \ {c} : l = call[d]) =>
         CallOK(l)' /\ Fresh(l)' /\ Replaced(l)'
  BY <1>12, CallType
<1> QED
  BY <1>4, <1>5, <1>10, <1>11, <1>13, <1>14, <1>15, <1>17, <1>18, MoveInv

\* The row's new face is the call's alone, its former one nobody's from now on.
LEMMA ApproveInv ==
  ASSUME IInv, NEW c \in Calls, Approve(c)
  PROVE  IInv'
<1>0. PICK k, u : k = call[c] /\ u = k.user
  OBVIOUS
<1> DEFINE row == [identity[u] EXCEPT !.status = "APPROVED", !.reupload = {}, !.faceId = k.faceId]
<1>a. PICK new : new = IF k.previous = None THEN NoCall ELSE [k EXCEPT !.kind = "replace", !.faceId = None]
  OBVIOUS
<1>1. k \in Call /\ u \in Users /\ k.kind = "approve" /\ CallOK(k) /\ Fresh(k) /\ Replaced(k)
  BY <1>0, CallType DEF Approve, NoCall
<1>2. identity \in [Users -> Row] /\ identity[u] \in Row /\ k.faceId \in FaceIds /\ k.checks = {}
      /\ identity[u].status # "NONE"
  BY <1>0, <1>1 DEF IInv, TypeOK, CallOK
<1>3. /\ row \in Row /\ row.faceId = k.faceId /\ row.nin = identity[u].nin /\ row.selfie = identity[u].selfie
      /\ row.status = "APPROVED"
  BY <1>2 DEF Row
<1>4. identity' = [identity EXCEPT ![u] = row] /\ face' = face
  BY <1>0, <1>2 DEF Approve, Row
<1>5. reverify' \in [Users -> BOOLEAN]
  BY DEF Approve, IInv, TypeOK
<1>6. call' = [call EXCEPT ![c] = new]
  BY <1>0, <1>a DEF Approve, End
<1>7. new \in Call \cup {NoCall} /\ new.kind \in {"idle", "replace"} /\ new.checks = {}
      /\ (new.kind = "replace" => new.previous = k.previous /\ k.previous # None /\ new.user = u)
      /\ (new.kind = "idle" => new.previous = None)
  BY <1>0, <1>1, <1>2, <1>a DEF Call, Kinds, NoCall
<1>8. k.previous \in FaceIds \cup {None}
  BY <1>1 DEF Call
<1>9. \A d \in Calls \ {c} : Apart(k, call[d]) /\ Apart(call[d], k)
  BY <1>0 DEF IInv
<1> HIDE DEF row
<1>10. identity' \in [Users -> Row] /\ identity'[u] = row /\ \A v \in Users \ {u} : identity'[v] = identity[v]
  BY <1>1, <1>2, <1>3, <1>4
<1>11. FacesAreKept' /\ OneFaceEach' /\ OneAccountPerNin'
  BY <1>1, <1>3, <1>4, <1>10 DEF IInv, FacesAreKept, OneFaceEach, OneAccountPerNin, Fresh
<1>12. TypeOK' <=> call' \in [Calls -> Call \cup {NoCall}]
  BY <1>2, <1>3, <1>4, <1>5, <1>10 DEF IInv, TypeOK
<1>13. CallOK(new)'
  BY <1>7, <1>8 DEF CallOK
<1>14. Fresh(new)'
  BY <1>7 DEF Fresh
<1>15. Replaced(new)'
  <2> SUFFICES ASSUME new.kind = "replace"
      PROVE  face[k.previous] # "new" /\ \A v \in Users : identity'[v].faceId # k.previous
    BY <1>4, <1>7 DEF Replaced
  <2>1. k.faceId # k.previous
    BY <1>1 DEF CallOK
  <2>2. u = k.user
    BY <1>0
  <2> QED
    BY <1>1, <1>3, <1>7, <1>10, <2>1, <2>2 DEF Replaced
<1>17. ASSUME NEW l \in Call \cup {NoCall}, NEW d \in Calls \ {c}, l = call[d]
       PROVE  CallOK(l)' /\ Fresh(l)' /\ Replaced(l)'
  <2>1. CallOK(l) /\ Fresh(l) /\ Replaced(l) /\ Apart(k, l)
    BY <1>9, <1>17, CallType
  <2>2. l.kind # "idle" => l.user \in Users
    BY DEF Call, NoCall
  <2>3. CallOK(l)'
    BY <1>3, <1>10, <2>1, <2>2 DEF CallOK
  <2>4. Fresh(l)'
    BY <1>1, <1>3, <1>4, <1>10, <2>1 DEF Fresh, Apart
  <2>5. Replaced(l)'
    BY <1>1, <1>3, <1>4, <1>10, <2>1 DEF Replaced, Apart
  <2> QED
    BY <2>3, <2>4, <2>5
<1>18. \A d \in Calls \ {c} : Apart(new, call[d]) /\ Apart(call[d], new)
  <2>1. \A d \in Calls : CallOK(call[d])
    BY CallType
  <2> QED
    BY <1>7, <1>9, <2>1, NoneAssumption DEF Apart, CallOK
<1> QED
  BY <1>6, <1>7, <1>11, <1>12, <1>13, <1>14, <1>15, <1>17, <1>18, MoveInv

LEMMA FailApprovalInv ==
  ASSUME IInv, NEW c \in Calls, FailApproval(c)
  PROVE  IInv'
<1> DEFINE new == [call[c] EXCEPT !.kind = "discard", !.previous = None]
<1>1. call[c] \in Call /\ CallOK(call[c]) /\ call[c].kind = "approve"
  BY CallType DEF FailApproval, NoCall
<1>2. /\ new \in Call /\ new.kind = "discard" /\ new.previous = None /\ new.faceId = call[c].faceId
      /\ new.checks = call[c].checks
  BY <1>1 DEF Call, Kinds
<1>3. call' = [call EXCEPT ![c] = new] /\ UNCHANGED <<identity, reverify, face>>
  BY DEF FailApproval
<1> HIDE DEF new
<1>4. CallOK(new)
  BY <1>1, <1>2, NoneAssumption DEF CallOK
<1> QED
  BY <1>1, <1>2, <1>3, <1>4, Quiet

\* What is removed is in no row, and no other call will put it into one.
LEMMA RemoveInv ==
  ASSUME IInv, NEW c \in Calls, Remove(c)
  PROVE  IInv'
<1> DEFINE k == call[c]
<1>1. k \in Call /\ k.kind \in {"discard", "replace"} /\ CallOK(k) /\ Fresh(k) /\ Replaced(k)
  BY CallType DEF Remove, NoCall
<1>2. PICK i : i = Unwanted(c)
  OBVIOUS
<1>3. i \in FaceIds /\ \A u \in Users : identity[u].faceId # i
  BY <1>1, <1>2, NoneAssumption DEF Unwanted, CallOK, Fresh, Replaced
<1>4. /\ face' = [face EXCEPT ![i] = "deleted"] /\ call' = [call EXCEPT ![c] = NoCall]
      /\ UNCHANGED <<identity, reverify>>
  BY <1>2 DEF Remove, End
<1>5. face' \in [FaceIds -> People \cup {"new", "deleted"}] /\ face'[i] = "deleted"
      /\ \A j \in FaceIds \ {i} : face'[j] = face[j]
  BY <1>3, <1>4 DEF IInv, TypeOK
<1>6. FacesAreKept' /\ OneFaceEach' /\ OneAccountPerNin'
  <2>1. \A u \in Users : identity[u].faceId \in FaceIds \cup {None}
    BY DEF IInv, TypeOK, Row
  <2> QED
    BY <1>3, <1>4, <1>5, <2>1 DEF IInv, FacesAreKept, OneFaceEach, OneAccountPerNin
<1>7. TypeOK' <=> call' \in [Calls -> Call \cup {NoCall}]
  BY <1>4, <1>5 DEF IInv, TypeOK
<1>8. ASSUME NEW l \in Call \cup {NoCall}, NEW d \in Calls \ {c}, l = call[d]
      PROVE  CallOK(l)' /\ Fresh(l)' /\ Replaced(l)'
  <2>1. CallOK(l) /\ Fresh(l) /\ Replaced(l)
    BY <1>8, CallType
  <2>2. l.kind \in {"approve", "discard"} => l.faceId # i
    BY <1>1, <1>2, <1>8 DEF IInv, Apart, Unwanted
  <2>3. l.previous \in FaceIds \cup {None}
    BY DEF Call, NoCall
  <2>4. CallOK(l)'
    BY <1>4, <2>1 DEF CallOK
  <2>5. Fresh(l)'
    BY <1>4, <1>5, <2>1, <2>2 DEF Fresh, CallOK
  <2>6. Replaced(l)'
    BY <1>4, <1>5, <2>1, <2>3 DEF Replaced
  <2> QED
    BY <2>4, <2>5, <2>6
<1>9. /\ NoCall \in Call \cup {NoCall} /\ CallOK(NoCall)' /\ Fresh(NoCall)' /\ Replaced(NoCall)'
      /\ \A d \in Calls \ {c} : Apart(NoCall, call[d]) /\ Apart(call[d], NoCall)
  <2>1. /\ NoCall.kind = "idle" /\ NoCall.previous = None /\ NoCall \in Call \cup {NoCall}
        /\ CallOK(NoCall) /\ CallOK(NoCall)'
    BY DEF NoCall, CallOK
  <2>2. Fresh(NoCall)' /\ Replaced(NoCall)'
    BY <2>1 DEF Fresh, Replaced
  <2> QED
    BY <2>1, <2>2, SameFaces
<1> QED
  BY <1>4, <1>6, <1>7, <1>8, <1>9, MoveInv

LEMMA ForceReverifyInv ==
  ASSUME IInv, NEW u \in Users, ForceReverify(u)
  PROVE  IInv'
<1>1. UNCHANGED <<identity, face, call>> /\ reverify' \in [Users -> BOOLEAN]
  BY DEF ForceReverify, IInv, TypeOK
<1> QED
  BY <1>1 DEF IInv, TypeOK, FacesAreKept, OneFaceEach, OneAccountPerNin, CallOK, Fresh, Replaced, Apart

LEMMA NextInv == IInv /\ [Next]_vars => IInv'
<1> SUFFICES ASSUME IInv, [Next]_vars PROVE IInv'
  OBVIOUS
<1>1. CASE UNCHANGED vars
  BY <1>1 DEF vars, IInv, TypeOK, FacesAreKept, OneFaceEach, OneAccountPerNin, CallOK, Fresh, Replaced, Apart
<1>2. ASSUME NEW c \in Calls, Run(c) PROVE IInv'
  <2>1. CASE Abort(c)
    BY <2>1, EndStep DEF Abort
  <2> QED
    BY <1>2, <2>1, LookInv, SaveInv, VerdictInv, IndexInv, ApproveInv, FailApprovalInv, RemoveInv DEF Run
<1>3. ASSUME NEW c \in Calls, NEW u \in Users,
             \E nin \in Nins \cup {None}, selfie \in People \cup {None} : Submit(c, u, nin, selfie)
      PROVE  IInv'
  BY <1>3, SubmitInv
<1> QED
  BY <1>1, <1>2, <1>3, ReadInv, ReadForApprovalInv, ForceReverifyInv DEF Next

-----------------------------------------------------------------------------
(* Theorems. *)

\* The inductive invariant: besides the properties, no two rows name one face, and a face an approval
\* has indexed, or will remove, is in no row but its user's and in the hands of no other approval.
THEOREM Invariance == Spec => []IInv
<1> QED
  BY InitInv, NextInv, PTL DEF Spec

\* A row always has the images its status calls for, whatever a resubmission leaves out.
THEOREM TypeCorrect == Spec => []TypeOK
<1>1. IInv => TypeOK
  BY DEF IInv
<1> QED
  BY <1>1, Invariance, PTL

\* Overlapping approvals, their failures and their clean-ups never remove a verified face.
THEOREM FacesKept == Spec => []FacesAreKept
<1>1. IInv => FacesAreKept
  BY DEF IInv
<1> QED
  BY <1>1, Invariance, PTL

\* Submissions that overlap never give one NIN to two accounts.
THEOREM OneNin == Spec => []OneAccountPerNin
<1>1. IInv => OneAccountPerNin
  BY DEF IInv
<1> QED
  BY <1>1, Invariance, PTL
=============================================================================
