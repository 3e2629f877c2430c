---------------------------- MODULE Verification ----------------------------
(***************************************************************************)
(* Identity verification: what users submit (verification.service), what   *)
(* officers decide (admin-verification.service), and the collection of     *)
(* faces at AWS Rekognition that keeps a person from having two verified   *)
(* accounts.                                                               *)
(*                                                                         *)
(* Reads, calls of AWS and writes of one handler are steps of their own:   *)
(* only the last write of an approval is a transaction.  The database and  *)
(* the collection have none in common, so an approval indexes the face     *)
(* first, writes the row, and removes faces that are no longer wanted.     *)
(***************************************************************************)
EXTENDS Integers, FiniteSets

CONSTANTS Users,
          Nins,     \* the numbers read off the NIN images
          People,   \* who a selfie shows
          FaceIds,  \* the ids Rekognition will issue: a bound
          Calls,    \* calls that can be in progress at once
          Requests, \* the sets of fields a rejection asks to be brought again
          None      \* SQL NULL, or nothing uploaded

ASSUME NoneAssumption == None \notin Users \cup Nins \cup People \cup FaceIds
Fields == {"ninImage", "selfie"}

ASSUME RequestsAssumption == Requests \subseteq SUBSET Fields
ASSUME FacesAssumption == {"new", "deleted"} \cap People = {}

VARIABLES identity,  \* the IdentityVerification row of each user
          reverify,  \* User.forceReverify
          face,      \* whose face Rekognition keeps under an id
          call       \* the progress of each call

vars == <<identity, reverify, face, call>>

Row == [status : {"NONE", "PENDING", "APPROVED", "REJECTED"}, nin : Nins \cup {None},
        selfie : People \cup {None}, ninStatus : {"PENDING", "VERIFIED", "FAILED"},
        reupload : SUBSET Fields, faceId : FaceIds \cup {None}]
Kinds == {"submit", "save", "approve", "index", "reject", "verifyNin", "failNin", "decide",
          "discard", "replace"}
\* checks: what is left to be looked up before the call may go on; match: the face a search has
\* found; faceId: the one the call has indexed; previous: the one the row named when it was read.
Call == [kind : Kinds, user : Users, nin : Nins \cup {None}, selfie : People \cup {None},
         checks : SUBSET {"nin", "search", "owner"}, reupload : SUBSET Fields,
         match : FaceIds \cup {None}, faceId : FaceIds \cup {None}, previous : FaceIds \cup {None}]

NoRow == [status |-> "NONE", nin |-> None, selfie |-> None, ninStatus |-> "PENDING",
          reupload |-> {}, faceId |-> None]
NoCall == [kind |-> "idle", user |-> None, nin |-> None, selfie |-> None, checks |-> {},
           reupload |-> {}, match |-> None, faceId |-> None, previous |-> None]

TypeOK ==
  /\ identity \in [Users -> Row]
  /\ \A u \in Users : identity[u].status # "NONE" => identity[u].nin # None /\ identity[u].selfie # None
  /\ reverify \in [Users -> BOOLEAN]
  /\ face \in [FaceIds -> People \cup {"new", "deleted"}]
  /\ call \in [Calls -> Call \cup {NoCall}]

Init ==
  /\ identity = [u \in Users |-> NoRow]
  /\ reverify = [u \in Users |-> FALSE]
  /\ face = [i \in FaceIds |-> "new"]
  /\ call = [c \in Calls |-> NoCall]

-----------------------------------------------------------------------------
(* Calls. *)

Begin(c, new) == call[c].kind = "idle" /\ call' = [call EXCEPT ![c] = new]

End(c) == call' = [call EXCEPT ![c] = NoCall]

\* A call that throws, or the server that stops, leaves what is written by then.
Abort(c) ==
  /\ call[c].kind # "idle"
  /\ End(c)
  /\ UNCHANGED <<identity, reverify, face>>

-----------------------------------------------------------------------------
(* Looking for duplicates: the same for a submission and for an approval. *)

\* searchFacesByImage, MaxFaces 1: some face that matches.  An approval starts with this.
Search(c) ==
  /\ "search" \in call[c].checks /\ "nin" \notin call[c].checks
  /\ \/ \E i \in FaceIds : /\ face[i] = call[c].selfie
                           /\ call' = [call EXCEPT ![c].match = i,
                                                   ![c].checks = (@ \ {"search"}) \cup {"owner"}]
     \/ /\ \A i \in FaceIds : face[i] # call[c].selfie
        /\ call' = [call EXCEPT ![c].checks = @ \ {"search"}]
  /\ UNCHANGED <<identity, reverify, face>>

\* The face belongs to another account that is verified.
Taken(c) == \E v \in Users \ {call[c].user} :
              identity[v].faceId = call[c].match /\ identity[v].status = "APPROVED"

FindOwner(c) ==
  /\ "owner" \in call[c].checks
  /\ IF Taken(c) THEN End(c)
     ELSE call' = [call EXCEPT ![c].checks = @ \ {"owner"}, ![c].match = None]
  /\ UNCHANGED <<identity, reverify, face>>

-----------------------------------------------------------------------------
(* submit. *)

\* The row may be written: there is none, the user has to verify again, or it was rejected.
Submittable(u) == identity[u].status \in {"NONE", "REJECTED"} \/ reverify[u]

\* (bug) a first submission may leave fields out
BringsSome(u, nin, selfie) ==
  LET needed == IF identity[u].status = "NONE" THEN {}
                ELSE IF reverify[u] THEN Fields ELSE identity[u].reupload
  IN  ("ninImage" \in needed => nin # None) /\ ("selfie" \in needed => selfie # None)

\* A first or forced submission brings everything, a resubmission the fields that were asked for;
\* for the others the row keeps what was read here.
Brings(u, nin, selfie) ==
  LET needed == IF identity[u].status = "NONE" \/ reverify[u] THEN Fields ELSE identity[u].reupload
  IN  ("ninImage" \in needed => nin # None) /\ ("selfie" \in needed => selfie # None)

\* The row and the user are read at once; nothing but the row's status and the flag decides.
Submit(c, u, nin, selfie) ==
  /\ Submittable(u)
  /\ Brings(u, nin, selfie)
  /\ Begin(c, [NoCall EXCEPT !.kind = IF identity[u].status = "NONE" THEN "submit" ELSE "save",
                             !.user = u,
                             !.nin = IF nin = None THEN identity[u].nin ELSE nin,
                             !.selfie = IF selfie = None THEN identity[u].selfie ELSE selfie,
                             !.checks = {"nin"} \cup IF selfie = None THEN {} ELSE {"search"}])
  /\ UNCHANGED <<identity, reverify, face>>

NinFree(c) == \A v \in Users \ {call[c].user} : identity[v].nin # call[c].nin

\* ensureUniqueIdentity
CheckNin(c) ==
  /\ "nin" \in call[c].checks
  /\ IF NinFree(c) THEN call' = [call EXCEPT ![c].checks = @ \ {"nin"}] ELSE End(c)
  /\ UNCHANGED <<identity, reverify, face>>

\* (bug) ninHash is not unique: only the check looks for another account with the number
UniqueUserOnly(c) == call[c].kind = "submit" => identity[call[c].user].status = "NONE"

\* The unique columns: ninHash, and userId when the row is created.
Unique(c) == NinFree(c) /\ (call[c].kind = "submit" => identity[call[c].user].status = "NONE")

\* create or update: the officers' verdict on the NIN image is not reset.
Save(c) ==
  LET u == call[c].user
  IN  /\ call[c].kind \in {"submit", "save"} /\ call[c].checks = {}
      /\ IF Unique(c)
         THEN identity' = [identity EXCEPT ![u].status = "PENDING", ![u].reupload = {},
                                           ![u].nin = call[c].nin, ![u].selfie = call[c].selfie]
         ELSE UNCHANGED identity
      /\ End(c)
      /\ UNCHANGED <<reverify, face>>

-----------------------------------------------------------------------------
(* The officers' decisions. *)

\* decideNin reads the row, and later writes its verdict by id.
ReadForNin(c, u, kind) ==
  /\ kind \in {"verifyNin", "failNin"}
  /\ identity[u].status = "PENDING"
  /\ Begin(c, [NoCall EXCEPT !.kind = kind, !.user = u])
  /\ UNCHANGED <<identity, reverify, face>>

DecideNin(c) ==
  /\ call[c].kind \in {"verifyNin", "failNin"}
  /\ identity' = [identity EXCEPT ![call[c].user].ninStatus =
                    IF call[c].kind = "verifyNin" THEN "VERIFIED" ELSE "FAILED"]
  /\ End(c)
  /\ UNCHANGED <<reverify, face>>

\* REJECT, or REQUEST_REUPLOAD with the fields to bring again.
ReadForReject(c, u, fields) ==
  /\ identity[u].status = "PENDING"
  /\ Begin(c, [NoCall EXCEPT !.kind = "reject", !.user = u, !.reupload = fields])
  /\ UNCHANGED <<identity, reverify, face>>

Reject(c) ==
  LET u == call[c].user
  IN  /\ call[c].kind = "reject"
      /\ identity' = [identity EXCEPT ![u].status = "REJECTED", ![u].reupload = call[c].reupload]
      /\ End(c)
      /\ UNCHANGED <<reverify, face>>

ReadForApproval(c, u) ==
  /\ identity[u].status = "PENDING" /\ identity[u].ninStatus = "VERIFIED"
  /\ Begin(c, [NoCall EXCEPT !.kind = "index", !.user = u, !.selfie = identity[u].selfie,
                             !.checks = {"search"}, !.previous = identity[u].faceId])
  /\ UNCHANGED <<identity, reverify, face>>

\* indexFaces issues an id of its own for every face.
Index(c) ==
  /\ call[c].kind = "index" /\ call[c].checks = {}
  /\ \E i \in FaceIds : /\ face[i] = "new"
                        /\ face' = [face EXCEPT ![i] = call[c].selfie]
                        /\ call' = [call EXCEPT ![c].kind = "approve", ![c].faceId = i,
                                                ![c].selfie = None]
  /\ UNCHANGED <<identity, reverify>>

\* Nobody looks at the row again: the transaction approves whatever it holds by now.
Approve(c) ==
  LET u == call[c].user
  IN  /\ call[c].kind = "approve"
      /\ identity' = [identity EXCEPT ![u].status = "APPROVED", ![u].reupload = {},
                                      ![u].faceId = call[c].faceId]
      /\ reverify' = [reverify EXCEPT ![u] = FALSE]
      /\ IF call[c].previous = None THEN End(c)
         ELSE call' = [call EXCEPT ![c].kind = "replace", ![c].faceId = None]
      /\ UNCHANGED face

\* The transaction fails: the face that was indexed for it has to go.
FailApproval(c) ==
  /\ call[c].kind = "approve"
  /\ call' = [call EXCEPT ![c].kind = "discard", ![c].previous = None]
  /\ UNCHANGED <<identity, reverify, face>>

\* (bug) an approval removes the face that the row names by now
UnwantedByRow(c) == IF call[c].kind = "discard" THEN call[c].faceId ELSE identity[call[c].user].faceId

\* The face an approval removes: its own if it failed, else the one the row named when it was read.
Unwanted(c) == IF call[c].kind = "discard" THEN call[c].faceId ELSE call[c].previous

\* deleteFaces, whose failure is swallowed
Remove(c) ==
  /\ call[c].kind \in {"discard", "replace"}
  /\ face' = [face EXCEPT ![Unwanted(c)] = "deleted"]
  /\ End(c)
  /\ UNCHANGED <<identity, reverify>>

\* forceReverify asks for nothing.
ForceReverify(u) ==
  /\ reverify' = [reverify EXCEPT ![u] = TRUE]
  /\ UNCHANGED <<identity, face, call>>

-----------------------------------------------------------------------------
Run(c) ==
  \/ Search(c)
  \/ FindOwner(c)
  \/ CheckNin(c)
  \/ Save(c)
  \/ DecideNin(c)
  \/ Reject(c)
  \/ Index(c)
  \/ Approve(c)
  \/ FailApproval(c)
  \/ Remove(c)
  \/ Abort(c)

Next ==
  \/ \E c \in Calls, u \in Users :
       \/ \E nin \in Nins \cup {None}, selfie \in People \cup {None} : Submit(c, u, nin, selfie)
       \/ \E kind \in {"verifyNin", "failNin"} : ReadForNin(c, u, kind)
       \/ \E fields \in Requests : ReadForReject(c, u, fields)
       \/ ReadForApproval(c, u)
  \/ \E c \in Calls : Run(c)
  \/ \E u \in Users : ForceReverify(u)

Spec == Init /\ [][Next]_vars

-----------------------------------------------------------------------------
(* Properties. *)

\* Every face a row names is in the collection, where a search for a duplicate can find it: no
\* approval, however many overlap, removes a face that became the account's meanwhile.
FacesAreKept ==
  \A u \in Users : identity[u].faceId # None => face[identity[u].faceId] \in People

\* No NIN is on two accounts, though submissions look for it long before they write it.
OneAccountPerNin ==
  \A u, v \in Users : u # v /\ identity[u].nin # None => identity[u].nin # identity[v].nin
=============================================================================
