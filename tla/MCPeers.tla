------------------------------ MODULE MCPeers ------------------------------
(***************************************************************************)
(* Instances of what is agreed between two parties: shadow invites,        *)
(* verification and protocol sessions between two phones, the claims of a  *)
(* phone's prekeys by senders, and the admission of a user's requests by   *)
(* the backend.  The five share no variable here, so each behaviour is one *)
(* of them alone.                                                          *)
(***************************************************************************)
EXTENDS Enrolment, ShadowInvites, Verification, Admission, Sessions, TLC

CONSTANTS ann, ben, c1, c2, tok

VARIABLE focus  \* the part whose behaviour this is

peersVars == <<focus, vars, inviteVars, verifyVars, admissionVars, sessionVars>>

Symmetry == Permutations(Claims) \cup Permutations(Pair)

MCFrom == [i \in Invites |-> "alice"]
MCExpiry == [x \in Tokens |-> 4]

PeersInit ==
  /\ focus \in {"claims", "invites", "verification", "admission", "sessions"}
  /\ Init /\ InviteInit /\ VerifyInit /\ AdmissionInit /\ SessionsInit

PeersNext ==
  /\ UNCHANGED focus
  /\ \/ /\ focus = "claims" /\ Next
        /\ UNCHANGED <<inviteVars, verifyVars, admissionVars, sessionVars>>
     \/ /\ focus = "invites" /\ InviteNext
        /\ UNCHANGED <<vars, verifyVars, admissionVars, sessionVars>>
     \/ /\ focus = "verification" /\ VerifyNext
        /\ UNCHANGED <<vars, inviteVars, admissionVars, sessionVars>>
     \/ /\ focus = "admission" /\ AdmissionNext
        /\ UNCHANGED <<vars, inviteVars, verifyVars, sessionVars>>
     \/ /\ focus = "sessions" /\ SessionsNext
        /\ UNCHANGED <<vars, inviteVars, verifyVars, admissionVars>>

PeersSpec == PeersInit /\ [][PeersNext]_peersVars

(* The state of each part is as its variables' comments say.               *)
PeersTypeOK ==
  CASE focus = "claims"       -> TypeOK
    [] focus = "invites"      -> InviteTypeOK
    [] focus = "verification" -> VerifyTypeOK
    [] focus = "admission"    -> AdmissionTypeOK
    [] focus = "sessions"     -> SessionsTypeOK
=============================================================================
