---------------------------- MODULE Verification ----------------------------
(***************************************************************************)
(* Two phones that verify each other, by the rotating code over a shared   *)
(* seed and by the biometric presence proof over a challenge, with the     *)
(* badges their screens show.                                              *)
(*                                                                         *)
(* Control frames between the two arrive in order or not at all.  Time is  *)
(* counted in steps of the code, 60 seconds.                               *)
(***************************************************************************)
EXTENDS Integers, Sequences, FiniteSets

CONSTANTS
  Pair,      \* the two phones
  Skew,      \* skewSteps
  Fresh,     \* BIOVERIFY_FRESHNESS_MS, in steps
  MaxTime,   \* bound on the minute
  MaxNonces, \* bound on seeds and challenges
  MaxLine    \* bound on the frames on their way to a phone

ASSUME VerificationAssumption ==
  /\ \E p, q \in Pair : p # q /\ Pair = {p, q}
  /\ {Skew, Fresh, MaxTime, MaxNonces, MaxLine} \subseteq Nat

VARIABLES
  minute,    \* time
  nonces,   \* how many seeds and challenges were generated
  seed,     \* verificationSeeds, 0 for none
  badge,    \* verificationByPeer
  asked,    \* bioVerifyChallenges, 0 for none
  presence, \* bioByPeer
  peerKey,  \* whether the peer's attestation key is in the vault
  prompt,   \* the peer's challenges (at most one) the owner is asked to confirm
  line,     \* the control frames on their way to a phone
  answers,  \* the codes that were sent
  proofs    \* the challenges an owner has confirmed

verifyVars ==
  <<minute, nonces, seed, badge, asked, presence, peerKey, prompt, line, answers, proofs>>

VerifyInit ==
  /\ minute = 0 /\ nonces = 0
  /\ seed = [p \in Pair |-> 0] /\ badge = [p \in Pair |-> "none"]
  /\ asked = [p \in Pair |-> 0] /\ presence = [p \in Pair |-> "none"]
  /\ peerKey = [p \in Pair |-> FALSE] /\ prompt = [p \in Pair |-> {}]
  /\ line = [p \in Pair |-> << >>]
  /\ answers = {} /\ proofs = {}

Other(p) == CHOOSE q \in Pair : q # p

(* sendControl: the frame is on its way, or is dropped here or later. *)
Sent(lines, p, f) == {lines, [lines EXCEPT ![Other(p)] = Append(@, f)]}
CanSend(p) == Len(line[Other(p)]) < MaxLine

(* The frame a phone handles: a peer's frames wait while its prompt is up. *)
FrameArrives(p, kind) == line[p] # << >> /\ prompt[p] = {} /\ Head(line[p]).kind = kind
Handled(p) == [line EXCEPT ![p] = Tail(@)]

Minute ==
  /\ minute < MaxTime
  /\ minute' = minute + 1
  /\ UNCHANGED <<nonces, seed, badge, asked, presence, peerKey, prompt, line, answers, proofs>>

----------------------------------------------------------------------------
(* The rotating code. *)

(* The sheet offers a request before one, or after a failure. *)
RequestVerification(p) ==
  /\ badge[p] \in {"none", "unverified"} /\ CanSend(p) /\ nonces < MaxNonces
  /\ nonces' = nonces + 1
  /\ seed' = [seed EXCEPT ![p] = nonces + 1]
  /\ badge' = [badge EXCEPT ![p] = "requested"]
  /\ line' \in Sent(line, p, [kind |-> "verify-request", seed |-> nonces + 1])
  /\ UNCHANGED <<minute, asked, presence, peerKey, prompt, answers, proofs>>

RequestArrives(p) ==
  /\ FrameArrives(p, "verify-request")
  /\ seed' = [seed EXCEPT ![p] = Head(line[p]).seed]
  /\ badge' = [badge EXCEPT ![p] = "incoming"]
  /\ line' = Handled(p)
  /\ UNCHANGED <<minute, nonces, asked, presence, peerKey, prompt, answers, proofs>>

(* A code is its seed and its step: the code of the normal stream and that *)
(* of the duress stream differ in nothing else, as no trusted contact is   *)
(* ever set and the duress code alerts nobody.                             *)
RespondVerification(p) ==
  /\ badge[p] = "incoming" /\ seed[p] # 0 /\ CanSend(p)
  /\ LET code == [seed |-> seed[p], step |-> minute]
     IN  /\ line' \in Sent(line, p, [kind |-> "verify-response", code |-> code])
         /\ answers' = answers \cup {[by |-> p, code |-> code]}
  /\ UNCHANGED <<minute, nonces, seed, badge, asked, presence, peerKey, prompt, proofs>>

InWindow(code, now) == code.step \in (now - Skew)..(now + Skew)

(* A mutant: a phone that has lost its seed lets every code pass. *)
PassesUnseeded(p, code) == (seed[p] = 0 \/ code.seed = seed[p]) /\ InWindow(code, minute)

(* classifyVerificationCode: both streams pass. *)
Passes(p, code) == seed[p] # 0 /\ code.seed = seed[p] /\ InWindow(code, minute)

ResponseArrives(p) ==
  /\ FrameArrives(p, "verify-response") /\ CanSend(p)
  /\ LET ok == Passes(p, Head(line[p]).code)
     IN  /\ badge' = [badge EXCEPT ![p] = IF ok THEN "verified" ELSE "unverified"]
         /\ line' \in Sent(Handled(p), p, [kind |-> "verify-result", ok |-> ok])
  /\ UNCHANGED <<minute, nonces, seed, asked, presence, peerKey, prompt, answers, proofs>>

ResultArrives(p) ==
  /\ FrameArrives(p, "verify-result")
  /\ badge' = [badge EXCEPT ![p] = IF Head(line[p]).ok THEN "verified" ELSE "unverified"]
  /\ line' = Handled(p)
  /\ UNCHANGED <<minute, nonces, seed, asked, presence, peerKey, prompt, answers, proofs>>

----------------------------------------------------------------------------
(* The biometric proof.  A phone without biometrics enrols nothing. *)

EnrollBiometric(p) ==
  /\ CanSend(p)
  /\ line' \in Sent(line, p, [kind |-> "bioverify-enroll"])
  /\ UNCHANGED <<minute, nonces, seed, badge, asked, presence, peerKey, prompt, answers, proofs>>

EnrollArrives(p) ==
  /\ FrameArrives(p, "bioverify-enroll")
  /\ peerKey' = [peerKey EXCEPT ![p] = TRUE]
  /\ presence' = [presence EXCEPT ![p] = IF @ = "verified" THEN @ ELSE "enrolled"]
  /\ line' = Handled(p)
  /\ UNCHANGED <<minute, nonces, seed, badge, asked, prompt, answers, proofs>>

(* The button is disabled while the badge says `none`. *)
RequestPresence(p) ==
  /\ presence[p] # "none" /\ peerKey[p] /\ CanSend(p) /\ nonces < MaxNonces
  /\ nonces' = nonces + 1
  /\ asked' = [asked EXCEPT ![p] = nonces + 1]
  /\ line' \in Sent(line, p, [kind |-> "bioverify-request", challenge |-> nonces + 1])
  /\ UNCHANGED <<minute, seed, badge, presence, peerKey, prompt, answers, proofs>>

ChallengeArrives(p) ==
  /\ FrameArrives(p, "bioverify-request")
  /\ presence' = [presence EXCEPT ![p] = "incoming"]
  /\ prompt' = [prompt EXCEPT ![p] = {[challenge |-> Head(line[p]).challenge, issuedAt |-> minute]}]
  /\ line' = Handled(p)
  /\ UNCHANGED <<minute, nonces, seed, badge, asked, peerKey, answers, proofs>>

(* The owner confirms, at last; or it is declined, or nobody there can. *)
PromptEnds(p, confirmed) ==
  /\ CanSend(p)
  /\ \E q \in prompt[p] :
       /\ line' \in Sent(line, p, [kind |-> "bioverify-response", challenge |-> q.challenge,
                                   issuedAt |-> q.issuedAt, signed |-> confirmed])
       /\ proofs' = IF confirmed
                    THEN proofs \cup {[by |-> p, challenge |-> q.challenge, at |-> minute]}
                    ELSE proofs
  /\ prompt' = [prompt EXCEPT ![p] = {}]
  /\ UNCHANGED <<minute, nonces, seed, badge, asked, presence, peerKey, answers>>

(* A mutant: how old the proof is does not matter. *)
VerifyAttestationUndated(p, f) ==
  CASE ~f.signed -> "unavailable"
    [] f.signed /\ (f.challenge # asked[p] \/ ~peerKey[p]) -> "failed"
    [] OTHER -> "verified"

(* The response handler with verifyBioAttestation. *)
VerifyAttestation(p, f) ==
  CASE ~f.signed -> "unavailable"
    [] f.signed /\ (f.challenge # asked[p] \/ ~peerKey[p] \/ minute - f.issuedAt > Fresh) -> "failed"
    [] OTHER -> "verified"

(* Any response uses the challenge up. *)
PresenceArrives(p) ==
  /\ FrameArrives(p, "bioverify-response")
  /\ presence' = [presence EXCEPT ![p] = VerifyAttestation(p, Head(line[p]))]
  /\ asked' = [asked EXCEPT ![p] = 0]
  /\ line' = Handled(p)
  /\ UNCHANGED <<minute, nonces, seed, badge, peerKey, prompt, answers, proofs>>

(* A relaunch, or a sign-out, which wipes the vault too. *)
SessionEnds(p, wiped) ==
  /\ seed' = [seed EXCEPT ![p] = 0] /\ badge' = [badge EXCEPT ![p] = "none"]
  /\ asked' = [asked EXCEPT ![p] = 0] /\ presence' = [presence EXCEPT ![p] = "none"]
  /\ prompt' = [prompt EXCEPT ![p] = {}]
  /\ peerKey' = [peerKey EXCEPT ![p] = @ /\ ~wiped]
  /\ UNCHANGED <<minute, nonces, line, answers, proofs>>

VerifyNext ==
  \/ Minute
  \/ \E p \in Pair :
       \/ RequestVerification(p) \/ RequestArrives(p)
       \/ RespondVerification(p)
       \/ ResponseArrives(p) \/ ResultArrives(p)
       \/ EnrollBiometric(p) \/ EnrollArrives(p) \/ RequestPresence(p) \/ ChallengeArrives(p)
       \/ \E b \in BOOLEAN : PromptEnds(p, b) \/ SessionEnds(p, b)
       \/ PresenceArrives(p)

VerifySpec == VerifyInit /\ [][VerifyNext]_verifyVars

----------------------------------------------------------------------------
(* Properties. *)
Nonces == 0..MaxNonces
VerifyTypeOK ==
  /\ minute \in 0..MaxTime /\ nonces \in Nonces
  /\ seed \in [Pair -> Nonces] /\ asked \in [Pair -> Nonces]
  /\ badge \in [Pair -> {"none", "requested", "incoming", "verified", "unverified"}]
  /\ presence \in [Pair -> {"none", "enrolled", "incoming", "verified", "failed", "unavailable"}]
  /\ peerKey \in [Pair -> BOOLEAN]
  /\ \A p \in Pair : /\ prompt[p] \subseteq [challenge : Nonces, issuedAt : 0..MaxTime]
                     /\ Cardinality(prompt[p]) <= 1 /\ Len(line[p]) <= MaxLine
  /\ \A a \in answers : a.by \in Pair /\ a.code.seed \in Nonces
  /\ proofs \subseteq [by : Pair, challenge : Nonces, at : 0..MaxTime]

(* A phone shows its peer as verified only when the peer's user has sent a *)
(* code of the seed it holds within the window, or, on the phone that      *)
(* answered, when its own user has sent one (messaging.ts:1257): whatever  *)
(* requests cross, and whichever phone restarts in between.                *)
VerifiedByAnswer ==
  [][\A p \in Pair : badge'[p] = "verified" /\ badge[p] # "verified" =>
       \/ \E a \in answers : a.by = Other(p) /\ a.code.seed = seed[p] /\ InWindow(a.code, minute)
       \/ \E a \in answers : a.by = p]_verifyVars

(* Presence is shown only when the owner of the other phone has confirmed  *)
(* this phone's latest challenge, and did so no longer than the freshness  *)
(* window ago (biometric-attestation.ts:163).                              *)
PresenceIsLive ==
  [][\A p \in Pair : presence'[p] = "verified" /\ presence[p] # "verified" =>
       \E q \in proofs : /\ q.by = Other(p) /\ q.challenge = asked[p]
                         /\ minute - q.at <= Fresh]_verifyVars
=============================================================================
