------------------------------ MODULE Enrolment ------------------------------
(***************************************************************************)
(* Enrolment, how one phone of a user gets an identity and a device row:   *)
(* the bootstrap of chat-controller.ts (open the vault, ensureIdentity,    *)
(* ensureRegistered), sign-out, retry and process death, over the backend  *)
(* of PreKeys.                                                             *)
(*                                                                         *)
(* A bootstrap is an async function nothing cancels: sign-out and retry    *)
(* take its vault from under it and start others beside it.  Bootstraps    *)
(* are numbered; bootstrap b generates identity b, if it generates one,    *)
(* and the server's device id of identity i is i.                          *)
(*                                                                         *)
(* A vault is one bootstrap's: it hydrates its document from the blob when *)
(* it has none, and every write stores the whole document.  Named          *)
(* abstractions: sign-out is one step, the data-encryption key and the     *)
(* rest of the document are left out, and the 5-minute retry budget may be *)
(* over at any time.                                                       *)
(***************************************************************************)
EXTENDS Naturals, FiniteSets

CONSTANTS
  MaxBoots,     \* bound on the bootstraps
  MaxRequests,  \* bound on the registration requests
  MaxExits,     \* bound on the sign-outs and process deaths
  Keys,         \* the key ids of the one-time prekeys
  Claims        \* the claims senders make

ASSUME BootsAssumption == MaxBoots \in Nat
ASSUME RequestsAssumption == MaxRequests \in Nat
ASSUME ExitsAssumption == MaxExits \in Nat
ASSUME KeysAssumption == Keys \subseteq Nat \ {0}

Boots == 1..MaxBoots
Requests == 1..MaxRequests

VARIABLES request, subject, began, clock, created, batch, consumed,
          claim, target, key, origin

Backend == INSTANCE PreKeys WITH Devices <- Boots

VARIABLES
  boots,        \* the bootstraps started
  live,         \* the one whose vault the controller holds, or None
  phase,        \* the setup phase on the screen, set by every bootstrap
  blob,         \* the document in the encrypted blob
  cached,       \* the bootstraps whose vault has a document in memory
  doc,          \* doc[b]: that document
  payload,      \* payload[b]: the identity b registers
  pc,           \* pc[b]: where bootstrap b is
  requests,     \* the requests sent
  waits,        \* waits[b]: the last one b has sent, or None
  refreshed,    \* the bootstraps that have used their token refresh
  exits,
  signedOut,    \* history: a phone was signed out
  interrupted   \* history: a phone was signed out that was not registered

backendVars == <<request, subject, began, clock, created, batch, consumed,
                 claim, target, key, origin>>
clientVars == <<live, phase, blob, cached, doc, payload, pc, waits, refreshed>>
countVars == <<boots, requests, exits, signedOut, interrupted>>
vars == <<clientVars, countVars, backendVars>>

None == 0
Empty == [identity |-> None, device |-> None]
Documents == [identity : Boots \cup {None}, device : Boots \cup {None}]
Phases == {"idle", "registering", "ready", "failed"}
Writing == {"savingIdentity", "savingDevice"}
Working == {"generating", "between", "awaiting"} \cup Writing
Stages == {"off", "registered", "failed", "dead"} \cup Working

Init ==
  /\ Backend!Init
  /\ boots = 0 /\ requests = 0 /\ exits = 0
  /\ signedOut = FALSE /\ interrupted = FALSE
  /\ live = None
  /\ phase = "idle"
  /\ blob = Empty
  /\ cached = {}
  /\ doc = [b \in Boots |-> Empty]
  /\ payload = [b \in Boots |-> None]
  /\ pc = [b \in Boots |-> "off"]
  /\ waits = [b \in Boots |-> None]
  /\ refreshed = {}

\* vault.read: the document in memory, or the one in the blob.
Read(b) == IF b \in cached THEN doc[b] ELSE blob

\* vault.mutate, as far as the memory goes.
Mutate(b, d) ==
  /\ doc' = [doc EXCEPT ![b] = d]
  /\ cached' = cached \cup {b}

\* vault.release, for the vault the controller holds.  A write under way
\* keeps its document, which is what the blob holds when it is done.
Released ==
  IF live # None /\ pc[live] \notin Writing THEN {live} ELSE {}

\* How bootstrap b ends: registered and connected, or with an error on the
\* screen.
End(b, stage) ==
  /\ pc' = [pc EXCEPT ![b] = stage]
  /\ phase' = IF stage = "registered" THEN "ready" ELSE "failed"

Goto(b, stage) ==
  /\ pc' = [pc EXCEPT ![b] = stage]
  /\ UNCHANGED phase

\* bootstrap, as far as the first request: a stored identity is reused, and
\* with a stored device id there is nothing left to do.  It runs on sign-in,
\* on launch, and on retry (after teardown) while the screen shows a failure.
Open ==
  LET b == boots + 1 IN
  /\ boots < MaxBoots
  /\ live = None \/ phase = "failed"
  /\ boots' = b
  /\ live' = b
  /\ cached' = (cached \ Released) \cup {b}
  /\ doc' = [c \in Boots |-> IF c = b THEN blob
                             ELSE IF c \in Released THEN Empty ELSE doc[c]]
  /\ payload' = [payload EXCEPT ![b] = blob.identity]
  /\ \/ /\ blob.identity = None
        /\ pc' = [pc EXCEPT ![b] = "generating"]
        /\ phase' = "registering"
     \/ /\ blob.identity # None /\ blob.device = None
        /\ pc' = [pc EXCEPT ![b] = "between"]
        /\ phase' = "registering"
     \/ /\ blob.identity # None /\ blob.device # None
        /\ End(b, "registered")
  /\ UNCHANGED <<blob, waits, refreshed, requests, exits, signedOut, interrupted, backendVars>>

-----------------------------------------------------------------------------
(* ensureIdentity.                                                         *)

\* Mutant: the identity is published while it is being saved.
GeneratedUnsaved(b) ==
  /\ pc[b] = "generating"
  /\ Mutate(b, [Read(b) EXCEPT !.identity = b])
  /\ payload' = [payload EXCEPT ![b] = b]
  /\ Goto(b, "between")
  /\ UNCHANGED <<live, blob, waits, refreshed, countVars, backendVars>>

Generated(b) ==
  /\ pc[b] = "generating"
  /\ Mutate(b, [Read(b) EXCEPT !.identity = b])
  /\ payload' = [payload EXCEPT ![b] = b]
  /\ Goto(b, "savingIdentity")
  /\ UNCHANGED <<live, blob, waits, refreshed, countVars, backendVars>>

GenerationFails(b) ==
  /\ pc[b] = "generating"
  /\ End(b, "failed")
  /\ UNCHANGED <<live, blob, cached, doc, payload, waits, refreshed, countVars, backendVars>>

\* saveIdentity resolves, and ensureRegistered reads the document.
IdentitySaved(b) ==
  /\ pc[b] = "savingIdentity"
  /\ blob' = doc[b]
  /\ IF doc[b].device = None THEN Goto(b, "between") ELSE End(b, "registered")
  /\ UNCHANGED <<live, cached, doc, payload, waits, refreshed, countVars, backendVars>>

\* The blob could not be written: the bootstrap throws.
WriteFails(b) ==
  /\ pc[b] \in Writing
  /\ End(b, "failed")
  /\ UNCHANGED <<live, blob, cached, doc, payload, waits, refreshed, countVars, backendVars>>

-----------------------------------------------------------------------------
(* runRegistration.                                                        *)

\* The next request, with the same payload.  Only a signed-in user has a
\* token to send it with.
Post(b) ==
  LET r == requests + 1 IN
  /\ pc[b] = "between"
  /\ live # None
  /\ requests < MaxRequests
  /\ requests' = r
  /\ waits' = [waits EXCEPT ![b] = r]
  /\ Backend!Receive(r, payload[b])
  /\ Goto(b, "awaiting")
  /\ UNCHANGED <<live, blob, cached, doc, payload, refreshed,
                 boots, exits, signedOut, interrupted>>

\* There is no token and none to be had, or the budget is over.
GiveUp(b) ==
  /\ pc[b] = "between"
  /\ End(b, "failed")
  /\ UNCHANGED <<live, blob, cached, doc, payload, waits, refreshed, countVars, backendVars>>

\* Mutant: a request without a timeout.
TimeoutNever(b) == pc[b] = "awaiting" /\ FALSE /\ UNCHANGED vars

\* Ten seconds without an answer, or the connection is lost.
Timeout(b) ==
  /\ pc[b] = "awaiting"
  /\ Goto(b, "between")
  /\ UNCHANGED <<live, blob, cached, doc, payload, waits, refreshed, countVars, backendVars>>

\* Mutant: a 201 without a usable device id is stored all the same.
AnswerUnparsed(b) ==
  /\ pc[b] = "awaiting" /\ request[waits[b]] = "created"
  /\ Mutate(b, [Read(b) EXCEPT !.device = MaxBoots + 1])
  /\ Goto(b, "savingDevice")
  /\ UNCHANGED <<live, blob, payload, waits, refreshed, countVars, backendVars>>

\* The answer to the request that is waited for.
Answer(b) ==
  LET status == request[waits[b]] IN
  /\ pc[b] = "awaiting"
  /\ \/ /\ status = "created"
        /\ Mutate(b, [Read(b) EXCEPT !.device = payload[b]])
        /\ Goto(b, "savingDevice")
        /\ UNCHANGED refreshed
     \/ /\ status = "unauthorized" /\ b \notin refreshed
        /\ refreshed' = refreshed \cup {b}
        /\ Goto(b, "between")
        /\ UNCHANGED <<cached, doc>>
     \/ /\ status = "rejected" \/ (status = "unauthorized" /\ b \in refreshed)
        /\ End(b, "failed")
        /\ UNCHANGED <<cached, doc, refreshed>>
     \/ /\ status = "unavailable"
        /\ Goto(b, "between")
        /\ UNCHANGED <<cached, doc, refreshed>>
  /\ UNCHANGED <<live, blob, payload, waits, countVars, backendVars>>

\* saveDeviceId resolves, and the controller loads the identity.
DeviceSaved(b) ==
  /\ pc[b] = "savingDevice"
  /\ blob' = doc[b]
  /\ End(b, IF doc[b].identity = None THEN "failed" ELSE "registered")
  /\ UNCHANGED <<live, cached, doc, payload, waits, refreshed, countVars, backendVars>>

-----------------------------------------------------------------------------
(* signOut, and the death of the process.                                  *)

\* wipe waits for the vault's own writes; when it fails the blob stays.
SignOut ==
  /\ live # None /\ pc[live] \notin Writing
  /\ exits < MaxExits
  /\ exits' = exits + 1
  /\ signedOut' = TRUE
  /\ interrupted' = (interrupted \/ pc[live] # "registered")
  /\ blob' \in {Empty, blob}
  /\ cached' = cached \ {live}
  /\ doc' = [doc EXCEPT ![live] = Empty]
  /\ live' = None
  /\ phase' = "idle"
  /\ UNCHANGED <<boots, requests, payload, pc, waits, refreshed, backendVars>>

Crash ==
  /\ live # None
  /\ exits < MaxExits
  /\ exits' = exits + 1
  /\ live' = None
  /\ phase' = "idle"
  /\ cached' = {}
  /\ doc' = [b \in Boots |-> Empty]
  /\ pc' = [b \in Boots |-> IF b <= boots THEN "dead" ELSE "off"]
  /\ UNCHANGED <<boots, requests, blob, payload, waits, refreshed,
                 signedOut, interrupted, backendVars>>

-----------------------------------------------------------------------------
Bootstrap(b) ==
  \/ Generated(b) \/ GenerationFails(b) \/ IdentitySaved(b) \/ WriteFails(b)
  \/ Post(b) \/ GiveUp(b) \/ Timeout(b) \/ Answer(b) \/ DeviceSaved(b)

BackendStep ==
  /\ \/ \E r \in Requests : Backend!ServerStep(r)
     \/ \E c \in Claims : Backend!ClaimStep(c)
  /\ UNCHANGED <<clientVars, countVars>>

Next ==
  \/ Open \/ SignOut \/ Crash
  \/ \E b \in Boots : Bootstrap(b)
  \/ BackendStep

Spec == Init /\ [][Next]_vars

\* Every await of a bootstrap resolves or rejects in the end: key generation
\* and storage calls return, and a request has a timeout.
FairSpec == Spec /\ \A b \in Boots : WF_vars(Bootstrap(b))

-----------------------------------------------------------------------------
TypeOK ==
  /\ Backend!TypeOK
  /\ boots \in 0..MaxBoots /\ requests \in 0..MaxRequests /\ exits \in 0..MaxExits
  /\ signedOut \in BOOLEAN /\ interrupted \in BOOLEAN
  /\ live \in 0..boots
  /\ phase \in Phases
  /\ blob \in Documents
  /\ cached \subseteq 1..boots
  /\ doc \in [Boots -> Documents]
  /\ payload \in [Boots -> Boots \cup {None}]
  /\ pc \in [Boots -> Stages]
  /\ waits \in [Boots -> 0..requests]
  /\ refreshed \subseteq Boots

\* The properties of the backend, under the clients it really has.
RowGrantedOnce == Backend!RowGrantedOnce
PickedRowIsPublished == Backend!PickedRowIsPublished
HandedOutOnce == Backend!HandedOutOnce

(* Senders claim the keys of the phone in use: a registered bootstrap's    *)
(* identity is the one whose row resolveDevice finds, with the device id   *)
(* the phone believes it has, however often the registration was retried,  *)
(* failed half-way or outlived its client ("the live WebSocket connection  *)
(* belongs to the newest registration"), as long as nobody signs out of a  *)
(* phone that is not registered.                                           *)
RegisteredIsNewest ==
  ~interrupted /\ live # None /\ pc[live] = "registered" =>
    /\ Backend!Newest = {doc[live].identity}
    /\ doc[live].device = doc[live].identity

(* "The device registers ONCE and reuses it across launches"               *)
(* (persistent-store.ts): as long as the user does not sign out, every     *)
(* device row, and every request on its way to become one, is of the       *)
(* identity the blob holds, whatever was lost, retried or killed.          *)
KeepsIdentity ==
  ~signedOut =>
    /\ \A d \in Boots : created[d] # 0 => d = blob.identity
    /\ \A r \in Requests : request[r] # "none" => subject[r] = blob.identity

(* A bootstrap settles: the screen does not stay at "registering" because  *)
(* of lost answers or a backend that never comes back.                     *)
RegistrationEnds ==
  \A b \in Boots : pc[b] \in Working ~> pc[b] \notin Working

(* What ensureRegistered promises, "ensure this device is registered": the *)
(* backend has a row for the identity of a registered phone.  It relies on *)
(* a wipe being final ("Let any in-flight write settle before erasing, so  *)
(* wipe is final").                                                        *)
RegisteredMeansPublished ==
  live # None /\ pc[live] = "registered" => created[doc[live].identity] # 0
=============================================================================
