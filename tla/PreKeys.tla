------------------------------- MODULE PreKeys -------------------------------
(***************************************************************************)
(* PreKeys, what the backend keeps of one user's key material: the device  *)
(* rows, their one-time prekeys, the registration that replaces them and   *)
(* the claim that hands one of them to a sender.                           *)
(*                                                                         *)
(* Both run in a READ COMMITTED transaction, statement by statement, so    *)
(* the steps below are the points where they take locks and where they     *)
(* commit.  A device row stands for the identity it publishes (it is found *)
(* by the registration id drawn with that identity) and every request of a *)
(* device carries the same keys.  replaceOneTimePreKeys deletes the rows   *)
(* and inserts new ones: a row is named by its device, the replacement     *)
(* that inserted it (`batch') and its key.                                 *)
(*                                                                         *)
(* Left out: two identities that draw the same registration id, the push   *)
(* token, the phone number, and addOneTimePreKeys, which no client calls.  *)
(***************************************************************************)
EXTENDS Naturals, FiniteSets

CONSTANTS
  Requests,  \* the registration requests clients can make
  Devices,   \* the devices they can register
  Keys,      \* the key ids of a device's one-time prekeys
  Claims     \* the claims senders can make

None == 0

VARIABLES
  request,   \* request[r]: where registration request r is
  subject,   \* subject[r]: the device it registers
  began,     \* began[r]: now() of its transaction while it is open, else 0
  clock,     \* the time of the last transaction begun
  created,   \* created[d]: createdAt of d's row, 0 while it has none
  batch,     \* batch[d]: how many times d's prekeys were replaced
  consumed,  \* consumed[d]: the rows of that batch with consumed_at set
  claim,     \* claim[c]: where claim c is
  target,    \* target[c]: the device it resolved
  key,       \* key[c]: the one-time prekey it took, or None
  origin     \* origin[c]: the batch that key's row belongs to

registrationVars == <<request, subject, began, clock>>
tableVars == <<created, batch, consumed>>
claimVars == <<claim, target, key, origin>>
vars == <<registrationVars, tableVars, claimVars>>

Refusals == {"unauthorized", "rejected", "unavailable"}
Answers == Refusals \cup {"created"}
RequestStages == {"none", "sent", "begun", "replaced"} \cup Answers
ClaimStages == {"idle", "resolved", "picked", "granted", "failed"}

Init ==
  /\ request = [r \in Requests |-> "none"]
  /\ subject = [r \in Requests |-> None]
  /\ began = [r \in Requests |-> 0]
  /\ clock = 0
  /\ created = [d \in Devices |-> 0]
  /\ batch = [d \in Devices |-> 0]
  /\ consumed = [d \in Devices |-> {}]
  /\ claim = [c \in Claims |-> "idle"]
  /\ target = [c \in Claims |-> None]
  /\ key = [c \in Claims |-> None]
  /\ origin = [c \in Claims |-> 0]

-----------------------------------------------------------------------------
(* Registration.                                                           *)

\* A client posts the public bundle of device d.
Receive(r, d) ==
  /\ request[r] = "none"
  /\ request' = [request EXCEPT ![r] = "sent"]
  /\ subject' = [subject EXCEPT ![r] = d]
  /\ UNCHANGED <<began, clock, tableVars, claimVars>>

\* The guard (401), the pipes (400), the rate limiter (429) or a missing
\* connection (503) answers before anything is written.
Refuse(r) ==
  /\ request[r] = "sent"
  /\ \E why \in Refusals : request' = [request EXCEPT ![r] = why]
  /\ UNCHANGED <<subject, began, clock, tableVars, claimVars>>

\* startTransaction: now() is fixed from here on.
Begin(r) ==
  /\ request[r] = "sent"
  /\ request' = [request EXCEPT ![r] = "begun"]
  /\ clock' = clock + 1
  /\ began' = [began EXCEPT ![r] = clock + 1]
  /\ UNCHANGED <<subject, tableVars, claimVars>>

\* Mutant: the locking SELECT runs on a connection of its own.
NoRowLock(d) == {}

\* The rows claims hold locked by FOR UPDATE.
LockedByClaims(d) ==
  {key[c] : c \in {e \in Claims : claim[e] = "picked" /\ target[e] = d}} \ {None}

\* The four statements of registerDevice, done and not committed.  The first
\* locks the user's row against every other registration; the DELETE waits
\* for the claims that hold one of the device's rows.
Replace(r) ==
  /\ request[r] = "begun"
  /\ \A q \in Requests : request[q] # "replaced"
  /\ LockedByClaims(subject[r]) = {}
  /\ request' = [request EXCEPT ![r] = "replaced"]
  /\ UNCHANGED <<subject, began, clock, tableVars, claimVars>>

\* Mutant: the upsert writes created_at too.
CommitTouchingCreatedAt(r) ==
  LET d == subject[r] IN
  /\ request[r] = "replaced"
  /\ request' = [request EXCEPT ![r] = "created"]
  /\ created' = [created EXCEPT ![d] = began[r]]
  /\ batch' = [batch EXCEPT ![d] = @ + 1]
  /\ consumed' = [consumed EXCEPT ![d] = {}]
  /\ began' = [began EXCEPT ![r] = 0]
  /\ UNCHANGED <<subject, clock, claimVars>>

\* created_at has a default and is not among the columns the upsert writes:
\* it is set by the insert alone.
CommitRegistration(r) ==
  LET d == subject[r] IN
  /\ request[r] = "replaced"
  /\ request' = [request EXCEPT ![r] = "created"]
  /\ created' = [created EXCEPT ![d] = IF @ = 0 THEN began[r] ELSE @]
  /\ batch' = [batch EXCEPT ![d] = @ + 1]
  /\ consumed' = [consumed EXCEPT ![d] = {}]
  /\ began' = [began EXCEPT ![r] = 0]
  /\ UNCHANGED <<subject, clock, claimVars>>

\* A statement failed: everything is rolled back and the answer is a 5xx.
AbortRegistration(r) ==
  /\ request[r] \in {"begun", "replaced"}
  /\ request' = [request EXCEPT ![r] = "unavailable"]
  /\ began' = [began EXCEPT ![r] = 0]
  /\ UNCHANGED <<subject, clock, tableVars, claimVars>>

-----------------------------------------------------------------------------
(* Claims.                                                                 *)

\* The rows `order: { createdAt: 'DESC' }' lists first.
Newest ==
  {d \in Devices : created[d] # 0 /\ \A e \in Devices : created[e] <= created[d]}

\* resolveDevice and the signed prekey, which is there when the device is.
Resolve(c) ==
  /\ claim[c] = "idle"
  /\ \/ /\ Newest = {}
        /\ claim' = [claim EXCEPT ![c] = "failed"]
        /\ UNCHANGED target
     \/ \E d \in Newest :
          /\ claim' = [claim EXCEPT ![c] = "resolved"]
          /\ target' = [target EXCEPT ![c] = d]
  /\ UNCHANGED <<registrationVars, tableVars, key, origin>>

\* Mutant: a SELECT without FOR UPDATE.
FreeIgnoringLocks(d) == Keys \ consumed[d]

\* The rows a claim of d can lock: unconsumed, locked by no other claim, and
\* not deleted by a registration that has yet to commit.
Free(d) ==
  IF \E r \in Requests : request[r] = "replaced" /\ subject[r] = d
  THEN {}
  ELSE Keys \ (consumed[d] \cup LockedByClaims(d))

\* The locking SELECT: the first free row by key id, or none.
Pick(c) ==
  LET d == target[c] IN
  /\ claim[c] = "resolved"
  /\ claim' = [claim EXCEPT ![c] = "picked"]
  /\ \/ /\ Free(d) = {}
        /\ key' = [key EXCEPT ![c] = None]
     \/ \E k \in Free(d) :
          /\ \A j \in Free(d) : k <= j
          /\ key' = [key EXCEPT ![c] = k]
  /\ origin' = [origin EXCEPT ![c] = batch[d]]
  /\ UNCHANGED <<registrationVars, tableVars, target>>

\* consumed_at = now(), and the commit.
CommitClaim(c) ==
  LET d == target[c] IN
  /\ claim[c] = "picked"
  /\ claim' = [claim EXCEPT ![c] = "granted"]
  /\ consumed' = [consumed EXCEPT ![d] = @ \cup ({key[c]} \ {None})]
  /\ UNCHANGED <<registrationVars, created, batch, target, key, origin>>

AbortClaim(c) ==
  /\ claim[c] \in {"resolved", "picked"}
  /\ claim' = [claim EXCEPT ![c] = "failed"]
  /\ UNCHANGED <<registrationVars, tableVars, target, key, origin>>

-----------------------------------------------------------------------------
ServerStep(r) ==
  Refuse(r) \/ Begin(r) \/ Replace(r) \/ CommitRegistration(r) \/ AbortRegistration(r)

ClaimStep(c) ==
  Resolve(c) \/ Pick(c) \/ CommitClaim(c) \/ AbortClaim(c)

\* By itself the backend assumes nothing of the requests it is sent.
Next ==
  \/ \E r \in Requests, d \in Devices : Receive(r, d)
  \/ \E r \in Requests : ServerStep(r)
  \/ \E c \in Claims : ClaimStep(c)

Spec == Init /\ [][Next]_vars

-----------------------------------------------------------------------------
TypeOK ==
  /\ request \in [Requests -> RequestStages]
  /\ subject \in [Requests -> Devices \cup {None}]
  /\ began \in [Requests -> Nat]
  /\ clock \in Nat
  /\ created \in [Devices -> Nat]
  /\ batch \in [Devices -> Nat]
  /\ consumed \in [Devices -> SUBSET Keys]
  /\ claim \in [Claims -> ClaimStages]
  /\ target \in [Claims -> Devices \cup {None}]
  /\ key \in [Claims -> Keys \cup {None}]
  /\ origin \in [Claims -> Nat]

HasKey(c) == claim[c] \in {"picked", "granted"} /\ key[c] # None

(* No row of the one-time prekeys is taken by two claims, however they     *)
(* interleave with each other and with registrations of the same device    *)
(* (claimOneTimePreKey, FOR UPDATE SKIP LOCKED and consumed_at).           *)
RowGrantedOnce ==
  \A c, e \in Claims :
    /\ c # e
    /\ HasKey(c) /\ HasKey(e)
    /\ target[c] = target[e]
    /\ origin[c] = origin[e]
    => key[c] # key[e]

(* A claim never takes an already superseded row: the key it holds until   *)
(* its commit belongs to the batch that is published when it commits.      *)
(* (A registration's DELETE waits for the claim's row lock.)               *)
PickedRowIsPublished ==
  \A c \in Claims :
    claim[c] = "picked" /\ key[c] # None =>
      /\ origin[c] = batch[target[c]]
      /\ key[c] \notin consumed[target[c]]

(* What pre-key-claim.service.ts says of the row lock, that it "guarantees *)
(* no two senders claim the same one", read as a promise about the public  *)
(* key a sender is given and not about the row it was stored in.           *)
HandedOutOnce ==
  \A c, e \in Claims :
    c # e /\ claim[c] = "granted" /\ claim[e] = "granted" /\ key[c] # None =>
      target[c] # target[e] \/ key[c] # key[e]

=============================================================================
