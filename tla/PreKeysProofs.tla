---------------------------- MODULE PreKeysProofs ----------------------------
(***************************************************************************)
(* PreKeys for any number of requests, devices, keys and claims: its types *)
(* and the two promises of the row locks.                                  *)
(*                                                                         *)
(* RowGrantedOnce is not inductive.  Locks says why it holds: the key of a *)
(* claim that has yet to commit is a row of the published batch, is not    *)
(* consumed, and no registration is deleting it (its DELETE waits for the  *)
(* lock, and a claim skips the rows of a DELETE); the key of a committed   *)
(* claim is consumed for as long as its batch is the published one.        *)
(***************************************************************************)
EXTENDS PreKeys, TLAPS

Known == \A c \in Claims :
  claim[c] \in {"resolved", "picked", "granted"} => target[c] \in Devices

Typed == TypeOK /\ Known

Lock(c) ==
  /\ origin[c] <= batch[target[c]]
  /\ claim[c] = "picked" =>
       /\ origin[c] = batch[target[c]]
       /\ key[c] \notin consumed[target[c]]
       /\ \A r \in Requests : request[r] = "replaced" => subject[r] # target[c]
  /\ claim[c] = "granted" /\ origin[c] = batch[target[c]] =>
       key[c] \in consumed[target[c]]

Locks == \A c \in Claims : HasKey(c) => Lock(c)

(***************************************************************************)
(* Type correctness.                                                       *)
(***************************************************************************)
LEMMA TypedInit == Init => Typed
  BY DEF Init, Typed, TypeOK, Known, RequestStages, ClaimStages, None

LEMMA TypedStep == Typed /\ [Next]_vars => Typed'
<1> SUFFICES ASSUME Typed, [Next]_vars PROVE Typed'
  OBVIOUS
<1> USE DEF Typed, TypeOK, Known, RequestStages, Answers, Refusals, ClaimStages, None,
            registrationVars, tableVars, claimVars
<1>1. ASSUME NEW r \in Requests, NEW d \in Devices, Receive(r, d) PROVE Typed'
  BY <1>1 DEF Receive
<1>2. ASSUME NEW r \in Requests, ServerStep(r) PROVE Typed'
  <2>1. CASE Refuse(r)
    BY <2>1 DEF Refuse
  <2>2. CASE Begin(r)
    BY <2>2 DEF Begin
  <2>3. CASE Replace(r)
    BY <2>3 DEF Replace
  <2>4. CASE CommitRegistration(r)
    <3> DEFINE d == subject[r]
    <3>1. /\ request' = [request EXCEPT ![r] = "created"]
          /\ created' = [created EXCEPT ![d] = IF created[d] = 0 THEN began[r] ELSE created[d]]
          /\ batch' = [batch EXCEPT ![d] = batch[d] + 1]
          /\ consumed' = [consumed EXCEPT ![d] = {}]
          /\ began' = [began EXCEPT ![r] = 0]
          /\ UNCHANGED <<subject, clock, claimVars>>
      BY <2>4 DEF CommitRegistration
    <3>2. CASE d \in Devices
      BY <3>1, <3>2
    <3>3. CASE d \notin Devices
      <4>1. created' = created /\ batch' = batch /\ consumed' = consumed
        BY <3>1, <3>3
      <4> QED
        BY <3>1, <4>1
    <3> QED
      BY <3>2, <3>3
  <2>5. CASE AbortRegistration(r)
    BY <2>5 DEF AbortRegistration
  <2> QED
    BY <1>2, <2>1, <2>2, <2>3, <2>4, <2>5 DEF ServerStep
<1>3. ASSUME NEW c \in Claims, ClaimStep(c) PROVE Typed'
  <2>1. CASE Resolve(c)
    BY <2>1 DEF Resolve, Newest
  <2>2. CASE Pick(c)
    <3>1. key' \in [Claims -> Keys \cup {None}]
      <4>1. Free(target[c]) \subseteq Keys
        BY DEF Free
      <4> QED
        BY <2>2, <4>1 DEF Pick
    <3>2. target[c] \in Devices
      BY <2>2 DEF Pick
    <3>3. origin' \in [Claims -> Nat]
      BY <2>2, <3>2 DEF Pick
    <3> QED
      BY <2>2, <3>1, <3>3 DEF Pick
  <2>3. CASE CommitClaim(c)
    BY <2>3 DEF CommitClaim
  <2>4. CASE AbortClaim(c)
    BY <2>4 DEF AbortClaim
  <2> QED
    BY <1>3, <2>1, <2>2, <2>3, <2>4 DEF ClaimStep
<1>4. CASE UNCHANGED vars
  BY <1>4 DEF vars
<1> QED
  BY <1>1, <1>2, <1>3, <1>4 DEF Next

(* Every reachable state of the backend is of the declared types           *)
(* (devices.service.ts, pre-key-claim.service.ts).                         *)
THEOREM TypeCorrect == Spec => []TypeOK
<1>1. Spec => []Typed
  BY TypedInit, TypedStep, PTL DEF Spec
<1>2. Typed => TypeOK
  BY DEF Typed
<1> QED
  BY <1>1, <1>2, PTL

-----------------------------------------------------------------------------
(***************************************************************************)
(* The row locks.                                                          *)
(***************************************************************************)
LEMMA LocksInit == Init => Locks /\ RowGrantedOnce
  BY DEF Init, Locks, Lock, RowGrantedOnce, HasKey

\* A held row is locked.
LEMMA HeldIsLocked ==
  ASSUME NEW c \in Claims, claim[c] = "picked", key[c] # None
  PROVE  key[c] \in LockedByClaims(target[c])
  BY DEF LockedByClaims

\* A registration's step that touches no row touches no lock.
LEMMA LocksQuiet ==
  ASSUME Typed, Locks, RowGrantedOnce,
         UNCHANGED <<tableVars, claimVars>>,
         \A r \in Requests : request'[r] = "replaced" =>
           request[r] = "replaced" /\ subject'[r] = subject[r]
  PROVE  (Locks /\ RowGrantedOnce)'
<1>1. Locks'
  BY DEF Locks, Lock, HasKey, tableVars, claimVars
<1>2. RowGrantedOnce'
  BY DEF RowGrantedOnce, HasKey, claimVars
<1> QED
  BY <1>1, <1>2

LEMMA RegistrationKeepsLocks ==
  ASSUME Typed, Locks, RowGrantedOnce, NEW r \in Requests, ServerStep(r)
  PROVE  (Locks /\ RowGrantedOnce)'
<1> USE DEF Typed, TypeOK
<1>1. CASE Refuse(r)
  BY <1>1, LocksQuiet DEF Refuse, Refusals
<1>2. CASE Begin(r)
  BY <1>2, LocksQuiet DEF Begin
<1>3. CASE Replace(r)
  <2>1. ASSUME NEW c \in Claims, claim[c] = "picked", key[c] # None
        PROVE  target[c] # subject[r]
    BY <1>3, <2>1, HeldIsLocked DEF Replace
  <2>2. /\ request' = [request EXCEPT ![r] = "replaced"]
        /\ UNCHANGED <<subject, began, clock, tableVars, claimVars>>
    BY <1>3 DEF Replace
  <2>3. Locks'
    <3> SUFFICES ASSUME NEW c \in Claims, HasKey(c)'
                 PROVE  Lock(c)'
      BY DEF Locks
    <3>1. HasKey(c) /\ UNCHANGED <<origin[c], batch, target[c], claim[c], key[c], consumed>>
      BY <2>2 DEF HasKey, tableVars, claimVars
    <3> QED
      BY <2>1, <2>2, <3>1 DEF Locks, Lock, HasKey
  <2>4. RowGrantedOnce'
    BY <2>2 DEF RowGrantedOnce, HasKey, claimVars
  <2> QED
    BY <2>3, <2>4
<1>4. CASE CommitRegistration(r)
  <2> DEFINE d == subject[r]
  <2>1. /\ request[r] = "replaced"
        /\ request' = [request EXCEPT ![r] = "created"]
        /\ batch' = [batch EXCEPT ![d] = batch[d] + 1]
        /\ consumed' = [consumed EXCEPT ![d] = {}]
        /\ UNCHANGED <<subject, claimVars>>
    BY <1>4 DEF CommitRegistration
  <2>2. Locks'
    <3> SUFFICES ASSUME NEW c \in Claims, HasKey(c)'
                 PROVE  Lock(c)'
      BY DEF Locks
    <3>1. HasKey(c) /\ UNCHANGED <<origin[c], target[c], claim[c], key[c]>>
      BY <2>1 DEF HasKey, claimVars
    <3>2. target[c] \in Devices /\ origin[c] \in Nat
      BY <3>1 DEF Known, HasKey
    <3>3. \A q \in Requests : request'[q] = "replaced" => request[q] = "replaced"
      BY <2>1
    <3>4. CASE target[c] # d
      <4>1. batch'[target[c]] = batch[target[c]] /\ consumed'[target[c]] = consumed[target[c]]
        BY <2>1, <3>2, <3>4
      <4> QED
        BY <2>1, <3>1, <3>3, <4>1 DEF Locks, Lock
    <3>5. CASE target[c] = d
      <4>1. claim[c] = "granted" /\ origin[c] <= batch[d]
        BY <2>1, <3>1, <3>5 DEF Locks, Lock, HasKey
      <4>2. batch'[d] = batch[d] + 1 /\ batch[d] \in Nat
        BY <2>1, <3>2, <3>5
      <4>3. origin[c] < batch'[d]
        BY <3>2, <4>1, <4>2
      <4> QED
        BY <3>1, <3>2, <3>5, <4>1, <4>2, <4>3 DEF Lock
    <3> QED
      BY <3>4, <3>5
  <2>3. RowGrantedOnce'
    BY <2>1 DEF RowGrantedOnce, HasKey, claimVars
  <2> QED
    BY <2>2, <2>3
<1>5. CASE AbortRegistration(r)
  BY <1>5, LocksQuiet DEF AbortRegistration
<1> QED
  BY <1>1, <1>2, <1>3, <1>4, <1>5 DEF ServerStep
LEMMA ClaimKeepsLocks ==
  ASSUME Typed, Locks, RowGrantedOnce, NEW c \in Claims, ClaimStep(c)
  PROVE  (Locks /\ RowGrantedOnce)'
<1> USE DEF Typed, TypeOK
\* The other claims keep what they have, unless c's step moves a table.
<1>0. ASSUME NEW e \in Claims, e # c
      PROVE  UNCHANGED <<claim[e], target[e], key[e], origin[e]>>
  BY <1>0 DEF ClaimStep, Resolve, Pick, CommitClaim, AbortClaim
<1>1. CASE Resolve(c) \/ AbortClaim(c)
  <2>1. ~HasKey(c)'
    BY <1>1 DEF HasKey, Resolve, AbortClaim
  <2>2. UNCHANGED <<registrationVars, tableVars>>
    BY <1>1 DEF Resolve, AbortClaim
  <2>3. Locks'
    BY <1>0, <2>1, <2>2 DEF Locks, Lock, HasKey, registrationVars, tableVars
  <2>4. RowGrantedOnce'
    BY <1>0, <2>1 DEF RowGrantedOnce, HasKey
  <2> QED
    BY <2>3, <2>4
<1>2. CASE Pick(c)
  <2> DEFINE d == target[c]
  <2>1. /\ claim' = [claim EXCEPT ![c] = "picked"]
        /\ origin' = [origin EXCEPT ![c] = batch[d]]
        /\ target' = target
        /\ UNCHANGED <<registrationVars, tableVars>>
    BY <1>2 DEF Pick
  <2>2. d \in Devices
    BY <1>2 DEF Pick, Known
  <2>3. HasKey(c)' => key'[c] \in Free(d)
    BY <1>2 DEF Pick, HasKey
  <2>4. HasKey(c)' => /\ key'[c] \notin consumed[d]
                      /\ key'[c] \notin LockedByClaims(d)
                      /\ \A r \in Requests : request[r] = "replaced" => subject[r] # d
    BY <2>3 DEF Free
  <2>5. Locks'
    <3>1. HasKey(c)' => Lock(c)'
      BY <2>1, <2>2, <2>4 DEF Lock, registrationVars, tableVars
    <3>2. ASSUME NEW e \in Claims, e # c, HasKey(e)' PROVE Lock(e)'
      BY <1>0, <2>1, <3>2 DEF Locks, Lock, HasKey, registrationVars, tableVars
    <3> QED
      BY <3>1, <3>2 DEF Locks
  <2>6. ASSUME NEW e \in Claims, e # c, HasKey(c)', HasKey(e)',
               target'[e] = d, origin'[e] = origin'[c]
        PROVE  key'[e] # key'[c]
    <3>1. HasKey(e) /\ target[e] = d /\ origin[e] = batch[d] /\ key'[e] = key[e]
      BY <1>0, <2>1, <2>6 DEF HasKey
    <3>2. CASE claim[e] = "picked"
      BY <2>4, <2>6, <3>1, <3>2, HeldIsLocked DEF HasKey
    <3>3. CASE claim[e] = "granted"
      BY <2>4, <2>6, <3>1, <3>3 DEF Locks, Lock
    <3> QED
      BY <3>1, <3>2, <3>3 DEF HasKey
  <2>7. RowGrantedOnce'
    <3> SUFFICES ASSUME NEW a \in Claims, NEW b \in Claims, a # b,
                        HasKey(a)', HasKey(b)',
                        target'[a] = target'[b], origin'[a] = origin'[b]
                 PROVE  key'[a] # key'[b]
      BY DEF RowGrantedOnce
    <3>1. CASE a # c /\ b # c
      BY <1>0, <3>1 DEF RowGrantedOnce, HasKey
    <3>2. CASE a = c \/ b = c
      BY <2>1, <2>6, <3>2
    <3> QED
      BY <3>1, <3>2
  <2> QED
    BY <2>5, <2>7
<1>3. CASE CommitClaim(c)
  <2> DEFINE d == target[c]
  <2>1. /\ claim[c] = "picked"
        /\ claim' = [claim EXCEPT ![c] = "granted"]
        /\ consumed' = [consumed EXCEPT ![d] = consumed[d] \cup ({key[c]} \ {None})]
        /\ UNCHANGED <<registrationVars, batch, target, key, origin>>
    BY <1>3 DEF CommitClaim
  <2>2. d \in Devices
    BY <2>1 DEF Known
  <2>3. RowGrantedOnce'
    <3>1. \A e \in Claims : HasKey(e)' => HasKey(e)
      BY <2>1 DEF HasKey
    <3> QED
      BY <2>1, <3>1 DEF RowGrantedOnce
  <2>4. HasKey(c)' => Lock(c)'
    <3> SUFFICES ASSUME HasKey(c)' PROVE Lock(c)'
      OBVIOUS
    <3>1. HasKey(c) /\ claim'[c] = "granted" /\ key[c] # None
      BY <2>1 DEF HasKey
    <3>2. key[c] \in consumed'[d]
      BY <2>1, <2>2, <3>1
    <3> QED
      BY <2>1, <3>1, <3>2 DEF Locks, Lock
  <2>5. ASSUME NEW e \in Claims, e # c, HasKey(e)' PROVE Lock(e)'
    <3>1. HasKey(e) /\ Lock(e) /\ target[e] \in Devices
      BY <1>0, <2>5 DEF HasKey, Locks, Known
    <3>2. CASE target[e] # d
      <4>1. consumed'[target[e]] = consumed[target[e]]
        BY <2>1, <3>1, <3>2
      <4> QED
        BY <1>0, <2>1, <2>5, <3>1, <4>1 DEF Lock, registrationVars
    <3>3. CASE target[e] = d
      <4>1. consumed'[d] = consumed[d] \cup ({key[c]} \ {None})
        BY <2>1, <2>2
      <4>2. ASSUME claim[e] = "picked" PROVE key[e] \notin consumed'[d]
        <5>1. key[e] \notin consumed[d] /\ origin[e] = batch[d] /\ key[e] # None
          BY <3>1, <3>3, <4>2 DEF Lock, HasKey
        <5>2. key[c] # None => key[c] # key[e]
          BY <2>1, <2>5, <3>1, <3>3, <5>1 DEF Locks, Lock, RowGrantedOnce, HasKey
        <5> QED
          BY <4>1, <5>1, <5>2
      <4> QED
        BY <1>0, <2>1, <2>5, <3>1, <3>3, <4>1, <4>2 DEF Lock, registrationVars
    <3> QED
      BY <3>2, <3>3
  <2>6. Locks'
    BY <2>4, <2>5 DEF Locks
  <2> QED
    BY <2>3, <2>6
<1> QED
  BY <1>1, <1>2, <1>3 DEF ClaimStep

LEMMA LocksStep ==
  Typed /\ Locks /\ RowGrantedOnce /\ [Next]_vars => (Locks /\ RowGrantedOnce)'
<1> SUFFICES ASSUME Typed, Locks, RowGrantedOnce, [Next]_vars
             PROVE  (Locks /\ RowGrantedOnce)'
  OBVIOUS
<1>1. ASSUME NEW r \in Requests, NEW d \in Devices, Receive(r, d)
      PROVE  (Locks /\ RowGrantedOnce)'
  BY <1>1, LocksQuiet DEF Receive, Typed, TypeOK
<1>2. CASE UNCHANGED vars
  BY <1>2, LocksQuiet DEF vars, registrationVars, tableVars, claimVars
<1> QED
  BY <1>1, <1>2, RegistrationKeepsLocks, ClaimKeepsLocks DEF Next

LEMMA LocksHold == Spec => [](Locks /\ RowGrantedOnce)
<1>1. Spec => []Typed
  BY TypedInit, TypedStep, PTL DEF Spec
<1> QED
  BY <1>1, LocksInit, LocksStep, PTL DEF Spec

(* No row of the one-time prekeys is taken by two claims, however many     *)
(* claims and registrations interleave (claimOneTimePreKey).               *)
THEOREM RowGrantedOnceHolds == Spec => []RowGrantedOnce
BY LocksHold, PTL

(* The row a claim holds is of the published batch and unconsumed until    *)
(* the claim commits (claimOneTimePreKey, replaceOneTimePreKeys).          *)
THEOREM PickedRowIsPublishedHolds == Spec => []PickedRowIsPublished
<1>1. Locks => PickedRowIsPublished
  BY DEF Locks, Lock, PickedRowIsPublished, HasKey
<1> QED
  BY <1>1, LocksHold, PTL
=============================================================================
