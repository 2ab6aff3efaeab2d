--------------------------- MODULE EnrolmentProofs ---------------------------
(***************************************************************************)
(* Enrolment for any number of bootstraps, requests, exits, keys and       *)
(* claims: the backend it runs on is PreKeys, so that what is proved of    *)
(* PreKeys holds of it, and a phone that is not signed out keeps one       *)
(* identity.                                                               *)
(***************************************************************************)
EXTENDS Enrolment, TLAPS

Proved == INSTANCE PreKeysProofs WITH Devices <- Boots

(***************************************************************************)
(* The client's types, and what its places mean: a bootstrap that has not  *)
(* been started is off, and one that has its identity has a payload.       *)
(***************************************************************************)
ClientOK ==
  /\ boots \in 0..MaxBoots /\ requests \in 0..MaxRequests /\ exits \in 0..MaxExits
  /\ signedOut \in BOOLEAN /\ interrupted \in BOOLEAN
  /\ live \in 0..boots
  /\ phase \in Phases
  /\ blob \in Documents
  /\ cached \subseteq 1..boots
  /\ doc \in [Boots -> Documents]
  /\ payload \in [Boots -> Boots \cup {None}]
  /\ pc \in [Boots -> Stages]
  /\ waits \in [Boots -> 0..requests]
  /\ refreshed \subseteq Boots

Placed ==
  /\ \A b \in Boots : pc[b] # "off" => b <= boots
  /\ \A b \in Boots :
       pc[b] \in {"savingIdentity", "between", "awaiting", "savingDevice"} =>
         payload[b] \in Boots

Client == ClientOK /\ Placed

LEMMA ClientInit == Init => Client
<1> SUFFICES ASSUME Init PROVE Client
  OBVIOUS
<1>1. blob \in Documents /\ doc \in [Boots -> Documents]
  BY DEF Init, Empty, Documents
<1>2. pc \in [Boots -> Stages] /\ Placed
  BY DEF Init, Stages, Placed
<1>3. waits \in [Boots -> 0..requests] /\ payload \in [Boots -> Boots \cup {None}]
  BY DEF Init, None
<1>4. /\ boots \in 0..MaxBoots /\ requests \in 0..MaxRequests /\ exits \in 0..MaxExits
      /\ live \in 0..boots /\ cached \subseteq 1..boots
  BY BootsAssumption, RequestsAssumption, ExitsAssumption DEF Init, None
<1>5. /\ signedOut \in BOOLEAN /\ interrupted \in BOOLEAN
      /\ phase \in Phases /\ refreshed \subseteq Boots
  BY DEF Init, Phases
<1> QED
  BY <1>1, <1>2, <1>3, <1>4, <1>5 DEF Client, ClientOK

LEMMA ReadDocument ==
  ASSUME Client, NEW b \in Boots
  PROVE  Read(b) \in Documents
BY DEF Client, ClientOK, Read

LEMMA OpenClient == ASSUME Client, Open PROVE Client'
<1> DEFINE b == boots + 1
<1> USE BootsAssumption, RequestsAssumption, ExitsAssumption DEF Client, ClientOK, Boots, None
<1>1. /\ boots < MaxBoots /\ boots' = b /\ live' = b
      /\ cached' = (cached \ Released) \cup {b}
      /\ payload' = [payload EXCEPT ![b] = blob.identity]
      /\ UNCHANGED <<blob, waits, refreshed, requests, exits, signedOut, interrupted>>
  BY DEF Open
<1>2. b \in Boots
  BY <1>1
<1>3. blob.identity \in Boots \cup {None}
  BY DEF Documents
<1>4. \E stage \in Stages :
        /\ pc' = [pc EXCEPT ![b] = stage]
        /\ phase' \in Phases
        /\ stage = "between" => blob.identity # None
        /\ stage \notin {"savingIdentity", "awaiting", "savingDevice"}
  <2>1. \/ /\ pc' = [pc EXCEPT ![b] = "generating"]
           /\ phase' = "registering"
        \/ /\ pc' = [pc EXCEPT ![b] = "between"]
           /\ phase' = "registering" /\ blob.identity # None
        \/ /\ pc' = [pc EXCEPT ![b] = "registered"]
           /\ phase' = "ready"
    BY DEF Open, End
  <2>2. {"generating", "between", "registered"} \subseteq Stages
    BY DEF Stages, Working
  <2>3. {"registering", "ready"} \subseteq Phases
    BY DEF Phases
  <2> HIDE DEF b
  <2> QED
    BY <2>1, <2>2, <2>3
<1>5. doc' \in [Boots -> Documents]
  BY <1>2 DEF Open, Empty, Documents
<1>6. Placed'
  BY <1>1, <1>2, <1>3, <1>4 DEF Placed
<1>7. ClientOK'
  <2>1. pc' \in [Boots -> Stages] /\ phase' \in Phases
    BY <1>2, <1>4 DEF Stages
  <2>2. payload' \in [Boots -> Boots \cup {None}]
    BY <1>1, <1>2, <1>3
  <2>3. boots \in Nat /\ boots' = boots + 1 /\ live' = boots + 1 /\ boots < MaxBoots
    BY <1>1
  <2>4. live' \in 0..boots' /\ boots' \in 0..MaxBoots
    BY <2>3
  <2>5. ASSUME NEW c \in cached' PROVE c \in 1..boots'
    <3>1. c \in cached \/ c = boots + 1
      BY <1>1
    <3>2. c \in 1..boots \/ c = boots + 1
      BY <3>1
    <3> QED
      BY <2>3, <3>2
  <2> QED
    BY <1>1, <1>5, <2>1, <2>2, <2>4, <2>5
<1> QED
  BY <1>6, <1>7

\* What a bootstrap's own step may do.
LEMMA BootstrapClient ==
  ASSUME Client, NEW b \in Boots, Bootstrap(b)
  PROVE  Client'
<1> USE DEF Client, ClientOK, Placed, Stages, Working, Writing, Phases
<1>1. b \in 1..boots
  <2>1. pc[b] # "off"
    BY DEF Bootstrap, Generated, GenerationFails, IdentitySaved, WriteFails, Post, GiveUp,
           Timeout, Answer, DeviceSaved
  <2> QED
    BY <2>1 DEF Boots
<1>2. CASE Generated(b)
  <2>1. [Read(b) EXCEPT !.identity = b] \in Documents
    BY ReadDocument DEF Documents
  <2> QED
    BY <1>1, <1>2, <2>1 DEF Generated, Mutate, Goto, countVars
<1>3. CASE GenerationFails(b)
  BY <1>3 DEF GenerationFails, End, countVars
<1>4. CASE IdentitySaved(b)
  BY <1>4 DEF IdentitySaved, Goto, End, countVars
<1>5. CASE WriteFails(b)
  BY <1>5 DEF WriteFails, End, countVars
<1>6. CASE Post(b)
  <2>1. requests' = requests + 1 /\ requests' \in 0..MaxRequests
    BY <1>6, RequestsAssumption DEF Post
  <2>2. waits' \in [Boots -> 0..requests']
    BY <1>6, <2>1, RequestsAssumption DEF Post
  <2> QED
    BY <1>6, <2>1, <2>2 DEF Post, Goto
<1>7. CASE GiveUp(b)
  BY <1>7 DEF GiveUp, End, countVars
<1>8. CASE Timeout(b)
  BY <1>8 DEF Timeout, Goto, countVars
<1>9. CASE Answer(b)
  <2>1. [Read(b) EXCEPT !.device = payload[b]] \in Documents
    BY ReadDocument DEF Documents
  <2> QED
    BY <1>1, <1>9, <2>1 DEF Answer, Mutate, Goto, End, countVars
<1>10. CASE DeviceSaved(b)
  BY <1>10 DEF DeviceSaved, End, countVars
<1> QED
  BY <1>2, <1>3, <1>4, <1>5, <1>6, <1>7, <1>8, <1>9, <1>10 DEF Bootstrap

LEMMA ClientStep == Client /\ [Next]_vars => Client'
<1> SUFFICES ASSUME Client, [Next]_vars PROVE Client'
  OBVIOUS
<1>1. CASE SignOut
  <2> USE DEF Client, ClientOK
  <2>1. Empty \in Documents
    BY DEF Empty, Documents
  <2>2. blob' \in Documents /\ doc' \in [Boots -> Documents]
    BY <1>1, <2>1 DEF SignOut
  <2>3. exits' \in 0..MaxExits /\ live' \in 0..boots' /\ phase' \in Phases
    BY <1>1, ExitsAssumption DEF SignOut, None, Phases
  <2>4. signedOut' \in BOOLEAN /\ interrupted' \in BOOLEAN
    BY <1>1 DEF SignOut
  <2>5. cached' \subseteq 1..boots' /\ Placed'
    BY <1>1 DEF SignOut, Placed
  <2> QED
    BY <1>1, <2>2, <2>3, <2>4, <2>5 DEF SignOut
<1>2. CASE Crash
  <2> USE DEF Client, ClientOK
  <2>1. pc' = [b \in Boots |-> IF b <= boots THEN "dead" ELSE "off"]
    BY <1>2 DEF Crash
  <2>2. pc' \in [Boots -> Stages]
    BY <2>1 DEF Stages
  <2>3. Placed'
    BY <1>2, <2>1 DEF Placed, Crash
  <2>4. doc' \in [Boots -> Documents] /\ live' \in 0..boots' /\ exits' \in 0..MaxExits
    BY <1>2, ExitsAssumption DEF Crash, Empty, Documents, None
  <2> QED
    BY <1>2, <2>2, <2>3, <2>4 DEF Crash, Phases
<1>3. CASE BackendStep \/ UNCHANGED vars
  BY <1>3 DEF BackendStep, vars, clientVars, countVars, Client, ClientOK, Placed
<1> QED
  BY <1>1, <1>2, <1>3, OpenClient, BootstrapClient DEF Next
-----------------------------------------------------------------------------
(***************************************************************************)
(* The backend.                                                            *)
(***************************************************************************)
LEMMA BackendSimulated ==
  Client /\ [Next]_vars => [Backend!Next]_(Backend!vars)
<1> SUFFICES ASSUME Client, [Next]_vars PROVE Backend!Next \/ UNCHANGED Backend!vars
  OBVIOUS
<1> USE DEF Backend!vars, Backend!registrationVars, Backend!tableVars, Backend!claimVars,
            backendVars
<1>1. CASE Open \/ SignOut \/ Crash
  BY <1>1 DEF Open, SignOut, Crash
<1>2. ASSUME NEW b \in Boots, Bootstrap(b) PROVE Backend!Next \/ UNCHANGED Backend!vars
  <2>1. CASE Post(b)
    <3>1. requests + 1 \in Requests /\ payload[b] \in Boots
      BY <2>1, RequestsAssumption DEF Post, Client, ClientOK, Placed, Requests
    <3> QED
      BY <2>1, <3>1 DEF Post, Backend!Next
  <2>2. CASE ~Post(b)
    BY <1>2, <2>2 DEF Bootstrap, Generated, GenerationFails, IdentitySaved, WriteFails,
                      GiveUp, Timeout, Answer, DeviceSaved
  <2> QED
    BY <2>1, <2>2
<1>3. CASE BackendStep
  BY <1>3 DEF BackendStep, Backend!Next
<1>4. CASE UNCHANGED vars
  BY <1>4 DEF vars
<1> QED
  BY <1>1, <1>2, <1>3, <1>4 DEF Next

(* Under every behaviour of the phone the backend behaves as PreKeys says  *)
(* it does: what holds of PreKeys for arbitrary requests holds here.       *)
THEOREM ImplementsPreKeys == Spec => Backend!Spec
<1>1. Init => Backend!Init
  BY DEF Init
<1>2. Spec => []Client
  BY ClientInit, ClientStep, PTL DEF Spec
<1> QED
  BY <1>1, <1>2, BackendSimulated, PTL DEF Spec, Backend!Spec

\* The two instances of PreKeys, the model's and the proved one, agree.
LEMMA SameInit == Backend!Init => Proved!Init
BY DEF Backend!Init, Proved!Init, Backend!None, Proved!None

LEMMA SameNext == [Backend!Next]_(Backend!vars) => [Proved!Next]_(Proved!vars)
<1> USE DEF Backend!registrationVars, Backend!tableVars, Backend!claimVars, Backend!vars,
            Proved!registrationVars, Proved!tableVars, Proved!claimVars, Proved!vars,
            Backend!None, Proved!None
<1>1. ASSUME NEW r \in Requests, Backend!ServerStep(r) PROVE Proved!ServerStep(r)
  BY <1>1 DEF Backend!ServerStep, Proved!ServerStep,
              Backend!Refuse, Proved!Refuse, Backend!Refusals, Proved!Refusals,
              Backend!Begin, Proved!Begin, Backend!Replace, Proved!Replace,
              Backend!LockedByClaims, Proved!LockedByClaims,
              Backend!CommitRegistration, Proved!CommitRegistration,
              Backend!AbortRegistration, Proved!AbortRegistration
<1>2. ASSUME NEW c \in Claims, Backend!ClaimStep(c) PROVE Proved!ClaimStep(c)
  BY <1>2 DEF Backend!ClaimStep, Proved!ClaimStep,
              Backend!Resolve, Proved!Resolve, Backend!Newest, Proved!Newest,
              Backend!Pick, Proved!Pick, Backend!Free, Proved!Free,
              Backend!LockedByClaims, Proved!LockedByClaims,
              Backend!CommitClaim, Proved!CommitClaim, Backend!AbortClaim, Proved!AbortClaim
<1> QED
  BY <1>1, <1>2 DEF Backend!Next, Proved!Next, Backend!Receive, Proved!Receive

(* No row of the one-time prekeys is taken by two claims, under any        *)
(* behaviour of the phone (claimOneTimePreKey, registerDevice).            *)
THEOREM RowGrantedOnceHolds == Spec => []RowGrantedOnce
<1>1. Spec => Proved!Spec
  BY ImplementsPreKeys, SameInit, SameNext, PTL DEF Backend!Spec, Proved!Spec
<1>2. Proved!Spec => []Proved!RowGrantedOnce
  BY Proved!RowGrantedOnceHolds
<1>3. Proved!RowGrantedOnce => RowGrantedOnce
  BY DEF RowGrantedOnce, Backend!RowGrantedOnce, Proved!RowGrantedOnce,
         Backend!HasKey, Proved!HasKey, Backend!None, Proved!None
<1> QED
  BY <1>1, <1>2, <1>3, PTL

(* The same of the row a claim holds (claimOneTimePreKey).                 *)
THEOREM PickedRowIsPublishedHolds == Spec => []PickedRowIsPublished
<1>1. Spec => Proved!Spec
  BY ImplementsPreKeys, SameInit, SameNext, PTL DEF Backend!Spec, Proved!Spec
<1>2. Proved!Spec => []Proved!PickedRowIsPublished
  BY Proved!PickedRowIsPublishedHolds
<1>3. Proved!PickedRowIsPublished => PickedRowIsPublished
  BY DEF PickedRowIsPublished, Backend!PickedRowIsPublished, Proved!PickedRowIsPublished,
         Backend!None, Proved!None
<1> QED
  BY <1>1, <1>2, <1>3, PTL

(* Phone and backend are always of the declared types (chat-controller.ts, *)
(* persistent-store.ts, device-registrar.ts, devices.service.ts).          *)
THEOREM TypeCorrect == Spec => []TypeOK
<1>1. Spec => Proved!Spec
  BY ImplementsPreKeys, SameInit, SameNext, PTL DEF Backend!Spec, Proved!Spec
<1>2. Proved!Spec => []Proved!TypeOK
  BY Proved!TypeCorrect
<1>3. Spec => []Client
  BY ClientInit, ClientStep, PTL DEF Spec
<1>4. Proved!TypeOK => Backend!TypeOK
  BY DEF Backend!TypeOK, Proved!TypeOK, Backend!None, Proved!None,
         Backend!RequestStages, Proved!RequestStages, Backend!Answers, Proved!Answers,
         Backend!Refusals, Proved!Refusals, Backend!ClaimStages, Proved!ClaimStages
<1>5. Client /\ Backend!TypeOK => TypeOK
  BY DEF Client, ClientOK, TypeOK
<1> QED
  BY <1>1, <1>2, <1>3, <1>4, <1>5, PTL

-----------------------------------------------------------------------------
(***************************************************************************)
(* One identity.                                                           *)
(*                                                                         *)
(* As long as nobody signs out no bootstrap works but the live one (retry  *)
(* needs a failure on the screen, and only the live one can put it there), *)
(* and what that one has in memory, in the blob and in its payload is the  *)
(* same identity, or the blob has none and nothing was ever sent.          *)
(***************************************************************************)
Published ==
  /\ \A d \in Boots : created[d] # 0 => d = blob.identity
  /\ \A r \in Requests : request[r] # "none" =>
       subject[r] = blob.identity /\ blob.identity # None

Alone ==
  /\ \A b \in Boots : pc[b] \in Working => b = live
  /\ phase = "failed" /\ live # None => pc[live] \notin Working

Agrees(b) ==
  /\ pc[b] \in Working => b \in cached
  /\ pc[b] \in {"generating", "savingIdentity"} => blob.identity = None
  /\ pc[b] \in {"savingIdentity", "between", "awaiting", "savingDevice"} =>
       doc[b].identity = payload[b]
  /\ pc[b] \in {"between", "awaiting", "savingDevice"} => blob.identity = payload[b]

Kept == ~signedOut => Published /\ Alone /\ \A b \in Boots : Agrees(b)

LEMMA KeptInit == Init => Kept
BY DEF Init, Backend!Init, Kept, Published, Alone, Agrees, Requests, Working, Writing

LEMMA OpenKeeps == ASSUME Client, Kept, Open PROVE Kept'
<1> USE DEF Client, ClientOK, Working, Writing
<1>0. PICK b \in Boots : b = boots + 1
  BY BootsAssumption DEF Open, Boots
<1> SUFFICES ASSUME ~signedOut PROVE (Published /\ Alone /\ \A c \in Boots : Agrees(c))'
  BY DEF Open, Kept
<1>1. /\ boots < MaxBoots /\ live' = b /\ boots \in Nat
      /\ cached' = (cached \ Released) \cup {b}
      /\ payload' = [payload EXCEPT ![b] = blob.identity]
      /\ UNCHANGED <<blob, backendVars>>
      /\ live = None \/ phase = "failed"
  BY <1>0, BootsAssumption DEF Open
<1>2. b \in Boots /\ b # None
  BY <1>1, <1>0, BootsAssumption DEF Boots, None
<1>3. \A c \in Boots : pc[c] \notin Working
  BY <1>1 DEF Kept, Alone, Boots, None
<1>4. \A c \in Boots \ {b} : pc'[c] = pc[c]
  BY <1>0 DEF Open, End
<1>5. Published'
  BY <1>1 DEF Kept, Published, backendVars
<1>6. Alone'
  <2>1. phase' # "failed"
    BY DEF Open, End
  <2> QED
    BY <1>1, <1>3, <1>4, <2>1 DEF Alone
<1>7. Agrees(b)'
  <2>1. doc'[b] = blob /\ payload'[b] = blob.identity /\ b \in cached'
    BY <1>0, <1>1, <1>2 DEF Open
  <2>2. \/ pc'[b] = "generating" /\ blob.identity = None
        \/ pc'[b] = "between"
        \/ pc'[b] = "registered"
    BY <1>0, <1>2 DEF Open, End
  <2> QED
    BY <1>1, <2>1, <2>2 DEF Agrees
<1>8. \A c \in Boots \ {b} : Agrees(c)'
  BY <1>3, <1>4 DEF Agrees
<1> QED
  BY <1>5, <1>6, <1>7, <1>8

LEMMA BootstrapKeeps ==
  ASSUME Client, Backend!TypeOK, Kept, NEW b \in Boots, Bootstrap(b)
  PROVE  Kept'
<1> USE DEF Client, ClientOK, Working, Writing, End, Goto, countVars
<1>1. signedOut' = signedOut /\ live' = live
  BY DEF Bootstrap, Generated, GenerationFails, IdentitySaved, WriteFails, Post, GiveUp,
         Timeout, Answer, DeviceSaved
<1> SUFFICES ASSUME ~signedOut PROVE (Published /\ Alone /\ \A c \in Boots : Agrees(c))'
  BY <1>1 DEF Kept
<1>2. pc[b] \in Working
  BY DEF Bootstrap, Generated, GenerationFails, IdentitySaved, WriteFails, Post, GiveUp,
         Timeout, Answer, DeviceSaved
<1>3. b = live /\ live # None /\ b \in cached
  BY <1>2 DEF Kept, Alone, Agrees, Boots, None
<1>4. \A c \in Boots \ {b} : pc'[c] = pc[c] /\ pc[c] \notin Working
  BY <1>3 DEF Kept, Alone, Bootstrap, Generated, GenerationFails, IdentitySaved, WriteFails,
              Post, GiveUp, Timeout, Answer, DeviceSaved
<1>5. Agrees(b) /\ Published /\ phase # "failed"
  BY <1>2, <1>3 DEF Kept, Alone
<1>6. \A c \in Boots \ {b} : Agrees(c)'
  BY <1>4 DEF Agrees
<1>7. Alone'
  <2>1. phase' = "failed" => pc'[b] \notin Working
    BY <1>5 DEF Bootstrap, Generated, GenerationFails, IdentitySaved, WriteFails,
                Post, GiveUp, Timeout, Answer, DeviceSaved
  <2> QED
    BY <1>1, <1>3, <1>4, <2>1 DEF Alone
<1>8. Published' /\ Agrees(b)'
  <2>1. CASE Generated(b)
    <3>1. doc'[b].identity = b /\ payload'[b] = b /\ pc'[b] = "savingIdentity"
      <4>1. [Read(b) EXCEPT !.identity = b].identity = b
        BY ReadDocument DEF Documents
      <4> QED
        BY <2>1, <4>1 DEF Generated, Mutate
    <3> QED
      BY <1>3, <1>5, <2>1, <3>1 DEF Generated, Mutate, Agrees, Published, backendVars
  <2>2. CASE IdentitySaved(b)
    <3>1. /\ blob' = doc[b] /\ blob.identity = None /\ doc[b].identity = payload[b]
          /\ pc'[b] \in {"between", "registered"}
          /\ UNCHANGED <<cached, doc, payload, backendVars>>
      BY <1>5, <2>2 DEF IdentitySaved, Agrees
    <3>2. \A d \in Boots : created[d] = 0
      BY <1>5, <3>1 DEF Published, Boots, None
    <3>3. \A r \in Requests : request[r] = "none"
      BY <1>5, <3>1 DEF Published
    <3> QED
      BY <1>3, <3>1, <3>2, <3>3 DEF Agrees, Published, backendVars
  <2>3. CASE Post(b)
    <3>1. /\ request' = [request EXCEPT ![requests + 1] = "sent"]
          /\ subject' = [subject EXCEPT ![requests + 1] = payload[b]]
          /\ pc' = [pc EXCEPT ![b] = "awaiting"]
          /\ UNCHANGED <<created, blob, cached, doc, payload>>
      BY <2>3 DEF Post, Backend!Receive, Backend!tableVars
    <3>2. blob.identity = payload[b] /\ payload[b] \in Boots /\ pc[b] = "between"
      BY <1>5, <2>3 DEF Post, Agrees, Placed
    <3>3. Agrees(b)'
      BY <1>3, <1>5, <3>1, <3>2 DEF Agrees
    <3>4. ASSUME NEW r \in Requests, request'[r] # "none"
          PROVE  subject'[r] = blob.identity /\ blob.identity # None
      <4>1. CASE r = requests + 1
        BY <3>1, <3>2, <4>1 DEF Backend!TypeOK, Boots, None
      <4>2. CASE r # requests + 1
        BY <1>5, <3>1, <3>4, <4>2 DEF Backend!TypeOK, Published
      <4> QED
        BY <4>1, <4>2
    <3> QED
      BY <1>5, <3>1, <3>3, <3>4 DEF Published
  <2>4. CASE Answer(b)
    <3>1. [Read(b) EXCEPT !.device = payload[b]].identity = doc[b].identity
      BY <1>3, ReadDocument DEF Read, Documents
    <3>2. doc'[b].identity = doc[b].identity /\ b \in cached'
      BY <1>3, <2>4, <3>1 DEF Answer, Mutate
    <3> QED
      BY <1>5, <2>4, <3>2 DEF Answer, Agrees, Published, backendVars
  <2>5. CASE DeviceSaved(b)
    <3>1. blob'.identity = blob.identity
      BY <1>5, <2>5 DEF DeviceSaved, Agrees
    <3> QED
      BY <1>5, <2>5, <3>1 DEF DeviceSaved, Agrees, Published, backendVars
  <2>6. CASE GenerationFails(b) \/ WriteFails(b) \/ GiveUp(b) \/ Timeout(b)
    BY <1>5, <2>6 DEF GenerationFails, WriteFails, GiveUp, Timeout, Agrees, Published, backendVars
  <2> QED
    BY <2>1, <2>2, <2>3, <2>4, <2>5, <2>6 DEF Bootstrap
<1> QED
  BY <1>6, <1>7, <1>8

LEMMA BackendKeeps == ASSUME Client, Backend!TypeOK, Kept, BackendStep PROVE Kept'
<1> SUFFICES ASSUME ~signedOut PROVE (Published /\ Alone /\ \A c \in Boots : Agrees(c))'
  BY DEF BackendStep, countVars, Kept
<1>1. UNCHANGED <<live, phase, blob, cached, doc, payload, pc>>
  BY DEF BackendStep, clientVars
<1>2. Published /\ Alone /\ \A c \in Boots : Agrees(c)
  BY DEF Kept, BackendStep, countVars
<1>3. (Alone /\ \A c \in Boots : Agrees(c))'
  BY <1>1, <1>2 DEF Alone, Agrees
<1>4. ASSUME NEW r \in Requests, Backend!ServerStep(r)
      PROVE  Published'
  <2> USE DEF Backend!TypeOK
  <2>1. /\ request[r] # "none"
        /\ subject' = subject
        /\ \A q \in Requests \ {r} : request'[q] = request[q]
    BY <1>4 DEF Backend!ServerStep, Backend!Refuse, Backend!Begin, Backend!Replace,
                Backend!CommitRegistration, Backend!AbortRegistration
  <2>2. \A d \in Boots \ {subject[r]} : created'[d] = created[d]
    BY <1>4 DEF Backend!ServerStep, Backend!Refuse, Backend!Begin, Backend!Replace,
                Backend!CommitRegistration, Backend!AbortRegistration, Backend!tableVars
  <2>3. subject[r] = blob.identity /\ blob.identity # None
    BY <1>2, <2>1 DEF Published
  <2> QED
    BY <1>1, <1>2, <2>1, <2>2, <2>3 DEF Published
<1>5. ASSUME NEW c \in Claims, Backend!ClaimStep(c)
      PROVE  Published'
  <2>1. UNCHANGED <<request, subject, created>>
    BY <1>5 DEF Backend!ClaimStep, Backend!Resolve, Backend!Pick, Backend!CommitClaim,
                Backend!AbortClaim, Backend!registrationVars, Backend!tableVars
  <2> QED
    BY <1>1, <1>2, <2>1 DEF Published
<1> QED
  BY <1>3, <1>4, <1>5 DEF BackendStep

LEMMA KeptStep == Client /\ Backend!TypeOK /\ Kept /\ [Next]_vars => Kept'
<1> SUFFICES ASSUME Client, Backend!TypeOK, Kept, [Next]_vars PROVE Kept'
  OBVIOUS
<1>1. CASE SignOut
  BY <1>1 DEF SignOut, Kept
<1>2. CASE Crash
  <2> SUFFICES ASSUME ~signedOut
               PROVE  (Published /\ Alone /\ \A c \in Boots : Agrees(c))'
    BY <1>2 DEF Crash, Kept
  <2>1. \A c \in Boots : pc'[c] \in {"dead", "off"}
    BY <1>2 DEF Crash
  <2>2. Published'
    BY <1>2 DEF Crash, Kept, Published, backendVars
  <2>3. Alone'
    BY <1>2, <2>1 DEF Crash, Alone, Working, Writing
  <2> QED
    BY <2>1, <2>2, <2>3 DEF Agrees, Working, Writing
<1>3. CASE UNCHANGED vars
  BY <1>3 DEF vars, clientVars, countVars, backendVars, Kept, Published, Alone, Agrees
<1> QED
  BY <1>1, <1>2, <1>3, OpenKeeps, BootstrapKeeps, BackendKeeps DEF Next

(* Until somebody signs out, every device row and every request for one is *)
(* of the identity in the blob, for any number of launches, retries, lost  *)
(* answers and failed writes (ensureIdentity, ensureRegistered).           *)
THEOREM KeepsIdentityHolds == Spec => []KeepsIdentity
<1>1. Spec => []Client
  BY ClientInit, ClientStep, PTL DEF Spec
<1>2. TypeOK => Backend!TypeOK
  BY DEF TypeOK
<1>3. Spec => []Kept
  BY <1>1, <1>2, TypeCorrect, KeptInit, KeptStep, PTL DEF Spec
<1>4. Kept => KeepsIdentity
  BY DEF Kept, Published, KeepsIdentity
<1> QED
  BY <1>3, <1>4, PTL
-----------------------------------------------------------------------------
(***************************************************************************)
(* The newest row.                                                         *)
(*                                                                         *)
(* As long as nobody signs out of a phone that is not registered, an       *)
(* identity is given up only after its row exists.  So whatever request of *)
(* an older identity is still on its way can no longer set a created_at,   *)
(* and a request that can set one is of the identity in the blob and began *)
(* after every row there is.                                               *)
(***************************************************************************)
\* What the live bootstrap holds, in each of its places.
Held(b) ==
  /\ b \in cached
  /\ pc[b] = "generating" => blob = Empty /\ doc[b] = Empty
  /\ pc[b] = "savingIdentity" =>
       blob = Empty /\ payload[b] = b /\ doc[b] = [identity |-> b, device |-> None]
  /\ pc[b] \in {"between", "awaiting", "savingDevice"} =>
       payload[b] # None /\ blob = [identity |-> payload[b], device |-> None]
  /\ pc[b] \in {"between", "awaiting"} => doc[b] = blob
  /\ pc[b] = "awaiting" =>
       waits[b] \in Requests /\ request[waits[b]] # "none" /\ subject[waits[b]] = payload[b]
  /\ pc[b] = "savingDevice" =>
       /\ doc[b] = [identity |-> payload[b], device |-> payload[b]]
       /\ created[payload[b]] # 0
  /\ pc[b] = "registered" => doc[b] = blob /\ blob.device # None

\* What the blob holds: an identity, and a device id only once its row exists.
Stored ==
  /\ blob.identity \in 0..boots
  /\ blob.device \in {None, blob.identity}
  /\ blob.device # None => created[blob.device] # 0

\* A request of an older identity has nothing left to insert; one that has
\* will insert a row later than all there are.
RequestOK(r) ==
  request[r] # "none" =>
    /\ subject[r] \in Boots
    /\ request[r] = "created" \/ subject[r] # blob.identity => created[subject[r]] # 0
    /\ request[r] \in {"begun", "replaced"} =>
         /\ began[r] \in 1..clock
         /\ created[subject[r]] = 0 => \A d \in Boots : created[d] < began[r]

\* The row of the stored identity, if there is one, is the newest.
Rows ==
  /\ \A d \in Boots : created[d] <= clock
  /\ \A r \in Requests : RequestOK(r)
  /\ blob.identity # None /\ created[blob.identity] # 0 =>
       \A d \in Boots \ {blob.identity} : created[d] < created[blob.identity]

\* An identity not stored yet has no row, and nobody asked for one.
Untried(b) ==
  b > boots \/ pc[b] \in {"generating", "savingIdentity"} =>
    created[b] = 0 /\ \A r \in Requests : request[r] # "none" => subject[r] # b

SteadyNow ==
  /\ Alone /\ Stored /\ Rows
  /\ \A b \in Boots : Untried(b)
  /\ live # None => Held(live)

Steady == ~interrupted => SteadyNow

\* Nothing is stored, asked for or registered at first.
LEMMA SteadyInit == Init => Steady
<1> SUFFICES ASSUME Init PROVE SteadyNow
  BY DEF Steady
<1>1. Alone /\ Stored /\ Rows
  BY DEF Init, Backend!Init, Alone, Stored, Rows, RequestOK, Requests, Working, Writing, Empty, None
<1> QED
  BY <1>1 DEF Init, Backend!Init, SteadyNow, Untried, None

\* What the client's steps leave to the backend.
LEMMA RowsStay ==
  ASSUME Rows, UNCHANGED <<request, subject, began, clock, created>>, blob'.identity = blob.identity
  PROVE  Rows'
BY DEF Rows, RequestOK

\* A launch or a retry continues with what the blob holds.
LEMMA OpenSteady == ASSUME Client, Steady, Open PROVE Steady'
<1> USE DEF Client, ClientOK, Working, Writing
<1>0. PICK b \in Boots : b = boots + 1
  BY BootsAssumption DEF Open, Boots
<1> SUFFICES ASSUME ~interrupted PROVE SteadyNow'
  BY DEF Open, Steady
<1>1. /\ boots < MaxBoots /\ live' = b /\ boots' = b /\ boots \in Nat
      /\ cached' = (cached \ Released) \cup {b}
      /\ payload' = [payload EXCEPT ![b] = blob.identity]
      /\ UNCHANGED <<blob, request, subject, began, clock, created>>
      /\ live = None \/ phase = "failed"
  BY <1>0, BootsAssumption DEF Open, backendVars
<1>2. b \in Boots /\ b # None /\ boots < b
  BY <1>1, <1>0, BootsAssumption DEF Boots, None
<1>3. \A c \in Boots : pc[c] \notin Working
  BY <1>1 DEF Steady, SteadyNow, Alone, Boots, None
<1>4. \A c \in Boots \ {b} : pc'[c] = pc[c]
  BY <1>0 DEF Open, End
<1>5. \/ pc'[b] = "generating" /\ blob.identity = None
      \/ pc'[b] = "between" /\ blob.identity # None /\ blob.device = None
      \/ pc'[b] = "registered" /\ blob.identity # None /\ blob.device # None
  BY <1>0, <1>2 DEF Open, End
<1>6. Alone'
  <2>1. phase' # "failed"
    BY DEF Open, End
  <2> QED
    BY <1>1, <1>3, <1>4, <2>1 DEF Alone
<1>7. Stored'
  <2>1. \A i \in 0..boots : i \in 0..boots'
    BY <1>1, <1>2 DEF Boots
  <2> QED
    BY <1>1, <2>1 DEF Steady, SteadyNow, Stored
<1>8. Rows'
  BY <1>1, RowsStay DEF Steady, SteadyNow
<1>9. ASSUME NEW c \in Boots PROVE Untried(c)'
  <2>1. Untried(b)'
    BY <1>1, <1>2 DEF Steady, SteadyNow, Untried
  <2>2. ASSUME c # b PROVE Untried(c)'
    <3>1. c > boots' => c > boots
      BY <1>1, <1>2 DEF Boots
    <3> QED
      BY <1>1, <1>4, <2>2, <3>1 DEF Steady, SteadyNow, Untried
  <2> QED
    BY <2>1, <2>2
<1>10. Held(b)'
  <2>1. doc'[b] = blob /\ payload'[b] = blob.identity /\ b \in cached'
    BY <1>0, <1>1, <1>2 DEF Open
  <2>2. /\ blob = [identity |-> blob.identity, device |-> blob.device]
        /\ blob.device \in {None, blob.identity}
    BY DEF Documents, Steady, SteadyNow, Stored
  <2> QED
    BY <1>1, <1>5, <2>1, <2>2 DEF Held, Empty
<1> QED
  BY <1>1, <1>6, <1>7, <1>8, <1>9, <1>10 DEF SteadyNow

\* A step of a bootstrap: the live one, for no other works before a sign-out.
LEMMA BootstrapSteady ==
  ASSUME Client, Backend!TypeOK, Steady, NEW b \in Boots, Bootstrap(b)
  PROVE  Steady'
<1> USE DEF Client, ClientOK, Working, Writing, End, Goto, countVars
<1>1. interrupted' = interrupted /\ live' = live /\ boots' = boots
  BY DEF Bootstrap, Generated, GenerationFails, IdentitySaved, WriteFails, Post, GiveUp,
         Timeout, Answer, DeviceSaved
<1> SUFFICES ASSUME ~interrupted PROVE SteadyNow'
  BY <1>1 DEF Steady
<1>2. pc[b] \in Working
  BY DEF Bootstrap, Generated, GenerationFails, IdentitySaved, WriteFails, Post, GiveUp,
         Timeout, Answer, DeviceSaved
<1>3. b = live /\ live # None /\ b \in cached
  BY <1>2 DEF Steady, SteadyNow, Alone, Held, Boots, None
<1>4. \A c \in Boots \ {b} : pc'[c] = pc[c] /\ pc[c] \notin Working
  BY <1>3 DEF Steady, SteadyNow, Alone, Bootstrap, Generated, GenerationFails, IdentitySaved,
              WriteFails, Post, GiveUp, Timeout, Answer, DeviceSaved
<1>5. Held(b) /\ Stored /\ Rows /\ Untried(b) /\ phase # "failed"
  BY <1>2, <1>3 DEF Steady, SteadyNow, Alone
<1>6. Alone'
  <2>1. phase' = "failed" => pc'[b] \notin Working
    BY <1>5 DEF Bootstrap, Generated, GenerationFails, IdentitySaved, WriteFails,
                Post, GiveUp, Timeout, Answer, DeviceSaved
  <2> QED
    BY <1>1, <1>3, <1>4, <2>1 DEF Alone
<1>7. CASE Post(b)
  <2> DEFINE r == requests + 1
  <2>1. /\ request[r] = "none"
        /\ request' = [request EXCEPT ![r] = "sent"]
        /\ subject' = [subject EXCEPT ![r] = payload[b]]
        /\ pc' = [pc EXCEPT ![b] = "awaiting"]
        /\ waits' = [waits EXCEPT ![b] = r]
        /\ UNCHANGED <<began, clock, created, blob, cached, doc, payload>>
    BY <1>7 DEF Post, Backend!Receive, Backend!tableVars
  <2>2. r \in Requests
    BY <1>7, RequestsAssumption DEF Post, Requests
  <2> HIDE DEF r
  <2>3. pc[b] = "between" /\ payload[b] \in Boots /\ payload[b] = blob.identity
    BY <1>5, <1>7 DEF Post, Held, Placed
  <2>4. request'[r] = "sent" /\ subject'[r] = payload[b]
    BY <2>1, <2>2 DEF Backend!TypeOK
  <2>5. \A q \in Requests \ {r} : request'[q] = request[q] /\ subject'[q] = subject[q]
    BY <2>1, <2>2 DEF Backend!TypeOK
  <2>6. Held(b)'
    BY <1>5, <2>1, <2>2, <2>3, <2>4 DEF Held
  <2>7. Stored'
    BY <1>1, <1>5, <2>1 DEF Stored
  <2>8. ASSUME NEW q \in Requests PROVE RequestOK(q)'
    <3>1. CASE q = r
      BY <2>1, <2>3, <2>4, <3>1 DEF RequestOK
    <3>2. CASE q # r
      BY <1>5, <2>1, <2>5, <3>2 DEF Rows, RequestOK
    <3> QED
      BY <3>1, <3>2
  <2>9. Rows'
    BY <1>5, <2>1, <2>8 DEF Rows
  <2>10. ASSUME NEW c \in Boots PROVE Untried(c)'
    <3>1. c > boots \/ pc'[c] \in {"generating", "savingIdentity"} =>
            /\ payload[b] # c
            /\ c > boots \/ pc[c] \in {"generating", "savingIdentity"}
      <4>1. pc'[b] = "awaiting"
        BY <2>1
      <4>2. pc'[c] \in {"generating", "savingIdentity"} => FALSE
        BY <1>4, <4>1
      <4>3. blob.identity \in 0..boots /\ boots \in Nat
        BY <1>5, BootsAssumption DEF Stored
      <4> QED
        BY <2>3, <4>2, <4>3 DEF Boots
    <3> QED
      BY <1>1, <2>1, <2>4, <2>5, <3>1 DEF Steady, SteadyNow, Untried
  <2> QED
    BY <1>1, <1>3, <1>6, <2>6, <2>7, <2>9, <2>10 DEF SteadyNow
<1>8. CASE ~Post(b)
  <2>1. UNCHANGED <<request, subject, began, clock, created>>
    BY <1>8 DEF Bootstrap, Generated, GenerationFails, IdentitySaved, WriteFails, GiveUp,
                Timeout, Answer, DeviceSaved, backendVars
  <2>2. pc'[b] \in {"generating", "savingIdentity"} => pc[b] \in {"generating", "savingIdentity"}
    BY <1>8 DEF Bootstrap, Generated, GenerationFails, IdentitySaved, WriteFails, GiveUp,
                Timeout, Answer, DeviceSaved
  <2>3. \A c \in Boots : Untried(c)'
    BY <1>1, <1>4, <1>5, <2>1, <2>2 DEF Steady, SteadyNow, Untried
  <2>4. CASE Generated(b)
    <3>1. [Read(b) EXCEPT !.identity = b] = [identity |-> b, device |-> None]
      BY <1>3, <1>5, <2>4 DEF Generated, Held, Read, Empty
    <3>2. Held(b)'
      BY <1>3, <1>5, <2>4, <3>1 DEF Generated, Mutate, Held
    <3>3. Stored' /\ Rows'
      BY <1>1, <1>5, <2>1, <2>4, RowsStay DEF Generated, Stored
    <3> QED
      BY <1>1, <1>3, <1>6, <2>3, <3>2, <3>3 DEF SteadyNow
  <2>5. CASE IdentitySaved(b)
    <3>1. /\ blob = Empty /\ payload[b] = b /\ doc[b] = [identity |-> b, device |-> None]
          /\ blob' = doc[b] /\ pc'[b] = "between"
          /\ UNCHANGED <<cached, doc, payload, waits>>
      BY <1>5, <2>5 DEF IdentitySaved, Held
    <3>2. b # None /\ b \in 0..boots
      BY <1>1, <1>3
    <3>3. Held(b)' /\ Stored'
      BY <1>1, <1>3, <3>1, <3>2 DEF Held, Stored
    <3>4. created[b] = 0 /\ \A q \in Requests : request[q] # "none" => subject[q] # b
      BY <1>5, <2>5 DEF IdentitySaved, Untried
    <3>5. blob.identity = None /\ blob'.identity = b
      BY <3>1 DEF Empty
    <3>6. Rows'
      <4>1. ASSUME NEW q \in Requests PROVE RequestOK(q)'
        <5>1. subject[q] \in Boots => subject[q] # None
          BY DEF Boots, None
        <5> QED
          BY <1>5, <2>1, <3>4, <3>5, <5>1 DEF Rows, RequestOK
      <4> QED
        BY <1>5, <2>1, <3>4, <3>5, <4>1 DEF Rows
    <3> QED
      BY <1>1, <1>3, <1>6, <2>3, <3>3, <3>6 DEF SteadyNow
  <2>6. CASE Answer(b)
    <3>1. Stored' /\ Rows'
      BY <1>1, <1>5, <2>1, <2>6, RowsStay DEF Answer, Stored
    <3>2. CASE request[waits[b]] = "created"
      <4>1. /\ pc[b] = "awaiting" /\ payload[b] # None
            /\ doc[b] = [identity |-> payload[b], device |-> None] /\ blob = doc[b]
            /\ waits[b] \in Requests /\ subject[waits[b]] = payload[b]
        BY <1>5, <2>6 DEF Answer, Held
      <4>2. created[payload[b]] # 0
        BY <1>5, <3>2, <4>1 DEF Rows, RequestOK
      <4>3. [Read(b) EXCEPT !.device = payload[b]] = [identity |-> payload[b], device |-> payload[b]]
        BY <1>3, <4>1 DEF Read
      <4>4. /\ doc' = [doc EXCEPT ![b] = [Read(b) EXCEPT !.device = payload[b]]]
            /\ cached' = cached \cup {b} /\ pc' = [pc EXCEPT ![b] = "savingDevice"]
            /\ UNCHANGED <<blob, payload>>
        BY <2>6, <3>2 DEF Answer, Mutate
      <4> QED
        BY <1>1, <1>3, <1>6, <2>1, <2>3, <3>1, <4>1, <4>2, <4>3, <4>4 DEF SteadyNow, Held
    <3>3. CASE request[waits[b]] # "created"
      <4>1. /\ pc'[b] \in {"between", "failed"} /\ pc[b] = "awaiting"
            /\ UNCHANGED <<cached, doc, blob, payload>>
        BY <2>6, <3>3 DEF Answer
      <4>2. Held(b)'
        BY <1>5, <2>1, <4>1 DEF Held
      <4> QED
        BY <1>1, <1>3, <1>6, <2>3, <3>1, <4>2 DEF SteadyNow
    <3> QED
      BY <3>2, <3>3
  <2>7. CASE DeviceSaved(b)
    <3>1. /\ payload[b] # None /\ blob = [identity |-> payload[b], device |-> None]
          /\ doc[b] = [identity |-> payload[b], device |-> payload[b]]
          /\ created[payload[b]] # 0
          /\ blob' = doc[b] /\ pc'[b] \in {"failed", "registered"}
          /\ UNCHANGED <<cached, doc, payload, waits>>
      BY <1>5, <2>7 DEF DeviceSaved, Held
    <3>2. blob'.identity = blob.identity /\ blob'.device = blob.identity
      BY <3>1
    <3>3. Held(b)'
      BY <1>3, <3>1 DEF Held
    <3>4. Stored' /\ Rows'
      BY <1>1, <1>5, <2>1, <3>1, <3>2, RowsStay DEF Stored
    <3> QED
      BY <1>1, <1>3, <1>6, <2>3, <3>3, <3>4 DEF SteadyNow
  <2>8. CASE GenerationFails(b) \/ WriteFails(b) \/ GiveUp(b) \/ Timeout(b)
    <3>1. /\ UNCHANGED <<blob, cached, doc, payload, waits>>
          /\ pc'[b] = "failed" \/ (pc[b] = "awaiting" /\ pc'[b] = "between")
      BY <2>8 DEF GenerationFails, WriteFails, GiveUp, Timeout
    <3>2. Held(b)' /\ Stored' /\ Rows'
      BY <1>1, <1>5, <2>1, <3>1, RowsStay DEF Held, Stored
    <3> QED
      BY <1>1, <1>3, <1>6, <2>3, <3>2 DEF SteadyNow
  <2> QED
    BY <1>8, <2>4, <2>5, <2>6, <2>7, <2>8 DEF Bootstrap
<1> QED
  BY <1>7, <1>8

\* One step of a registration: only the commit writes a row, and only of a
\* device that has none.
LEMMA ServerSteady ==
  ASSUME Client, Backend!TypeOK, SteadyNow, NEW r \in Requests, Backend!ServerStep(r),
         UNCHANGED <<live, phase, blob, cached, doc, payload, pc, waits, boots>>
  PROVE  SteadyNow'
<1> USE DEF Backend!TypeOK
<1>1. /\ request[r] # "none" /\ request'[r] # "none"
      /\ subject' = subject
      /\ \A q \in Requests \ {r} : request'[q] = request[q] /\ began'[q] = began[q]
      /\ clock' \in Nat /\ clock <= clock'
  BY DEF Backend!ServerStep, Backend!Refuse, Backend!Refusals, Backend!Begin, Backend!Replace,
         Backend!CommitRegistration, Backend!AbortRegistration
<1>2. subject[r] \in Boots /\ RequestOK(r)
  BY <1>1 DEF SteadyNow, Rows, RequestOK
<1>3. /\ created' \in [Boots -> Nat]
      /\ \A d \in Boots \ {subject[r]} : created'[d] = created[d]
      /\ created[subject[r]] # 0 => created' = created
      /\ \/ created' = created
         \/ request[r] = "replaced" /\ request'[r] = "created"
            /\ created'[subject[r]] = began[r] /\ clock' = clock
  BY <1>2 DEF Backend!ServerStep, Backend!Refuse, Backend!Begin, Backend!Replace,
              Backend!CommitRegistration, Backend!AbortRegistration, Backend!tableVars
<1>4. \A d \in Boots : created[d] # 0 => created'[d] = created[d]
  BY <1>3
<1>5. Stored'
  <2>1. blob.device # None => blob.device \in Boots
    BY DEF SteadyNow, Stored, Client, ClientOK, Documents
  <2> QED
    BY <1>4, <2>1 DEF SteadyNow, Stored
<1>6. \A d \in Boots : created'[d] <= clock'
  <2> SUFFICES ASSUME NEW d \in Boots PROVE created'[d] <= clock'
    OBVIOUS
  <2>1. created[d] <= clock /\ clock \in Nat /\ created[d] \in Nat
    BY DEF SteadyNow, Rows
  <2>2. request[r] = "replaced" => began[r] \in 1..clock
    BY <1>1, <1>2 DEF RequestOK
  <2> QED
    BY <1>1, <1>3, <2>1, <2>2
<1>7. request'[r] = "created" => created'[subject[r]] # 0
  <2>1. request'[r] = "created" =>
          \/ request[r] = "created"
          \/ /\ request[r] = "replaced"
             /\ created'[subject[r]] = IF created[subject[r]] = 0 THEN began[r]
                                       ELSE created[subject[r]]
    BY <1>2 DEF Backend!ServerStep, Backend!Refuse, Backend!Refusals, Backend!Begin,
                Backend!Replace, Backend!CommitRegistration, Backend!AbortRegistration
  <2>2. request[r] = "created" => created[subject[r]] # 0
    BY <1>2 DEF RequestOK
  <2>3. request[r] = "replaced" => began[r] \in 1..clock
    BY <1>2 DEF RequestOK
  <2> QED
    BY <1>2, <1>4, <2>1, <2>2, <2>3
<1>8. RequestOK(r)'
  <2>1. subject[r] # blob.identity => created'[subject[r]] # 0
    BY <1>1, <1>2, <1>4 DEF RequestOK
  <2>2. ASSUME request'[r] = "begun", request[r] # "begun"
        PROVE  /\ began'[r] = clock + 1 /\ clock' = clock + 1 /\ created' = created
    BY <2>2 DEF Backend!ServerStep, Backend!Refuse, Backend!Refusals, Backend!Begin,
                Backend!Replace, Backend!CommitRegistration, Backend!AbortRegistration,
                Backend!tableVars
  <2>3. ASSUME request'[r] \in {"begun", "replaced"}, request[r] \in {"begun", "replaced"}
        PROVE  began'[r] = began[r] /\ clock' = clock /\ created' = created
    BY <2>3 DEF Backend!ServerStep, Backend!Refuse, Backend!Refusals, Backend!Begin,
                Backend!Replace, Backend!CommitRegistration, Backend!AbortRegistration,
                Backend!tableVars
  <2>4. request'[r] = "replaced" => request[r] \in {"begun", "replaced"}
    BY DEF Backend!ServerStep, Backend!Refuse, Backend!Refusals, Backend!Begin,
           Backend!Replace, Backend!CommitRegistration, Backend!AbortRegistration
  <2>5. ASSUME request'[r] \in {"begun", "replaced"}
        PROVE  /\ began'[r] \in 1..clock'
               /\ created'[subject[r]] = 0 => \A d \in Boots : created'[d] < began'[r]
    <3>1. CASE request[r] \in {"begun", "replaced"}
      BY <1>2, <2>3, <2>5, <3>1 DEF RequestOK
    <3>2. CASE request[r] \notin {"begun", "replaced"}
      <4>1. began'[r] = clock + 1 /\ clock' = clock + 1 /\ created' = created
        BY <2>2, <2>4, <2>5, <3>2
      <4>2. \A d \in Boots : created[d] \in Nat /\ created[d] <= clock
        BY DEF SteadyNow, Rows
      <4> QED
        BY <4>1, <4>2
    <3> QED
      BY <3>1, <3>2
  <2> QED
    BY <1>1, <1>2, <1>7, <2>1, <2>5 DEF RequestOK
<1>9. ASSUME NEW q \in Requests, q # r PROVE RequestOK(q)'
  <2>1. RequestOK(q) /\ subject'[q] = subject[q] /\ request'[q] = request[q] /\ began'[q] = began[q]
    BY <1>1, <1>9 DEF SteadyNow, Rows
  <2>2. ASSUME request[q] \in {"begun", "replaced"}
        PROVE  began[q] \in 1..clock'
    BY <1>1, <2>1, <2>2 DEF RequestOK
  <2>3. ASSUME request[q] \in {"begun", "replaced"}, created'[subject[q]] = 0
        PROVE  \A d \in Boots : created'[d] < began[q]
    <3>1. subject[q] \in Boots /\ created[subject[q]] = 0
      BY <1>4, <2>1, <2>3 DEF RequestOK
    <3>2. subject[q] = blob.identity
      BY <2>1, <2>3, <3>1 DEF RequestOK
    <3>3. CASE created' = created
      BY <2>1, <2>3, <3>3 DEF RequestOK
    <3>4. CASE created' # created
      <4>1. created[subject[r]] = 0 /\ created'[subject[r]] = began[r] /\ began[r] # 0
        BY <1>1, <1>2, <1>3, <3>4 DEF RequestOK
      <4>2. subject[r] = blob.identity
        BY <1>1, <1>2, <4>1 DEF RequestOK
      <4> QED
        BY <2>3, <3>2, <4>1, <4>2
    <3> QED
      BY <3>3, <3>4
  <2> QED
    BY <1>4, <2>1, <2>2, <2>3 DEF RequestOK
<1>10. ASSUME blob.identity # None, created'[blob.identity] # 0, NEW d \in Boots \ {blob.identity}
       PROVE  created'[d] < created'[blob.identity]
  <2>1. blob.identity \in Boots
    BY <1>10 DEF Client, ClientOK, Documents
  <2>2. CASE created' = created
    BY <1>10, <2>2 DEF SteadyNow, Rows
  <2>3. CASE created' # created
    <3>1. /\ created[subject[r]] = 0 /\ created'[subject[r]] = began[r]
          /\ request[r] = "replaced" /\ created'[subject[r]] # 0
      BY <1>1, <1>2, <1>3, <2>3 DEF RequestOK
    <3>2. subject[r] = blob.identity
      BY <1>1, <1>2, <3>1 DEF RequestOK
    <3>3. created[d] < began[r]
      BY <1>2, <3>1 DEF RequestOK
    <3> QED
      BY <1>3, <1>10, <3>1, <3>2, <3>3
  <2> QED
    BY <2>2, <2>3
<1>11. Rows'
  BY <1>6, <1>8, <1>9, <1>10 DEF Rows
<1>12. ASSUME NEW c \in Boots PROVE Untried(c)'
  <2>1. Untried(c)
    BY DEF SteadyNow
  <2>2. c > boots \/ pc[c] \in {"generating", "savingIdentity"} => subject[r] # c
    BY <1>1, <2>1 DEF Untried
  <2> QED
    BY <1>1, <1>3, <2>1, <2>2 DEF Untried
<1>13. live # None => Held(live)'
  <2> SUFFICES ASSUME live # None PROVE Held(live)'
    OBVIOUS
  <2>1. Held(live) /\ live \in Boots
    BY BootsAssumption DEF SteadyNow, Client, ClientOK, Boots, None
  <2>2. pc[live] = "savingDevice" => payload[live] \in Boots
    BY <2>1 DEF Client, Placed
  <2>3. pc[live] = "savingDevice" => created'[payload[live]] # 0
    BY <1>4, <2>1, <2>2 DEF Held
  <2>4. pc[live] = "awaiting" => request'[waits[live]] # "none"
    BY <1>1, <2>1 DEF Held
  <2> QED
    BY <1>1, <2>1, <2>3, <2>4 DEF Held
<1>14. Alone'
  BY DEF SteadyNow, Alone
<1> QED
  BY <1>5, <1>11, <1>12, <1>13, <1>14 DEF SteadyNow

\* A sign-out or a death gives up a registered identity, or interrupts.
LEMMA SteadyStep == Client /\ Backend!TypeOK /\ Steady /\ [Next]_vars => Steady'
<1> SUFFICES ASSUME Client, Backend!TypeOK, Steady, [Next]_vars PROVE Steady'
  OBVIOUS
<1>1. CASE SignOut
  <2> USE DEF Client, ClientOK
  <2> SUFFICES ASSUME ~interrupted' PROVE SteadyNow'
    BY DEF Steady
  <2>1. /\ ~interrupted /\ live # None /\ pc[live] = "registered" /\ live' = None
        /\ blob' \in {Empty, blob}
        /\ UNCHANGED <<boots, pc, request, subject, began, clock, created>>
    BY <1>1 DEF SignOut, backendVars
  <2>2. SteadyNow /\ Held(live)
    BY <2>1 DEF Steady, SteadyNow
  <2>3. live \in Boots
    BY <2>1, BootsAssumption DEF Boots, None
  <2>4. created[blob.identity] # 0
    BY <2>1, <2>2 DEF Held, SteadyNow, Stored
  <2>5. Alone'
    BY <2>1, <2>2 DEF SteadyNow, Alone, Working, Writing
  <2>6. Stored'
    <3>1. 0 \in 0..boots
      BY BootsAssumption
    <3> QED
      BY <2>1, <2>2, <3>1 DEF SteadyNow, Stored, Empty, None
  <2>7. Rows'
    <3>1. CASE blob' = blob
      BY <2>1, <2>2, <3>1, RowsStay DEF SteadyNow
    <3>2. CASE blob' = Empty
      <4>1. \A q \in Requests : RequestOK(q)'
        BY <2>1, <2>2, <2>4 DEF SteadyNow, Rows, RequestOK
      <4> QED
        BY <2>1, <2>2, <3>2, <4>1 DEF SteadyNow, Rows, Empty
    <3> QED
      BY <2>1, <3>1, <3>2
  <2> QED
    BY <2>1, <2>2, <2>5, <2>6, <2>7 DEF SteadyNow, Untried
<1>2. CASE Crash
  <2> SUFFICES ASSUME ~interrupted PROVE SteadyNow'
    BY <1>2 DEF Crash, Steady
  <2>1. \A c \in Boots : pc'[c] \in {"dead", "off"}
    BY <1>2 DEF Crash
  <2>2. live' = None /\ UNCHANGED <<boots, blob, request, subject, began, clock, created>>
    BY <1>2 DEF Crash, backendVars
  <2>3. Alone'
    BY <1>2, <2>1 DEF Crash, Alone, Working, Writing
  <2>4. Rows' /\ Stored'
    BY <2>2, RowsStay DEF Steady, SteadyNow, Stored
  <2> QED
    BY <2>1, <2>2, <2>3, <2>4 DEF Steady, SteadyNow, Untried
<1>3. CASE BackendStep
  <2> SUFFICES ASSUME ~interrupted PROVE SteadyNow'
    BY <1>3 DEF BackendStep, countVars, Steady
  <2>1. UNCHANGED <<live, phase, blob, cached, doc, payload, pc, waits, boots>>
    BY <1>3 DEF BackendStep, clientVars, countVars
  <2>2. ASSUME NEW c \in Claims, Backend!ClaimStep(c) PROVE SteadyNow'
    <3>1. UNCHANGED <<request, subject, began, clock, created>>
      BY <2>2 DEF Backend!ClaimStep, Backend!Resolve, Backend!Pick, Backend!CommitClaim,
                  Backend!AbortClaim, Backend!registrationVars, Backend!tableVars
    <3>2. Rows'
      BY <2>1, <3>1, RowsStay DEF Steady, SteadyNow
    <3> QED
      BY <2>1, <3>1, <3>2 DEF Steady, SteadyNow, Alone, Stored, Untried, Held
  <2> QED
    BY <1>3, <2>1, <2>2, ServerSteady DEF BackendStep, Steady
<1>4. CASE UNCHANGED vars
  <2>1. /\ UNCHANGED <<live, phase, blob, cached, doc, payload, pc, waits, boots, interrupted>>
        /\ UNCHANGED <<request, subject, began, clock, created>>
    BY <1>4 DEF vars, clientVars, countVars, backendVars
  <2>2. Rows => Rows'
    BY <2>1, RowsStay
  <2> QED
    BY <2>1, <2>2 DEF Steady, SteadyNow, Alone, Stored, Untried, Held
<1> QED
  BY <1>1, <1>2, <1>3, <1>4, OpenSteady, BootstrapSteady DEF Next

(* Senders claim the keys of the phone in use: for any number of launches, *)
(* sign-outs, lost answers and late requests, a registered phone's row is  *)
(* the newest one (resolveDevice, registerDevice), as long as nobody signs *)
(* out of a phone that is not registered.                                  *)
THEOREM RegisteredIsNewestHolds == Spec => []RegisteredIsNewest
<1>1. Spec => []Client
  BY ClientInit, ClientStep, PTL DEF Spec
<1>2. TypeOK => Backend!TypeOK
  BY DEF TypeOK
<1>3. Spec => []Steady
  BY <1>1, <1>2, TypeCorrect, SteadyInit, SteadyStep, PTL DEF Spec
<1>4. Client /\ Backend!TypeOK /\ Steady => RegisteredIsNewest
  <2> SUFFICES ASSUME Client, Backend!TypeOK, Steady,
                      ~interrupted, live # None, pc[live] = "registered"
               PROVE  /\ Backend!Newest = {doc[live].identity}
                      /\ doc[live].device = doc[live].identity
    BY DEF RegisteredIsNewest
  <2> DEFINE i == blob.identity
  <2>1. /\ doc[live] = blob /\ blob.device = i /\ i # None /\ created[i] # 0
        /\ \A d \in Boots \ {i} : created[d] < created[i]
    BY DEF Steady, SteadyNow, Held, Stored, Rows
  <2>2. i \in Boots /\ created \in [Boots -> Nat]
    BY <2>1 DEF Client, ClientOK, Documents, Backend!TypeOK
  <2> HIDE DEF i
  <2>3. ASSUME NEW d \in Backend!Newest PROVE d = i
    <3>1. d \in Boots /\ created[i] <= created[d]
      BY <2>2 DEF Backend!Newest
    <3>2. d # i => created[d] < created[i] /\ created[d] \in Nat /\ created[i] \in Nat
      BY <2>1, <2>2, <3>1
    <3> QED
      BY <3>1, <3>2
  <2>4. i \in Backend!Newest
    <3>1. \A e \in Boots : created[e] <= created[i]
      BY <2>1, <2>2
    <3> QED
      BY <2>1, <2>2, <3>1 DEF Backend!Newest
  <2>5. Backend!Newest = {i}
    BY <2>3, <2>4
  <2> QED
    BY <2>1, <2>5 DEF i
<1> QED
  BY <1>1, <1>2, <1>3, <1>4, TypeCorrect, PTL
=============================================================================
