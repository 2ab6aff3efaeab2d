---------------------------- MODULE RelayProofs ----------------------------
(***************************************************************************)
(* Proofs about Relay, for every set of users, sockets, nodes and messages.*)
(* Shape is an inductive type invariant; Custody, that at most one place   *)
(* at a time can still hand an envelope to a socket, gives AtMostOnce and  *)
(* QueuedIsUndelivered and, with Idle, that the relay implements Mailbox;  *)
(* Routing, that a connection which is established stays in every registry *)
(* that leads to it, gives NoLiveLoss.                                     *)
(***************************************************************************)
EXTENDS Relay, SequenceLemmas

(* The types, and why no typing hint is ever queued: a frame's kind is     *)
(* settled before it can be, and a queued frame has been looked up.        *)
Shape ==
  /\ TypeOK
  /\ \A u \in Users : \A m \in Range(queue[u]) : relay[m] # "unsent"
  /\ \A m \in hints : relay[m] \notin {"unsent", "enqueueing"}

(* What the handshake has achieved while the peer is there. *)
HandshakeInv ==
  \A s \in Sockets :
    /\ hs[s] = "new" <=> wire[s] = "new"
    /\ hs[s] = "gone" => wire[s] = "closed"
    /\ s \in removing => wire[s] = "closed"
    /\ s \in connections => Enrolled(s)
    /\ wire[s] = "open" /\ (hs[s] \in {"added", "subscribing"} \/ Enrolled(s)) => s \in presence
    /\ wire[s] = "open" /\ Enrolled(s) => s \in localSockets

(* The sockets that were established at the lookup of m: once established, *)
(* always enrolled on a subscribed node until the close.                   *)
WitnessInv ==
  \A m \in Messages : \A s \in witnesses[m] :
    /\ Owner[s] = To[m]
    /\ Enrolled(s) \/ hs[s] = "gone"
    /\ wire[s] = "open" => Home[s] \in subscribed

(* m is still due to be published to the node of s, or is on its way to s, *)
(* or was sent.                                                            *)
Reaches(m, s) ==
  \/ relay[m] = "publishing" /\ Home[s] \in targets[m]
  \/ m \in Range(channel[Home[s]])
  \/ m \in Range(inbox[s])

RoutingInv ==
  \A m \in Messages : \A s \in witnesses[m] :
    wire[s] = "open" /\ relay[m] \notin {"failed", "aborted"} => Reaches(m, s)

Routing == HandshakeInv /\ WitnessInv /\ RoutingInv

----------------------------------------------------------------------------
(* No place holds a frame twice, and what Redis or a drain holds for a     *)
(* user is addressed to that user.                                         *)
NoRepeats ==
  /\ \A u \in Users : Distinct(queue[u]) /\ \A m \in Range(queue[u]) : To[m] = u
  /\ \A n \in Nodes : Distinct(channel[n])
  /\ \A s \in Sockets : Distinct(batch[s]) /\ Distinct(inbox[s])

InChannel(m) == \E n \in Nodes : m \in Range(channel[n])
InInbox(m) == \E s \in Sockets : m \in Range(inbox[s])
InBatch(m) == \E s \in Sockets : m \in Range(batch[s])
InQueue(m) == \E u \in Users : m \in Range(queue[u])

(* A queued frame is in no batch, channel or inbox; a drained one is in    *)
(* one batch and in no channel or inbox.                                   *)
Exclusive ==
  \A m \in Messages :
    /\ InQueue(m) => ~InBatch(m) /\ ~InChannel(m) /\ ~InInbox(m)
    /\ InBatch(m) => ~InChannel(m) /\ ~InInbox(m)
    /\ \A s, t \in Sockets : m \in Range(batch[s]) /\ m \in Range(batch[t]) => s = t
    /\ \A s \in Sockets : m \in Range(channel[Home[s]]) => m \notin Range(inbox[s])

(* A frame that is not handled yet is nowhere, and one that is being       *)
(* published is in no list and not yet where it still has to go.           *)
Pending ==
  \A m \in Messages :
    /\ relay[m] \in {"unsent", "unheard", "refused", "enqueueing"}
         => ~InQueue(m) /\ ~InBatch(m) /\ ~InChannel(m) /\ ~InInbox(m)
    /\ relay[m] \in {"publishing", "failed"}
         => /\ ~InQueue(m) /\ ~InBatch(m)
            /\ \A n \in targets[m] :
                 /\ m \notin Range(channel[n])
                 /\ \A s \in SocketsAt(n) : m \notin Range(inbox[s])

Custody == NoRepeats /\ Exclusive /\ Pending
----------------------------------------------------------------------------
(* Trimming keeps a suffix of at most MaxQueued elements. *)
LEMMA TrimLemma ==
  ASSUME NEW S, NEW q \in Seq(S)
  PROVE  /\ Trim(q) \in Seq(S)
         /\ Len(Trim(q)) <= MaxQueued
         /\ Range(Trim(q)) \subseteq Range(q)
         /\ Distinct(q) => Distinct(Trim(q))
<1>1. MaxQueued \in Nat /\ Len(q) \in Nat
  BY BoundAssumption, LenProperties
<1>2. CASE Len(q) > MaxQueued
  <2>1. Len(q) - MaxQueued + 1 \in 1..(Len(q) + 1)
    BY <1>1, <1>2
  <2>2. Trim(q) = SubSeq(q, Len(q) - MaxQueued + 1, Len(q))
    BY <1>2 DEF Trim
  <2>3. Len(q) - (Len(q) - MaxQueued + 1) + 1 = MaxQueued
    BY <1>1
  <2> QED
    BY <1>1, <2>1, <2>2, <2>3, SuffixLemma
<1>3. CASE ~(Len(q) > MaxQueued)
  BY <1>1, <1>3 DEF Trim
<1> QED
  BY <1>2, <1>3

----------------------------------------------------------------------------
(* The initial states have their shape. *)
LEMMA ShapeInit == Init => Shape
<1> SUFFICES ASSUME Init PROVE Shape
  OBVIOUS
<1> USE BacklogAssumption, ToAssumption DEF Init
<1>1. \A u \in Users : queue[u] \in Seq(Messages) /\ Range(queue[u]) \subseteq Messages
  BY RangeLemma
<1>2. ASSUME NEW u \in Users, NEW m \in Range(queue[u]) PROVE relay[m] = "acked"
  <2>1. m \in Messages
    BY <1>1
  <2>2. PICK i \in DOMAIN Backlog[u] : Backlog[u][i] = m
    BY DEF Range
  <2>3. To[m] = u
    BY <2>2
  <2> QED
    BY <2>1, <2>3
<1>3. << >> \in Seq(Messages)
  OBVIOUS
<1> QED
  BY <1>1, <1>2, <1>3 DEF Shape, TypeOK, Wire, Handshake, Handling

(* No step breaks it. *)
LEMMA ShapeStep == Shape /\ [Next]_vars => Shape'
<1> SUFFICES ASSUME Shape, [Next]_vars PROVE Shape'
  OBVIOUS
<1> USE OwnerAssumption, HomeAssumption, FromAssumption, ToAssumption, FaultAssumption
<1> USE DEF Shape, TypeOK, Wire, Handshake, Handling, Failures, Fail,
            socketVars, nodeVars, relayVars
<1>1. ASSUME NEW s \in Sockets, Connect(s) PROVE Shape'
  BY <1>1 DEF Connect
<1>2. ASSUME NEW s \in Sockets, Refuse(s) PROVE Shape'
  BY <1>2 DEF Refuse
<1>3. ASSUME NEW s \in Sockets, Admit(s) PROVE Shape'
  BY <1>3 DEF Admit
<1>4. ASSUME NEW s \in Sockets, AddPresence(s) PROVE Shape'
  BY <1>4 DEF AddPresence
<1>5. ASSUME NEW s \in Sockets, AddPresenceFails(s) PROVE Shape'
  BY <1>5 DEF AddPresenceFails
<1>6. ASSUME NEW s \in Sockets, EnsureSubscribed(s) PROVE Shape'
  BY <1>6 DEF EnsureSubscribed
<1>7. ASSUME NEW s \in Sockets, Enrol(s) PROVE Shape'
  BY <1>7 DEF Enrol, Subscribed
<1>8. ASSUME NEW s \in Sockets, Drain(s) PROVE Shape'
  <2>1. /\ queue' \in [Users -> Seq(Messages)]
        /\ \A u \in Users : queue'[u] = << >> \/ queue'[u] = queue[u]
        /\ batch' \in [Sockets -> Seq(Messages)]
        /\ hs' \in [Sockets -> Handshake]
    BY <1>8 DEF Drain
  <2>2. ASSUME NEW u \in Users
        PROVE  /\ Len(queue'[u]) <= MaxQueued
               /\ Range(queue'[u]) \cap hints = {}
               /\ \A m \in Range(queue'[u]) : relay[m] # "unsent"
    <3>1. CASE queue'[u] = << >>
      BY <3>1, EmptyLemma, BoundAssumption
    <3>2. CASE queue'[u] = queue[u]
      BY <3>2
    <3> QED
      BY <2>1, <3>1, <3>2
  <2> QED
    BY <1>8, <2>1, <2>2 DEF Drain
<1>9. ASSUME NEW s \in Sockets, DrainFails(s) PROVE Shape'
  BY <1>9 DEF DrainFails
<1>10. ASSUME NEW s \in Sockets, Flush(s) PROVE Shape'
  <2>1. inbox[s] \o batch[s] \in Seq(Messages)
    BY ConcatLemma
  <2> QED
    BY <1>10, <2>1 DEF Flush
<1>11. ASSUME NEW s \in Sockets, RemovePresence(s) PROVE Shape'
  BY <1>11 DEF RemovePresence
<1>12. ASSUME NEW s \in Sockets, RemovePresenceFails(s) PROVE Shape'
  BY <1>12 DEF RemovePresenceFails
<1>13. ASSUME NEW n \in Nodes, SubscribeSucceeds(n) PROVE Shape'
  BY <1>13 DEF SubscribeSucceeds
<1>14. ASSUME NEW n \in Nodes, SubscribeFails(n) PROVE Shape'
  BY <1>14 DEF SubscribeFails
<1>15. ASSUME NEW n \in Nodes, Heartbeat(n) PROVE Shape'
  BY <1>15 DEF Heartbeat, Deregister
<1>16. ASSUME NEW n \in Nodes, Deliver(n) PROVE Shape'
  <2>1. channel[n] # << >>
    BY <1>16 DEF Deliver
  <2>2. Head(channel[n]) \in Messages /\ Tail(channel[n]) \in Seq(Messages)
    BY <2>1, TailLemma
  <2>3. \A s \in Sockets : Append(inbox[s], Head(channel[n])) \in Seq(Messages)
    BY <2>2, AppendLemma
  <2> QED
    BY <1>16, <2>2, <2>3 DEF Deliver
<1>17. ASSUME NEW m \in Messages, NEW n \in Nodes, Publish(m, n) PROVE Shape'
  <2>1. Append(channel[n], m) \in Seq(Messages)
    BY AppendLemma
  <2> QED
    BY <1>17, <2>1 DEF Publish
<1>18. ASSUME NEW m \in Messages, Enqueue(m) PROVE Shape'
  <2> DEFINE q == Append(queue[To[m]], m)
  <2>1. To[m] \in Users /\ m \notin hints
    BY <1>18 DEF Enqueue
  <2>2. q \in Seq(Messages) /\ Range(q) = Range(queue[To[m]]) \cup {m}
    BY <2>1, AppendLemma
  <2>3. /\ Trim(q) \in Seq(Messages)
        /\ Len(Trim(q)) <= MaxQueued
        /\ Range(Trim(q)) \subseteq Range(queue[To[m]]) \cup {m}
    BY <2>2, TrimLemma
  <2> HIDE DEF q
  <2>4. queue' = [queue EXCEPT ![To[m]] = Trim(q)]
    BY <1>18 DEF Enqueue, q
  <2> QED
    BY <1>18, <2>1, <2>3, <2>4 DEF Enqueue
<1>19. ASSUME NEW m \in Messages, RelayFails(m) PROVE Shape'
  BY <1>19 DEF RelayFails
<1>20. ASSUME NEW m \in Messages, Ack(m) PROVE Shape'
  BY <1>20 DEF Ack, Handled
<1>21. ASSUME NEW s \in Sockets, PeerVanishes(s) PROVE Shape'
  BY <1>21 DEF PeerVanishes
<1>22. ASSUME NEW s \in Sockets, Close(s) PROVE Shape'
  BY <1>22 DEF Close, Deregister
<1>23. ASSUME NEW s \in Sockets, Pong(s) PROVE Shape'
  BY <1>23 DEF Pong
<1>24. ASSUME NEW m \in Messages, ArriveUnheard(m) PROVE Shape'
  <2>1. /\ relay' = [relay EXCEPT ![m] = "unheard"]
        /\ UNCHANGED <<faults, socketVars, nodeVars, channel, queue, batch, inbox,
                       hints, targets, witnesses>>
    BY <1>24 DEF ArriveUnheard
  <2>2. relay' \in [Messages -> Handling]
    BY <2>1
  <2>3. /\ \A u \in Users : \A x \in Range(queue[u]) : relay'[x] # "unsent"
        /\ \A x \in hints : relay'[x] \notin {"unsent", "enqueueing"}
    <3>1. \A u \in Users : Range(queue[u]) \subseteq Messages
      BY RangeLemma
    <3> QED
      BY <2>1, <3>1
  <2> QED
    BY <2>1, <2>2, <2>3
<1>25. ASSUME NEW m \in Messages, Reject(m) PROVE Shape'
  <2>1. /\ relay' = [relay EXCEPT ![m] = "refused"]
        /\ UNCHANGED <<faults, socketVars, nodeVars, channel, queue, batch, inbox,
                       hints, targets, witnesses>>
    BY <1>25 DEF Reject
  <2>2. relay' \in [Messages -> Handling]
    BY <2>1
  <2>3. /\ \A u \in Users : \A x \in Range(queue[u]) : relay'[x] # "unsent"
        /\ \A x \in hints : relay'[x] \notin {"unsent", "enqueueing"}
    <3>1. \A u \in Users : Range(queue[u]) \subseteq Messages
      BY RangeLemma
    <3> QED
      BY <2>1, <3>1
  <2> QED
    BY <2>1, <2>2, <2>3
<1>26. ASSUME NEW m \in Messages, NEW kind \in {"envelope", "hint"}, Lookup(m, kind) PROVE Shape'
  <2>1. NodesOf(To[m]) \subseteq Nodes
    BY DEF NodesOf, SocketsOf
  <2>2. {s \in SocketsOf(To[m]) : Established(s)} \subseteq Sockets
    BY DEF SocketsOf
  <2>3. Route(kind, NodesOf(To[m])) \in {"publishing", "over", "enqueueing"}
    BY DEF Route
  <2>4. kind = "hint" => Route(kind, NodesOf(To[m])) # "enqueueing"
    BY DEF Route
  <2> HIDE DEF NodesOf
  <2>5. /\ relay[m] = "unsent"
        /\ relay' = [relay EXCEPT ![m] = Route(kind, NodesOf(To[m]))]
        /\ hints' = IF kind = "hint" THEN hints \cup {m} ELSE hints
        /\ UNCHANGED <<faults, socketVars, nodeVars, channel, queue, batch, inbox>>
    BY <1>26 DEF Lookup
  <2>6. targets' \in [Messages -> SUBSET Nodes] /\ witnesses' \in [Messages -> SUBSET Sockets]
    BY <1>26, <2>1, <2>2 DEF Lookup
  <2>7. relay' \in [Messages -> Handling] /\ hints' \subseteq Messages
    BY <2>3, <2>5
  <2>8. /\ \A u \in Users : Range(queue[u]) \cap hints' = {}
        /\ \A u \in Users : \A x \in Range(queue[u]) : relay'[x] # "unsent"
    <3>1. \A u \in Users : Range(queue[u]) \subseteq Messages
      BY RangeLemma
    <3> QED
      BY <2>3, <2>5, <3>1
  <2>9. \A x \in hints' : relay'[x] \notin {"unsent", "enqueueing"}
    BY <2>3, <2>4, <2>5
  <2> QED
    BY <2>5, <2>6, <2>7, <2>8, <2>9
<1>27. ASSUME NEW u \in Users, Expire(u) PROVE Shape'
  BY <1>27, EmptyLemma, BoundAssumption DEF Expire
<1>28. ASSUME NEW n \in Nodes, Crash(n) PROVE Shape'
  <2>1. relay' \in [Messages -> Handling] /\ \A m \in Messages : relay'[m] \in {"aborted", relay[m]}
    BY <1>28 DEF Crash
  <2>2. /\ wire' \in [Sockets -> Wire] /\ hs' \in [Sockets -> Handshake]
        /\ batch' \in [Sockets -> Seq(Messages)]
    BY <1>28 DEF Crash
  <2>3. \A u \in Users : Range(queue[u]) \subseteq Messages
    BY RangeLemma
  <2>4. /\ up' \subseteq Nodes /\ subscribed' \subseteq Nodes
        /\ alive' \subseteq Sockets /\ connections' \subseteq Sockets
        /\ localSockets' \subseteq Sockets /\ removing' \subseteq Sockets
        /\ subscription' \in [Nodes -> {"none", "pending", "done"}]
        /\ channel' \in [Nodes -> Seq(Messages)]
        /\ faults' \subseteq Failures \X (Sockets \cup Nodes \cup Users \cup Messages)
        /\ UNCHANGED <<presence, queue, inbox, hints, targets, witnesses>>
    BY <1>28 DEF Crash
  <2> QED
    BY <2>1, <2>2, <2>3, <2>4
<1>29. ASSUME NEW n \in Nodes, Restart(n) PROVE Shape'
  BY <1>29 DEF Restart
<1>30. CASE UNCHANGED vars
  BY <1>30 DEF vars
<1> QED
  BY <1>1, <1>2, <1>3, <1>4, <1>5, <1>6, <1>7, <1>8, <1>9, <1>10, <1>11, <1>12,
     <1>13, <1>14, <1>15, <1>16, <1>17, <1>18, <1>19, <1>20, <1>21, <1>22, <1>23, <1>24, <1>25,
     <1>26, <1>27, <1>28, <1>29, <1>30
     DEF Next, HandshakeStep, DisconnectStep, RelayStep, SubscribeStep, Environment

(* Type correctness: every reachable state satisfies TypeOK; in particular *)
(* no offline list outgrows MAX_QUEUED_MESSAGES and none ever holds a      *)
(* typing hint.                                                            *)
THEOREM TypeCorrect == Spec => []TypeOK
<1>1. Shape => TypeOK
  BY DEF Shape
<1> QED
  BY <1>1, ShapeInit, ShapeStep, PTL DEF Spec
----------------------------------------------------------------------------
(* No step breaks what the handshake has achieved. *)
LEMMA HandshakeInvStep == Shape /\ HandshakeInv /\ [Next]_vars => HandshakeInv'
<1> SUFFICES ASSUME Shape, HandshakeInv, [Next]_vars PROVE HandshakeInv'
  OBVIOUS
<1> USE DEF Shape, TypeOK, HandshakeInv, Enrolled, socketVars, SocketsAt
<1>1. ASSUME NEW s \in Sockets, Connect(s) PROVE HandshakeInv'
  BY <1>1 DEF Connect
<1>2. ASSUME NEW s \in Sockets, Refuse(s) PROVE HandshakeInv'
  BY <1>2 DEF Refuse
<1>3. ASSUME NEW s \in Sockets, Admit(s) PROVE HandshakeInv'
  BY <1>3 DEF Admit
<1>4. ASSUME NEW s \in Sockets, AddPresence(s) PROVE HandshakeInv'
  BY <1>4 DEF AddPresence
<1>5. ASSUME NEW s \in Sockets, AddPresenceFails(s) PROVE HandshakeInv'
  BY <1>5 DEF AddPresenceFails
<1>6. ASSUME NEW s \in Sockets, EnsureSubscribed(s) PROVE HandshakeInv'
  BY <1>6 DEF EnsureSubscribed
<1>7. ASSUME NEW s \in Sockets, Enrol(s) PROVE HandshakeInv'
  BY <1>7 DEF Enrol, Subscribed
<1>8. ASSUME NEW s \in Sockets, Drain(s) PROVE HandshakeInv'
  BY <1>8 DEF Drain
<1>9. ASSUME NEW s \in Sockets, DrainFails(s) PROVE HandshakeInv'
  BY <1>9 DEF DrainFails
<1>10. ASSUME NEW s \in Sockets, Flush(s) PROVE HandshakeInv'
  BY <1>10 DEF Flush
<1>11. ASSUME NEW s \in Sockets, RemovePresence(s) PROVE HandshakeInv'
  BY <1>11 DEF RemovePresence
<1>12. ASSUME NEW s \in Sockets, RemovePresenceFails(s) PROVE HandshakeInv'
  BY <1>12 DEF RemovePresenceFails
<1>13. ASSUME NEW s \in Sockets, PeerVanishes(s) PROVE HandshakeInv'
  BY <1>13 DEF PeerVanishes
<1>14. ASSUME NEW s \in Sockets, Close(s) PROVE HandshakeInv'
  BY <1>14 DEF Close, Deregister
<1>15. ASSUME NEW s \in Sockets, Pong(s) PROVE HandshakeInv'
  BY <1>15 DEF Pong
<1>16. ASSUME NEW n \in Nodes, SubscribeSucceeds(n) PROVE HandshakeInv'
  BY <1>16 DEF SubscribeSucceeds
<1>17. ASSUME NEW n \in Nodes, SubscribeFails(n) PROVE HandshakeInv'
  BY <1>17 DEF SubscribeFails
<1>18. ASSUME NEW n \in Nodes, Heartbeat(n) PROVE HandshakeInv'
  <2> DEFINE dead == (connections \cap SocketsAt(n)) \ alive
  <2>1. /\ wire' = [s \in Sockets |-> IF s \in dead THEN "closed" ELSE wire[s]]
        /\ localSockets' = localSockets \ dead
        /\ removing' = removing \cup {s \in dead : hs[s] \notin {"auth", "refused"}}
        /\ connections' = connections \ dead
        /\ UNCHANGED <<hs, presence>>
    BY <1>18 DEF Heartbeat, Deregister
  <2>2. dead \subseteq {s \in Sockets : hs[s] # "new" /\ wire'[s] = "closed"}
    BY <2>1
  <2> HIDE DEF dead
  <2> SUFFICES ASSUME NEW s \in Sockets
               PROVE  HandshakeInv!(s)'
    OBVIOUS
  <2>3. CASE s \in dead
    BY <2>1, <2>2, <2>3
  <2>4. CASE s \notin dead
    BY <2>1, <2>4
  <2> QED
    BY <2>3, <2>4
<1>19. ASSUME NEW n \in Nodes, Deliver(n) PROVE HandshakeInv'
  BY <1>19 DEF Deliver
<1>20. ASSUME NEW n \in Nodes, Crash(n) PROVE HandshakeInv'
  BY <1>20 DEF Crash
<1>21. ASSUME NEW n \in Nodes, Restart(n) PROVE HandshakeInv'
  BY <1>21 DEF Restart
<1>22. ASSUME NEW m \in Messages, NEW n \in Nodes, Publish(m, n) PROVE HandshakeInv'
  BY <1>22 DEF Publish
<1>23. ASSUME NEW m \in Messages, NEW kind \in {"envelope", "hint"}, Lookup(m, kind)
       PROVE  HandshakeInv'
  BY <1>23 DEF Lookup
<1>24. ASSUME NEW m \in Messages, Enqueue(m) PROVE HandshakeInv'
  BY <1>24 DEF Enqueue
<1>25. ASSUME NEW m \in Messages, RelayFails(m) PROVE HandshakeInv'
  BY <1>25 DEF RelayFails
<1>26. ASSUME NEW m \in Messages, Ack(m) PROVE HandshakeInv'
  BY <1>26 DEF Ack, Handled
<1>27. ASSUME NEW m \in Messages, ArriveUnheard(m) PROVE HandshakeInv'
  BY <1>27 DEF ArriveUnheard
<1>28. ASSUME NEW m \in Messages, Reject(m) PROVE HandshakeInv'
  BY <1>28 DEF Reject
<1>29. ASSUME NEW u \in Users, Expire(u) PROVE HandshakeInv'
  BY <1>29 DEF Expire
<1>30. CASE UNCHANGED vars
  BY <1>30 DEF vars
<1> QED
  BY <1>1, <1>2, <1>3, <1>4, <1>5, <1>6, <1>7, <1>8, <1>9, <1>10, <1>11,
     <1>12, <1>13, <1>14, <1>15, <1>16, <1>17, <1>18, <1>19, <1>20, <1>21,
     <1>22, <1>23, <1>24, <1>25, <1>26, <1>27, <1>28, <1>29, <1>30
     DEF Next, HandshakeStep, DisconnectStep, RelayStep, SubscribeStep, Environment

(* A witness stays enrolled, and its node subscribed, until its close. *)
LEMMA WitnessInvStep ==
  Shape /\ HandshakeInv /\ WitnessInv /\ [Next]_vars => WitnessInv'
<1> SUFFICES ASSUME Shape, HandshakeInv, WitnessInv, [Next]_vars PROVE WitnessInv'
  OBVIOUS
<1> USE DEF Shape, TypeOK, HandshakeInv, WitnessInv, Enrolled, SocketsAt,
            socketVars, nodeVars, relayVars
<1>1. ASSUME NEW s \in Sockets, Connect(s) PROVE WitnessInv'
  BY <1>1 DEF Connect
<1>2. ASSUME NEW s \in Sockets, Refuse(s) PROVE WitnessInv'
  BY <1>2 DEF Refuse
<1>3. ASSUME NEW s \in Sockets, Admit(s) PROVE WitnessInv'
  BY <1>3 DEF Admit
<1>4. ASSUME NEW s \in Sockets, AddPresence(s) PROVE WitnessInv'
  BY <1>4 DEF AddPresence
<1>5. ASSUME NEW s \in Sockets, AddPresenceFails(s) PROVE WitnessInv'
  BY <1>5 DEF AddPresenceFails
<1>6. ASSUME NEW s \in Sockets, EnsureSubscribed(s) PROVE WitnessInv'
  BY <1>6 DEF EnsureSubscribed
<1>7. ASSUME NEW s \in Sockets, Enrol(s) PROVE WitnessInv'
  BY <1>7 DEF Enrol, Subscribed
<1>8. ASSUME NEW s \in Sockets, Drain(s) PROVE WitnessInv'
  BY <1>8 DEF Drain
<1>9. ASSUME NEW s \in Sockets, DrainFails(s) PROVE WitnessInv'
  BY <1>9 DEF DrainFails
<1>10. ASSUME NEW s \in Sockets, Flush(s) PROVE WitnessInv'
  BY <1>10 DEF Flush
<1>11. ASSUME NEW s \in Sockets, RemovePresence(s) PROVE WitnessInv'
  BY <1>11 DEF RemovePresence
<1>12. ASSUME NEW s \in Sockets, RemovePresenceFails(s) PROVE WitnessInv'
  BY <1>12 DEF RemovePresenceFails
<1>13. ASSUME NEW s \in Sockets, PeerVanishes(s) PROVE WitnessInv'
  BY <1>13 DEF PeerVanishes
<1>14. ASSUME NEW s \in Sockets, Close(s) PROVE WitnessInv'
  BY <1>14 DEF Close, Deregister
<1>15. ASSUME NEW s \in Sockets, Pong(s) PROVE WitnessInv'
  BY <1>15 DEF Pong
<1>16. ASSUME NEW n \in Nodes, SubscribeSucceeds(n) PROVE WitnessInv'
  BY <1>16 DEF SubscribeSucceeds
<1>17. ASSUME NEW n \in Nodes, SubscribeFails(n) PROVE WitnessInv'
  BY <1>17 DEF SubscribeFails
<1>18. ASSUME NEW n \in Nodes, Heartbeat(n) PROVE WitnessInv'
  BY <1>18 DEF Heartbeat, Deregister
<1>19. ASSUME NEW n \in Nodes, Deliver(n) PROVE WitnessInv'
  BY <1>19 DEF Deliver
<1>20. ASSUME NEW n \in Nodes, Crash(n) PROVE WitnessInv'
  BY <1>20 DEF Crash
<1>21. ASSUME NEW n \in Nodes, Restart(n) PROVE WitnessInv'
  BY <1>21 DEF Restart
<1>22. ASSUME NEW m \in Messages, NEW n \in Nodes, Publish(m, n) PROVE WitnessInv'
  BY <1>22 DEF Publish
<1>23. ASSUME NEW m \in Messages, NEW kind \in {"envelope", "hint"}, Lookup(m, kind)
       PROVE  WitnessInv'
  BY <1>23 DEF Lookup, SocketsOf, Established
<1>24. ASSUME NEW m \in Messages, Enqueue(m) PROVE WitnessInv'
  BY <1>24 DEF Enqueue
<1>25. ASSUME NEW m \in Messages, RelayFails(m) PROVE WitnessInv'
  BY <1>25 DEF RelayFails
<1>26. ASSUME NEW m \in Messages, Ack(m) PROVE WitnessInv'
  BY <1>26 DEF Ack, Handled
<1>27. ASSUME NEW m \in Messages, ArriveUnheard(m) PROVE WitnessInv'
  BY <1>27 DEF ArriveUnheard
<1>28. ASSUME NEW m \in Messages, Reject(m) PROVE WitnessInv'
  BY <1>28 DEF Reject
<1>29. ASSUME NEW u \in Users, Expire(u) PROVE WitnessInv'
  BY <1>29 DEF Expire
<1>30. CASE UNCHANGED vars
  BY <1>30 DEF vars
<1> QED
  BY <1>1, <1>2, <1>3, <1>4, <1>5, <1>6, <1>7, <1>8, <1>9, <1>10, <1>11,
     <1>12, <1>13, <1>14, <1>15, <1>16, <1>17, <1>18, <1>19, <1>20, <1>21,
     <1>22, <1>23, <1>24, <1>25, <1>26, <1>27, <1>28, <1>29, <1>30
     DEF Next, HandshakeStep, DisconnectStep, RelayStep, SubscribeStep, Environment

(* A frame due to a witness, or on its way to it, stays so until it is there. *)
LEMMA RoutingInvStep ==
  Shape /\ HandshakeInv /\ WitnessInv /\ RoutingInv /\ [Next]_vars => RoutingInv'
<1> SUFFICES ASSUME Shape, HandshakeInv, WitnessInv, RoutingInv, [Next]_vars PROVE RoutingInv'
  OBVIOUS
<1> USE HomeAssumption
<1> USE DEF Shape, TypeOK, HandshakeInv, WitnessInv, RoutingInv, Reaches, Enrolled, SocketsAt,
            socketVars, nodeVars, relayVars
<1>1. ASSUME NEW s \in Sockets, Connect(s) PROVE RoutingInv'
  BY <1>1 DEF Connect
<1>2. ASSUME NEW s \in Sockets, Refuse(s) PROVE RoutingInv'
  BY <1>2 DEF Refuse
<1>3. ASSUME NEW s \in Sockets, Admit(s) PROVE RoutingInv'
  BY <1>3 DEF Admit
<1>4. ASSUME NEW s \in Sockets, AddPresence(s) PROVE RoutingInv'
  BY <1>4 DEF AddPresence
<1>5. ASSUME NEW s \in Sockets, AddPresenceFails(s) PROVE RoutingInv'
  BY <1>5 DEF AddPresenceFails
<1>6. ASSUME NEW s \in Sockets, EnsureSubscribed(s) PROVE RoutingInv'
  BY <1>6 DEF EnsureSubscribed
<1>7. ASSUME NEW s \in Sockets, Enrol(s) PROVE RoutingInv'
  BY <1>7 DEF Enrol, Subscribed
<1>8. ASSUME NEW s \in Sockets, Drain(s) PROVE RoutingInv'
  BY <1>8 DEF Drain
<1>9. ASSUME NEW s \in Sockets, DrainFails(s) PROVE RoutingInv'
  BY <1>9 DEF DrainFails
<1>10. ASSUME NEW s \in Sockets, Flush(s) PROVE RoutingInv'
  <2>1. \A t \in Sockets : Range(inbox[t]) \subseteq Range(inbox'[t])
    BY <1>10, ConcatLemma DEF Flush
  <2> QED
    BY <1>10, <2>1 DEF Flush
<1>11. ASSUME NEW s \in Sockets, RemovePresence(s) PROVE RoutingInv'
  BY <1>11 DEF RemovePresence
<1>12. ASSUME NEW s \in Sockets, RemovePresenceFails(s) PROVE RoutingInv'
  BY <1>12 DEF RemovePresenceFails
<1>13. ASSUME NEW s \in Sockets, PeerVanishes(s) PROVE RoutingInv'
  BY <1>13 DEF PeerVanishes
<1>14. ASSUME NEW s \in Sockets, Close(s) PROVE RoutingInv'
  BY <1>14 DEF Close, Deregister
<1>15. ASSUME NEW s \in Sockets, Pong(s) PROVE RoutingInv'
  BY <1>15 DEF Pong
<1>16. ASSUME NEW n \in Nodes, SubscribeSucceeds(n) PROVE RoutingInv'
  BY <1>16 DEF SubscribeSucceeds
<1>17. ASSUME NEW n \in Nodes, SubscribeFails(n) PROVE RoutingInv'
  BY <1>17 DEF SubscribeFails
<1>18. ASSUME NEW n \in Nodes, Heartbeat(n) PROVE RoutingInv'
  BY <1>18 DEF Heartbeat, Deregister
<1>19. ASSUME NEW n \in Nodes, Deliver(n) PROVE RoutingInv'
  <2> DEFINE h == Head(channel[n])
  <2>1. channel[n] # << >> /\ channel' = [channel EXCEPT ![n] = Tail(channel[n])]
    BY <1>19 DEF Deliver
  <2>2. h \in Messages /\ Range(channel[n]) = Range(Tail(channel[n])) \cup {h}
    BY <2>1, TailLemma
  <2>3. ASSUME NEW t \in Sockets
        PROVE  /\ Range(inbox[t]) \subseteq Range(inbox'[t])
               /\ t \in localSockets /\ Owner[t] = To[h] /\ Home[t] = n /\ wire[t] = "open"
                    => h \in Range(inbox'[t])
    <3>1. Range(Append(inbox[t], h)) = Range(inbox[t]) \cup {h}
      BY <2>2, AppendLemma
    <3>2. inbox'[t] \in {inbox[t], Append(inbox[t], h)}
      BY <1>19 DEF Deliver
    <3>3. t \in localSockets /\ Owner[t] = To[h] /\ Home[t] = n /\ wire[t] = "open"
            => inbox'[t] = Append(inbox[t], h)
      BY <1>19 DEF Deliver, SocketsOf, SocketsAt
    <3> QED
      BY <3>1, <3>2, <3>3
  <2>4. UNCHANGED <<wire, relay, targets, witnesses>>
    BY <1>19 DEF Deliver
  <2> HIDE DEF h
  <2> SUFFICES ASSUME NEW m \in Messages, NEW s \in witnesses[m],
                      wire[s] = "open", relay[m] \notin {"failed", "aborted"}
               PROVE  Reaches(m, s)'
    BY <2>4
  <2>5. s \in Sockets /\ Owner[s] = To[m] /\ s \in localSockets /\ Reaches(m, s)
    OBVIOUS
  <2>6. CASE Home[s] = n /\ m = h
    BY <2>3, <2>5, <2>6
  <2>7. CASE Home[s] # n \/ m # h
    <3>1. m \in Range(channel[Home[s]]) => m \in Range(channel'[Home[s]])
      BY <2>1, <2>2, <2>5, <2>7
    <3>2. m \in Range(inbox[s]) => m \in Range(inbox'[s])
      BY <2>3, <2>5
    <3> QED
      BY <2>4, <2>5, <3>1, <3>2
  <2> QED
    BY <2>6, <2>7
<1>20. ASSUME NEW n \in Nodes, Crash(n) PROVE RoutingInv'
  <2> SUFFICES ASSUME NEW m \in Messages, NEW s \in witnesses[m], wire'[s] = "open",
                      relay'[m] \notin {"failed", "aborted"}
               PROVE  Reaches(m, s)'
    BY <1>20 DEF Crash
  <2>1. s \in Sockets /\ wire[s] = "open" /\ Home[s] # n
    BY <1>20 DEF Crash
  <2>2. relay'[m] = relay[m] /\ channel'[Home[s]] = channel[Home[s]]
    BY <1>20, <2>1 DEF Crash
  <2> QED
    BY <1>20, <2>1, <2>2 DEF Crash
<1>21. ASSUME NEW n \in Nodes, Restart(n) PROVE RoutingInv'
  BY <1>21 DEF Restart
<1>22. ASSUME NEW m \in Messages, NEW n \in Nodes, Publish(m, n) PROVE RoutingInv'
  <2>1. Range(Append(channel[n], m)) = Range(channel[n]) \cup {m}
    BY AppendLemma
  <2>2. /\ \A k \in Nodes : Range(channel[k]) \subseteq Range(channel'[k])
        /\ n \in subscribed => m \in Range(channel'[n])
    BY <1>22, <2>1 DEF Publish
  <2> QED
    BY <1>22, <2>2 DEF Publish
<1>23. ASSUME NEW m \in Messages, NEW kind \in {"envelope", "hint"}, Lookup(m, kind)
       PROVE  RoutingInv'
  <2> SUFFICES ASSUME NEW x \in Messages, NEW s \in witnesses'[x], wire[s] = "open",
                      relay'[x] \notin {"failed", "aborted"}
               PROVE  Reaches(x, s)'
    BY <1>23 DEF Lookup
  <2>1. CASE x = m
    <3>1. s \in SocketsOf(To[m]) /\ Established(s) /\ s \in Sockets
      BY <1>23, <2>1 DEF Lookup, SocketsOf
    <3>2. s \in presence /\ Home[s] \in NodesOf(To[m])
      BY <3>1 DEF Established, NodesOf
    <3>3. relay'[m] = "publishing" /\ targets'[m] = NodesOf(To[m])
      BY <1>23, <3>2 DEF Lookup, Route
    <3> QED
      BY <2>1, <3>2, <3>3
  <2>2. CASE x # m
    BY <1>23, <2>2 DEF Lookup
  <2> QED
    BY <2>1, <2>2
<1>24. ASSUME NEW m \in Messages, Enqueue(m) PROVE RoutingInv'
  BY <1>24 DEF Enqueue
<1>25. ASSUME NEW m \in Messages, RelayFails(m) PROVE RoutingInv'
  BY <1>25 DEF RelayFails
<1>26. ASSUME NEW m \in Messages, Ack(m) PROVE RoutingInv'
  BY <1>26 DEF Ack, Handled
<1>27. ASSUME NEW m \in Messages, ArriveUnheard(m) PROVE RoutingInv'
  BY <1>27 DEF ArriveUnheard
<1>28. ASSUME NEW m \in Messages, Reject(m) PROVE RoutingInv'
  BY <1>28 DEF Reject
<1>29. ASSUME NEW u \in Users, Expire(u) PROVE RoutingInv'
  BY <1>29 DEF Expire
<1>30. CASE UNCHANGED vars
  BY <1>30 DEF vars
<1> QED
  BY <1>1, <1>2, <1>3, <1>4, <1>5, <1>6, <1>7, <1>8, <1>9, <1>10, <1>11,
     <1>12, <1>13, <1>14, <1>15, <1>16, <1>17, <1>18, <1>19, <1>20, <1>21,
     <1>22, <1>23, <1>24, <1>25, <1>26, <1>27, <1>28, <1>29, <1>30
     DEF Next, HandshakeStep, DisconnectStep, RelayStep, SubscribeStep, Environment

(* Initially no frame has been looked up. *)
LEMMA RoutingInit == Init => Routing
BY DEF Init, Routing, HandshakeInv, WitnessInv, RoutingInv, Enrolled

(* Every accepted frame reaches every connection of the recipient that was *)
(* established at its lookup and still is, whatever fails elsewhere.       *)
THEOREM NoLiveLossHolds == Spec => []NoLiveLoss
<1>1. Shape /\ Routing /\ [Next]_vars => Routing'
  BY HandshakeInvStep, WitnessInvStep, RoutingInvStep DEF Routing
<1>2. Routing => NoLiveLoss
  BY DEF Routing, RoutingInv, Reaches, NoLiveLoss
<1> QED
  BY <1>1, <1>2, ShapeInit, ShapeStep, RoutingInit, PTL DEF Spec
----------------------------------------------------------------------------
(* Initially Redis holds the backlog and nothing is anywhere else. *)
LEMMA CustodyInit == Init => Custody
<1> SUFFICES ASSUME Init PROVE Custody
  OBVIOUS
<1> USE DEF Init
<1>1. NoRepeats
  <2>1. ASSUME NEW u \in Users
        PROVE  Distinct(queue[u]) /\ \A m \in Range(queue[u]) : To[m] = u
    BY BacklogAssumption DEF Distinct, Range
  <2> QED
    BY <2>1, EmptyLemma DEF NoRepeats
<1>2. \A m \in Messages : ~InBatch(m) /\ ~InChannel(m) /\ ~InInbox(m)
  BY EmptyLemma DEF InBatch, InChannel, InInbox
<1>3. Exclusive
  BY <1>2 DEF Exclusive, InBatch, InChannel, InInbox
<1>4. \A m \in Messages : InQueue(m) => relay[m] = "acked"
  BY <1>1 DEF InQueue, NoRepeats
<1>5. Pending
  BY <1>2, <1>4 DEF Pending
<1> QED
  BY <1>1, <1>3, <1>5 DEF Custody

(* A step that leaves every place and every handling alone. *)
LEMMA CustodyFrame ==
  Custody /\ UNCHANGED <<queue, batch, channel, inbox, relay, targets>> => Custody'
BY DEF Custody, NoRepeats, Exclusive, Pending, InQueue, InBatch, InChannel, InInbox

(* A step that only ends the handling of frames, or finds it futile. *)
LEMMA CustodyRelay ==
  ASSUME Custody, UNCHANGED <<queue, batch, channel, inbox, targets>>,
         \A x \in Messages :
           \/ relay'[x] = relay[x]
           \/ relay[x] = "unsent" /\ relay'[x] \in {"unheard", "refused"}
           \/ relay'[x] \in {"over", "acked", "ackLost"}
  PROVE  Custody'
<1>1. NoRepeats' /\ Exclusive'
  BY DEF Custody, NoRepeats, Exclusive, InQueue, InBatch, InChannel, InInbox
<1>2. Pending'
  BY DEF Custody, Pending, InQueue, InBatch, InChannel, InInbox
<1> QED
  BY <1>1, <1>2 DEF Custody

(* No step hands an envelope to two holders. *)
LEMMA CustodyStep == Shape /\ Custody /\ [Next]_vars => Custody'
<1> SUFFICES ASSUME Shape, Custody, [Next]_vars PROVE Custody'
  OBVIOUS
<1> USE DEF Shape, TypeOK, Custody, InQueue, InBatch, InChannel, InInbox
<1>1. ASSUME NEW s \in Sockets, Connect(s) PROVE Custody'
  BY <1>1, CustodyFrame DEF Connect, relayVars
<1>2. ASSUME NEW s \in Sockets, Refuse(s) PROVE Custody'
  BY <1>2, CustodyFrame DEF Refuse, relayVars
<1>3. ASSUME NEW s \in Sockets, Admit(s) PROVE Custody'
  BY <1>3, CustodyFrame DEF Admit, relayVars
<1>4. ASSUME NEW s \in Sockets, AddPresence(s) PROVE Custody'
  BY <1>4, CustodyFrame DEF AddPresence, relayVars
<1>5. ASSUME NEW s \in Sockets, AddPresenceFails(s) PROVE Custody'
  BY <1>5, CustodyFrame DEF AddPresenceFails, relayVars
<1>6. ASSUME NEW s \in Sockets, EnsureSubscribed(s) PROVE Custody'
  BY <1>6, CustodyFrame DEF EnsureSubscribed, relayVars
<1>7. ASSUME NEW s \in Sockets, Enrol(s) PROVE Custody'
  BY <1>7, CustodyFrame DEF Enrol, Subscribed, relayVars
<1>8. ASSUME NEW s \in Sockets, Drain(s) PROVE Custody'
  <2> DEFINE u == Owner[s]
  <2>1. /\ u \in Users
        /\ queue'[u] = << >> /\ \A v \in Users \ {u} : queue'[v] = queue[v]
        /\ batch'[s] = queue[u] /\ \A t \in Sockets \ {s} : batch'[t] = batch[t]
        /\ UNCHANGED <<channel, inbox, relay, targets>>
    BY <1>8, OwnerAssumption DEF Drain, relayVars
  <2>2. Range(queue'[u]) = {} /\ Distinct(queue'[u])
    BY <2>1, EmptyLemma
  <2> HIDE DEF u
  <2>3. NoRepeats'
    BY <2>1, <2>2 DEF NoRepeats
  <2>4. \A m \in Messages : (InQueue(m)' => InQueue(m)) /\ (InBatch(m)' => InBatch(m) \/ InQueue(m))
    BY <2>1, <2>2
  <2>5. ASSUME NEW m \in Messages, InQueue(m)' PROVE ~InBatch(m)'
    <3>1. PICK v \in Users : v # u /\ m \in Range(queue[v])
      BY <2>1, <2>2, <2>5
    <3>2. To[m] = v /\ \A x \in Range(queue[u]) : To[x] = u
      BY <2>1, <3>1 DEF NoRepeats
    <3>3. ~InBatch(m)
      BY <3>1 DEF Exclusive
    <3> QED
      BY <2>1, <3>1, <3>2, <3>3
  <2>6. ASSUME NEW m \in Messages, NEW p \in Sockets, NEW t \in Sockets,
               m \in Range(batch'[p]), m \in Range(batch'[t])
        PROVE  p = t
    <3>1. m \in Range(queue[u]) => ~InBatch(m)
      BY <2>1 DEF Exclusive
    <3> QED
      BY <2>1, <2>6, <3>1 DEF Exclusive
  <2>7. Exclusive'
    BY <2>1, <2>4, <2>5, <2>6 DEF Exclusive
  <2>8. Pending'
    BY <2>1, <2>4 DEF Pending
  <2> QED
    BY <2>3, <2>7, <2>8
<1>9. ASSUME NEW s \in Sockets, DrainFails(s) PROVE Custody'
  BY <1>9, CustodyFrame DEF DrainFails, relayVars
<1>10. ASSUME NEW s \in Sockets, Flush(s) PROVE Custody'
  <2>1. /\ batch'[s] = << >> /\ \A t \in Sockets \ {s} : batch'[t] = batch[t]
        /\ inbox'[s] \in {inbox[s], inbox[s] \o batch[s]}
        /\ \A t \in Sockets \ {s} : inbox'[t] = inbox[t]
        /\ UNCHANGED <<queue, channel, relay, targets>>
    BY <1>10 DEF Flush, relayVars
  <2>2. \A m \in Range(batch[s]) : m \in Messages /\ ~InInbox(m) /\ ~InChannel(m) /\ ~InQueue(m)
    BY RangeLemma DEF Exclusive
  <2>3. Range(inbox[s]) \cap Range(batch[s]) = {}
    BY <2>2
  <2>4. Range(inbox'[s]) \subseteq Range(inbox[s]) \cup Range(batch[s]) /\ Distinct(inbox'[s])
    <3>1. Distinct(inbox[s]) /\ Distinct(batch[s])
      BY DEF NoRepeats
    <3>2. /\ Range(inbox[s] \o batch[s]) = Range(inbox[s]) \cup Range(batch[s])
          /\ Distinct(inbox[s] \o batch[s])
      BY <2>3, <3>1, ConcatLemma
    <3> QED
      BY <2>1, <3>1, <3>2
  <2>5. Range(batch'[s]) = {} /\ Distinct(batch'[s])
    BY <2>1, EmptyLemma
  <2>6. NoRepeats'
    BY <2>1, <2>4, <2>5 DEF NoRepeats
  <2>7. \A m \in Messages : /\ InBatch(m)' => InBatch(m) /\ m \notin Range(batch[s])
                          /\ InInbox(m)' => InInbox(m) \/ m \in Range(batch[s])
    BY <2>1, <2>4, <2>5 DEF Exclusive
  <2>8. ASSUME NEW m \in Messages PROVE Exclusive!(m)'
    <3>1. m \in Range(batch[s]) => ~InInbox(m) /\ ~InChannel(m) /\ ~InQueue(m)
      BY <2>2
    <3>2. \A t \in Sockets : m \in Range(batch'[t]) => t # s /\ m \in Range(batch[t])
      BY <2>1, <2>5
    <3>3. \A t \in Sockets : m \in Range(inbox'[t]) =>
           m \in Range(inbox[t]) \/ m \in Range(batch[s])
      BY <2>1, <2>4
    <3>4. \A t \in Sockets : Home[t] \in Nodes
      BY HomeAssumption
    <3> QED
      BY <2>1, <2>7, <3>1, <3>2, <3>3, <3>4 DEF Exclusive
  <2>9. ASSUME NEW m \in Messages PROVE Pending!(m)'
    <3>1. m \in Range(batch[s]) => relay[m] \notin {"unsent", "unheard", "refused", "enqueueing",
                                                  "publishing", "failed"}
      BY DEF Pending
    <3>2. \A t \in Sockets : m \in Range(inbox'[t]) =>
           m \in Range(inbox[t]) \/ m \in Range(batch[s])
      BY <2>1, <2>4
    <3>3. Pending!(m)
      BY DEF Pending
    <3>4. CASE m \in Range(batch[s])
      BY <2>1, <3>1, <3>4
    <3>5. CASE m \notin Range(batch[s])
      <4>1. (InInbox(m)' => InInbox(m)) /\ (InBatch(m)' => InBatch(m))
        BY <2>1, <2>5, <3>2, <3>5
      <4> QED
        BY <2>1, <3>2, <3>3, <3>5, <4>1 DEF SocketsAt
    <3> QED
      BY <3>4, <3>5
  <2> QED
    BY <2>6, <2>8, <2>9 DEF Exclusive, Pending
<1>11. ASSUME NEW s \in Sockets, RemovePresence(s) PROVE Custody'
  BY <1>11, CustodyFrame DEF RemovePresence, relayVars
<1>12. ASSUME NEW s \in Sockets, RemovePresenceFails(s) PROVE Custody'
  BY <1>12, CustodyFrame DEF RemovePresenceFails, relayVars
<1>13. ASSUME NEW s \in Sockets, PeerVanishes(s) PROVE Custody'
  BY <1>13, CustodyFrame DEF PeerVanishes, relayVars
<1>14. ASSUME NEW s \in Sockets, Close(s) PROVE Custody'
  BY <1>14, CustodyFrame DEF Close, Deregister, relayVars
<1>15. ASSUME NEW s \in Sockets, Pong(s) PROVE Custody'
  BY <1>15, CustodyFrame DEF Pong, relayVars
<1>16. ASSUME NEW n \in Nodes, SubscribeSucceeds(n) PROVE Custody'
  BY <1>16, CustodyFrame DEF SubscribeSucceeds, relayVars
<1>17. ASSUME NEW n \in Nodes, SubscribeFails(n) PROVE Custody'
  BY <1>17, CustodyFrame DEF SubscribeFails, relayVars
<1>18. ASSUME NEW n \in Nodes, Heartbeat(n) PROVE Custody'
  BY <1>18, CustodyFrame DEF Heartbeat, Deregister, relayVars
<1>19. ASSUME NEW n \in Nodes, Deliver(n) PROVE Custody'
  <2> DEFINE m == Head(channel[n])
             mine == {s \in Sockets : Home[s] = n}
  <2>1. /\ channel[n] # << >>
        /\ channel'[n] = Tail(channel[n]) /\ \A k \in Nodes \ {n} : channel'[k] = channel[k]
        /\ \A s \in mine : inbox'[s] \in {inbox[s], Append(inbox[s], m)}
        /\ \A s \in Sockets \ mine : inbox'[s] = inbox[s]
        /\ UNCHANGED <<queue, batch, relay, targets>>
    BY <1>19 DEF Deliver, SocketsAt, relayVars
  <2>2. /\ m \in Messages /\ m \in Range(channel[n])
        /\ Range(channel[n]) = Range(channel'[n]) \cup {m}
        /\ Distinct(channel'[n]) /\ m \notin Range(channel'[n])
    BY <2>1, TailLemma DEF NoRepeats
  <2> HIDE DEF m
  <2>3. /\ ~InQueue(m) /\ ~InBatch(m)
        /\ \A s \in mine : m \notin Range(inbox[s])
    BY <2>2 DEF Exclusive
  <2>4. \A s \in mine : Range(inbox'[s]) \subseteq Range(inbox[s]) \cup {m} /\ Distinct(inbox'[s])
    <3> TAKE s \in mine
    <3>1. Distinct(inbox[s])
      BY DEF NoRepeats
    <3>2. Range(Append(inbox[s], m)) = Range(inbox[s]) \cup {m} /\ Distinct(Append(inbox[s], m))
      BY <2>2, <2>3, <3>1, AppendLemma
    <3> QED
      BY <2>1, <3>1, <3>2
  <2>5. NoRepeats'
    BY <2>1, <2>2, <2>4 DEF NoRepeats
  <2>6. \A x \in Messages : (InChannel(x)' => InChannel(x)) /\ (InInbox(x)' => InInbox(x) \/ x = m)
    BY <2>1, <2>2, <2>4
  <2>7. Exclusive'
    BY <2>1, <2>2, <2>3, <2>4, <2>6, HomeAssumption DEF Exclusive
  <2>8. relay[m] \notin {"unsent", "unheard", "refused", "enqueueing"}
    BY <2>2 DEF Pending
  <2>9. relay[m] \in {"publishing", "failed"} => n \notin targets[m]
    BY <2>2 DEF Pending
  <2>10. ASSUME NEW x \in Messages PROVE Pending!(x)'
    <3>1. /\ \A k \in Nodes : x \in Range(channel'[k]) => x \in Range(channel[k])
          /\ \A s \in Sockets : x \in Range(inbox'[s]) =>
               x \in Range(inbox[s]) \/ (x = m /\ Home[s] = n)
      BY <2>1, <2>2, <2>4
    <3>2. CASE x = m
      BY <2>1, <2>3, <2>8, <2>9, <3>1, <3>2 DEF Pending, SocketsAt
    <3>3. CASE x # m
      BY <2>1, <2>6, <3>1, <3>3 DEF Pending, SocketsAt
    <3> QED
      BY <3>2, <3>3
  <2> QED
    BY <2>5, <2>7, <2>10 DEF Pending
<1>20. ASSUME NEW n \in Nodes, Crash(n) PROVE Custody'
  <2>1. /\ channel'[n] = << >> /\ \A k \in Nodes \ {n} : channel'[k] = channel[k]
        /\ \A s \in Sockets : batch'[s] \in {<< >>, batch[s]}
        /\ \A m \in Messages : relay'[m] \in {"aborted", relay[m]}
        /\ UNCHANGED <<queue, inbox, targets>>
    BY <1>20 DEF Crash
  <2>2. /\ Range(channel'[n]) = {} /\ Distinct(channel'[n])
        /\ \A s \in Sockets : /\ Range(batch'[s]) \subseteq Range(batch[s])
                               /\ Distinct(batch[s]) => Distinct(batch'[s])
    BY <2>1, EmptyLemma
  <2>3. NoRepeats'
    BY <2>1, <2>2 DEF NoRepeats
  <2>4. \A m \in Messages : (InChannel(m)' => InChannel(m)) /\ (InBatch(m)' => InBatch(m))
    BY <2>1, <2>2
  <2>5. Exclusive'
    BY <2>1, <2>2, <2>4, HomeAssumption DEF Exclusive
  <2>6. Pending'
    BY <2>1, <2>2, <2>4 DEF Pending
  <2> QED
    BY <2>3, <2>5, <2>6
<1>21. ASSUME NEW n \in Nodes, Restart(n) PROVE Custody'
  BY <1>21, CustodyFrame DEF Restart, relayVars
<1>22. ASSUME NEW m \in Messages, NEW n \in Nodes, Publish(m, n) PROVE Custody'
  <2>1. /\ relay[m] \in {"publishing", "failed"} /\ n \in targets[m]
        /\ targets'[m] = targets[m] \ {n}
        /\ \A x \in Messages \ {m} : targets'[x] = targets[x]
        /\ channel'[n] \in {channel[n], Append(channel[n], m)}
        /\ \A k \in Nodes \ {n} : channel'[k] = channel[k]
        /\ UNCHANGED <<queue, batch, inbox, relay>>
    BY <1>22 DEF Publish
  <2>2. /\ ~InQueue(m) /\ ~InBatch(m) /\ m \notin Range(channel[n])
        /\ \A s \in Sockets : Home[s] = n => m \notin Range(inbox[s])
    BY <2>1 DEF Pending, SocketsAt
  <2>3. Range(channel'[n]) \subseteq Range(channel[n]) \cup {m} /\ Distinct(channel'[n])
    <3>1. Distinct(channel[n])
      BY DEF NoRepeats
    <3>2. /\ Range(Append(channel[n], m)) = Range(channel[n]) \cup {m}
          /\ Distinct(Append(channel[n], m))
      BY <2>2, <3>1, AppendLemma
    <3> QED
      BY <2>1, <3>1, <3>2
  <2>4. NoRepeats'
    BY <2>1, <2>3 DEF NoRepeats
  <2>5. \A x \in Messages : InChannel(x)' => InChannel(x) \/ x = m
    BY <2>1, <2>3
  <2>6. ASSUME NEW x \in Messages PROVE Exclusive!(x)'
    <3>1. \A s \in Sockets : x \in Range(channel'[Home[s]]) =>
            x \in Range(channel[Home[s]]) \/ (x = m /\ Home[s] = n)
      BY <2>1, <2>3, HomeAssumption
    <3>2. Exclusive!(x)
      BY DEF Exclusive
    <3>3. CASE x = m
      BY <2>1, <2>2, <3>1, <3>2, <3>3
    <3>4. CASE x # m
      BY <2>1, <2>5, <3>1, <3>2, <3>4
    <3> QED
      BY <3>3, <3>4
  <2>7. ASSUME NEW x \in Messages PROVE Pending!(x)'
    <3>1. CASE x = m
      <4>1. \A k \in targets'[m] : k \in targets[m] /\ channel'[k] = channel[k]
        BY <2>1
      <4> QED
        BY <2>1, <2>2, <3>1, <4>1 DEF Pending, SocketsAt
    <3>2. CASE x # m
      <4>1. \A k \in Nodes : x \in Range(channel'[k]) => x \in Range(channel[k])
        BY <2>1, <2>3, <3>2
      <4> QED
        BY <2>1, <2>5, <3>2, <4>1 DEF Pending, SocketsAt
    <3> QED
      BY <3>1, <3>2
  <2> QED
    BY <2>4, <2>6, <2>7 DEF Exclusive, Pending
<1>23. ASSUME NEW m \in Messages, NEW kind \in {"envelope", "hint"}, Lookup(m, kind) PROVE Custody'
  <2>0. /\ Route(kind, NodesOf(To[m])) \in {"publishing", "over", "enqueueing"}
        /\ NodesOf(To[m]) \subseteq Nodes
    BY HomeAssumption DEF Route, NodesOf, SocketsOf
  <2>1. /\ UNCHANGED <<queue, batch, channel, inbox>>
        /\ relay[m] = "unsent"
        /\ relay'[m] \in {"publishing", "over", "enqueueing"}
        /\ targets'[m] \subseteq Nodes
        /\ \A x \in Messages \ {m} : relay'[x] = relay[x] /\ targets'[x] = targets[x]
    BY <1>23, <2>0 DEF Lookup
  <2>2. NoRepeats' /\ Exclusive'
    BY <2>1 DEF NoRepeats, Exclusive
  <2>3. ~InQueue(m) /\ ~InBatch(m) /\ ~InChannel(m) /\ ~InInbox(m)
    BY <2>1 DEF Pending
  <2>4. Pending'
    BY <2>1, <2>3 DEF Pending, SocketsAt
  <2> QED
    BY <2>2, <2>4
<1>24. ASSUME NEW m \in Messages, Enqueue(m) PROVE Custody'
  <2> DEFINE u == To[m]
             q == Append(queue[u], m)
  <2>1. /\ u \in Users /\ relay[m] = "enqueueing"
        /\ queue'[u] = Trim(q) /\ \A v \in Users \ {u} : queue'[v] = queue[v]
        /\ relay'[m] = "stored" /\ \A x \in Messages \ {m} : relay'[x] = relay[x]
        /\ UNCHANGED <<batch, channel, inbox, targets>>
    BY <1>24, ToAssumption DEF Enqueue
  <2>2. ~InQueue(m) /\ ~InBatch(m) /\ ~InChannel(m) /\ ~InInbox(m)
    BY <2>1 DEF Pending
  <2>3. q \in Seq(Messages) /\ Range(q) = Range(queue[u]) \cup {m} /\ Distinct(q)
    BY <2>1, <2>2, AppendLemma DEF NoRepeats
  <2>4. Range(queue'[u]) \subseteq Range(queue[u]) \cup {m} /\ Distinct(queue'[u])
    <3>1. Range(Trim(q)) \subseteq Range(q) /\ Distinct(Trim(q))
      BY <2>3, TrimLemma
    <3> QED
      BY <2>1, <2>3, <3>1
  <2>5. NoRepeats'
    BY <2>1, <2>4 DEF NoRepeats
  <2>6. \A x \in Messages : InQueue(x)' => InQueue(x) \/ x = m
    BY <2>1, <2>4
  <2>7. ASSUME NEW x \in Messages PROVE Exclusive!(x)'
    <3>1. CASE x = m
      BY <2>1, <2>2, <3>1
    <3>2. CASE x # m
      <4>1. Exclusive!(x)
        BY DEF Exclusive
      <4> QED
        BY <2>1, <2>6, <3>2, <4>1
    <3> QED
      BY <3>1, <3>2
  <2>8. Pending'
    BY <2>1, <2>6 DEF Pending
  <2> QED
    BY <2>5, <2>7, <2>8 DEF Exclusive
<1>25. ASSUME NEW m \in Messages, RelayFails(m) PROVE Custody'
  <2>1. /\ UNCHANGED <<queue, batch, channel, inbox>>
        /\ relay[m] \in {"enqueueing", "publishing"}
        /\ relay' = [relay EXCEPT ![m] = "failed"]
        /\ \A x \in Messages : targets'[x] \subseteq targets[x]
    BY <1>25 DEF RelayFails
  <2>2. NoRepeats' /\ Exclusive'
    BY <2>1 DEF NoRepeats, Exclusive
  <2>3. ASSUME NEW x \in Messages, relay'[x] = relay[x] PROVE Pending!(x)'
    BY <2>1, <2>3 DEF Pending
  <2>4. Pending!(m)'
    <3>1. ~InQueue(m) /\ ~InBatch(m)
      BY <2>1 DEF Pending
    <3>2. \A n \in targets[m] : /\ m \notin Range(channel[n])
                              /\ \A s \in SocketsAt(n) : m \notin Range(inbox[s])
      BY <2>1 DEF Pending, SocketsAt
    <3> QED
      BY <2>1, <3>1, <3>2
  <2>5. ASSUME NEW x \in Messages PROVE x = m \/ relay'[x] = relay[x]
    BY <2>1
  <2> QED
    BY <2>2, <2>3, <2>4, <2>5 DEF Pending
<1>26. ASSUME NEW m \in Messages, Ack(m) PROVE Custody'
  <2>1. /\ UNCHANGED <<queue, batch, channel, inbox, targets>>
        /\ \A x \in Messages : relay'[x] = relay[x] \/ relay'[x] \in {"over", "acked", "ackLost"}
    BY <1>26 DEF Ack
  <2> QED
    BY <2>1, CustodyRelay
<1>27. ASSUME NEW m \in Messages, ArriveUnheard(m) PROVE Custody'
  <2>1. /\ UNCHANGED <<queue, batch, channel, inbox, targets>>
        /\ \A x \in Messages :
             relay'[x] = relay[x] \/ (relay[x] = "unsent" /\ relay'[x] \in {"unheard", "refused"})
    BY <1>27 DEF ArriveUnheard
  <2> QED
    BY <2>1, CustodyRelay
<1>28. ASSUME NEW m \in Messages, Reject(m) PROVE Custody'
  <2>1. /\ UNCHANGED <<queue, batch, channel, inbox, targets>>
        /\ \A x \in Messages :
             relay'[x] = relay[x] \/ (relay[x] = "unsent" /\ relay'[x] \in {"unheard", "refused"})
    BY <1>28 DEF Reject
  <2> QED
    BY <2>1, CustodyRelay
<1>29. ASSUME NEW u \in Users, Expire(u) PROVE Custody'
  <2>1. /\ queue'[u] = << >> /\ \A v \in Users \ {u} : queue'[v] = queue[v]
        /\ UNCHANGED <<batch, channel, inbox, relay, targets>>
    BY <1>29 DEF Expire, relayVars
  <2>2. Range(queue'[u]) = {} /\ Distinct(queue'[u])
    BY <2>1, EmptyLemma
  <2>3. \A m \in Messages : InQueue(m)' => InQueue(m)
    BY <2>1, <2>2
  <2>4. NoRepeats'
    BY <2>1, <2>2 DEF NoRepeats
  <2> QED
    BY <2>1, <2>3, <2>4 DEF Exclusive, Pending
<1>30. CASE UNCHANGED vars
  BY <1>30, CustodyFrame DEF vars, relayVars
<1> QED
  BY <1>1, <1>2, <1>3, <1>4, <1>5, <1>6, <1>7, <1>8, <1>9, <1>10, <1>11,
     <1>12, <1>13, <1>14, <1>15, <1>16, <1>17, <1>18, <1>19, <1>20, <1>21,
     <1>22, <1>23, <1>24, <1>25, <1>26, <1>27, <1>28, <1>29, <1>30
     DEF Next, HandshakeStep, DisconnectStep, RelayStep, SubscribeStep, Environment

(* No socket is ever sent a frame twice, whatever live delivery, drains,   *)
(* crashes and failures do.                                                *)
THEOREM AtMostOnceHolds == Spec => []AtMostOnce
<1>1. Custody => AtMostOnce
  BY DEF Custody, NoRepeats, Distinct, AtMostOnce
<1> QED
  BY <1>1, ShapeInit, ShapeStep, CustodyInit, CustodyStep, PTL DEF Spec

(* An envelope waiting in an offline list has been sent to no socket and   *)
(* sits in no drained batch, for every interleaving of drains and relays.  *)
THEOREM QueuedIsUndeliveredHolds == Spec => []QueuedIsUndelivered
<1>1. Shape /\ Custody => QueuedIsUndelivered
  <2> SUFFICES ASSUME Shape, Custody, NEW u \in Users, NEW m \in Range(queue[u]), NEW s \in Sockets
               PROVE  m \notin Range(inbox[s]) \cup Range(batch[s])
    BY DEF QueuedIsUndelivered
  <2>1. m \in Messages
    BY RangeLemma DEF Shape, TypeOK
  <2> QED
    BY <2>1 DEF Custody, Exclusive, InQueue, InBatch, InInbox
<1> QED
  BY <1>1, ShapeInit, ShapeStep, CustodyInit, CustodyStep, PTL DEF Spec

----------------------------------------------------------------------------
(* The refinement of Mailbox.  A step of the relay that moves no frame is  *)
(* no step of the mailbox; of the others, a drain takes the list whole and *)
(* in order because Custody keeps each list free of repeats and to its     *)
(* user, and a delivery is new to the sockets it reaches because Custody   *)
(* keeps a channel apart from its sockets' inboxes.                        *)

(* What waits for its RPUSH has nowhere left to be published. *)
Idle == \A m \in Messages : relay[m] = "enqueueing" => targets[m] = {}

(* Trimming keeps the newest element. *)
LEMMA NewestLemma ==
  ASSUME NEW S, NEW q \in Seq(S), NEW x \in S
  PROVE  x \in Range(Trim(Append(q, x)))
<1> DEFINE r == Append(q, x)
<1>1. /\ Len(q) \in Nat /\ MaxQueued \in Nat \ {0}
      /\ r \in Seq(S) /\ Len(r) = Len(q) + 1 /\ r[Len(q) + 1] = x
  BY BoundAssumption, LenProperties, AppendProperties
<1> HIDE DEF r
<1>2. CASE Len(r) > MaxQueued
  <2> DEFINE k == Len(r) - MaxQueued + 1
             t == SubSeq(r, k, Len(r))
  <2>1. k \in 1..Len(r) /\ k \in Int /\ Len(r) \in Int /\ Len(r) - k + 1 = MaxQueued
    BY <1>1, <1>2
  <2>2. \A i \in k..Len(r) : r[i] \in S
    BY <1>1, <2>1, ElementOfSeq
  <2> HIDE DEF k
  <2>3. /\ t \in Seq(S) /\ Len(t) = MaxQueued /\ DOMAIN t = 1..MaxQueued
        /\ t[MaxQueued] = r[k + MaxQueued - 1]
    <3>1. k <= Len(r) /\ MaxQueued \in 1..(Len(r) - k + 1)
      BY <1>1, <2>1
    <3>2. /\ t \in Seq(S) /\ Len(t) = Len(r) - k + 1
          /\ \A i \in 1..(Len(r) - k + 1) : t[i] = r[k + i - 1]
      BY <2>1, <2>2, <3>1, SubSeqProperties
    <3> QED
      BY <1>1, <2>1, <3>1, <3>2, LenProperties
  <2>4. k + MaxQueued - 1 = Len(q) + 1
    BY <1>1 DEF k
  <2>5. t[MaxQueued] \in Range(t)
    BY <1>1, <2>3 DEF Range
  <2>6. Trim(r) = t
    BY <1>2 DEF Trim, k
  <2> QED
    BY <1>1, <2>3, <2>4, <2>5, <2>6 DEF r
<1>3. CASE ~(Len(r) > MaxQueued)
  <2>1. DOMAIN r = 1..(Len(q) + 1)
    BY <1>1, LenProperties
  <2>2. x \in Range(r)
    BY <1>1, <2>1 DEF Range
  <2>3. Trim(r) = r
    BY <1>3 DEF Trim
  <2> QED
    BY <2>2, <2>3 DEF r
<1> QED
  BY <1>2, <1>3 DEF r

LEMMA IdleInit == Init => Idle
BY DEF Init, Idle

LEMMA IdleStep == Shape /\ Idle /\ [Next]_vars => Idle'
<1> SUFFICES ASSUME Shape, Idle, [Next]_vars PROVE Idle'
  OBVIOUS
<1> USE DEF Shape, TypeOK
<1>1. ASSUME NEW m \in Messages, NEW n \in Nodes, Publish(m, n) PROVE Idle'
  BY <1>1 DEF Publish, Idle
<1>2. ASSUME NEW m \in Messages, NEW kind \in {"envelope", "hint"}, Lookup(m, kind) PROVE Idle'
  BY <1>2 DEF Lookup, Route, Idle
<1>3. ASSUME NEW m \in Messages,
             Enqueue(m) \/ Ack(m) \/ ArriveUnheard(m) \/ Reject(m)
      PROVE  Idle'
  BY <1>3 DEF Enqueue, Ack, ArriveUnheard, Reject, Idle
<1>4. ASSUME NEW m \in Messages, RelayFails(m) PROVE Idle'
  BY <1>4 DEF RelayFails, Idle
<1>5. ASSUME NEW n \in Nodes, Crash(n) PROVE Idle'
  BY <1>5 DEF Crash, Idle
<1>6. CASE UNCHANGED <<relay, targets>>
  BY <1>6 DEF Idle
<1>7. ASSUME NEW s \in Sockets, HandshakeStep(s) \/ DisconnectStep(s) PROVE UNCHANGED <<relay, targets>>
  BY <1>7 DEF HandshakeStep, DisconnectStep, Refuse, Admit, AddPresence, AddPresenceFails,
     EnsureSubscribed, Enrol, Drain, DrainFails, Flush, RemovePresence, RemovePresenceFails, relayVars
<1>8. ASSUME NEW n \in Nodes, SubscribeStep(n) \/ Heartbeat(n) \/ Deliver(n) \/ Restart(n)
      PROVE  UNCHANGED <<relay, targets>>
  BY <1>8 DEF SubscribeStep, SubscribeSucceeds, SubscribeFails, Heartbeat, Deliver, Restart, relayVars
<1>9. ASSUME NEW s \in Sockets, Connect(s) \/ PeerVanishes(s) \/ Close(s) \/ Pong(s)
      PROVE  UNCHANGED <<relay, targets>>
  BY <1>9 DEF Connect, PeerVanishes, Close, Pong, relayVars
<1>10. ASSUME NEW u \in Users, Expire(u) PROVE UNCHANGED <<relay, targets>>
  BY <1>10 DEF Expire, relayVars
<1>11. CASE UNCHANGED vars
  BY <1>6, <1>11 DEF vars, relayVars
<1> QED
  BY <1>1, <1>2, <1>3, <1>4, <1>5, <1>6, <1>7, <1>8, <1>9, <1>10, <1>11
  DEF Next, RelayStep, Environment

(* The mailbox takes its functions from the same library. *)
LEMMA MailboxFunctions ==
  ASSUME NEW f
  PROVE  Promise!Range(f) = Range(f) /\ (Promise!IsInjective(f) <=> IsInjective(f))
BY DEF Promise!Range, Range, Promise!IsInjective, IsInjective

LEMMA MailboxInit == Init => Promise!Init
<1> SUFFICES ASSUME Init PROVE Promise!Init
  OBVIOUS
<1> USE DEF Init
<1>1. \A u \in Users : Range(Backlog[u]) \subseteq Messages
  BY BacklogAssumption, RangeLemma
<1>2. Waiting = UNION {Range(Backlog[u]) : u \in Users}
  BY <1>1 DEF Waiting
<1>3. \A m \in Messages : m \in Waiting <=> m \in Range(Backlog[To[m]])
  <2>1. ASSUME NEW u \in Users, NEW m \in Range(Backlog[u]) PROVE To[m] = u
    BY BacklogAssumption DEF Range
  <2> QED
    BY <2>1, ToAssumption DEF Waiting
<1>4. Untaken = Messages \ Waiting
  BY <1>3 DEF Untaken
<1>5. Underway = {}
  <2>1. \A n \in Nodes : Range(channel[n]) = {}
    BY EmptyLemma
  <2> QED
    BY <2>1 DEF Underway
<1>6. batch = [s \in Sockets |-> << >>] /\ inbox = [s \in Sockets |-> << >>]
  OBVIOUS
<1> HIDE DEF Init
<1>7. Untaken = Messages \ Waiting
  BY <1>4
<1> QED
  BY <1>2, <1>5, <1>6, <1>7, MailboxFunctions DEF Promise!Init

(* A step that leaves every place and every handling alone. *)
LEMMA MailboxFrame ==
  UNCHANGED <<queue, batch, channel, inbox, relay, targets>> => UNCHANGED Promise!mailboxVars
BY DEF Promise!mailboxVars, Untaken, Waiting, Underway

(* A step that only settles frames, or loses them. *)
LEMMA LoseLemma ==
  ASSUME UNCHANGED inbox,
         \A m \in Messages : relay'[m] \in {"unsent", "enqueueing"} => relay[m] \in {"unsent", "enqueueing"},
         \A u \in Users : Range(queue'[u]) \subseteq Range(queue[u]),
         Underway' \subseteq Underway,
         NEW S \in SUBSET Sockets, batch' = [s \in Sockets |-> IF s \in S THEN << >> ELSE batch[s]]
  PROVE  Promise!Next
<1>1. Untaken' \subseteq Untaken /\ Waiting' \subseteq Waiting
  BY DEF Untaken, Waiting
<1> QED
  BY <1>1 DEF Promise!Next, Promise!Lose

LEMMA DrainStep ==
  ASSUME Shape, Custody, NEW s \in Sockets, Drain(s) PROVE Promise!Next
<1> USE DEF Shape, TypeOK
<1> DEFINE u == Owner[s]
<1>1. /\ u \in Users /\ batch' = [batch EXCEPT ![s] = queue[u]]
      /\ batch'[s] = queue[u]
      /\ queue' = [queue EXCEPT ![u] = << >>]
      /\ UNCHANGED <<channel, inbox, relay, targets>>
  BY OwnerAssumption DEF Drain, relayVars
<1> HIDE DEF u
<1>2. \A v \in Users : Range(queue[v]) \subseteq Messages /\ \A m \in Range(queue[v]) : To[m] = v
  BY RangeLemma DEF Custody, NoRepeats
<1>3. Range(queue'[u]) = {} /\ \A v \in Users \ {u} : queue'[v] = queue[v]
  BY <1>1, EmptyLemma
<1>4. Range(queue[u]) = {m \in Waiting : To[m] = u}
  BY <1>1, <1>2 DEF Waiting
<1>5. Waiting' = Waiting \ {m \in Waiting : To[m] = u}
  BY <1>1, <1>2, <1>3 DEF Waiting
<1>6. IsInjective(queue[u])
  BY <1>1 DEF Custody, NoRepeats, Distinct, IsInjective
<1>7. UNCHANGED <<Untaken, Underway, inbox>>
  BY <1>1 DEF Untaken, Underway
<1>8. /\ batch' = [batch EXCEPT ![s] = batch'[s]]
      /\ Range(batch'[s]) = {m \in Waiting : To[m] = Owner[s]} /\ IsInjective(batch'[s])
      /\ Waiting' = Waiting \ {m \in Waiting : To[m] = Owner[s]}
      /\ UNCHANGED <<Untaken, Underway, inbox>>
  <2>1. batch' = [batch EXCEPT ![s] = batch'[s]]
    BY <1>1
  <2>2. u = Owner[s] /\ batch'[s] = queue[u]
    BY <1>1 DEF u
  <2> QED
    BY <1>4, <1>5, <1>6, <1>7, <2>1, <2>2
<1>9. Promise!Take(s)
  BY ONLY <1>8, MailboxFunctions DEF Promise!Take
<1> QED
  BY <1>9 DEF Promise!Next

LEMMA FlushStep ==
  ASSUME Shape, NEW s \in Sockets, Flush(s) PROVE Promise!Next
<1>1. /\ inbox' \in {inbox, [inbox EXCEPT ![s] = @ \o batch[s]]}
      /\ batch' = [batch EXCEPT ![s] = << >>]
      /\ UNCHANGED <<channel, queue, relay, targets>>
  BY DEF Flush, relayVars
<1>2. UNCHANGED <<Untaken, Waiting, Underway>>
  BY <1>1 DEF Untaken, Waiting, Underway
<1> QED
  BY <1>1, <1>2 DEF Promise!Next, Promise!HandOver

LEMMA DeliverStep ==
  ASSUME Shape, Custody, NEW n \in Nodes, Deliver(n) PROVE Promise!Next
<1> USE DEF Shape, TypeOK
<1> DEFINE m == Head(channel[n])
           S == {s \in localSockets \cap SocketsOf(To[m]) \cap SocketsAt(n) : wire[s] = "open"}
<1>1. /\ channel[n] # << >> /\ channel' = [channel EXCEPT ![n] = Tail(@)]
      /\ inbox' = [s \in Sockets |-> IF s \in S THEN Append(inbox[s], m) ELSE inbox[s]]
      /\ UNCHANGED <<queue, batch, relay, targets>>
  BY DEF Deliver, relayVars
<1>2. m \in Messages /\ m \in Range(channel[n]) /\ Range(channel[n]) = Range(channel'[n]) \cup {m}
  BY <1>1, TailLemma
<1>3. S \in SUBSET {s \in Sockets : Owner[s] = To[m] /\ m \notin Range(inbox[s])}
  <2> SUFFICES ASSUME NEW s \in S
               PROVE  s \in Sockets /\ Owner[s] = To[m] /\ m \notin Range(inbox[s])
    OBVIOUS
  <2>1. s \in Sockets /\ Owner[s] = To[m] /\ Home[s] = n
    BY DEF SocketsOf, SocketsAt
  <2> QED
    BY <1>2, <2>1 DEF Custody, Exclusive
<1> HIDE DEF m, S
<1>4. m \in Underway
  BY <1>2 DEF Underway
<1>5. Underway' \in {Underway, Underway \ {m}}
  <2>1. ASSUME NEW x \in Messages \ {m} PROVE x \in Underway' <=> x \in Underway
    <3>1. \A k \in Nodes : x \in Range(channel'[k]) <=> x \in Range(channel[k])
      BY <1>1, <1>2, <2>1
    <3> QED
      BY <1>1, <3>1 DEF Underway
  <2>2. Underway \subseteq Messages /\ Underway' \subseteq Messages
    BY DEF Underway
  <2>3. CASE m \in Underway'
    <3>1. Underway' = Underway
      BY ONLY <1>2, <1>4, <2>1, <2>2, <2>3
    <3> QED
      BY <3>1
  <2>4. CASE m \notin Underway'
    <3>1. Underway' = Underway \ {m}
      BY <2>1, <2>2, <2>4
    <3> QED
      BY <3>1
  <2> QED
    BY <2>3, <2>4
<1>6. UNCHANGED <<Untaken, Waiting, batch>>
  BY <1>1 DEF Untaken, Waiting
<1>7. Promise!Push(m)
  <2>1. \E T \in SUBSET {s \in Sockets : Owner[s] = To[m] /\ m \notin Range(inbox[s])} :
          inbox' = [s \in Sockets |-> IF s \in T THEN Append(inbox[s], m) ELSE inbox[s]]
    <3> WITNESS S \in SUBSET {s \in Sockets : Owner[s] = To[m] /\ m \notin Range(inbox[s])}
    <3> QED
      BY <1>1
  <2> QED
    BY ONLY <1>4, <1>5, <1>6, <2>1, MailboxFunctions DEF Promise!Push
<1> QED
  BY <1>2, <1>7 DEF Promise!Next

LEMMA CrashStep ==
  ASSUME Shape, NEW n \in Nodes, Crash(n) PROVE Promise!Next
<1> USE DEF Shape, TypeOK
<1>1. /\ channel' = [channel EXCEPT ![n] = << >>]
      /\ batch' = [s \in Sockets |-> IF s \in SocketsAt(n) THEN << >> ELSE batch[s]]
      /\ \A m \in Messages : relay'[m] \in {"aborted", relay[m]}
      /\ UNCHANGED <<queue, inbox, targets>>
  BY DEF Crash
<1>2. \A k \in Nodes : Range(channel'[k]) \subseteq Range(channel[k])
  BY <1>1, EmptyLemma
<1>3. Underway' \subseteq Underway
  BY <1>1, <1>2 DEF Underway
<1>4. SocketsAt(n) \in SUBSET Sockets
  BY DEF SocketsAt
<1>5. \A m \in Messages : relay'[m] \in {"unsent", "enqueueing"} => relay[m] \in {"unsent", "enqueueing"}
  BY <1>1
<1> QED
  BY <1>1, <1>3, <1>4, <1>5, LoseLemma

(* The batches stay where they are. *)
LEMMA BatchLemma ==
  ASSUME Shape, batch' = batch
  PROVE  batch' = [s \in Sockets |-> IF s \in {} THEN << >> ELSE batch[s]]
BY DEF Shape, TypeOK

LEMMA PublishStep ==
  ASSUME Shape, Custody, NEW m \in Messages, NEW n \in Nodes, Publish(m, n) PROVE Promise!Next
<1> USE DEF Shape, TypeOK
<1>1. /\ relay[m] \in {"publishing", "failed"} /\ n \in targets[m]
      /\ targets' = [targets EXCEPT ![m] = @ \ {n}]
      /\ channel' \in {channel, [channel EXCEPT ![n] = Append(@, m)]}
      /\ UNCHANGED <<queue, batch, inbox, relay>>
  BY DEF Publish
<1>2. ASSUME NEW x \in Messages \ {m} PROVE x \in Underway' => x \in Underway
  <2>1. Range(Append(channel[n], m)) = Range(channel[n]) \cup {m}
    BY AppendLemma
  <2>2. \A k \in Nodes : x \in Range(channel'[k]) => x \in Range(channel[k])
    BY <1>1, <1>2, <2>1
  <2> QED
    BY <1>1, <2>2 DEF Underway
<1>3. m \in Underway
  BY <1>1 DEF Underway
<1>4. Underway' \subseteq Underway
  BY <1>2, <1>3 DEF Underway
<1>5. batch' = [s \in Sockets |-> IF s \in {} THEN << >> ELSE batch[s]]
  BY <1>1, BatchLemma
<1> QED
  BY <1>1, <1>4, <1>5, LoseLemma

LEMMA LookupStep ==
  ASSUME Shape, Custody, NEW m \in Messages, NEW kind \in {"envelope", "hint"}, Lookup(m, kind)
  PROVE  Promise!Next \/ UNCHANGED Promise!mailboxVars
<1> USE DEF Shape, TypeOK
<1> DEFINE to == NodesOf(To[m])
<1>1. /\ relay[m] = "unsent" /\ relay' = [relay EXCEPT ![m] = Route(kind, to)]
      /\ targets' = [targets EXCEPT ![m] = to]
      /\ UNCHANGED <<queue, batch, channel, inbox>>
  BY DEF Lookup
<1> HIDE DEF to
<1>2. m \in Untaken /\ m \notin Underway
  BY <1>1 DEF Untaken, Underway, Custody, Pending, InChannel
<1>3. \A x \in Messages \ {m} : (x \in Underway' <=> x \in Underway) /\ (x \in Untaken' <=> x \in Untaken)
  BY <1>1 DEF Underway, Untaken
<1>4. /\ Untaken \subseteq Messages /\ Untaken' \subseteq Messages
      /\ Underway \subseteq Messages /\ Underway' \subseteq Messages
      /\ Waiting' = Waiting
  BY <1>1 DEF Underway, Untaken, Waiting
<1>5. CASE to # {}
  <2>1. m \in Underway' /\ m \notin Untaken'
    BY <1>1, <1>5 DEF Underway, Untaken, Route
  <2>2. Untaken' = Untaken \ {m} /\ Underway' = Underway \cup {m}
    BY <1>3, <1>4, <2>1
  <2> QED
    BY <1>1, <1>2, <1>4, <2>2 DEF Promise!Next, Promise!Start
<1>6. CASE to = {} /\ kind = "envelope"
  <2>1. m \in Untaken' /\ m \notin Underway'
    <3>1. relay'[m] = "enqueueing"
      BY <1>1, <1>6 DEF Route
    <3> QED
      BY <1>1, <1>2, <3>1 DEF Untaken, Underway
  <2>2. Untaken' = Untaken
    BY ONLY <1>2, <1>3, <1>4, <2>1
  <2>3. Underway' = Underway
    BY ONLY <1>2, <1>3, <1>4, <2>1
  <2> QED
    BY <1>1, <1>4, <2>2, <2>3 DEF Promise!mailboxVars
<1>7. CASE to = {} /\ kind = "hint"
  <2>1. relay'[m] = "over" /\ m \notin Underway'
    <3>1. relay'[m] = "over"
      BY <1>1, <1>7 DEF Route
    <3> QED
      BY <1>1, <1>2, <3>1 DEF Underway
  <2>2. Underway' \subseteq Underway
    BY <1>3, <1>4, <2>1
  <2>3. batch' = [s \in Sockets |-> IF s \in {} THEN << >> ELSE batch[s]]
    BY <1>1, BatchLemma
  <2>4. \A x \in Messages : relay'[x] \in {"unsent", "enqueueing"} => relay[x] \in {"unsent", "enqueueing"}
    BY <1>1, <2>1
  <2> QED
    BY <1>1, <2>2, <2>3, <2>4, LoseLemma
<1> QED
  BY <1>5, <1>6, <1>7

LEMMA EnqueueStep ==
  ASSUME Shape, Custody, Idle, NEW m \in Messages, Enqueue(m) PROVE Promise!Next
<1> USE DEF Shape, TypeOK
<1> DEFINE u == To[m]
           q == Append(queue[u], m)
<1>1. /\ u \in Users /\ relay[m] = "enqueueing" /\ relay' = [relay EXCEPT ![m] = "stored"]
      /\ queue' = [queue EXCEPT ![u] = Trim(q)]
      /\ UNCHANGED <<batch, channel, inbox, targets>>
  BY ToAssumption DEF Enqueue
<1>2. /\ queue[u] \in Seq(Messages) /\ q \in Seq(Messages) /\ Range(q) = Range(queue[u]) \cup {m}
  BY <1>1, AppendLemma
<1>3. Range(Trim(q)) \subseteq Range(queue[u]) \cup {m} /\ m \in Range(Trim(q))
  BY <1>2, TrimLemma, NewestLemma
<1> HIDE DEF u, q
<1>4. m \in Waiting' /\ Waiting' \subseteq Waiting \cup {m}
  BY <1>1, <1>3 DEF Waiting
<1>5. \A x \in Waiting \ Waiting' : To[x] = u
  <2> SUFFICES ASSUME NEW x \in Waiting, x \notin Waiting' PROVE To[x] = u
    OBVIOUS
  <2>1. PICK v \in Users : x \in Range(queue[v])
    BY DEF Waiting
  <2>2. v # u => queue'[v] = queue[v]
    BY <1>1
  <2>3. v = u
    BY <2>1, <2>2 DEF Waiting
  <2> QED
    BY <2>1, <2>3 DEF Custody, NoRepeats
<1>6. m \in Untaken /\ Untaken' = Untaken \ {m}
  BY <1>1 DEF Untaken
<1>7. Underway' = Underway
  BY <1>1 DEF Underway, Idle
<1>8. Promise!Store(m)
  BY <1>1, <1>4, <1>5, <1>6, <1>7 DEF Promise!Store, u
<1> QED
  BY <1>8 DEF Promise!Next

LEMMA RelayFailsStep ==
  ASSUME Shape, Idle, NEW m \in Messages, RelayFails(m) PROVE Promise!Next
<1> USE DEF Shape, TypeOK
<1>1. /\ relay[m] = "enqueueing" \/ (relay[m] = "publishing" /\ targets[m] # {})
      /\ relay' = [relay EXCEPT ![m] = "failed"]
      /\ \A x \in Messages : targets'[x] \subseteq targets[x]
      /\ UNCHANGED <<queue, batch, channel, inbox>>
  BY DEF RelayFails
<1>2. \A x \in Messages : x \in Underway' => x \in Underway
  BY <1>1 DEF Underway, Idle
<1>3. Underway' \subseteq Underway
  BY <1>2 DEF Underway
<1>4. batch' = [s \in Sockets |-> IF s \in {} THEN << >> ELSE batch[s]]
  BY <1>1, BatchLemma
<1> QED
  BY <1>1, <1>3, <1>4, LoseLemma

LEMMA SettleStep ==
  ASSUME Shape, NEW m \in Messages, Ack(m) \/ ArriveUnheard(m) \/ Reject(m)
  PROVE  Promise!Next
<1> USE DEF Shape, TypeOK
<1>1. /\ relay'[m] \in {"unheard", "refused", "over", "acked", "ackLost"}
      /\ \A x \in Messages \ {m} : relay'[x] = relay[x]
      /\ UNCHANGED <<queue, batch, channel, inbox, targets>>
  <2>1. CASE Ack(m)
    BY <2>1 DEF Ack
  <2>2. CASE ArriveUnheard(m)
    BY <2>2 DEF ArriveUnheard
  <2>3. CASE Reject(m)
    BY <2>3 DEF Reject
  <2> QED
    BY <2>1, <2>2, <2>3
<1>2. Underway' \subseteq Underway
  BY <1>1 DEF Underway
<1>3. batch' = [s \in Sockets |-> IF s \in {} THEN << >> ELSE batch[s]]
  BY <1>1, BatchLemma
<1> QED
  BY <1>1, <1>2, <1>3, LoseLemma

LEMMA ExpireStep ==
  ASSUME Shape, NEW u \in Users, Expire(u) PROVE Promise!Next
<1> USE DEF Shape, TypeOK
<1>1. /\ queue' = [queue EXCEPT ![u] = << >>]
      /\ UNCHANGED <<batch, channel, inbox, relay, targets>>
  BY DEF Expire, relayVars
<1>2. \A v \in Users : Range(queue'[v]) \subseteq Range(queue[v])
  BY <1>1, EmptyLemma
<1>3. batch' = [s \in Sockets |-> IF s \in {} THEN << >> ELSE batch[s]]
  BY <1>1, BatchLemma
<1>4. Underway' = Underway
  BY <1>1 DEF Underway
<1> QED
  BY <1>1, <1>2, <1>3, <1>4, LoseLemma

(* Every step of the relay is a step of the mailbox or none. *)
LEMMA MailboxStep ==
  Shape /\ Custody /\ Idle /\ [Next]_vars => [Promise!Next]_(Promise!mailboxVars)
<1> DEFINE Same == UNCHANGED <<queue, batch, channel, inbox, relay, targets>>
<1> SUFFICES ASSUME Shape, Custody, Idle, [Next]_vars
             PROVE  Promise!Next \/ UNCHANGED Promise!mailboxVars
  OBVIOUS
<1>1. CASE Same
  BY <1>1, MailboxFrame
<1>2. ASSUME NEW s \in Sockets, HandshakeStep(s) \/ DisconnectStep(s)
      PROVE  Drain(s) \/ Flush(s) \/ Same
  BY <1>2 DEF HandshakeStep, DisconnectStep, Refuse, Admit, AddPresence, AddPresenceFails,
     EnsureSubscribed, Enrol, DrainFails, RemovePresence, RemovePresenceFails, relayVars
<1>3. ASSUME NEW n \in Nodes, SubscribeStep(n) \/ Heartbeat(n) \/ Restart(n) PROVE Same
  BY <1>3 DEF SubscribeStep, SubscribeSucceeds, SubscribeFails, Heartbeat, Restart, relayVars
<1>4. ASSUME NEW s \in Sockets, Connect(s) \/ PeerVanishes(s) \/ Close(s) \/ Pong(s) PROVE Same
  BY <1>4 DEF Connect, PeerVanishes, Close, Pong, relayVars
<1>5. CASE UNCHANGED vars
  BY <1>1, <1>5 DEF vars, relayVars
<1>6. ASSUME NEW s \in Sockets, Drain(s) \/ Flush(s) PROVE Promise!Next
  BY <1>6, DrainStep, FlushStep
<1>7. ASSUME NEW n \in Nodes, Deliver(n) \/ Crash(n) PROVE Promise!Next
  BY <1>7, DeliverStep, CrashStep
<1>8. ASSUME NEW m \in Messages, RelayStep(m) PROVE Promise!Next
  BY <1>8, PublishStep, EnqueueStep, RelayFailsStep, SettleStep DEF RelayStep
<1>9. ASSUME NEW m \in Messages,
             ArriveUnheard(m) \/ Reject(m) \/ Lookup(m, "envelope") \/ Lookup(m, "hint")
      PROVE  Promise!Next \/ UNCHANGED Promise!mailboxVars
  BY <1>9, SettleStep, LookupStep
<1>10. ASSUME NEW u \in Users, Expire(u) PROVE Promise!Next
  BY <1>10, ExpireStep
<1> HIDE DEF Same
<1> QED
  BY <1>1, <1>2, <1>3, <1>4, <1>5, <1>6, <1>7, <1>8, <1>9, <1>10 DEF Next, Environment

(* For any users, sockets, nodes, messages and failures, the nodes, Redis  *)
(* and the sockets together behave as one Mailbox: every step of a         *)
(* handshake, a relay, a drain, a crash or a failure is one of its steps   *)
(* or leaves it alone.                                                     *)
THEOREM ImplementsMailboxHolds == Spec => ImplementsMailbox
<1>1. Shape /\ Custody /\ Idle /\ [Next]_vars =>
        Shape' /\ Custody' /\ Idle' /\ [Promise!Next]_(Promise!mailboxVars)
  BY ShapeStep, CustodyStep, IdleStep, MailboxStep
<1>2. Init => Shape /\ Custody /\ Idle /\ Promise!Init
  BY ShapeInit, CustodyInit, IdleInit, MailboxInit
<1> QED
  BY <1>1, <1>2, PTL DEF Spec, ImplementsMailbox, Promise!Spec
============================================================================
