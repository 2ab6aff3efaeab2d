------------------------------- MODULE Relay -------------------------------
(***************************************************************************)
(* The ciphertext relay of the backend: the WebSocket gateway of every     *)
(* node (handshake, heartbeat, disconnect), the Redis presence registry,   *)
(* the node-local socket registry, the node:{nodeId} pub/sub channels, the *)
(* offline queue, and MessageRelayService, which ties them together.       *)
(*                                                                         *)
(* Every await of the code ends a step: a Redis command is issued in one   *)
(* step, executed in the next, and its continuation runs in a third, so    *)
(* handlers of different sockets, nodes and messages interleave as they do *)
(* on the event loops and in Redis.  A socket and a message are one-shot   *)
(* identities: a reconnecting client is another socket, a retried send     *)
(* another message.                                                        *)
(***************************************************************************)
EXTENDS Integers, Sequences, FiniteSets, Functions

CONSTANTS
  Users,      \* Firebase uids
  Sockets,    \* WebSocket connections, each used once
  Nodes,      \* backend processes, each with a pinned NODE_ID
  Messages,   \* the frames clients send: each is an envelope or a typing hint
  Owner,      \* Owner[s]: the uid that socket s authenticates as
  Home,       \* Home[s]: the node that holds socket s
  From,       \* From[m]: the socket frame m arrives on
  To,         \* To[m]: the recipient uid of frame m
  Backlog,    \* Backlog[u]: the envelopes Redis holds for u from before
  MaxQueued,  \* MAX_QUEUED_MESSAGES (1000 in the code)
  MaxFaults,  \* bound on the failures in one behaviour
  Faults      \* the environment's failures this instance allows

Failures == {"crash", "halfOpen", "subscribe", "register", "remove", "drain", "relay", "expiry"}

ASSUME OwnerAssumption == Owner \in [Sockets -> Users]
ASSUME HomeAssumption == Home \in [Sockets -> Nodes]
ASSUME FromAssumption == From \in [Messages -> Sockets]
ASSUME ToAssumption == To \in [Messages -> Users]
ASSUME BacklogAssumption ==
  /\ Backlog \in [Users -> Seq(Messages)]
  /\ \A u \in Users :
       /\ Len(Backlog[u]) <= MaxQueued
       /\ \A i, j \in DOMAIN Backlog[u] : Backlog[u][i] = Backlog[u][j] => i = j
       /\ \A i \in DOMAIN Backlog[u] : To[Backlog[u][i]] = u
ASSUME BoundAssumption == MaxQueued \in Nat \ {0} /\ MaxFaults \in Nat
ASSUME FaultAssumption == Faults \subseteq Failures

VARIABLES
  up,           \* the nodes whose process is running
  faults,       \* the failures that have happened, each with its victim
  wire,         \* wire[s]: the transport, as the server's ws library sees it
  hs,           \* hs[s]: where handleConnection stands for s
  alive,        \* the sockets whose isAlive flag is set
  connections,  \* the gateways' heartbeat sets
  localSockets, \* the node-local registries
  presence,     \* the sockets with an entry connId -> nodeId in presence:{uid}
  removing,     \* the sockets whose HDEL is issued and not executed
  subscription, \* subscription[n]: the nodeSubscription promise of node n
  subscribed,   \* the nodes Redis has as subscribers of their own channel
  channel,      \* channel[n]: published to n and not handled there
  queue,        \* queue[u]: the Redis list offline:{u}
  batch,        \* batch[s]: drained for s and not sent yet
  inbox,        \* inbox[s]: frames sent on s while its peer was there
  relay,        \* relay[m]: where the handling of frame m stands
  hints,        \* the frames that turned out to be typing hints
  targets,      \* targets[m]: the nodes m still has to be published to
  witnesses     \* history: the established sockets of To[m] at m's lookup

socketVars == <<wire, hs, alive, connections, localSockets, presence, removing>>
nodeVars == <<up, subscription, subscribed>>
relayVars == <<relay, hints, targets, witnesses>>
vars == <<faults, socketVars, nodeVars, channel, queue, batch, inbox, relayVars>>

Wire == {"new", "open", "halfOpen", "closed"}

Handshake == {"new", "auth", "add", "added", "subscribing", "draining",
              "flushing", "ready", "undrained", "refused", "limbo", "gone"}

Handling == {"unsent", "unheard", "refused", "publishing", "enqueueing",
             "stored", "failed", "acked", "ackLost", "over", "aborted"}

(* handleConnection has registered the socket and attached its listeners. *)
Enrolled(s) == hs[s] \in {"draining", "flushing", "ready", "undrained"}

(* A connection is established when its handshake is done, its peer is     *)
(* there, and its node has its pub/sub subscription.                       *)
Established(s) == Enrolled(s) /\ wire[s] = "open" /\ Home[s] \in subscribed

SocketsOf(u) == {s \in Sockets : Owner[s] = u}
SocketsAt(n) == {s \in Sockets : Home[s] = n}

(* One more failure of a kind this instance allows. *)
Fail(kind, victim) ==
  /\ kind \in Faults
  /\ Cardinality(faults) < MaxFaults
  /\ faults' = faults \cup {<<kind, victim>>}

(* Every process has just started; Redis may hold queued envelopes. *)
Init ==
  /\ up = Nodes
  /\ faults = {}
  /\ wire = [s \in Sockets |-> "new"]
  /\ hs = [s \in Sockets |-> "new"]
  /\ alive = {}
  /\ connections = {}
  /\ localSockets = {}
  /\ presence = {}
  /\ removing = {}
  /\ subscription = [n \in Nodes |-> "none"]
  /\ subscribed = {}
  /\ channel = [n \in Nodes |-> << >>]
  /\ queue = Backlog
  /\ batch = [s \in Sockets |-> << >>]
  /\ inbox = [s \in Sockets |-> << >>]
  /\ relay = [m \in Messages |-> IF m \in Range(Backlog[To[m]]) THEN "acked" ELSE "unsent"]
  /\ hints = {}
  /\ targets = [m \in Messages |-> {}]
  /\ witnesses = [m \in Messages |-> {}]

(***************************************************************************)
(* The handshake (RealtimeGateway.handleConnection), one action per await. *)
(***************************************************************************)
Connect(s) ==
  /\ wire[s] = "new"
  /\ Home[s] \in up
  /\ wire' = [wire EXCEPT ![s] = "open"]
  /\ hs' = [hs EXCEPT ![s] = "auth"]
  /\ UNCHANGED <<faults, alive, connections, localSockets, presence, removing,
                 nodeVars, channel, queue, batch, inbox, relayVars>>

(* No token, a failed verification or the rate limit: 4401, 4503 or 4429.  *)
Refuse(s) ==
  /\ hs[s] = "auth"
  /\ hs' = [hs EXCEPT ![s] = "refused"]
  /\ wire' = [wire EXCEPT ![s] = "closed"]
  /\ UNCHANGED <<faults, alive, connections, localSockets, presence, removing,
                 nodeVars, channel, queue, batch, inbox, relayVars>>

(* Verified and within the limit: authContext and connId are attached and  *)
(* the HSET is issued.                                                     *)
Admit(s) ==
  /\ hs[s] = "auth"
  /\ hs' = [hs EXCEPT ![s] = "add"]
  /\ UNCHANGED <<faults, wire, alive, connections, localSockets, presence, removing,
                 nodeVars, channel, queue, batch, inbox, relayVars>>

(* Redis executes the HSET. *)
AddPresence(s) ==
  /\ hs[s] = "add"
  /\ presence' = presence \cup {s}
  /\ hs' = [hs EXCEPT ![s] = "added"]
  /\ UNCHANGED <<faults, wire, alive, connections, localSockets, removing,
                 nodeVars, channel, queue, batch, inbox, relayVars>>

(* The HSET fails: handleConnection rejects, nothing closes the socket and *)
(* nobody listens to it.  (An unhandled rejection may also end the         *)
(* process: that outcome is Crash.)                                        *)
AddPresenceFails(s) ==
  /\ Fail("register", s)
  /\ hs[s] = "add"
  /\ hs' = [hs EXCEPT ![s] = "limbo"]
  /\ UNCHANGED <<wire, alive, connections, localSockets, presence, removing,
                 nodeVars, channel, queue, batch, inbox, relayVars>>

(* ensureNodeSubscribed: the first handshake of a node issues SUBSCRIBE,   *)
(* those that come before its reply await the same promise.                *)
EnsureSubscribed(s) ==
  /\ hs[s] = "added"
  /\ subscription[Home[s]] # "done"
  /\ hs' = [hs EXCEPT ![s] = "subscribing"]
  /\ subscription' = IF subscription[Home[s]] = "none"
                     THEN [subscription EXCEPT ![Home[s]] = "pending"]
                     ELSE subscription
  /\ UNCHANGED <<faults, wire, alive, connections, localSockets, presence, removing,
                 up, subscribed, channel, queue, batch, inbox, relayVars>>

SubscribeSucceeds(n) ==
  /\ subscription[n] = "pending"
  /\ subscription' = [subscription EXCEPT ![n] = "done"]
  /\ subscribed' = subscribed \cup {n}
  /\ UNCHANGED <<faults, socketVars, up, channel, queue, batch, inbox, relayVars>>

(* The failure is logged and the promise reset, so that a later handshake  *)
(* retries; the handshakes that awaited it go on without a subscription.   *)
SubscribeFails(n) ==
  /\ Fail("subscribe", n)
  /\ subscription[n] = "pending"
  /\ subscription' = [subscription EXCEPT ![n] = "none"]
  /\ UNCHANGED <<socketVars, up, subscribed, channel, queue, batch, inbox, relayVars>>

(* The promise s awaits is settled, with or without a subscription. *)
Subscribed(s) ==
  \/ hs[s] = "added" /\ subscription[Home[s]] = "done"
  \/ hs[s] = "subscribing" /\ subscription[Home[s]] # "pending"

(* A mutant: the socket is registered for delivery and not for the heartbeat. *)
EnrolWithoutHeartbeat(s) ==
  /\ Subscribed(s)
  /\ hs' = [hs EXCEPT ![s] = "draining"]
  /\ alive' = alive \cup {s}
  /\ localSockets' = localSockets \cup {s}
  /\ UNCHANGED <<faults, wire, connections, presence, removing,
                 nodeVars, channel, queue, batch, inbox, relayVars>>

(* A mutant: the socket is enrolled and not registered for local delivery. *)
EnrolWithoutRegistry(s) ==
  /\ Subscribed(s)
  /\ hs' = [hs EXCEPT ![s] = "draining"]
  /\ alive' = alive \cup {s}
  /\ connections' = connections \cup {s}
  /\ UNCHANGED <<faults, wire, localSockets, presence, removing,
                 nodeVars, channel, queue, batch, inbox, relayVars>>

(* The last synchronous block of handleConnection: enrol in the heartbeat, *)
(* register for local delivery, attach the message listener, issue the     *)
(* drain.  Nothing here looks at whether the socket closed meanwhile.      *)
Enrol(s) ==
  /\ Subscribed(s)
  /\ hs' = [hs EXCEPT ![s] = "draining"]
  /\ alive' = alive \cup {s}
  /\ connections' = connections \cup {s}
  /\ localSockets' = localSockets \cup {s}
  /\ UNCHANGED <<faults, wire, presence, removing,
                 nodeVars, channel, queue, batch, inbox, relayVars>>

(* A mutant: LRANGE without the DEL of the same transaction. *)
DrainWithoutDelete(s) ==
  /\ hs[s] = "draining"
  /\ hs' = [hs EXCEPT ![s] = "flushing"]
  /\ batch' = [batch EXCEPT ![s] = queue[Owner[s]]]
  /\ UNCHANGED <<faults, wire, alive, connections, localSockets, presence, removing,
                 nodeVars, channel, queue, inbox, relayVars>>

(* OfflineQueueService.drain: LRANGE and DEL in one transaction. *)
Drain(s) ==
  /\ hs[s] = "draining"
  /\ hs' = [hs EXCEPT ![s] = "flushing"]
  /\ batch' = [batch EXCEPT ![s] = queue[Owner[s]]]
  /\ queue' = [queue EXCEPT ![Owner[s]] = << >>]
  /\ UNCHANGED <<faults, wire, alive, connections, localSockets, presence, removing,
                 nodeVars, channel, inbox, relayVars>>

(* A failed drain is logged and swallowed; the list stays in Redis. *)
DrainFails(s) ==
  /\ Fail("drain", s)
  /\ hs[s] = "draining"
  /\ hs' = [hs EXCEPT ![s] = "undrained"]
  /\ UNCHANGED <<wire, alive, connections, localSockets, presence, removing,
                 nodeVars, channel, queue, batch, inbox, relayVars>>

(* flushOfflineQueue pushes the drained envelopes in order; what is sent   *)
(* to a peer that is gone is lost.                                         *)
Flush(s) ==
  /\ hs[s] = "flushing"
  /\ hs' = [hs EXCEPT ![s] = "ready"]
  /\ inbox' = IF wire[s] = "open"
              THEN [inbox EXCEPT ![s] = @ \o batch[s]]
              ELSE inbox
  /\ batch' = [batch EXCEPT ![s] = << >>]
  /\ UNCHANGED <<faults, wire, alive, connections, localSockets, presence, removing,
                 nodeVars, channel, queue, relayVars>>

(***************************************************************************)
(* Disconnection (handleDisconnect) and the heartbeat (runHeartbeat).      *)
(***************************************************************************)

(* handleDisconnect of every socket in S: out of the heartbeat set and the *)
(* local registry, and, once the handshake has minted a connId, an HDEL.   *)
(* isAlive means something for a registered socket only.                   *)
Deregister(S) ==
  /\ connections' = connections \ S
  /\ localSockets' = localSockets \ S
  /\ removing' = removing \cup {s \in S : hs[s] \notin {"auth", "refused"}}

(* The peer vanishes without a close frame: the server has no event. *)
PeerVanishes(s) ==
  /\ Fail("halfOpen", s)
  /\ wire[s] = "open"
  /\ wire' = [wire EXCEPT ![s] = "halfOpen"]
  /\ UNCHANGED <<hs, alive, connections, localSockets, presence, removing,
                 nodeVars, channel, queue, batch, inbox, relayVars>>

(* The close event, at any point of the handshake or after it. *)
Close(s) ==
  /\ wire[s] \in {"open", "halfOpen"}
  /\ wire' = [wire EXCEPT ![s] = "closed"]
  /\ Deregister({s})
  /\ alive' = alive \ {s}
  /\ UNCHANGED <<faults, hs, presence,
                 nodeVars, channel, queue, batch, inbox, relayVars>>

(* Redis executes the HDEL, after the HSET issued on the same connection. *)
RemovePresence(s) ==
  /\ s \in removing
  /\ hs[s] # "add"
  /\ removing' = removing \ {s}
  /\ presence' = presence \ {s}
  /\ UNCHANGED <<faults, wire, hs, alive, connections, localSockets,
                 nodeVars, channel, queue, batch, inbox, relayVars>>

(* A failed HDEL is logged and not retried: the entry stays. *)
RemovePresenceFails(s) ==
  /\ Fail("remove", s)
  /\ s \in removing
  /\ hs[s] # "add"
  /\ removing' = removing \ {s}
  /\ UNCHANGED <<wire, hs, alive, connections, localSockets, presence,
                 nodeVars, channel, queue, batch, inbox, relayVars>>

(* One tick: a socket that missed the last pong is deregistered and        *)
(* terminated, the others are flagged not alive and pinged.                *)
Heartbeat(n) ==
  LET mine == connections \cap SocketsAt(n)
      dead == mine \ alive
  IN  /\ n \in up
      /\ mine # {}
      /\ Deregister(dead)
      /\ wire' = [s \in Sockets |-> IF s \in dead THEN "closed" ELSE wire[s]]
      /\ alive' = alive \ mine
      /\ UNCHANGED <<faults, hs, presence, nodeVars, channel, queue, batch, inbox, relayVars>>

Pong(s) ==
  /\ wire[s] = "open"
  /\ Enrolled(s)
  /\ s \notin alive
  /\ alive' = alive \cup {s}
  /\ UNCHANGED <<faults, wire, hs, connections, localSockets, presence, removing,
                 nodeVars, channel, queue, batch, inbox, relayVars>>

(***************************************************************************)
(* MessageRelayService.relay and relayTyping, with the gateway's           *)
(* handleInboundMessage around them.                                       *)
(***************************************************************************)

(* A frame that arrives before the handshake has attached its message      *)
(* listener reaches nobody.                                                *)
ArriveUnheard(m) ==
  /\ relay[m] = "unsent"
  /\ wire[From[m]] = "open"
  /\ ~Enrolled(From[m])
  /\ relay' = [relay EXCEPT ![m] = "unheard"]
  /\ UNCHANGED <<faults, socketVars, nodeVars, channel, queue, batch, inbox, hints, targets,
                 witnesses>>

(* A malformed envelope or one whose senderUid is not the connection's uid *)
(* is rejected: nothing is published and no ACK is sent.                   *)
Reject(m) ==
  /\ relay[m] = "unsent"
  /\ wire[From[m]] = "open"
  /\ Enrolled(From[m])
  /\ relay' = [relay EXCEPT ![m] = "refused"]
  /\ UNCHANGED <<faults, socketVars, nodeVars, channel, queue, batch, inbox, hints, targets,
                 witnesses>>

(* The distinct nodes of the recipient's presence entries. *)
NodesOf(u) == {Home[s] : s \in presence \cap SocketsOf(u)}

(* What the handler does with the lookup's reply: publish to every node,   *)
(* or queue an envelope, or drop a typing hint.                            *)
Route(kind, nodes) ==
  IF nodes # {} THEN "publishing"
  ELSE IF kind = "hint" THEN "over" ELSE "enqueueing"

(* Redis executes the HGETALL for a frame that passed validation. *)
Lookup(m, kind) ==
  /\ relay[m] = "unsent"
  /\ wire[From[m]] = "open"
  /\ Enrolled(From[m])
  /\ relay' = [relay EXCEPT ![m] = Route(kind, NodesOf(To[m]))]
  /\ hints' = IF kind = "hint" THEN hints \cup {m} ELSE hints
  /\ targets' = [targets EXCEPT ![m] = NodesOf(To[m])]
  /\ witnesses' = [witnesses EXCEPT ![m] = {s \in SocketsOf(To[m]) : Established(s)}]
  /\ UNCHANGED <<faults, socketVars, nodeVars, channel, queue, batch, inbox>>

(* A mutant: what is published is put in the offline list as well. *)
PublishAndQueue(m, n) ==
  /\ relay[m] \in {"publishing", "failed"}
  /\ n \in targets[m]
  /\ targets' = [targets EXCEPT ![m] = @ \ {n}]
  /\ channel' = [channel EXCEPT ![n] = Append(@, m)]
  /\ queue' = [queue EXCEPT ![To[m]] = Append(@, m)]
  /\ UNCHANGED <<faults, socketVars, nodeVars, batch, inbox, relay, hints, witnesses>>

(* Redis executes one PUBLISH: a channel without its subscriber drops it.  *)
(* They are issued together, so that one that fails stops no other.        *)
Publish(m, n) ==
  /\ relay[m] \in {"publishing", "failed"}
  /\ n \in targets[m]
  /\ targets' = [targets EXCEPT ![m] = @ \ {n}]
  /\ channel' = IF n \in subscribed
                THEN [channel EXCEPT ![n] = Append(@, m)]
                ELSE channel
  /\ UNCHANGED <<faults, socketVars, nodeVars, queue, batch, inbox, relay, hints, witnesses>>

(* LTRIM key -MAX_QUEUED_MESSAGES -1: the newest entries stay. *)
Trim(q) == IF Len(q) > MaxQueued
           THEN SubSeq(q, Len(q) - MaxQueued + 1, Len(q))
           ELSE q

(* OfflineQueueService.enqueue: RPUSH, LTRIM and EXPIRE in one transaction. *)
Enqueue(m) ==
  /\ relay[m] = "enqueueing"
  /\ queue' = [queue EXCEPT ![To[m]] = Trim(Append(@, m))]
  /\ relay' = [relay EXCEPT ![m] = "stored"]
  /\ UNCHANGED <<faults, socketVars, nodeVars, channel, batch, inbox, hints, targets, witnesses>>

(* A PUBLISH or the RPUSH of m fails: relay rejects and m is not ACKed. *)
RelayFails(m) ==
  /\ Fail("relay", m)
  /\ relay[m] = "enqueueing" \/ (relay[m] = "publishing" /\ targets[m] # {})
  /\ relay' = [relay EXCEPT ![m] = "failed"]
  /\ \E n \in Nodes : targets' = [targets EXCEPT ![m] = @ \ {n}]
  /\ UNCHANGED <<socketVars, nodeVars, channel, queue, batch, inbox, hints, witnesses>>

(* EXPIRE: a list nobody drained for seven days is gone. *)
Expire(u) ==
  /\ Fail("expiry", u)
  /\ queue[u] # << >>
  /\ queue' = [queue EXCEPT ![u] = << >>]
  /\ UNCHANGED <<socketVars, nodeVars, channel, batch, inbox, relayVars>>

(* The RPUSH, or every PUBLISH, of m has been executed. *)
Handled(m) == relay[m] = "stored" \/ (relay[m] = "publishing" /\ targets[m] = {})

(* The outcome is `received`: the ack frame goes to the sender's socket.   *)
(* A typing hint is not acknowledged.                                      *)
Ack(m) ==
  /\ Handled(m)
  /\ relay' = [relay EXCEPT ![m] = IF m \in hints THEN "over"
                                  ELSE IF wire[From[m]] = "open" THEN "acked" ELSE "ackLost"]
  /\ UNCHANGED <<faults, socketVars, nodeVars, channel, queue, batch, inbox, hints, targets,
                 witnesses>>

(* handleNodeMessage: deliverLocal or deliverTypingLocal pushes the frame  *)
(* to every local socket of the recipient, and to nobody if there is none. *)
Deliver(n) ==
  LET m == Head(channel[n])
      receivers == localSockets \cap SocketsOf(To[m]) \cap SocketsAt(n)
  IN  /\ channel[n] # << >>
      /\ channel' = [channel EXCEPT ![n] = Tail(@)]
      /\ inbox' = [s \in Sockets |-> IF s \in receivers /\ wire[s] = "open"
                                     THEN Append(inbox[s], m)
                                     ELSE inbox[s]]
      /\ UNCHANGED <<faults, socketVars, nodeVars, queue, batch, relayVars>>

(***************************************************************************)
(* A node's process dies: its sockets, its in-memory registries, its       *)
(* pub/sub subscription and its running handlers are gone; what it wrote   *)
(* to presence:{uid} stays, since the entries have no TTL.                 *)
(***************************************************************************)
Crash(n) ==
  LET mine == SocketsAt(n)
      lost == {s \in mine : hs[s] # "new"}
      running == {m \in Messages : /\ From[m] \in mine
                                   /\ relay[m] \in {"publishing", "enqueueing", "stored", "failed"}}
  IN  /\ Fail("crash", n)
      /\ n \in up
      /\ up' = up \ {n}
      /\ wire' = [s \in Sockets |-> IF s \in lost THEN "closed" ELSE wire[s]]
      /\ hs' = [s \in Sockets |-> IF s \in lost THEN "gone" ELSE hs[s]]
      /\ alive' = alive \ mine
      /\ connections' = connections \ mine
      /\ localSockets' = localSockets \ mine
      /\ removing' = removing \ mine
      /\ subscription' = [subscription EXCEPT ![n] = "none"]
      /\ subscribed' = subscribed \ {n}
      /\ channel' = [channel EXCEPT ![n] = << >>]
      /\ batch' = [s \in Sockets |-> IF s \in mine THEN << >> ELSE batch[s]]
      /\ relay' = [m \in Messages |-> IF m \in running THEN "aborted" ELSE relay[m]]
      /\ UNCHANGED <<presence, queue, inbox, hints, targets, witnesses>>

(* The orchestrator restarts it under the same NODE_ID. *)
Restart(n) ==
  /\ n \notin up
  /\ up' = up \cup {n}
  /\ UNCHANGED <<faults, socketVars, subscription, subscribed,
                 channel, queue, batch, inbox, relayVars>>

----------------------------------------------------------------------------
(* The steps the backend takes by itself once their turn comes. *)
HandshakeStep(s) ==
  \/ Refuse(s)
  \/ Admit(s)
  \/ AddPresence(s)
  \/ AddPresenceFails(s)
  \/ EnsureSubscribed(s)
  \/ Enrol(s)
  \/ Drain(s)
  \/ DrainFails(s)
  \/ Flush(s)

DisconnectStep(s) == RemovePresence(s) \/ RemovePresenceFails(s)

RelayStep(m) ==
  \/ \E n \in Nodes : Publish(m, n)
  \/ Enqueue(m)
  \/ RelayFails(m)
  \/ Ack(m)

SubscribeStep(n) == SubscribeSucceeds(n) \/ SubscribeFails(n)

(* What clients, the network and the operator do, when they please. *)
Environment ==
  \/ \E s \in Sockets : Connect(s) \/ PeerVanishes(s) \/ Close(s) \/ Pong(s)
  \/ \E m \in Messages : ArriveUnheard(m) \/ Reject(m) \/ Lookup(m, "envelope") \/ Lookup(m, "hint")
  \/ \E u \in Users : Expire(u)
  \/ \E n \in Nodes : Crash(n) \/ Restart(n)

Next ==
  \/ \E s \in Sockets : HandshakeStep(s) \/ DisconnectStep(s)
  \/ \E m \in Messages : RelayStep(m)
  \/ \E n \in Nodes : SubscribeStep(n) \/ Heartbeat(n) \/ Deliver(n)
  \/ Environment

(* Fairness: a reply that Redis or the token verifier owes to a handshake  *)
(* or a disconnection arrives, and the interval timer keeps firing.        *)
(* Nothing is assumed of clients, of the network, of crashes, or of the    *)
(* relay itself.                                                           *)
Fairness ==
  /\ \A s \in Sockets : WF_vars(HandshakeStep(s)) /\ WF_vars(DisconnectStep(s))
  /\ \A n \in Nodes : WF_vars(SubscribeStep(n)) /\ WF_vars(Heartbeat(n))

Spec == Init /\ [][Next]_vars
FairSpec == Spec /\ Fairness

----------------------------------------------------------------------------
(* Every variable has its type; offline lists hold envelopes only, never a *)
(* typing hint, and never more than the cap.                               *)
TypeOK ==
  /\ up \subseteq Nodes
  /\ faults \subseteq Failures \X (Sockets \cup Nodes \cup Users \cup Messages)
  /\ wire \in [Sockets -> Wire]
  /\ hs \in [Sockets -> Handshake]
  /\ alive \subseteq Sockets
  /\ connections \subseteq Sockets
  /\ localSockets \subseteq Sockets
  /\ presence \subseteq Sockets
  /\ removing \subseteq Sockets
  /\ subscription \in [Nodes -> {"none", "pending", "done"}]
  /\ subscribed \subseteq Nodes
  /\ channel \in [Nodes -> Seq(Messages)]
  /\ queue \in [Users -> Seq(Messages)]
  /\ \A u \in Users : Len(queue[u]) <= MaxQueued
  /\ \A u \in Users : Range(queue[u]) \cap hints = {}
  /\ batch \in [Sockets -> Seq(Messages)]
  /\ inbox \in [Sockets -> Seq(Messages)]
  /\ relay \in [Messages -> Handling]
  /\ hints \subseteq Messages
  /\ targets \in [Messages -> SUBSET Nodes]
  /\ witnesses \in [Messages -> SUBSET Sockets]

(* An accepted envelope reaches every connection of the recipient that was *)
(* established when the relay looked the recipient up and still is: it is  *)
(* on its way through that node's channel or it has been sent.  "Delivered *)
(* live to an online recipient", message-relay.service.ts step 3.          *)
NoLiveLoss ==
  \A m \in Messages : \A s \in witnesses[m] :
    (relay[m] \in {"acked", "ackLost", "over"} /\ wire[s] = "open")
      => m \in Range(channel[Home[s]]) \cup Range(inbox[s])

(* No socket is sent the same frame twice, whatever live delivery and the  *)
(* flush of the offline queue do at the same time ("Delivery is            *)
(* at-most-once", offline-queue.service.ts).                               *)
AtMostOnce ==
  \A s \in Sockets : \A i, j \in DOMAIN inbox[s] : inbox[s][i] = inbox[s][j] => i = j

(* An envelope waiting in an offline list is nowhere else: no socket was   *)
(* sent it or holds it in a drained batch, so no two connections can drain *)
(* it ("a message can never be drained twice", offline-queue.service.ts).  *)
QueuedIsUndelivered ==
  \A u \in Users : \A m \in Range(queue[u]) : \A s \in Sockets :
    m \notin Range(inbox[s]) \cup Range(batch[s])

(* A socket whose peer is gone leaves every registry that routes to it,    *)
(* even when it was registered after its close event: only a crash of its  *)
(* node or a failed HDEL leaves a presence entry behind (handleDisconnect, *)
(* runHeartbeat).                                                          *)
GoneIsForgotten ==
  \A s \in Sockets :
    wire[s] \in {"halfOpen", "closed"}
      ~> \/ s \notin presence \cup localSockets \cup connections
         \/ hs[s] = "gone"
         \/ s \notin localSockets \cup connections /\ <<"remove", s>> \in faults

(* A queued envelope does not outlive the next handshake of its recipient: *)
(* it leaves the list for a socket unless the node crashes or its drain    *)
(* fails ("delivered when they next connect").                             *)
NextConnectDrains ==
  \A m \in Messages : \A s \in SocketsOf(To[m]) :
    (m \in Range(queue[To[m]]) /\ hs[s] = "add")
      ~> (m \notin Range(queue[To[m]]) \/ hs[s] \in {"gone", "limbo", "undrained"})

(* What offline-queue.service.ts:6-10 says the queue achieves: an envelope *)
(* whose sender was ACKed is queued, on its way, or was sent to the        *)
(* recipient; here even where no connection of the recipient ever closed.  *)
AckedNotDropped ==
  \A m \in Messages :
    (relay[m] = "acked" /\ \A s \in SocketsOf(To[m]) : wire[s] \in {"new", "open"})
      => \/ m \in Range(queue[To[m]])
         \/ \E n \in Nodes : m \in Range(channel[n])
         \/ \E s \in SocketsOf(To[m]) : m \in Range(batch[s]) \cup Range(inbox[s])

(* The frames no handler has settled yet, those in an offline list, and    *)
(* those that have still to be published or delivered somewhere.           *)
Untaken == {m \in Messages : relay[m] \in {"unsent", "enqueueing"}}
Waiting == {m \in Messages : \E u \in Users : m \in Range(queue[u])}
Underway ==
  {m \in Messages : \/ relay[m] \in {"publishing", "failed"} /\ targets[m] # {}
                    \/ \E n \in Nodes : m \in Range(channel[n])}

Promise == INSTANCE Mailbox
             WITH fresh <- Untaken, stored <- Waiting, live <- Underway, held <- batch, sent <- inbox

(* The nodes, Redis and the sockets together are one mailbox: an envelope  *)
(* is either pushed live, once to a connection, or stored and then taken   *)
(* by one connection alone; what was stored is never pushed, and no drain  *)
(* takes what another took (message-relay.service.ts, offline-queue        *)
(* .service.ts, handleConnection), whatever handshakes, crashes and Redis  *)
(* failures come in between.                                               *)
ImplementsMailbox == Promise!Spec
============================================================================
