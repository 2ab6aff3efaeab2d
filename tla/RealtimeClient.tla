--------------------------- MODULE RealtimeClient ---------------------------
(***************************************************************************)
(* RealtimeClient, the connection state machine of the apps: it opens the  *)
(* authenticated WebSocket, reconnects after a close, a silent handshake   *)
(* or an unsendable pong, refreshes the token after a 4401, and shows the  *)
(* screens `connected` or `disconnected`.                                  *)
(*                                                                         *)
(* Each action is one callback run to its end: a call from the app, a      *)
(* transport event, a timer, or the end of a token refresh.  The object's  *)
(* fields are one record, so that the private methods the callbacks share  *)
(* are operators from records to records.  An attempt stands for its id    *)
(* and its socket handle; an attempt whose socket is closed is used again  *)
(* once no field refers to it.                                             *)
(***************************************************************************)
EXTENDS Naturals

CONSTANTS
  Attempts,     \* the connection attempts, each with its socket
  None,         \* null: no attempt, no handle, no timer
  MaxRefreshes  \* bound on the token refreshes in flight at once

ASSUME NoneAssumption == None \notin Attempts
ASSUME RefreshAssumption == MaxRefreshes \in Nat

VARIABLES
  client,      \* the fields of the RealtimeClient
  wire,        \* wire[a]: the socket of attempt a, as the transport sees it
  refreshing,  \* refreshWithRetry calls in flight
  token        \* whether getCurrentToken returns a token

vars == <<client, wire, refreshing, token>>

Phases == {"idle", "connecting", "connected", "backoff"}
Wires == {"free", "opening", "open", "zombie"}

Client == [
  autoReconnect : BOOLEAN,
  clientInitiated : BOOLEAN,
  reauthRequired : BOOLEAN,
  phase : Phases,
  status : {"connected", "disconnected"},
  live : Attempts \cup {None},            \* the attempt whose id is attemptId
  handle : Attempts \cup {None},          \* currentHandle
  handshakeTimer : Attempts \cup {None},  \* the attempt each timer was armed
  pongTimer : Attempts \cup {None},       \*   for; it fires for a live one only
  backoffTimer : BOOLEAN,
  waiting : BOOLEAN]                      \* unsettled connect() promises

Init ==
  /\ client = [autoReconnect |-> FALSE, clientInitiated |-> FALSE, reauthRequired |-> FALSE,
               phase |-> "idle", status |-> "disconnected", live |-> None, handle |-> None,
               handshakeTimer |-> None, pongTimer |-> None, backoffTimer |-> FALSE,
               waiting |-> FALSE]
  /\ wire = [a \in Attempts |-> "free"]
  /\ refreshing = 0
  /\ token \in BOOLEAN

----------------------------------------------------------------------------
(* The private methods. *)
Idle(c) == [c EXCEPT !.phase = "idle", !.status = "disconnected"]

(* teardownSocket: the attempt is invalidated, its listeners detached. *)
Teardown(c) ==
  [c EXCEPT !.live = None, !.handle = None, !.handshakeTimer = None, !.pongTimer = None]

ScheduleBackoff(c) ==
  IF c.autoReconnect
  THEN [c EXCEPT !.phase = "backoff", !.status = "disconnected", !.backoffTimer = TRUE]
  ELSE Idle(c)

(* The sockets after h.close(). *)
Closed(w, h) == [a \in Attempts |-> IF a = h THEN "free" ELSE w[a]]

(* A mutant: the handshake timer is not armed. *)
StartAttemptUntimed(c, w) ==
  \/ /\ ~(c.autoReconnect /\ token')
     /\ client' = Idle(c)
     /\ wire' = w
  \/ /\ c.autoReconnect /\ token'
     /\ \E a \in Attempts \ {c.handle, c.handshakeTimer, c.pongTimer} :
          /\ w[a] = "free"
          /\ wire' = [w EXCEPT ![a] = "opening"]
          /\ client' = [c EXCEPT !.phase = "connecting", !.status = "disconnected",
                                 !.live = a, !.handle = a]

(* startAttempt, on the fields c and the sockets w the caller has left.    *)
(* It does not look at the attempt that may be live, nor close its socket. *)
StartAttempt(c, w) ==
  \/ /\ ~(c.autoReconnect /\ token')
     /\ client' = Idle(c)
     /\ wire' = w
  \/ /\ c.autoReconnect /\ token'
     /\ \E a \in Attempts \ {c.handle, c.handshakeTimer, c.pongTimer} :
          /\ w[a] = "free"
          /\ wire' = [w EXCEPT ![a] = "opening"]
          /\ client' = [c EXCEPT !.phase = "connecting", !.status = "disconnected",
                                 !.live = a, !.handle = a, !.handshakeTimer = a]
  \/ /\ c.autoReconnect /\ token'           \* transport.open throws
     /\ client' = ScheduleBackoff([c EXCEPT !.live = None])
     /\ wire' = w

----------------------------------------------------------------------------
(* What the app calls. *)
Connect ==
  LET c == [client EXCEPT !.autoReconnect = TRUE, !.clientInitiated = FALSE,
                          !.reauthRequired = FALSE]
  IN  /\ UNCHANGED <<refreshing, token>>
      /\ \/ c.phase = "connected" /\ client' = c /\ UNCHANGED wire
         \/ c.phase = "idle" /\ StartAttempt([c EXCEPT !.waiting = TRUE], wire)
         \/ /\ c.phase \in {"connecting", "backoff"}
            /\ client' = [c EXCEPT !.waiting = TRUE]
            /\ UNCHANGED wire

(* A mutant: the reconnection switch stays on. *)
DisconnectStillReconnecting ==
  /\ client' = [Idle(Teardown(client)) EXCEPT !.clientInitiated = TRUE, !.backoffTimer = FALSE,
                                              !.waiting = FALSE]
  /\ wire' = Closed(wire, client.handle)
  /\ UNCHANGED <<refreshing, token>>

Disconnect ==
  /\ client' = [Idle(Teardown(client)) EXCEPT !.autoReconnect = FALSE, !.clientInitiated = TRUE,
                                              !.backoffTimer = FALSE, !.waiting = FALSE]
  /\ wire' = Closed(wire, client.handle)
  /\ UNCHANGED <<refreshing, token>>

(* Foreground resume: whatever the phase, a fresh attempt at once. *)
ReconnectNow ==
  /\ UNCHANGED <<refreshing, token>>
  /\ StartAttempt([Idle(Teardown(client)) EXCEPT !.autoReconnect = TRUE, !.clientInitiated = FALSE,
                                                 !.reauthRequired = FALSE, !.backoffTimer = FALSE],
                  Closed(wire, client.handle))

----------------------------------------------------------------------------
(* Transport events; those of an attempt that is not live are ignored. *)
Open(a) ==
  /\ wire[a] = "opening"
  /\ wire' = [wire EXCEPT ![a] = "open"]
  /\ client' = IF client.live = a
               THEN [client EXCEPT !.handshakeTimer = None, !.phase = "connected",
                                   !.clientInitiated = FALSE, !.status = "connected",
                                   !.waiting = FALSE]
               ELSE client
  /\ UNCHANGED <<refreshing, token>>

(* A mutant: a 4401 leaves the status as it was until the refresh is over. *)
AfterCloseStatusKept(c, unauthorized) ==
  IF ~c.autoReconnect THEN Idle(c)
  ELSE IF c.clientInitiated THEN [Idle(c) EXCEPT !.autoReconnect = FALSE]
  ELSE IF unauthorized THEN c
  ELSE ScheduleBackoff(c)

(* handleClose once the socket is torn down: classifyReconnect.  A 4401    *)
(* leaves the phase as it was until the refresh is over.                   *)
AfterClose(c, unauthorized) ==
  IF ~c.autoReconnect THEN Idle(c)
  ELSE IF c.clientInitiated THEN [Idle(c) EXCEPT !.autoReconnect = FALSE]
  ELSE IF unauthorized THEN [c EXCEPT !.status = "disconnected"]
  ELSE ScheduleBackoff(c)

(* The close of an attempt that is live, and what it starts: a token       *)
(* refresh if the code is 4401 and the client still wants to be connected. *)
Close(a, unauthorized) ==
  /\ wire[a] \in {"opening", "open"}
  /\ wire' = Closed(wire, a)
  /\ IF client.live = a
     THEN /\ client' = AfterClose(Teardown(client), unauthorized)
          /\ IF unauthorized /\ client.autoReconnect /\ ~client.clientInitiated
             THEN refreshing < MaxRefreshes /\ refreshing' = refreshing + 1
             ELSE UNCHANGED refreshing
     ELSE UNCHANGED <<client, refreshing>>
  /\ UNCHANGED token

(* The system drops the socket and no close event is ever delivered. *)
Vanish(a) ==
  /\ wire[a] = "open"
  /\ wire' = [wire EXCEPT ![a] = "zombie"]
  /\ UNCHANGED <<client, refreshing, token>>

(* respondToPing: the deadline is armed, and cleared if the pong is sent. *)
Ping(a, sent) ==
  /\ wire[a] = "open"
  /\ client.live = a
  /\ client' = [client EXCEPT !.pongTimer = IF sent THEN None ELSE a]
  /\ UNCHANGED <<wire, refreshing, token>>

----------------------------------------------------------------------------
(* Timers and refreshes. *)

(* A mutant: the silent handshake is terminated and nothing is scheduled. *)
TimeOutUnscheduled(timer) ==
  /\ timer # None
  /\ timer = client.live
  /\ client' = Teardown(client)
  /\ wire' = Closed(wire, client.handle)
  /\ UNCHANGED <<refreshing, token>>

(* handleHandshakeTimeout and handlePongMissed. *)
TimeOut(timer) ==
  /\ timer # None
  /\ timer = client.live
  /\ client' = ScheduleBackoff(Teardown(client))
  /\ wire' = Closed(wire, client.handle)
  /\ UNCHANGED <<refreshing, token>>

HandshakeTimeout == TimeOut(client.handshakeTimer)
PongTimeout == TimeOut(client.pongTimer)

BackoffFires ==
  /\ client.backoffTimer
  /\ UNCHANGED <<refreshing, token>>
  /\ StartAttempt([client EXCEPT !.backoffTimer = FALSE], wire)

(* A successful refresh leaves a token behind. *)
RefreshSucceeds ==
  /\ refreshing > 0
  /\ refreshing' = refreshing - 1
  /\ token' = TRUE
  /\ IF client.autoReconnect
     THEN StartAttempt(client, wire)
     ELSE UNCHANGED <<client, wire>>

(* A mutant: the connect() promises are left unsettled. *)
RefreshFailsSilently ==
  /\ refreshing > 0
  /\ refreshing' = refreshing - 1
  /\ client' = [Idle(client) EXCEPT !.autoReconnect = FALSE, !.reauthRequired = TRUE]
  /\ UNCHANGED <<wire, token>>

(* Refresh exhausted, whatever has happened to the connection meanwhile. *)
RefreshFails ==
  /\ refreshing > 0
  /\ refreshing' = refreshing - 1
  /\ client' = [Idle(client) EXCEPT !.autoReconnect = FALSE, !.reauthRequired = TRUE,
                                    !.waiting = FALSE]
  /\ UNCHANGED <<wire, token>>

(* The auth provider signs the user in or out. *)
TokenChanges ==
  /\ token' = ~token
  /\ UNCHANGED <<client, wire, refreshing>>

----------------------------------------------------------------------------
Next ==
  \/ Connect
  \/ Disconnect
  \/ ReconnectNow
  \/ \E a \in Attempts :
       Open(a) \/ Vanish(a) \/ Close(a, TRUE) \/ Close(a, FALSE) \/ Ping(a, TRUE) \/ Ping(a, FALSE)
  \/ HandshakeTimeout
  \/ PongTimeout
  \/ BackoffFires
  \/ RefreshSucceeds
  \/ RefreshFails
  \/ TokenChanges

(* The host fires armed timers, and a refresh of at most three tries ends. *)
Fairness ==
  /\ WF_vars(HandshakeTimeout)
  /\ WF_vars(PongTimeout)
  /\ WF_vars(BackoffFires)
  /\ WF_vars(RefreshSucceeds \/ RefreshFails)

Spec == Init /\ [][Next]_vars
FairSpec == Spec /\ Fairness

----------------------------------------------------------------------------
(* Every variable has its type. *)
TypeOK ==
  /\ client \in Client
  /\ wire \in [Attempts -> Wires]
  /\ refreshing \in 0..MaxRefreshes
  /\ token \in BOOLEAN

(* `connected` is shown only while send() would hand the frame to an open  *)
(* socket whose events are listened to ("`connected` only while the socket *)
(* is open", getStatus); a transport that died unreported is not visible.  *)
ConnectedIsUsable ==
  client.status = "connected" =>
    /\ client.phase = "connected"
    /\ client.live # None /\ client.handle = client.live
    /\ wire[client.live] \in {"open", "zombie"}

(* A client that is meant to be online and has not gone idle always has    *)
(* something left that will move it: a live attempt, the backoff timer or  *)
(* a refresh in flight; no order of closes, timeouts, refreshes and app    *)
(* calls strands it (4.4-4.6, 4.10, 4.11).                                 *)
NeverStranded ==
  client.autoReconnect /\ client.phase # "idle" =>
    client.live # None \/ client.backoffTimer \/ refreshing > 0

(* No connect() promise is left unsettled by a client that has stopped: a  *)
(* deliberate disconnect or an exhausted refresh settles it (connect).     *)
WaitingMeansTrying == client.waiting => client.autoReconnect

(* After disconnect() no socket is opened until the app asks again, even   *)
(* if a refresh or a backoff was under way ("no reconnection until the     *)
(* next connect()", 4.8).                                                  *)
QuietAfterDisconnect ==
  [][client.clientInitiated /\ client'.clientInitiated =>
       \A a \in Attempts : wire[a] = "free" => wire'[a] = "free"]_vars

(* A handshake does not hang: it completes, or the attempt is given up,    *)
(* also when a refresh has failed or started another attempt meanwhile     *)
(* ("terminate the pending socket", 4.10).                                 *)
HandshakeEnds ==
  \A a \in Attempts :
    (client.live = a /\ wire[a] = "opening") ~> (client.live # a \/ wire[a] = "open")

(* What realtime-client.ts:27 says: `connected` while the socket is open,  *)
(* `disconnected` while closed, connecting or reconnecting.                *)
OpenIsConnected == (\E a \in Attempts : wire[a] = "open") => client.status = "connected"
=============================================================================
