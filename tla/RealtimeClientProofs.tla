------------------------ MODULE RealtimeClientProofs ------------------------
(***************************************************************************)
(* Proofs about RealtimeClient, for any number of attempts and any bound   *)
(* on the refreshes in flight: type correctness, the three safety          *)
(* invariants and the action property of disconnect().                     *)
(*                                                                         *)
(* The inductive invariant is the type invariant with                      *)
(*   Usable   the live attempt owns the handle, `connected` is usable;     *)
(*   Moving   a client that is not idle has something left to move it;     *)
(*   Obeying  a deliberate disconnect leaves reconnection switched off.    *)
(***************************************************************************)
EXTENDS RealtimeClient, TLAPS

(* ConnectedIsUsable with what makes it inductive: while an attempt is     *)
(* live the handle is its own, so closing the handle closes it.            *)
Usable ==
  /\ client.live # None => client.handle = client.live
  /\ ConnectedIsUsable

(* NeverStranded, without the switch: a refresh only counts while it is on.*)
Moving ==
  client.phase # "idle" =>
    \/ client.live # None
    \/ client.backoffTimer
    \/ client.autoReconnect /\ refreshing > 0

(* Disconnected on purpose means switched off, and so nobody waits.        *)
Obeying ==
  /\ client.clientInitiated => ~client.autoReconnect
  /\ WaitingMeansTrying

Inductive == TypeOK /\ Usable /\ Moving /\ Obeying

----------------------------------------------------------------------------
(* What a record of the client's type is made of, so that a step can take  *)
(* its fields one by one.                                                  *)
LEMMA FieldTypes ==
  ASSUME NEW c \in Client
  PROVE  /\ c.autoReconnect \in BOOLEAN /\ c.clientInitiated \in BOOLEAN
         /\ c.reauthRequired \in BOOLEAN /\ c.phase \in Phases
         /\ c.status \in {"connected", "disconnected"}
         /\ c.live \in Attempts \cup {None} /\ c.handle \in Attempts \cup {None}
         /\ c.handshakeTimer \in Attempts \cup {None} /\ c.pongTimer \in Attempts \cup {None}
         /\ c.backoffTimer \in BOOLEAN /\ c.waiting \in BOOLEAN
BY DEF Client

(* The private methods keep the record's type.                             *)
LEMMA MethodTypes ==
  ASSUME NEW c \in Client
  PROVE  /\ Idle(c) \in Client
         /\ Teardown(c) \in Client
         /\ ScheduleBackoff(c) \in Client
         /\ \A u \in BOOLEAN : AfterClose(c, u) \in Client
BY DEF Client, Phases, Idle, Teardown, ScheduleBackoff, AfterClose

(* Closing a socket keeps the sockets' type.                               *)
LEMMA ClosedType ==
  ASSUME NEW w \in [Attempts -> Wires], NEW h
  PROVE  Closed(w, h) \in [Attempts -> Wires]
BY DEF Closed, Wires

(* A start from fields and sockets of the right type keeps the types.      *)
LEMMA StartTypes ==
  ASSUME NEW c \in Client, NEW w \in [Attempts -> Wires], StartAttempt(c, w)
  PROVE  client' \in Client /\ wire' \in [Attempts -> Wires]
<1>1. ASSUME NEW a \in Attempts
      PROVE  /\ [c EXCEPT !.phase = "connecting", !.status = "disconnected",
                          !.live = a, !.handle = a, !.handshakeTimer = a] \in Client
             /\ [w EXCEPT ![a] = "opening"] \in [Attempts -> Wires]
  BY DEF Client, Phases, Wires
<1>2. [c EXCEPT !.live = None] \in Client
  BY DEF Client
<1>3. ScheduleBackoff([c EXCEPT !.live = None]) \in Client
  BY <1>2, MethodTypes
<1>4. Idle(c) \in Client
  BY MethodTypes
<1>5. CASE client' = Idle(c) /\ wire' = w
  BY <1>4, <1>5
<1>6. CASE \E a \in Attempts :
             /\ wire' = [w EXCEPT ![a] = "opening"]
             /\ client' = [c EXCEPT !.phase = "connecting", !.status = "disconnected",
                                    !.live = a, !.handle = a, !.handshakeTimer = a]
  BY <1>1, <1>6
<1>7. CASE client' = ScheduleBackoff([c EXCEPT !.live = None]) /\ wire' = w
  BY <1>3, <1>7
<1> QED
  BY <1>5, <1>6, <1>7 DEF StartAttempt

(* What a start does to the invariant, whoever calls it: the caller must   *)
(* hand over fields whose disconnect was not deliberate or whose switch is *)
(* off, and a live attempt that owns the handle.                           *)
LEMMA StartKeeps ==
  ASSUME NEW c \in Client, NEW w \in [Attempts -> Wires], StartAttempt(c, w),
         c.live # None => c.handle = c.live,
         c.clientInitiated => ~c.autoReconnect,
         c.waiting => c.autoReconnect
  PROVE  /\ Usable' /\ Moving' /\ Obeying'
         /\ c.clientInitiated => wire' = w
<1> USE NoneAssumption
<1>1. CASE ~(c.autoReconnect /\ token') /\ client' = Idle(c) /\ wire' = w
  BY <1>1 DEF Usable, Moving, Obeying, ConnectedIsUsable, WaitingMeansTrying, Idle, Client
<1>2. CASE /\ c.autoReconnect /\ token'
           /\ \E a \in Attempts \ {c.handle, c.handshakeTimer, c.pongTimer} :
                /\ w[a] = "free"
                /\ wire' = [w EXCEPT ![a] = "opening"]
                /\ client' = [c EXCEPT !.phase = "connecting", !.status = "disconnected",
                                       !.live = a, !.handle = a, !.handshakeTimer = a]
  BY <1>2 DEF Usable, Moving, Obeying, ConnectedIsUsable, WaitingMeansTrying, Client
<1>3. CASE /\ c.autoReconnect /\ token'
           /\ client' = ScheduleBackoff([c EXCEPT !.live = None])
           /\ wire' = w
  BY <1>3 DEF Usable, Moving, Obeying, ConnectedIsUsable, WaitingMeansTrying, ScheduleBackoff,
              Client
<1> QED
  BY <1>1, <1>2, <1>3 DEF StartAttempt

(* A start does not touch the mark of a deliberate disconnect.             *)
LEMMA StartKeepsMark ==
  ASSUME NEW c \in Client, NEW w, StartAttempt(c, w)
  PROVE  client'.clientInitiated = c.clientInitiated
<1>1. CASE client' = Idle(c)
  BY <1>1 DEF Idle, Client
<1>2. CASE \E a \in Attempts :
             client' = [c EXCEPT !.phase = "connecting", !.status = "disconnected",
                                 !.live = a, !.handle = a, !.handshakeTimer = a]
  BY <1>2 DEF Client
<1>3. CASE client' = ScheduleBackoff([c EXCEPT !.live = None])
  BY <1>3 DEF ScheduleBackoff, Idle, Client
<1> QED
  BY <1>1, <1>2, <1>3 DEF StartAttempt

(* The initial state.                                                      *)
LEMMA InitInductive == Init => Inductive
BY NoneAssumption, RefreshAssumption
   DEF Init, Inductive, TypeOK, Client, Phases, Wires, Usable, ConnectedIsUsable, Moving, Obeying,
       WaitingMeansTrying

(* Every step keeps the types.                                             *)
LEMMA TypeStep == TypeOK /\ [Next]_vars => TypeOK'
<1> SUFFICES ASSUME TypeOK, [Next]_vars PROVE TypeOK'
  OBVIOUS
<1> USE NoneAssumption, RefreshAssumption
<1>t. client \in Client /\ wire \in [Attempts -> Wires]
  BY DEF TypeOK
<1>1. CASE Connect
  <2> DEFINE c == [client EXCEPT !.autoReconnect = TRUE, !.clientInitiated = FALSE,
                                 !.reauthRequired = FALSE]
  <2>1. c \in Client /\ [c EXCEPT !.waiting = TRUE] \in Client
    BY <1>t DEF Client
  <2>2. client' \in Client /\ wire' \in [Attempts -> Wires]
    BY <1>1, <1>t, <2>1, StartTypes DEF Connect
  <2> QED
    BY <1>1, <2>2 DEF Connect, TypeOK
<1>2. CASE Disconnect
  <2>1. [Idle(Teardown(client)) EXCEPT !.autoReconnect = FALSE, !.clientInitiated = TRUE,
           !.backoffTimer = FALSE, !.waiting = FALSE] \in Client
    BY <1>t DEF Client, Phases, Idle, Teardown
  <2> QED
    BY <1>2, <1>t, <2>1, ClosedType DEF Disconnect, TypeOK
<1>3. CASE ReconnectNow
  <2>1. [Idle(Teardown(client)) EXCEPT !.autoReconnect = TRUE, !.clientInitiated = FALSE,
           !.reauthRequired = FALSE, !.backoffTimer = FALSE] \in Client
    BY <1>t DEF Client, Phases, Idle, Teardown
  <2>2. client' \in Client /\ wire' \in [Attempts -> Wires]
    BY <1>3, <1>t, <2>1, ClosedType, StartTypes DEF ReconnectNow
  <2> QED
    BY <1>3, <2>2 DEF ReconnectNow, TypeOK
<1>4. ASSUME NEW a \in Attempts, Open(a) PROVE TypeOK'
  BY <1>4 DEF Open, TypeOK, Client, Phases, Wires
<1>5. ASSUME NEW a \in Attempts, NEW u \in BOOLEAN, Close(a, u) PROVE TypeOK'
  <2>1. AfterClose(Teardown(client), u) \in Client
    BY <1>t, MethodTypes
  <2>2. refreshing' \in 0..MaxRefreshes
    BY <1>5 DEF Close, TypeOK
  <2> QED
    BY <1>5, <1>t, <2>1, <2>2, ClosedType DEF Close, TypeOK
<1>6. ASSUME NEW a \in Attempts, Vanish(a) PROVE TypeOK'
  BY <1>6 DEF Vanish, TypeOK, Wires
<1>7. ASSUME NEW a \in Attempts, NEW s \in BOOLEAN, Ping(a, s) PROVE TypeOK'
  BY <1>7 DEF Ping, TypeOK, Client
<1>8. ASSUME NEW timer, TimeOut(timer) PROVE TypeOK'
  <2>1. ScheduleBackoff(Teardown(client)) \in Client
    BY <1>t, MethodTypes
  <2> QED
    BY <1>8, <1>t, <2>1, ClosedType DEF TimeOut, TypeOK
<1>9. CASE BackoffFires
  <2>1. [client EXCEPT !.backoffTimer = FALSE] \in Client
    BY <1>t DEF Client
  <2>2. client' \in Client /\ wire' \in [Attempts -> Wires]
    BY <1>9, <1>t, <2>1, StartTypes DEF BackoffFires
  <2> QED
    BY <1>9, <2>2 DEF BackoffFires, TypeOK
<1>10. CASE RefreshSucceeds
  <2>1. client' \in Client /\ wire' \in [Attempts -> Wires]
    BY <1>10, <1>t, StartTypes DEF RefreshSucceeds
  <2> QED
    BY <1>10, <2>1 DEF RefreshSucceeds, TypeOK
<1>11. CASE RefreshFails
  <2>1. [Idle(client) EXCEPT !.autoReconnect = FALSE, !.reauthRequired = TRUE,
                             !.waiting = FALSE] \in Client
    BY <1>t DEF Client, Phases, Idle
  <2> QED
    BY <1>11, <2>1 DEF RefreshFails, TypeOK
<1>12. CASE TokenChanges
  BY <1>12 DEF TokenChanges, TypeOK
<1>13. CASE UNCHANGED vars
  BY <1>13 DEF vars, TypeOK
<1> QED
  BY <1>1, <1>2, <1>3, <1>4, <1>5, <1>6, <1>7, <1>8, <1>9, <1>10, <1>11, <1>12, <1>13
  DEF Next, HandshakeTimeout, PongTimeout

(* Every step keeps the rest of the inductive invariant, and none of them  *)
(* opens a socket while a deliberate disconnect stands.                    *)
LEMMA Step ==
  ASSUME Inductive, [Next]_vars
  PROVE  /\ Usable' /\ Moving' /\ Obeying'
         /\ client.clientInitiated /\ client'.clientInitiated =>
              \A a \in Attempts : wire[a] = "free" => wire'[a] = "free"
<1> DEFINE Quiet == client.clientInitiated /\ client'.clientInitiated =>
                      \A a \in Attempts : wire[a] = "free" => wire'[a] = "free"
<1> USE NoneAssumption, RefreshAssumption
<1>t. client \in Client /\ wire \in [Attempts -> Wires] /\ refreshing \in Nat
  BY DEF Inductive, TypeOK
<1>i. Usable /\ Moving /\ Obeying
  BY DEF Inductive
<1>1. CASE Connect
  <2> DEFINE c == [client EXCEPT !.autoReconnect = TRUE, !.clientInitiated = FALSE,
                                 !.reauthRequired = FALSE]
  <2>1. c \in Client /\ [c EXCEPT !.waiting = TRUE] \in Client
    BY <1>t DEF Client
  <2>2. CASE c.phase = "idle" /\ StartAttempt([c EXCEPT !.waiting = TRUE], wire)
    <3>1. Usable' /\ Moving' /\ Obeying'
      BY <1>t, <1>i, <2>1, <2>2, StartKeeps DEF Usable, Obeying, Client
    <3>2. client'.clientInitiated = FALSE
      BY <1>t, <2>1, <2>2, StartKeepsMark DEF Client
    <3> QED
      BY <3>1, <3>2
  <2>3. CASE (client' = c \/ client' = [c EXCEPT !.waiting = TRUE]) /\ UNCHANGED wire
    BY <1>1, <1>t, <1>i, <2>3
    DEF Connect, Usable, Moving, Obeying, ConnectedIsUsable, WaitingMeansTrying, Client
  <2> QED
    BY <1>1, <2>2, <2>3 DEF Connect
<1>2. CASE Disconnect
  BY <1>2, <1>t
  DEF Disconnect, Usable, Moving, Obeying, ConnectedIsUsable, WaitingMeansTrying, Client, Idle,
      Teardown, Closed
<1>3. CASE ReconnectNow
  <2> DEFINE c == [Idle(Teardown(client)) EXCEPT !.autoReconnect = TRUE, !.clientInitiated = FALSE,
                      !.reauthRequired = FALSE, !.backoffTimer = FALSE]
  <2>1. c \in Client /\ c.live = None /\ c.clientInitiated = FALSE /\ c.autoReconnect = TRUE
    BY <1>t DEF Client, Phases, Idle, Teardown
  <2>2. Closed(wire, client.handle) \in [Attempts -> Wires]
    BY <1>t, ClosedType
  <2>3. Usable' /\ Moving' /\ Obeying'
    BY <1>3, <2>1, <2>2, StartKeeps DEF ReconnectNow
  <2>4. client'.clientInitiated = FALSE
    BY <1>3, <2>1, StartKeepsMark DEF ReconnectNow
  <2> QED
    BY <2>3, <2>4
<1>4. ASSUME NEW a \in Attempts, Open(a) PROVE Usable' /\ Moving' /\ Obeying' /\ Quiet
  BY <1>4, <1>t, <1>i
  DEF Open, Usable, Moving, Obeying, ConnectedIsUsable, WaitingMeansTrying, Client, Wires
<1>5. ASSUME NEW a \in Attempts, NEW u \in BOOLEAN, Close(a, u)
      PROVE  Usable' /\ Moving' /\ Obeying' /\ Quiet
  <2>1. CASE client.live = a
    <3>1. /\ client' = AfterClose(Teardown(client), u)
          /\ u /\ client.autoReconnect /\ ~client.clientInitiated => refreshing' = refreshing + 1
          /\ wire' = Closed(wire, a)
      BY <1>5, <2>1 DEF Close
    <3>2. /\ client'.live = None /\ client'.status = "disconnected"
          /\ client'.waiting = client.waiting /\ client'.clientInitiated = client.clientInitiated
          /\ client'.autoReconnect = client.autoReconnect
      BY <1>t, <1>i, <3>1
      DEF AfterClose, Teardown, Idle, ScheduleBackoff, Client, Obeying
    <3>3. client'.phase # "idle" => client'.backoffTimer \/ (u /\ client.autoReconnect)
      BY <1>t, <1>i, <3>1
      DEF AfterClose, Teardown, Idle, ScheduleBackoff, Client, Obeying
    <3>4. Usable' /\ Obeying'
      BY <1>i, <3>2 DEF Usable, ConnectedIsUsable, Obeying, WaitingMeansTrying
    <3>5. Moving'
      BY <1>t, <1>i, <3>1, <3>2, <3>3 DEF Moving, Obeying
    <3>6. Quiet
      BY <1>i, <1>5, <3>1, <3>2, <1>t DEF Closed, Wires
    <3> QED
      BY <3>4, <3>5, <3>6
  <2>2. CASE client.live # a
    BY <1>5, <1>t, <1>i, <2>2
    DEF Close, Closed, Usable, Moving, Obeying, ConnectedIsUsable, WaitingMeansTrying, Client, Wires
  <2> QED
    BY <2>1, <2>2
<1>6. ASSUME NEW a \in Attempts, Vanish(a) PROVE Usable' /\ Moving' /\ Obeying' /\ Quiet
  BY <1>6, <1>t, <1>i
  DEF Vanish, Usable, Moving, Obeying, ConnectedIsUsable, WaitingMeansTrying, Client, Wires
<1>7. ASSUME NEW a \in Attempts, NEW s \in BOOLEAN, Ping(a, s)
      PROVE  Usable' /\ Moving' /\ Obeying' /\ Quiet
  BY <1>7, <1>t, <1>i
  DEF Ping, Usable, Moving, Obeying, ConnectedIsUsable, WaitingMeansTrying, Client
<1>8. ASSUME NEW timer, TimeOut(timer) PROVE Usable' /\ Moving' /\ Obeying' /\ Quiet
  BY <1>8, <1>t, <1>i
  DEF TimeOut, ScheduleBackoff, Idle, Teardown, Closed, Usable, Moving, Obeying,
      ConnectedIsUsable, WaitingMeansTrying, Client
<1>9. CASE BackoffFires
  <2> DEFINE c == [client EXCEPT !.backoffTimer = FALSE]
  <2>1. /\ c \in Client /\ c.live = client.live /\ c.handle = client.handle
        /\ c.clientInitiated = client.clientInitiated /\ c.autoReconnect = client.autoReconnect
        /\ c.waiting = client.waiting
    BY <1>t DEF Client
  <2>2. Usable' /\ Moving' /\ Obeying' /\ (c.clientInitiated => wire' = wire)
    BY <1>9, <1>t, <1>i, <2>1, StartKeeps
    DEF BackoffFires, Usable, Obeying, WaitingMeansTrying
  <2> QED
    BY <2>1, <2>2
<1>10. CASE RefreshSucceeds
  <2>1. CASE client.autoReconnect
    <3>1. /\ Usable' /\ Moving' /\ Obeying'
          /\ client.clientInitiated => wire' = wire
      BY <1>10, <1>t, <1>i, <2>1, StartKeeps
      DEF RefreshSucceeds, Usable, Obeying, WaitingMeansTrying
    <3> QED
      BY <3>1
  <2>2. CASE ~client.autoReconnect
    BY <1>10, <1>t, <1>i, <2>2
    DEF RefreshSucceeds, Usable, Moving, Obeying, ConnectedIsUsable, WaitingMeansTrying
  <2> QED
    BY <2>1, <2>2
<1>11. CASE RefreshFails
  BY <1>11, <1>t, <1>i
  DEF RefreshFails, Idle, Usable, Moving, Obeying, ConnectedIsUsable, WaitingMeansTrying, Client
<1>12. CASE TokenChanges
  BY <1>12, <1>i
  DEF TokenChanges, Usable, Moving, Obeying, ConnectedIsUsable, WaitingMeansTrying
<1>13. CASE UNCHANGED vars
  BY <1>13, <1>i DEF vars, Usable, Moving, Obeying, ConnectedIsUsable, WaitingMeansTrying
<1> QED
  BY <1>1, <1>2, <1>3, <1>4, <1>5, <1>6, <1>7, <1>8, <1>9, <1>10, <1>11, <1>12, <1>13
  DEF Next, HandshakeTimeout, PongTimeout

----------------------------------------------------------------------------
(* Every reachable state satisfies the inductive invariant.                *)
LEMMA InductiveHolds == Spec => []Inductive
<1>1. Inductive /\ [Next]_vars => Inductive'
  BY TypeStep, Step DEF Inductive
<1> QED
  BY InitInductive, <1>1, PTL DEF Spec

(* The fields, the sockets and the counter of realtime-client.ts keep      *)
(* their types whatever order its callbacks run in.                        *)
THEOREM TypeCorrect == Spec => []TypeOK
<1>1. Inductive => TypeOK
  BY DEF Inductive
<1> QED
  BY InductiveHolds, <1>1, PTL

(* `connected` is shown only while send() reaches an open socket that is   *)
(* being listened to (getStatus, send, handleOpen, handleClose).           *)
THEOREM ConnectedIsUsableHolds == Spec => []ConnectedIsUsable
<1>1. Inductive => ConnectedIsUsable
  BY DEF Inductive, Usable
<1> QED
  BY InductiveHolds, <1>1, PTL

(* A client meant to be online and not idle always has a live attempt, an  *)
(* armed backoff or a refresh in flight, whatever closes, timeouts and     *)
(* refreshes have raced (handleClose, handleRefreshReconnect).             *)
THEOREM NeverStrandedHolds == Spec => []NeverStranded
<1>1. Inductive => NeverStranded
  BY DEF Inductive, Moving, NeverStranded
<1> QED
  BY InductiveHolds, <1>1, PTL

(* A stopped client leaves no connect() promise unsettled (connect,        *)
(* disconnect, handleRefreshReconnect).                                    *)
THEOREM WaitingMeansTryingHolds == Spec => []WaitingMeansTrying
<1>1. Inductive => WaitingMeansTrying
  BY DEF Inductive, Obeying
<1> QED
  BY InductiveHolds, <1>1, PTL

(* Once disconnect() has been called no pending refresh or backoff opens a *)
(* socket until the app asks for one again (disconnect, startAttempt).     *)
THEOREM QuietAfterDisconnectHolds == Spec => QuietAfterDisconnect
<1>1. Inductive /\ [Next]_vars =>
        [client.clientInitiated /\ client'.clientInitiated =>
           \A a \in Attempts : wire[a] = "free" => wire'[a] = "free"]_vars
  BY Step
<1> QED
  BY InductiveHolds, <1>1, PTL DEF Spec, QuietAfterDisconnect
=============================================================================
