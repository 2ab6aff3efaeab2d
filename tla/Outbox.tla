------------------------------- MODULE Outbox -------------------------------
(***************************************************************************)
(* Outbox, the sending half of messaging.ts on one device: optimistic row, *)
(* dispatch, transmission or hold-until-connected, server ack, ack         *)
(* deadline, retry, and what a process death leaves of it all.             *)
(*                                                                         *)
(* A message stands for its row id.  It is sent by attempt <<m, 0>>, and   *)
(* <<m, i>> is its i-th retry.  Its number is its (recipient, seq), which  *)
(* keys the pending map, the acks and the search for the row of a retry:   *)
(* messages of two shadow threads with one peer may have the same.         *)
(* A store call changes the vault's document in memory at once and resolves*)
(* when its turn in the vault's write chain is over; what follows the await*)
(* (the event for the screen, the dispatch) is part of that step.          *)
(*                                                                         *)
(* The asynchronous part of dispatch (resolveSender, claim, establish,     *)
(* encrypt) is one await that succeeds or fails.                           *)
(***************************************************************************)
EXTENDS Naturals, Sequences

CONSTANTS
  Messages,
  Numberings,     \* the ways in which messages may be numbered
  MaxRetries,     \* bound on the retries of a message
  MaxRelaunches,  \* bound on the process deaths
  MaxRefusals,    \* bound on the occasions on which a socket refuses sends
  Faulty          \* the messages whose writes to the store may fail

ASSUME NumberingsAssumption == Numberings \subseteq [Messages -> Nat]
ASSUME RetriesAssumption == MaxRetries \in Nat
ASSUME RelaunchesAssumption == MaxRelaunches \in Nat
ASSUME RefusalsAssumption == MaxRefusals \in Nat
ASSUME FaultyAssumption == Faulty \subseteq Messages

Attempts == Messages \X (0..MaxRetries)
None == MaxRetries + 1   \* no attempt of a message is pending

VARIABLES
  number,     \* number[m]: the (recipient, seq) of m; it does not change
  task,       \* where the async function of each attempt is
  writes,     \* the vault's write chain: <<what, m, i>>, the head is under way
  image,      \* the document the head is writing, or <<>>
  row,        \* row[m]: the status of m in the document, in memory
  disk,       \* disk[m]: the same, in the blob
  screen,     \* screen[m]: the status the conversation shows
  astray,     \* retries of a row that was found for another message's tap
  entry,      \* entry[m]: the attempt of m in the pending map
  timers,     \* the attempts whose ack deadline is armed
  connected,  \* the realtime client's status
  frames,     \* attempts whose frame is on the connection, unanswered
  acks,       \* attempts whose ack is on the connection
  sentOut,    \* history: attempts handed to the transport
  accepted,   \* history: messages the server has accepted
  unsaved,    \* history: messages one of whose writes has failed
  displaced,  \* history: messages whose entry another one has replaced
  thrown,     \* history: attempts the present socket has refused
  refusals,   \* on how many occasions a socket has refused sends
  relaunches

storeVars == <<writes, image, row, disk, screen, unsaved>>
wireVars == <<connected, frames, acks, sentOut, accepted, thrown, refusals>>
vars == <<number, task, astray, entry, displaced, timers, relaunches, storeVars, wireVars>>

Statuses == {"none", "sending", "sent", "failed"}

Init ==
  /\ number \in Numberings
  /\ task = [t \in Attempts |-> "idle"]
  /\ writes = <<>>
  /\ image = <<>>
  /\ row = [m \in Messages |-> "none"]
  /\ disk = row
  /\ screen = row
  /\ entry = [m \in Messages |-> None]
  /\ timers = {}
  /\ connected = FALSE
  /\ frames = {}
  /\ acks = {}
  /\ sentOut = {}
  /\ accepted = {}
  /\ unsaved = {}
  /\ astray = {} /\ displaced = {} /\ thrown = {}
  /\ refusals = 0 /\ relaunches = 0

----------------------------------------------------------------------------
(* vault.mutate for one row's status: at once in memory, then queued.      *)
Write(what, m, i) ==
  /\ row' = [row EXCEPT ![m] = CASE what \in {"append", "resend"} -> "sending"
                                 [] OTHER -> IF row[m] = "none" THEN "none" ELSE what]
  /\ writes' = Append(writes, <<what, m, i>>)
  /\ UNCHANGED <<image, disk, screen, unsaved>>

(* Entries are handed to the transport and their deadlines armed, but for  *)
(* those it refuses, as the socket is closing: they stay queued.           *)
Transmit(ts) ==
  \E refused \in SUBSET ts :
    /\ refused # {} => refusals < MaxRefusals
    /\ refusals' = IF refused = {} THEN refusals ELSE refusals + 1
    /\ thrown' = thrown \cup refused
    /\ frames' = frames \cup (ts \ refused)
    /\ sentOut' = sentOut \cup (ts \ refused)
    /\ timers' = timers \cup (ts \ refused)

(* The messages that have the number of m. *)
Alike(m) == {n \in Messages : number[n] = number[m]}

----------------------------------------------------------------------------
(* What the user does. *)
Send(m) ==
  /\ task[<<m, 0>>] = "idle"
  /\ task' = [task EXCEPT ![<<m, 0>>] = "saving"]
  /\ Write("append", m, 0)
  /\ UNCHANGED <<number, astray, entry, displaced, timers, relaunches, wireVars>>

SendAttachment(m) ==
  /\ task[<<m, 0>>] = "idle"
  /\ task' = [task EXCEPT ![<<m, 0>>] = "uploading"]
  /\ UNCHANGED <<number, astray, entry, displaced, timers, relaunches, storeVars, wireVars>>

Uploaded(m) ==
  /\ task[<<m, 0>>] = "uploading"
  /\ task' = [task EXCEPT ![<<m, 0>>] = "saving"]
  /\ Write("append", m, 0)
  /\ UNCHANGED <<number, astray, entry, displaced, timers, relaunches, wireVars>>

(* failAttachment: shown as failed, and no row is stored.                  *)
UploadFails(m) ==
  /\ task[<<m, 0>>] = "uploading"
  /\ task' = [task EXCEPT ![<<m, 0>>] = "done"]
  /\ screen' = [screen EXCEPT ![m] = "failed"]
  /\ UNCHANGED <<number, astray, entry, displaced, timers, relaunches, wireVars>>
  /\ UNCHANGED <<writes, image, row, disk, unsaved>>

(* A reaction, an edit or another control payload: no row of its own.      *)
SendControl(m) ==
  /\ task[<<m, 0>>] = "idle"
  /\ task' = [task EXCEPT ![<<m, 0>>] = "sealing"]
  /\ UNCHANGED <<number, astray, entry, displaced, timers, relaunches, storeVars, wireVars>>

(* A mutant: the row's status is not looked at, nor what the screen shows. *)
RetryAnything(m, n, i) ==
  /\ i > 0 /\ n = m
  /\ task[<<n, i>>] = "idle" /\ task[<<n, i - 1>>] # "idle"
  /\ row[n] # "none"
  /\ task' = [task EXCEPT ![<<n, i>>] = "saving"]
  /\ Write("resend", n, i)
  /\ UNCHANGED <<number, astray, entry, displaced, timers, relaunches, wireVars>>

(* A tap on m, shown as failed.  The rows are read, the first one with the *)
(* number of m is taken, and its status flipped before any other event is  *)
(* handled; for a row that is not failed nothing happens.  Which row of a  *)
(* number comes first is left open.  It is n's, and goes out once more,    *)
(* but the screen is told of it in the thread of m.                        *)
Retry(m, n, i) ==
  /\ i > 0
  /\ task[<<n, i>>] = "idle" /\ task[<<n, i - 1>>] # "idle"
  /\ screen[m] = "failed" /\ n \in Alike(m)
  /\ row[n] = "failed"
  /\ task' = [task EXCEPT ![<<n, i>>] = "saving"]
  /\ astray' = IF n = m THEN astray ELSE astray \cup {<<n, i>>}
  /\ Write("resend", n, i)
  /\ UNCHANGED <<number, entry, displaced, timers, relaunches, wireVars>>

----------------------------------------------------------------------------
(* The vault's write chain. *)

(* persist() takes its picture of the document.                            *)
Picture ==
  /\ writes # <<>>
  /\ image = <<>>
  /\ image' = row
  /\ UNCHANGED <<number, task, astray, entry, displaced, timers, relaunches, wireVars>>
  /\ UNCHANGED <<writes, row, disk, screen, unsaved>>

(* The head is in the blob: its caller goes on, and tells the screen about *)
(* a message it shows, which it does not find in the thread of another.    *)
Saved ==
  /\ writes # <<>>
  /\ image # <<>>
  /\ disk' = image
  /\ LET what == Head(writes)[1]  m == Head(writes)[2]  i == Head(writes)[3] IN
     IF what \in {"append", "resend"}
     THEN /\ screen' = [screen EXCEPT ![m] = IF <<m, i>> \in astray THEN @ ELSE "sending"]
          /\ task' = [task EXCEPT ![<<m, i>>] = "sealing"]
     ELSE /\ screen' = [screen EXCEPT ![m] = IF <<m, i>> \in astray \/ @ = "none" THEN @ ELSE what]
          /\ UNCHANGED task
  /\ writes' = Tail(writes)
  /\ image' = <<>>
  /\ UNCHANGED <<number, astray, entry, displaced, timers, relaunches, row, unsaved, wireVars>>

(* The head's write is rejected: its caller stops at the await, the change *)
(* in memory stands.                                                       *)
SaveFails ==
  /\ writes # <<>>
  /\ image # <<>>
  /\ LET what == Head(writes)[1]  m == Head(writes)[2]  i == Head(writes)[3] IN
     /\ m \in Faulty
     /\ unsaved' = unsaved \cup {m}
     /\ task' = IF what \in {"append", "resend"} THEN [task EXCEPT ![<<m, i>>] = "done"] ELSE task
  /\ writes' = Tail(writes)
  /\ image' = <<>>
  /\ UNCHANGED <<number, astray, entry, displaced, timers, relaunches, row, disk, screen, wireVars>>

----------------------------------------------------------------------------
(* The end of dispatch (and of sendControl). *)

(* The entry is pending, in the place of one with the same number.         *)
Pend(m, i) ==
  /\ entry' = [n \in Messages |-> IF n = m THEN i ELSE IF n \in Alike(m) THEN None ELSE entry[n]]
  /\ displaced' = displaced \cup {n \in Alike(m) \ {m} : entry[n] # None}

(* A mutant: connected or not, it waits for the next connection. *)
SealedAndHeld(m, i) ==
  /\ task[<<m, i>>] = "sealing"
  /\ task' = [task EXCEPT ![<<m, i>>] = "done"]
  /\ Pend(m, i)
  /\ UNCHANGED <<number, astray, timers, relaunches, storeVars, wireVars>>

(* Encrypted: the entry is pending, and is transmitted if connected.       *)
Sealed(m, i) ==
  /\ task[<<m, i>>] = "sealing"
  /\ task' = [task EXCEPT ![<<m, i>>] = "done"]
  /\ Pend(m, i)
  /\ IF connected THEN Transmit({<<m, i>>}) ELSE UNCHANGED <<frames, sentOut, timers, thrown, refusals>>
  /\ UNCHANGED <<number, astray, relaunches, storeVars, connected, acks, accepted>>

(* No sender, no keys or no ciphertext: markFailed, or for a control       *)
(* payload, which has no row, nothing.                                     *)
SealFails(m, i) ==
  /\ task[<<m, i>>] = "sealing"
  /\ task' = [task EXCEPT ![<<m, i>>] = "done"]
  /\ IF row[m] = "none" THEN UNCHANGED storeVars ELSE Write("failed", m, i)
  /\ UNCHANGED <<number, astray, entry, displaced, timers, relaunches, wireVars>>

----------------------------------------------------------------------------
(* The connection, the acks and the deadlines. *)
Queued == {t \in Attempts : entry[t[1]] = t[2] /\ t \notin timers}

(* A mutant: whatever is pending is sent again. *)
ReconnectResendsAll ==
  /\ ~connected
  /\ connected' = TRUE
  /\ Transmit({t \in Attempts : entry[t[1]] = t[2]})
  /\ UNCHANGED <<number, task, astray, entry, displaced, relaunches, storeVars, acks, accepted>>

(* A mutant: what was queued is forgotten by the flush. *)
ReconnectWithoutFlush ==
  /\ ~connected
  /\ connected' = TRUE
  /\ UNCHANGED <<number, task, astray, entry, displaced, timers, relaunches, storeVars>>
  /\ UNCHANGED <<frames, sentOut, acks, accepted, thrown, refusals>>

(* The status turns `connected`: flushPending.                             *)
Reconnect ==
  /\ ~connected
  /\ connected' = TRUE
  /\ Transmit(Queued)
  /\ UNCHANGED <<number, task, astray, entry, displaced, relaunches, storeVars, acks, accepted>>

(* What was on the connection is gone, and no status but `disconnected` is *)
(* reported: awaiting entries go on waiting for their deadline.            *)
Disconnect ==
  /\ connected
  /\ connected' = FALSE
  /\ frames' = {}
  /\ acks' = {}
  /\ thrown' = {}
  /\ UNCHANGED <<number, task, astray, entry, displaced, timers, relaunches, storeVars>>
  /\ UNCHANGED <<sentOut, accepted, refusals>>

(* A socket that refuses a send is closing. *)
DisconnectRefused == thrown # {} /\ Disconnect

(* The server accepts an envelope and acks it, *)
Accept(t) ==
  /\ t \in frames
  /\ frames' = frames \ {t}
  /\ acks' = acks \cup {t}
  /\ accepted' = accepted \cup {t[1]}
  /\ UNCHANGED <<number, task, astray, entry, displaced, timers, relaunches, storeVars>>
  /\ UNCHANGED <<connected, sentOut, thrown, refusals>>

(* or never answers it.                                                    *)
Ignore(t) ==
  /\ t \in frames
  /\ frames' = frames \ {t}
  /\ UNCHANGED <<number, task, astray, entry, displaced, timers, relaunches, storeVars>>
  /\ UNCHANGED <<connected, acks, sentOut, accepted, thrown, refusals>>

(* An entry is taken out of the pending map, and its row marked sent.      *)
Settle(m) ==
  /\ entry' = [entry EXCEPT ![m] = None]
  /\ timers' = timers \ {<<m, entry[m]>>}
  /\ Write("sent", m, entry[m])

(* A mutant: an ack settles the oldest pending entry, whatever its seq.    *)
AckSettlesAny(t) ==
  /\ t \in acks
  /\ acks' = acks \ {t}
  /\ \E m \in Messages : entry[m] # None /\ Settle(m)
  /\ UNCHANGED <<number, task, astray, displaced, relaunches>>
  /\ UNCHANGED <<connected, frames, sentOut, accepted, thrown, refusals>>

(* handleAck: the ack has the number, and names neither message nor        *)
(* attempt.                                                                *)
Ack(t) ==
  LET held == {m \in Alike(t[1]) : entry[m] # None} IN
  /\ t \in acks
  /\ acks' = acks \ {t}
  /\ \/ \E m \in held : Settle(m)
     \/ held = {} /\ UNCHANGED <<entry, timers, storeVars>>
  /\ UNCHANGED <<number, task, astray, displaced, relaunches>>
  /\ UNCHANGED <<connected, frames, sentOut, accepted, thrown, refusals>>

(* A mutant: the entry is dropped and nobody is told. *)
AckTimeoutSilent(t) ==
  /\ t \in timers
  /\ timers' = timers \ {t}
  /\ entry' = [entry EXCEPT ![t[1]] = IF @ = t[2] THEN None ELSE @]
  /\ UNCHANGED <<number, task, astray, displaced, relaunches, storeVars, wireVars>>

(* handleAckTimeout: nothing for an entry that was settled or replaced.    *)
AckTimeout(t) ==
  LET m == t[1]  i == t[2] IN
  /\ t \in timers
  /\ timers' = timers \ {t}
  /\ IF entry[m] = i
     THEN entry' = [entry EXCEPT ![m] = None] /\ Write("failed", m, i)
     ELSE UNCHANGED <<entry, storeVars>>
  /\ UNCHANGED <<number, task, astray, displaced, relaunches, wireVars>>

----------------------------------------------------------------------------
(* A mutant: the rows are shown with the status they were stored with.     *)
RelaunchAsStored ==
  /\ relaunches < MaxRelaunches
  /\ relaunches' = relaunches + 1
  /\ task' = [t \in Attempts |-> IF task[t] = "idle" THEN "idle" ELSE "done"]
  /\ writes' = <<>>
  /\ image' = <<>>
  /\ row' = disk
  /\ screen' = disk
  /\ entry' = [m \in Messages |-> None]
  /\ timers' = {}
  /\ connected' = FALSE
  /\ frames' = {}
  /\ acks' = {}
  /\ astray' = {} /\ displaced' = {} /\ thrown' = {}
  /\ UNCHANGED <<number, disk, sentOut, accepted, unsaved, refusals>>

(* The process dies and is started again: what is left is the blob, and a  *)
(* row still `sending` is shown as failed (reduceRowsToState).             *)
Relaunch ==
  /\ relaunches < MaxRelaunches
  /\ relaunches' = relaunches + 1
  /\ task' = [t \in Attempts |-> IF task[t] = "idle" THEN "idle" ELSE "done"]
  /\ writes' = <<>>
  /\ image' = <<>>
  /\ row' = disk
  /\ screen' = [m \in Messages |-> IF disk[m] = "sending" THEN "failed" ELSE disk[m]]
  /\ entry' = [m \in Messages |-> None]
  /\ timers' = {}
  /\ connected' = FALSE
  /\ frames' = {}
  /\ acks' = {}
  /\ astray' = {} /\ displaced' = {} /\ thrown' = {}
  /\ UNCHANGED <<number, disk, sentOut, accepted, unsaved, refusals>>

----------------------------------------------------------------------------
User(m) ==
  \/ Send(m)
  \/ SendAttachment(m)
  \/ SendControl(m)
  \/ \E n \in Messages, i \in 0..MaxRetries : Retry(m, n, i)

Upload(m) == Uploaded(m) \/ UploadFails(m)
Seal(t) == Sealed(t[1], t[2]) \/ SealFails(t[1], t[2])
Store == Picture \/ Saved \/ SaveFails
Network == Disconnect \/ Reconnect \/ \E t \in Attempts : Accept(t) \/ Ignore(t) \/ Ack(t)

Next ==
  \/ \E m \in Messages : User(m) \/ Upload(m)
  \/ \E t \in Attempts : Seal(t) \/ AckTimeout(t)
  \/ Store
  \/ Network
  \/ Relaunch

(* HTTP calls and store writes end (each request has a timeout), an armed  *)
(* timer fires, a lost connection comes back, and one that refuses a send  *)
(* is lost.                                                                *)
Fairness ==
  /\ WF_vars(\E m \in Messages : Upload(m))
  /\ WF_vars(\E t \in Attempts : Seal(t))
  /\ WF_vars(\E t \in Attempts : AckTimeout(t))
  /\ WF_vars(Store)
  /\ WF_vars(Reconnect) /\ WF_vars(DisconnectRefused)

Spec == Init /\ [][Next]_vars
FairSpec == Spec /\ Fairness

----------------------------------------------------------------------------
(* Every variable has its type. *)
TypeOK ==
  /\ number \in [Messages -> Nat]
  /\ task \in [Attempts -> {"idle", "uploading", "saving", "sealing", "done"}]
  /\ writes \in Seq({"append", "resend", "sent", "failed"} \X Messages \X (0..MaxRetries))
  /\ image \in [Messages -> Statuses] \cup {<<>>}
  /\ row \in [Messages -> Statuses]
  /\ disk \in [Messages -> Statuses]
  /\ screen \in [Messages -> Statuses]
  /\ entry \in [Messages -> 0..None]
  /\ timers \subseteq Attempts
  /\ connected \in BOOLEAN
  /\ frames \subseteq Attempts /\ acks \subseteq Attempts /\ sentOut \subseteq Attempts
  /\ accepted \subseteq Messages /\ unsaved \subseteq Messages
  /\ astray \subseteq Attempts /\ thrown \subseteq Attempts /\ displaced \subseteq Messages
  /\ refusals \in 0..MaxRefusals /\ relaunches \in 0..MaxRelaunches

(* A write about m is on its way to the blob. *)
Writing(m) == \E k \in 1..Len(writes) : writes[k][2] = m

(* An attempt of m is being worked on. *)
Busy(m) == {i \in 0..MaxRetries : task[<<m, i>>] \notin {"idle", "done"}}

(* The number of m is one that the server has accepted. *)
Taken(m) == \E n \in Alike(m) : n \in accepted

(* A message is never in flight twice: while one of its attempts is being  *)
(* dispatched no other is, nor is one pending or about to time out, so     *)
(* that an ack, which names no attempt, can be matched ("Idempotent:       *)
(* nothing to do if the row is gone, already in flight, or already         *)
(* acknowledged", retryMessage).  Of one number one entry is pending, and  *)
(* only the deadline of a replaced entry is armed for nothing.             *)
OneInFlight ==
  /\ \A m \in Messages :
       /\ \A i, j \in Busy(m) : i = j
       /\ Busy(m) # {} => entry[m] = None
       /\ \A i \in 0..MaxRetries : <<m, i>> \in timers =>
            entry[m] = i \/ (entry[m] = None /\ m \in displaced)
  /\ \A m \in Messages : \A n \in Alike(m) : entry[m] # None /\ entry[n] # None => m = n

(* `sent` is shown only when the server has accepted the message, or one   *)
(* of the same number, as an ack tells no more than the number; and only   *)
(* once the blob says so too: no relaunch takes it back (handleAck).       *)
SentIsAcceptedAndSaved ==
  \A m \in Messages :
    /\ "sent" \in {row[m], screen[m]} => Taken(m)
    /\ screen[m] = "sent" => disk[m] = "sent"

(* No spinner without an owner: a message shown as sending is held by a    *)
(* dispatch, by the pending map, or by a write that will tell the screen,  *)
(* unless the store has failed it or one of its number has replaced it.    *)
SpinnerHasOwner ==
  \A m \in Messages \ (unsaved \cup displaced) :
    screen[m] = "sending" => Busy(m) # {} \/ entry[m] # None \/ Writing(m)

(* Nothing waits for a connection while there is one, but what its socket  *)
(* has refused: a send that races the status change is either flushed or   *)
(* transmitted (dispatch, transmit, flushPending, 5.10).                   *)
QueuedMeansOffline == connected => Queued \subseteq thrown

(* An encrypted frame is handed to the transport once, however often the   *)
(* connection is lost while its ack is awaited (Property 16).              *)
TransmittedOnce == [][(frames' \ frames) \cap sentOut = {}]_vars

(* A sending message does not stay so: ack, deadline, failed dispatch or   *)
(* relaunch settle it, or the store has failed it, or one of its number    *)
(* has replaced it (5.6, 5.11).                                            *)
SendingEnds ==
  \A m \in Messages :
    screen[m] = "sending" ~> (screen[m] # "sending" \/ m \in unsaved \cup displaced)

(* What retryMessage promises of a failed message: its row is failed in    *)
(* "the durable store (the source of truth that survives a relaunch)", so  *)
(* that the tap the screen offers does re-send it.                         *)
FailedIsRetryable ==
  \A m \in Messages :
    screen[m] = "failed" /\ row[m] # "none" /\ ~Writing(m) => row[m] = "failed"

(* What the sender is promised of each message.                            *)
Promise == INSTANCE Delivery WITH status <- screen, accepted <- {m \in Messages : Taken(m)}

(* The outbox keeps it: `sent` is final and never early, `sending` is not  *)
(* lost by a process death, a status changes along the promised ways only  *)
(* (MessageStatus; reduceRowsToState for the relaunch).                    *)
ImplementsDelivery == Promise!Spec
=============================================================================
