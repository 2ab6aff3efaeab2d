------------------------------ MODULE Delivery ------------------------------
(***************************************************************************)
(* What a sender is promised of each message, whatever the device goes     *)
(* through: the status the conversation shows, and whether the server has  *)
(* accepted the message.  Outbox is shown to keep this promise.            *)
(***************************************************************************)
CONSTANT Messages

VARIABLES
  status,   \* what the sender sees of each message
  accepted  \* the messages the server has taken over

deliveryVars == <<status, accepted>>

Statuses == {"none", "sending", "sent", "failed"}

Init ==
  /\ status = [m \in Messages |-> "none"]
  /\ accepted = {}

Turn(m, from, to) ==
  /\ status[m] \in from
  /\ status' = [status EXCEPT ![m] = to]
  /\ UNCHANGED accepted

(* A message is attempted, for the first time or again after it failed.    *)
Try(m) == Turn(m, {"none", "failed"}, "sending")

(* It fails while it is being sent, or before it could be stored.          *)
GiveUp(m) == Turn(m, {"none", "sending"}, "failed")

(* The server takes it over, with what the sender cannot tell from it; the *)
(* sender learns so later or never,                                        *)
Accept(ms) ==
  /\ accepted' = accepted \cup ms
  /\ UNCHANGED status

(* and is told so only after.                                              *)
Confirm(m) == m \in accepted /\ Turn(m, {"sending"}, "sent")

(* The process dies and comes back: what is sent stays so, what was being  *)
(* sent, or had failed, has failed or turns out to have been sent, what    *)
(* never had a row is gone, and what was about to be shown may come up as  *)
(* failed.                                                                 *)
Survives(before, after) ==
  \/ before = "sent" /\ after = "sent"
  \/ before \in {"sending", "failed"} /\ after \in {"failed", "sent"}
  \/ before \in {"none", "failed"} /\ after \in {"none", "failed"}

Restart ==
  /\ status' \in [Messages -> Statuses]
  /\ \A m \in Messages :
       /\ Survives(status[m], status'[m])
       /\ status'[m] = "sent" => m \in accepted
  /\ UNCHANGED accepted

Next ==
  \/ \E m \in Messages : Try(m) \/ GiveUp(m) \/ Confirm(m)
  \/ \E ms \in SUBSET Messages : Accept(ms)
  \/ Restart

Spec == Init /\ [][Next]_deliveryVars
=============================================================================
