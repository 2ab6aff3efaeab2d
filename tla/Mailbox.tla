------------------------------ MODULE Mailbox ------------------------------
(***************************************************************************)
(* What the backend promises of the frames clients send each other,        *)
(* however many processes it has.  A frame goes one of two ways and never  *)
(* both: live, pushed to connections of its recipient, to each of them at  *)
(* most once; or stored, until one connection takes it with all that is    *)
(* stored for its user, to be sent what it took once, in the order it took *)
(* it.  A frame may be lost on either way; none is sent to anybody else.   *)
(* Relay is shown to keep this promise.                                    *)
(***************************************************************************)
EXTENDS Sequences, Functions

CONSTANTS Users, Sockets, Messages, Owner, To, Backlog

VARIABLES
  fresh,  \* the frames nobody has taken over
  stored, \* those that wait for their recipient
  live,   \* those on their way to connections of their recipient
  held,   \* held[s]: taken for socket s from what was stored
  sent    \* sent[s]: what socket s was sent

mailboxVars == <<fresh, stored, live, held, sent>>

Init ==
  /\ stored = UNION {Range(Backlog[u]) : u \in Users}
  /\ fresh = Messages \ stored
  /\ live = {}
  /\ held = [s \in Sockets |-> << >>]
  /\ sent = [s \in Sockets |-> << >>]

(* The recipient has connections, *)
Start(m) ==
  /\ m \in fresh
  /\ fresh' = fresh \ {m}
  /\ live' = live \cup {m}
  /\ UNCHANGED <<stored, held, sent>>

(* or none: the frame is kept, at the cost, maybe, of others for the same  *)
(* recipient.                                                              *)
Store(m) ==
  /\ m \in fresh
  /\ fresh' = fresh \ {m}
  /\ m \in stored' /\ stored' \subseteq stored \cup {m}
  /\ \A x \in stored \ stored' : To[x] = To[m]
  /\ UNCHANGED <<live, held, sent>>

(* Some connections of the recipient, none of which has been sent the      *)
(* frame, are; it may be on its way to others still.                       *)
Push(m) ==
  /\ m \in live
  /\ live' \in {live, live \ {m}}
  /\ \E S \in SUBSET {s \in Sockets : Owner[s] = To[m] /\ m \notin Range(sent[s])} :
       sent' = [s \in Sockets |-> IF s \in S THEN Append(sent[s], m) ELSE sent[s]]
  /\ UNCHANGED <<fresh, stored, held>>

(* A connection takes all that is stored for its user. *)
Take(s) ==
  LET taken == {m \in stored : To[m] = Owner[s]}
  IN  /\ held' = [held EXCEPT ![s] = held'[s]]
      /\ Range(held'[s]) = taken /\ IsInjective(held'[s])
      /\ stored' = stored \ taken
      /\ UNCHANGED <<fresh, live, sent>>

(* It is sent what it took, unless it has gone. *)
HandOver(s) ==
  /\ sent' \in {sent, [sent EXCEPT ![s] = @ \o held[s]]}
  /\ held' = [held EXCEPT ![s] = << >>]
  /\ UNCHANGED <<fresh, stored, live>>

(* Frames are refused, expire, or go with a process or a failed command.   *)
Lose ==
  /\ UNCHANGED sent
  /\ fresh' \subseteq fresh /\ stored' \subseteq stored /\ live' \subseteq live
  /\ \E S \in SUBSET Sockets : held' = [s \in Sockets |-> IF s \in S THEN << >> ELSE held[s]]

Next ==
  \/ Lose
  \/ \E m \in Messages : Start(m) \/ Store(m) \/ Push(m)
  \/ \E s \in Sockets : Take(s) \/ HandOver(s)

Spec == Init /\ [][Next]_mailboxVars
=============================================================================
