--------------------------- MODULE ShadowInvites ---------------------------
(***************************************************************************)
(* The invites by which two phones agree on a shadow thread: the invite    *)
(* coordinator and its secret store on each phone, the app's request cards, *)
(* and the control messages between them.                                  *)
(*                                                                         *)
(* An invite and its thread are one value: the thread's id is derived from *)
(* the key the invite carries.  A bind is split at the hash of its PIN and *)
(* between its two writes, a revoke between its record and its rows.  Nobody*)
(* is told when a control message is dropped, and nothing sends it again.  *)
(***************************************************************************)
EXTENDS Naturals, Sequences, SequencesExt, FiniteSets

CONSTANTS
  Phones,  \* the two phones
  Invites, \* the invites
  From,    \* the phone that makes each
  MaxOut   \* bound on the messages one phone has on their way

ASSUME InvitesAssumption ==
  /\ \E p, q \in Phones : p # q /\ Phones = {p, q}
  /\ From \in [Invites -> Phones]

Peer(p) == CHOOSE q \in Phones : q # p

VARIABLES
  record,   \* the vault: invitedThreads, by the state of the record
  handle,   \* the vault: aliasEntries
  history,  \* the vault: the threads that have rows
  mode,     \* resolveMode(): null is "locked"
  inbound,  \* the coordinator's inbound
  cards,    \* the app's inviteCards
  doing,    \* calls that wait for a hash or a write
  out,      \* messages on their way from each phone
  made, accepted, \* invites that were created, that their recipient accepted
  revokedBy, \* the threads each phone has revoked
  missed    \* history: invites whose acceptance was lost, or ignored

inviteVars == <<record, handle, history, mode, inbound, cards, doing, out, made, accepted,
                revokedBy, missed>>

InviteInit ==
  /\ record = [p \in Phones |-> [i \in Invites |-> "none"]]
  /\ handle = [p \in Phones |-> {}] /\ history = [p \in Phones |-> {}]
  /\ mode = [p \in Phones |-> "locked"]
  /\ inbound = [p \in Phones |-> {}] /\ cards = [p \in Phones |-> {}]
  /\ doing = [p \in Phones |-> {}]
  /\ out = [p \in Phones |-> << >>]
  /\ made = {} /\ accepted = {} /\ missed = {}
  /\ revokedBy = [p \in Phones |-> {}]

Busy(p, i) == \E o \in doing[p] : o.on = i
Call(call, i) == [call |-> call, on |-> i]
Posts(p, kind, i) == out' = [out EXCEPT ![p] = Append(@, [kind |-> kind, on |-> i])]
MayPost(p) == Len(out[p]) < MaxOut
Acceptances(mail) == {m.on : m \in {x \in mail : x.kind = "accept"}}
Bound(p, i, state) == record' = [record EXCEPT ![p][i] = state]

----------------------------------------------------------------------------
(* What the user does. *)

(* createInvite, up to the store; the app always names an alias. *)
CreateInvite(p, i) ==
  /\ mode[p] = "real" /\ From[i] = p /\ i \notin made
  /\ made' = made \cup {i}
  /\ doing' = [doing EXCEPT ![p] = @ \cup {Call("create", i)}]
  /\ UNCHANGED <<record, handle, history, mode, inbound, cards, out, accepted, revokedBy, missed>>

(* acceptInvite, up to the store. *)
AcceptInvite(p, i) ==
  /\ i \in cards[p] /\ mode[p] = "real" /\ i \in inbound[p] /\ ~Busy(p, i)
  /\ accepted' = accepted \cup {i}
  /\ doing' = [doing EXCEPT ![p] = @ \cup {Call("accept", i)}]
  /\ UNCHANGED <<record, handle, history, mode, inbound, cards, out, made, revokedBy, missed>>

(* bindInvitedThread writes the alias, if one was given, before the record. *)
AliasSaved(p, i) ==
  /\ {Call("create", i), Call("accept", i)} \cap doing[p] # {}
  /\ i \notin handle[p]
  /\ handle' = [handle EXCEPT ![p] = @ \cup {i}]
  /\ UNCHANGED <<record, history, mode, inbound, cards, doing, out, made, accepted, revokedBy,
                 missed>>

(* A mutant: the inviter's thread is usable at once. *)
InviteMadeActive(p, i) ==
  /\ Call("create", i) \in doing[p] /\ i \in handle[p] /\ MayPost(p)
  /\ doing' = [doing EXCEPT ![p] = @ \ {Call("create", i)}]
  /\ Bound(p, i, "active")
  /\ Posts(p, "invite", i)
  /\ UNCHANGED <<handle, history, mode, inbound, cards, made, accepted, revokedBy, missed>>

InviteMade(p, i) ==
  /\ Call("create", i) \in doing[p] /\ i \in handle[p] /\ MayPost(p)
  /\ doing' = [doing EXCEPT ![p] = @ \ {Call("create", i)}]
  /\ Bound(p, i, "awaiting")
  /\ Posts(p, "invite", i)
  /\ UNCHANGED <<handle, history, mode, inbound, cards, made, accepted, revokedBy, missed>>

(* A mutant: the mode is looked at again before the inviter is told. *)
InviteAcceptedUntold(p, i) ==
  /\ Call("accept", i) \in doing[p] /\ MayPost(p)
  /\ doing' = [doing EXCEPT ![p] = @ \ {Call("accept", i)}]
  /\ Bound(p, i, "active")
  /\ IF mode[p] = "real" THEN Posts(p, "accept", i) ELSE UNCHANGED out
  /\ inbound' = [inbound EXCEPT ![p] = @ \ {i}]
  /\ cards' = [cards EXCEPT ![p] = @ \ {i}]
  /\ UNCHANGED <<handle, history, mode, made, accepted, revokedBy, missed>>

InviteAccepted(p, i) ==
  /\ Call("accept", i) \in doing[p] /\ MayPost(p)
  /\ doing' = [doing EXCEPT ![p] = @ \ {Call("accept", i)}]
  /\ Bound(p, i, "active")
  /\ Posts(p, "accept", i)
  /\ inbound' = [inbound EXCEPT ![p] = @ \ {i}]
  /\ cards' = [cards EXCEPT ![p] = @ \ {i}]
  /\ UNCHANGED <<handle, history, mode, made, accepted, revokedBy, missed>>

(* declineInvite: in decoy mode the card goes and nothing else does. *)
DeclineInvite(p, i) ==
  /\ i \in cards[p] /\ mode[p] # "locked" /\ ~Busy(p, i) /\ MayPost(p)
  /\ cards' = [cards EXCEPT ![p] = @ \ {i}]
  /\ IF mode[p] = "real"
     THEN /\ inbound' = [inbound EXCEPT ![p] = @ \ {i}]
          /\ Posts(p, "decline", i)
          /\ Bound(p, i, "none")
          /\ handle' = [handle EXCEPT ![p] = @ \ {i}]
     ELSE UNCHANGED <<inbound, out, record, handle>>
  /\ UNCHANGED <<history, mode, doing, made, accepted, revokedBy, missed>>

(* listShadowChats: the active threads and those with an alias. *)
Known(p) == {i \in Invites : record[p][i] = "active"} \cup handle[p]

(* The manager's or the chat's "Revoke": without a record it does nothing. *)
RevokeThread(p, i) ==
  /\ mode[p] = "real" /\ i \in Known(p) /\ ~Busy(p, i) /\ record[p][i] # "none"
  /\ Bound(p, i, "none")
  /\ handle' = [handle EXCEPT ![p] = @ \ {i}]
  /\ revokedBy' = [revokedBy EXCEPT ![p] = @ \cup {i}]
  /\ doing' = [doing EXCEPT ![p] = @ \cup
                 {Call(IF i \in history[p] THEN "purge" ELSE "tell", i)}]
  /\ UNCHANGED <<history, mode, inbound, cards, out, made, accepted, missed>>

RowsPurged(p, i) ==
  /\ \E call \in {"purge", "forget"} :
       /\ Call(call, i) \in doing[p]
       /\ doing' = [doing EXCEPT ![p] = (@ \ {Call(call, i)}) \cup
                      (IF call = "purge" THEN {Call("tell", i)} ELSE {})]
  /\ history' = [history EXCEPT ![p] = @ \ {i}]
  /\ UNCHANGED <<record, handle, mode, inbound, cards, out, made, accepted, revokedBy, missed>>

RevokeTold(p, i) ==
  /\ Call("tell", i) \in doing[p] /\ MayPost(p)
  /\ doing' = [doing EXCEPT ![p] = @ \ {Call("tell", i)}]
  /\ Posts(p, "revoke", i)
  /\ UNCHANGED <<record, handle, history, mode, inbound, cards, made, accepted, revokedBy, missed>>

ClearThread(p, i) ==
  /\ mode[p] = "real" /\ i \in Known(p) /\ record[p][i] # "none"
  /\ history' = [history EXCEPT ![p] = @ \ {i}]
  /\ UNCHANGED <<record, handle, mode, inbound, cards, doing, out, made, accepted, revokedBy,
                 missed>>

(* setThreadPin reads the entry, hashes, and writes the entry back. *)
ChangePin(p, i) ==
  /\ mode[p] = "real" /\ i \in handle[p] /\ ~Busy(p, i)
  /\ doing' = [doing EXCEPT ![p] = @ \cup {Call("pin", i)}]
  /\ UNCHANGED <<record, handle, history, mode, inbound, cards, out, made, accepted, revokedBy,
                 missed>>

PinChanged(p, i) ==
  /\ Call("pin", i) \in doing[p]
  /\ doing' = [doing EXCEPT ![p] = @ \ {Call("pin", i)}]
  /\ handle' = [handle EXCEPT ![p] = @ \cup {i}]
  /\ UNCHANGED <<record, history, mode, inbound, cards, out, made, accepted, revokedBy, missed>>

(* A thread that is known opens, by its alias or from the list, and what   *)
(* is typed in it is sent.                                                 *)
SendText(p, i) ==
  /\ mode[p] = "real" /\ i \in Known(p) /\ ~Busy(p, i) /\ MayPost(p)
  /\ history' = [history EXCEPT ![p] = @ \cup {i}]
  /\ Posts(p, "text", i)
  /\ UNCHANGED <<record, handle, mode, inbound, cards, doing, made, accepted, revokedBy, missed>>

SwitchMode(p) ==
  /\ \E m \in {"real", "decoy", "locked"} :
       /\ m # mode[p] /\ (m = "locked" \/ mode[p] = "locked")
       /\ mode' = [mode EXCEPT ![p] = m]
  /\ UNCHANGED <<record, handle, history, inbound, cards, doing, out, made, accepted, revokedBy,
                 missed>>

----------------------------------------------------------------------------
(* What arrives.  The frames of one peer are handled one after another. *)
Arrives(p, kind, i) ==
  /\ out[Peer(p)] # << >> /\ Head(out[Peer(p)]) = [kind |-> kind, on |-> i]
  /\ \A o \in doing[p] : o.call # "forget"
  /\ out' = [out EXCEPT ![Peer(p)] = Tail(@)]

TextArrives(p, i) ==
  /\ Arrives(p, "text", i)
  /\ history' = [history EXCEPT ![p] = @ \cup {i}]
  /\ UNCHANGED <<record, handle, mode, inbound, cards, doing, made, accepted, revokedBy, missed>>

(* A phone that is not in real mode takes a control message and forgets it. *)
ControlIgnored(p, i) ==
  /\ mode[p] # "real"
  /\ \E kind \in {"invite", "accept", "decline", "revoke"} : Arrives(p, kind, i)
  /\ missed' = missed \cup Acceptances({Head(out[Peer(p)])})
  /\ UNCHANGED <<record, handle, history, mode, inbound, cards, doing, made, accepted, revokedBy>>

(* The card shows and the pending record is bound, best-effort: the write   *)
(* may fail, or find the phone locked.  It starts before the card shows,   *)
(* so no tap on the card overtakes it.                                     *)
InviteArrives(p, i) ==
  /\ mode[p] = "real" /\ Arrives(p, "invite", i)
  /\ inbound' = [inbound EXCEPT ![p] = @ \cup {i}]
  /\ cards' = [cards EXCEPT ![p] = @ \cup {i}]
  /\ Bound(p, i, "awaiting") \/ UNCHANGED record
  /\ UNCHANGED <<handle, history, mode, doing, made, accepted, revokedBy, missed>>

(* A mutant: an acceptance creates the record it does not find. *)
AcceptArrivesBlindly(p, i) ==
  /\ mode[p] = "real" /\ Arrives(p, "accept", i)
  /\ Bound(p, i, "active")
  /\ UNCHANGED <<handle, history, mode, inbound, cards, doing, made, accepted, revokedBy, missed>>

AcceptArrives(p, i) ==
  /\ mode[p] = "real" /\ Arrives(p, "accept", i)
  /\ IF record[p][i] = "none" THEN UNCHANGED record ELSE Bound(p, i, "active")
  /\ UNCHANGED <<handle, history, mode, inbound, cards, doing, made, accepted, revokedBy, missed>>

DeclineArrives(p, i) ==
  /\ mode[p] = "real" /\ Arrives(p, "decline", i)
  /\ Bound(p, i, "none")
  /\ handle' = [handle EXCEPT ![p] = IF record[p][i] = "none" THEN @ ELSE @ \ {i}]
  /\ UNCHANGED <<history, mode, inbound, cards, doing, made, accepted, revokedBy, missed>>

(* The card of a pending invite and its entry in memory stay. *)
RevokeArrives(p, i) ==
  /\ mode[p] = "real" /\ Arrives(p, "revoke", i)
  /\ IF record[p][i] = "none"
     THEN UNCHANGED <<record, handle, doing>>
     ELSE /\ Bound(p, i, "none")
          /\ handle' = [handle EXCEPT ![p] = @ \ {i}]
          /\ doing' = IF i \in history[p]
                      THEN [doing EXCEPT ![p] = @ \cup {Call("forget", i)}] ELSE doing
  /\ UNCHANGED <<history, mode, inbound, cards, made, accepted, revokedBy, missed>>

(* A message never arrives.  sendControl drops it without a word: nobody   *)
(* is signed in, the peer has no bundle, it cannot be encrypted, no ack    *)
(* comes.  Or the server, or the peer that cannot decrypt it, drops it.    *)
Lose(p) ==
  /\ \E k \in 1..Len(out[p]) :
       /\ out' = [out EXCEPT ![p] = RemoveAt(@, k)]
       /\ missed' = missed \cup Acceptances({out[p][k]})
  /\ UNCHANGED <<record, handle, history, mode, inbound, cards, doing, made, accepted, revokedBy>>

(* The app dies: what was not yet handed to the network is lost. *)
PhoneDies(p) ==
  /\ \E n \in 0..Len(out[p]) :
       /\ out' = [out EXCEPT ![p] = SubSeq(@, 1, n)]
       /\ missed' = missed \cup Acceptances({out[p][k] : k \in (n + 1)..Len(out[p])})
  /\ mode' = [mode EXCEPT ![p] = "locked"]
  /\ inbound' = [inbound EXCEPT ![p] = {}]
  /\ cards' = [cards EXCEPT ![p] = {}]
  /\ doing' = [doing EXCEPT ![p] = {}]
  /\ UNCHANGED <<record, handle, history, made, accepted, revokedBy>>

InviteNext ==
  \E p \in Phones :
    \/ SwitchMode(p) \/ PhoneDies(p) \/ Lose(p)
    \/ \E i \in Invites :
         \/ CreateInvite(p, i) \/ AcceptInvite(p, i) \/ AliasSaved(p, i) \/ InviteMade(p, i)
         \/ InviteAccepted(p, i) \/ DeclineInvite(p, i) \/ RevokeThread(p, i) \/ RowsPurged(p, i)
         \/ RevokeTold(p, i) \/ ClearThread(p, i) \/ ChangePin(p, i) \/ PinChanged(p, i)
         \/ SendText(p, i) \/ TextArrives(p, i) \/ ControlIgnored(p, i) \/ InviteArrives(p, i)
         \/ AcceptArrives(p, i) \/ DeclineArrives(p, i) \/ RevokeArrives(p, i)

InviteSpec == InviteInit /\ [][InviteNext]_inviteVars

----------------------------------------------------------------------------
(* Properties. *)
InviteTypeOK ==
  /\ record \in [Phones -> [Invites -> {"none", "awaiting", "active"}]]
  /\ handle \in [Phones -> SUBSET Invites] /\ history \in [Phones -> SUBSET Invites]
  /\ mode \in [Phones -> {"real", "decoy", "locked"}]
  /\ inbound \in [Phones -> SUBSET Invites] /\ cards \in [Phones -> SUBSET Invites]
  /\ doing \in [Phones -> SUBSET [call : {"create", "accept", "purge", "forget", "tell",
                                          "pin"}, on : Invites]]
  /\ out \in [Phones -> Seq([kind : {"invite", "accept", "decline", "revoke", "text"},
                             on : Invites])]
  /\ made \subseteq Invites /\ accepted \subseteq Invites /\ missed \subseteq Invites
  /\ revokedBy \in [Phones -> SUBSET Invites]

Revoked == UNION {revokedBy[p] : p \in Phones}
Settled == \A p \in Phones : doing[p] = {} /\ out[p] = << >>

(* No thread is usable at the inviter before the recipient has consented,  *)
(* whatever is declined, revoked, lost or answered twice meanwhile.        *)
Consent == \A i \in Invites : record[From[i]][i] = "active" => i \in accepted

(* Whatever is lost, declined or ignored and whoever dies: unless somebody  *)
(* revoked the thread, one that is active at the inviter is active at the   *)
(* invited, and once nothing is on its way the converse holds as well, but *)
(* for an acceptance that was lost or came to a locked phone; then the     *)
(* inviter goes on waiting (shadow-invite-coordinator.ts:268-274).         *)
AgreeUnlessMissed ==
  \A i \in Invites \ Revoked :
    LET inviter == record[From[i]][i]
        invited == record[Peer(From[i])][i]
    IN  /\ inviter = "active" => invited = "active"
        /\ Settled /\ invited = "active" => inviter = "active" \/ i \in missed

(* A thread stays deleted on the phone that revoked it: no answer that was *)
(* under way brings its key back.                                          *)
RevokeIsFinal == \A p \in Phones : \A i \in revokedBy[p] : record[p][i] = "none"
=============================================================================
