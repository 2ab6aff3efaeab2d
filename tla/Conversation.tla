---------------------------- MODULE Conversation ----------------------------
(***************************************************************************)
(* The conversation of one phone with one peer: the rows in its store and  *)
(* what its screens show of them (conversation reducer, registry and       *)
(* rehydration), under the frames that arrive, what the user does to       *)
(* messages, and relaunches.                                               *)
(*                                                                         *)
(* The peer is one surface chat and any number of shadow threads.  Surface *)
(* frames and all reactions, edits, deletions and controls are numbered by *)
(* one counter, the texts of a thread by a counter of its own that starts  *)
(* at Offset.  Numbers come again: threads share theirs, a peer that signs *)
(* out or installs anew counts from one, and a frame may come a second     *)
(* time, when it cannot be decrypted.  What is sent is Outbox's.           *)
(***************************************************************************)
EXTENDS Integers, FiniteSets

CONSTANTS
  Surface,   \* the surface chat
  Hidden,    \* the shadow threads
  Nowhere,   \* the thread of a row that was never tagged
  Offset,    \* SHADOW_SEQ_OFFSET
  Changes,   \* what a message may undergo, of edit, delete and react
  MaxIn,     \* bound on the peer's surface counter
  MaxShadow, \* bound on the peer's counter in a thread
  MaxGot,    \* bound on the frames that arrive
  MaxTyped   \* bound on this phone's texts

ASSUME ConversationAssumption ==
  /\ Surface # Nowhere /\ {Surface, Nowhere} \cap Hidden = {} /\ IsFiniteSet(Hidden)
  /\ Changes \subseteq {"edit", "delete", "react"}
  /\ {MaxIn, MaxShadow, MaxGot, MaxTyped, Offset} \subseteq Nat /\ Offset > MaxIn /\ Offset > MaxTyped

Places == {Surface} \cup Hidden
SeqsOf(c) == IF c = Surface THEN 1..MaxIn ELSE (Offset + 1)..(Offset + MaxShadow)
Numbers == (1..MaxIn) \cup (1..MaxTyped) \cup ((Offset + 1)..(Offset + MaxShadow)) \cup ((Offset + 1)..(Offset + MaxTyped))
Keys == {"in", "out"} \X Numbers

VARIABLES
  store,    \* the rows
  shown,    \* the messages of each conversation state
  controls, \* receivedControlSeqs of the surface chat
  routed,   \* the threads that are open in the registry
  tagging,  \* the row, if any, that waits for its row-to-thread association
  clearing, \* the rows a clear of the surface chat is about to purge
  used,     \* this phone's counters
  count,    \* how often each key was given to a text or came in
  excused   \* the peer's seqs no longer shown: purged, cleared, or not kept

chatVars == <<store, shown, controls, routed, tagging, clearing, used, count, excused>>

ChatInit ==
  /\ store = {}
  /\ shown = [c \in Places |-> {}]
  /\ controls = {} /\ routed = {} /\ tagging = {} /\ clearing = {}
  /\ used = [c \in Places |-> 0]
  /\ count = [key \in Keys |-> 0]
  /\ excused = {}

(* A row, and a message: they have the same fields.  nth says how manieth  *)
(* of its key the row is, and so which row it is and which came first;     *)
(* lost is the status `delivery-error`.                                    *)
NewRow(c, dir, n, nth, lost) ==
  [chat |-> c, dir |-> dir, seq |-> n, nth |-> nth, lost |-> lost,
   text |-> IF lost THEN "none" ELSE "first", deleted |-> FALSE, liked |-> FALSE]
Row(c, dir, n, lost) == NewRow(c, dir, n, count[<<dir, n>>] + 1, lost)

NextSeq(counter, c) == counter[c] + 1 + (IF c = Surface THEN 0 ELSE Offset)
KeyOf(r) == <<r.dir, r.seq>>
RowId(r) == <<KeyOf(r), r.nth>>

(* The rows that come before, and after, all others of their key. *)
Firsts(rows) == {r \in rows : \A x \in rows : KeyOf(x) = KeyOf(r) => r.nth <= x.nth}
Lasts(rows)  == {r \in rows : \A x \in rows : KeyOf(x) = KeyOf(r) => r.nth >= x.nth}

(* The peer's seqs that have come. *)
got == {n \in Numbers : count[<<"in", n>>] > 0}

(* What an edit, a deletion and a reaction make of a row or message: both  *)
(* the store and the reducer leave a deleted one as it is.                 *)
Apply(r, change) ==
  CASE change = "delete" -> [r EXCEPT !.text = "none", !.deleted = TRUE, !.liked = FALSE]
    [] change = "edit"   -> IF r.deleted THEN r ELSE [r EXCEPT !.text = "second"]
    [] change = "react"  -> IF r.deleted THEN r ELSE [r EXCEPT !.liked = TRUE]

(* findRow takes the first row with this direction and seq, of whatever    *)
(* thread and however old.                                                 *)
Changed(change, key) ==
  LET found == Firsts({r \in store : KeyOf(r) = key})
  IN  (store \ found) \cup {Apply(r, change) : r \in found}

(* The event carries no thread, so the surface chat takes it. *)
Redrawn(change, key) ==
  [shown EXCEPT ![Surface] = {IF KeyOf(r) = key THEN Apply(r, change) ELSE r : r \in @}]

(* upsertMessage. *)
Upsert(c, r) == [shown EXCEPT ![c] = {x \in @ : KeyOf(x) # KeyOf(r)} \cup {r}]

(* computeMissingBefore, for the surface chat. *)
MissingBefore ==
  LET seqs == {r.seq : r \in {x \in shown[Surface] : x.dir = "in"}} \cup controls
  IN  {s \in seqs : s - 1 \notin seqs /\ \E t \in seqs : t < s}

----------------------------------------------------------------------------
(* onEnvelope.  The frames of one peer are handled one after another, in   *)
(* any order; a frame may never come, and a number may come again.         *)

(* The frames that came so far, counted for their bound. *)
Handled == UNION {{n} \X (1..count[<<"in", n>>]) : n \in Numbers}
Count(key) == count' = [count EXCEPT ![key] = @ + 1]

(* A mutant: its seq is not noted. *)
TakenUnnoted(c, n) ==
  /\ n \in SeqsOf(c) /\ tagging = {} /\ Cardinality(Handled) < MaxGot
  /\ UNCHANGED count

(* A frame is taken up: it is the only one of this peer that is handled. *)
Taken(c, n) ==
  /\ n \in SeqsOf(c) /\ tagging = {} /\ Cardinality(Handled) < MaxGot
  /\ Count(<<"in", n>>)

(* What cannot be decrypted is an error on the surface chat, whatever      *)
(* thread it was for.                                                      *)
UndecryptableArrives(c, n) ==
  /\ Taken(c, n)
  /\ store' = store \cup {Row(Surface, "in", n, TRUE)}
  /\ shown' = Upsert(Surface, Row(Surface, "in", n, TRUE))
  /\ excused' = excused \ {n}
  /\ UNCHANGED <<controls, routed, tagging, clearing, used>>

SurfaceTextArrives(n) ==
  /\ Taken(Surface, n)
  /\ store' = store \cup {Row(Surface, "in", n, FALSE)}
  /\ shown' = Upsert(Surface, Row(Surface, "in", n, FALSE))
  /\ excused' = excused \ {n}
  /\ UNCHANGED <<controls, routed, tagging, clearing, used>>

(* A thread's row is written, then tagged with its thread. *)
HiddenTextArrives(c, n) ==
  /\ c \in Hidden /\ Taken(c, n)
  /\ store' = store \cup {Row(Nowhere, "in", n, FALSE)}
  /\ tagging' = {[row |-> Row(Nowhere, "in", n, FALSE), chat |-> c]}
  /\ UNCHANGED <<shown, controls, routed, clearing, used, excused>>

(* Then the event: a thread that is not open does not take it. *)
HiddenTextTagged ==
  /\ \E tag \in tagging :
       LET untagged == {r \in store : r.chat = Nowhere /\ RowId(r) = RowId(tag.row)}
       IN  /\ store' = (store \ untagged) \cup {[r EXCEPT !.chat = tag.chat] : r \in untagged}
           /\ shown' = IF tag.chat \in routed
                       THEN Upsert(tag.chat, [tag.row EXCEPT !.chat = tag.chat]) ELSE shown
  /\ tagging' = {}
  /\ UNCHANGED <<controls, routed, clearing, used, count, excused>>

(* The messages a change may name.  One that names no message leaves its   *)
(* seq and nothing else, as ControlArrives does.                           *)
Named == {KeyOf(r) : r \in store \cup shown[Surface]}

(* A mutant: the row is looked up by the peer's direction, not ours. *)
ChangeArrivesUnflipped(n) ==
  /\ Taken(Surface, n)
  /\ \E change \in Changes, key \in Named :
       /\ store' = Changed(change, <<IF key[1] = "in" THEN "out" ELSE "in", key[2]>>)
       /\ shown' = Redrawn(change, key)
  /\ controls' = controls \cup {n} /\ excused' = excused \ {n}
  /\ UNCHANGED <<routed, tagging, clearing, used>>

(* A mutant: a deletion's own seq is not recorded. *)
ChangeArrivesUncounted(n) ==
  /\ Taken(Surface, n)
  /\ \E change \in Changes, key \in Named :
       /\ store' = Changed(change, key)
       /\ shown' = Redrawn(change, key)
       /\ controls' = IF change = "delete" THEN controls ELSE controls \cup {n}
  /\ excused' = excused \ {n}
  /\ UNCHANGED <<routed, tagging, clearing, used>>

(* An edit, a deletion or a reaction of the peer's: the message it names   *)
(* may be anyone's, as nothing checks whose it is.                         *)
ChangeArrives(n) ==
  /\ Taken(Surface, n)
  /\ \E change \in Changes, key \in Named :
       /\ store' = Changed(change, key)
       /\ shown' = Redrawn(change, key)
  /\ controls' = controls \cup {n} /\ excused' = excused \ {n}
  /\ UNCHANGED <<routed, tagging, clearing, used>>

(* A timer or a verification frame: only its seq shows. *)
ControlArrives(n) ==
  /\ Taken(Surface, n)
  /\ controls' = controls \cup {n} /\ excused' = excused \ {n}
  /\ UNCHANGED <<store, shown, routed, tagging, clearing, used>>

(* A control of the shadow invites: the coordinator's, and not even its seq. *)
InviteControlArrives(n) ==
  /\ Taken(Surface, n)
  /\ excused' = excused \cup ({n} \ got)
  /\ UNCHANGED <<store, shown, controls, routed, tagging, clearing, used>>

----------------------------------------------------------------------------
(* What the user does. *)

(* This phone's texts so far, counted for their bound. *)
Typed == UNION {{c} \X (1..used[c]) : c \in Places}

(* send: an own text opens its thread. *)
TypeText(c) ==
  /\ Cardinality(Typed) < MaxTyped
  /\ used' = [used EXCEPT ![c] = @ + 1]
  /\ Count(<<"out", NextSeq(used, c)>>)
  /\ LET r == Row(c, "out", NextSeq(used, c), FALSE)
     IN  store' = store \cup {r} /\ shown' = Upsert(c, r)
  /\ routed' = routed \cup ({c} \cap Hidden)
  /\ UNCHANGED <<controls, tagging, clearing, excused>>

(* react, editMessage, deleteMessage: on a message of the open screen; the *)
(* app names no thread.                                                    *)
ChangeMessage(c, r, change) ==
  /\ r \in shown[c]
  /\ change # "react" => r.dir = "out"
  /\ store' = Changed(change, KeyOf(r))
  /\ shown' = Redrawn(change, KeyOf(r))
  /\ UNCHANGED <<controls, routed, tagging, clearing, used, count, excused>>

OpenHidden(c) ==
  /\ c \notin routed
  /\ routed' = routed \cup {c}
  /\ UNCHANGED <<store, shown, controls, tagging, clearing, used, count, excused>>

(* A surface message expires, or was shown once: runPurge, markViewed.     *)
(* One of a repeated number may no longer be on the screen.                *)
Purge(r) ==
  /\ r \in store /\ r.chat = Surface /\ ~r.lost
  /\ store' = store \ {r}
  /\ LET gone == {x \in shown[Surface] : RowId(x) = RowId(r)}
     IN  /\ shown' = [shown EXCEPT ![Surface] = @ \ gone]
         /\ excused' = excused \cup {x.seq : x \in {y \in gone : y.dir = "in"}}
  /\ UNCHANGED <<controls, routed, tagging, clearing, used, count>>

(* clearConversationHistory reads the peer's rows, those of its threads    *)
(* with them, then purges them; then the screen is emptied.                *)
ClearSurface ==
  /\ store # {} /\ clearing = {} /\ tagging = {}
  /\ clearing' = {RowId(x) : x \in store}
  /\ UNCHANGED <<store, shown, controls, routed, tagging, used, count, excused>>

SurfaceCleared ==
  /\ clearing # {} /\ tagging = {}
  /\ store' = {x \in store : RowId(x) \notin clearing}
  /\ shown' = [shown EXCEPT ![Surface] = {}]
  /\ controls' = {} /\ excused' = got /\ clearing' = {}
  /\ UNCHANGED <<routed, tagging, used, count>>

(* A row with an error and no text is an error again, deleted or not. *)
Again(r) == IF r.dir = "in" /\ r.lost /\ r.text = "none" THEN NewRow(r.chat, "in", r.seq, r.nth, TRUE) ELSE r

(* The rows are replayed from the oldest on, so that of each key the last  *)
(* one is shown.                                                           *)
Replayed(rows) == {Again(r) : r \in Lasts(rows)}

(* A mutant: the rows are restored without a look at their seq. *)
RestoredUnpartitioned ==
  [c \in Places |-> Replayed({x \in store : c = Surface \/ x.chat = c})]

(* reduceRowsToState over partitionPersistedRows. *)
Restored ==
  [c \in Places |-> Replayed({x \in store : IF c = Surface THEN x.seq < Offset
                                            ELSE x.seq >= Offset /\ x.chat = c})]

RelaunchChat ==
  /\ shown' = Restored
  /\ routed' = Hidden
  /\ excused' = excused \cup controls
  /\ controls' = {} /\ tagging' = {} /\ clearing' = {}
  /\ UNCHANGED <<store, used, count>>

ChatNext ==
  \/ \E c \in Places : TypeText(c) \/ \E n \in SeqsOf(c) : UndecryptableArrives(c, n) \/ HiddenTextArrives(c, n)
  \/ \E n \in SeqsOf(Surface) :
       SurfaceTextArrives(n) \/ ChangeArrives(n) \/ ControlArrives(n) \/ InviteControlArrives(n)
  \/ HiddenTextTagged
  \/ \E c \in Places : \E r \in shown[c], change \in Changes :
       ChangeMessage(c, r, change)
  \/ \E c \in Hidden : OpenHidden(c)
  \/ \E r \in store : Purge(r)
  \/ ClearSurface \/ SurfaceCleared \/ RelaunchChat

ChatSpec == ChatInit /\ [][ChatNext]_chatVars

----------------------------------------------------------------------------
(* Properties. *)
ChatTypeOK ==
  LET Kept == [chat : Places \cup {Nowhere}, dir : {"in", "out"}, seq : Numbers, nth : Nat \ {0},
               lost : BOOLEAN, text : {"none", "first", "second"}, deleted : BOOLEAN, liked : BOOLEAN]
  IN  /\ store \subseteq Kept /\ clearing \subseteq Keys \X (Nat \ {0})
      /\ shown \in [Places -> SUBSET Kept]
      /\ routed \subseteq Hidden
      /\ tagging \subseteq [row : Kept, chat : Hidden] /\ Cardinality(tagging) <= 1
      /\ used \in [Places -> 0..MaxTyped]
      /\ count \in [Keys -> Nat]
      /\ controls \subseteq got /\ excused \subseteq got

(* What the surface chat shows of a message is what a relaunch will find:  *)
(* the row it shows is stored, and the reducer and the store have made the *)
(* same of every change, in whatever order changes of both sides come      *)
(* (persistent-store.ts:497, conversation-reducer.ts), unless the number   *)
(* came to the message from the peer, and more than once.  Error entries   *)
(* are left out, they come back undeleted.                                 *)
ShownIsStored ==
  \A r \in shown[Surface] : r.seq < Offset /\ ~r.lost =>
    \E x \in store : RowId(x) = RowId(r) /\ (x = r \/ (r.dir = "in" /\ count[KeyOf(r)] > 1))

(* A gap is shown before a message only if the message before it has not   *)
(* arrived, or has been purged or forgotten, or was a shadow invite's.     *)
GapsExplained == \A s \in MissingBefore : s < Offset => s - 1 \notin got \ excused

(* No text of a shadow thread is ever shown in the surface chat, live or   *)
(* restored, tagged or not (conversation-rehydration.ts:113).              *)
NoShadowOnSurface == \A r \in shown[Surface] : r.chat = Surface
=============================================================================
