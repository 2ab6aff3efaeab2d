----------------------------- MODULE ChatShell -----------------------------
(***************************************************************************)
(* The container of the mobile screens: which conversations it holds, which *)
(* one is open, which peer the controller sends to, and what restoring,     *)
(* hiding, shadow threads, locking and clearing do to them.                 *)
(*                                                                         *)
(* A conversation is known by an id: a peer's for a surface chat, a        *)
(* thread's for a shadow chat.  A message is an identity; its row in the   *)
(* store carries the conversation it was sent or received in (the shadow   *)
(* rows' in the row-to-thread association).                                *)
(***************************************************************************)
EXTENDS Naturals, FiniteSets

CONSTANTS
  Peers,        \* the contacts
  Threads,      \* the shadow threads
  ThreadPeer,   \* the contact of each thread
  Texts,        \* messages, each sent or received once
  MaxSearching, \* bound on the searches and pickers in flight
  Nobody        \* no peer, no chat, no row

ASSUME ShellAssumption ==
  /\ ThreadPeer \in [Threads -> Peers]
  /\ Peers \cap Threads = {} /\ Nobody \notin Peers \cup Threads

Chats == Peers \cup Threads
PeerOf(c) == IF c \in Threads THEN ThreadPeer[c] ELSE c

VARIABLES
  rowOf,       \* the store: the chat of each persisted row
  keys,        \* the store: the threads whose record is active
  secrets,     \* the gate: the peers whose chat is hidden
  stack,       \* the controller's setup: "registering", "ready", "failed"
  target,      \* the controller's activeRecipient
  screen,      \* the container's conversations: what each shows
  listed,      \* the ids of the container's conversations
  open,        \* openChatId
  appMode,     \* appMode; null is "locked"
  hiddenPeers, \* hiddenPeers
  threadIds,   \* shadowThreadIds
  registry,    \* the threads open in the render registry
  restored,    \* the two refs that make a restore run once
  loading,     \* the restores and the list of hidden peers on their way
  searching    \* the searches and the photo picker in flight

shellVars == <<rowOf, keys, secrets, stack, target, screen, listed, open, appMode,
               hiddenPeers, threadIds, registry, restored, loading, searching>>

Blank == [c \in Chats |-> {}]

ShellInit ==
  /\ rowOf = [m \in Texts |-> Nobody]
  /\ keys = {} /\ secrets = {}
  /\ stack = "registering" /\ target = Nobody
  /\ screen = Blank /\ listed = {} /\ open = Nobody
  /\ appMode = "real" /\ hiddenPeers = {} /\ threadIds = {}
  /\ registry = {} /\ restored = {} /\ loading = {} /\ searching = {}

(* A text that has not been used. *)
Unused(m) == rowOf[m] = Nobody /\ \A c \in Chats : m \notin screen[c]

RowsIn(c) == {m \in Texts : rowOf[m] = c}

(* The mode changed: the effect forgets the hidden peers, or asks for them; *)
(* one that is under way is cancelled.                                     *)
ModeEffect(mode) ==
  /\ appMode' = mode
  /\ hiddenPeers' = IF mode = "locked" THEN {} ELSE hiddenPeers
  /\ loading' = {r \in loading : r.kind # "hidden"} \cup
                (IF mode = "locked" THEN {} ELSE {[kind |-> "hidden", threads |-> {}]})

----------------------------------------------------------------------------
(* Launch, setup, the end of a session. *)
RelaunchApp ==
  /\ stack' = "registering" /\ target' = Nobody
  /\ screen' = Blank /\ listed' = {} /\ open' = Nobody
  /\ appMode' = "locked" /\ hiddenPeers' = {} /\ threadIds' = {}
  /\ registry' = {} /\ restored' = {} /\ loading' = {} /\ searching' = {}
  /\ UNCHANGED <<rowOf, keys, secrets>>

(* Ready starts the restore of the surface chats, once a session. *)
SetupDone ==
  /\ stack = "registering"
  /\ \/ /\ stack' = "failed"
        /\ UNCHANGED <<loading, restored>>
     \/ /\ stack' = "ready"
        /\ loading' = loading \cup
             (IF "surface" \in restored THEN {} ELSE {[kind |-> "surface", threads |-> {}]})
        /\ restored' = restored \cup {"surface"}
  /\ UNCHANGED <<rowOf, keys, secrets, target, screen, listed, open, appMode, hiddenPeers,
                 threadIds, registry, searching>>

(* The retry banner is on the tabs only; teardown forgets the recipient. *)
TapRetry ==
  /\ stack = "failed" /\ open = Nobody /\ appMode # "locked"
  /\ stack' = "registering" /\ target' = Nobody
  /\ UNCHANGED <<rowOf, keys, secrets, screen, listed, open, appMode, hiddenPeers, threadIds,
                 registry, restored, loading, searching>>

(* signOut: the restore of shadow threads stays done; so does the registry. *)
LeaveSession ==
  /\ open = Nobody /\ appMode # "locked"
  /\ rowOf' = [m \in Texts |-> Nobody] /\ keys' = {} /\ secrets' = {}
  /\ stack' = "registering" /\ target' = Nobody
  /\ screen' = Blank /\ listed' = {} /\ threadIds' = {}
  /\ restored' = restored \ {"surface"}
  /\ ModeEffect("locked")
  /\ UNCHANGED <<open, registry, searching>>

(* The stored surface rows join the chats that are not there yet.         *)
SurfaceRestored(r) ==
  /\ r \in loading /\ r.kind = "surface"
  /\ loading' = loading \ {r}
  /\ LET new == {p \in Peers \ listed : RowsIn(p) # {}}
     IN  /\ listed' = listed \cup new
         /\ screen' = [c \in Chats |-> IF c \in new THEN RowsIn(c) ELSE screen[c]]
  /\ UNCHANGED <<rowOf, keys, secrets, stack, target, open, appMode, hiddenPeers, threadIds,
                 registry, restored, searching>>

(* loadShadowConversations, once the app is in real mode and set up. *)
RestoreThreads ==
  /\ appMode = "real" /\ stack = "ready" /\ "shadow" \notin restored
  /\ restored' = restored \cup {"shadow"}
  /\ loading' = loading \cup {[kind |-> "shadow", threads |-> keys]}
  /\ UNCHANGED <<rowOf, keys, secrets, stack, target, screen, listed, open, appMode, hiddenPeers,
                 threadIds, registry, searching>>

ThreadsRestored(r) ==
  /\ r \in loading /\ r.kind = "shadow"
  /\ loading' = loading \ {r}
  /\ registry' = registry \cup r.threads
  /\ threadIds' = threadIds \cup r.threads
  /\ LET new == r.threads \ listed
     IN  /\ listed' = listed \cup new
         /\ screen' = [c \in Chats |-> IF c \in new THEN RowsIn(c) ELSE screen[c]]
  /\ UNCHANGED <<rowOf, keys, secrets, stack, target, open, appMode, hiddenPeers,
                 restored, searching>>

HiddenListed(r) ==
  /\ r \in loading /\ r.kind = "hidden"
  /\ loading' = loading \ {r}
  /\ hiddenPeers' = secrets
  /\ UNCHANGED <<rowOf, keys, secrets, stack, target, screen, listed, open, appMode, threadIds,
                 registry, restored, searching>>

----------------------------------------------------------------------------
(* Locking and unlocking (the PIN itself is AppLock's). *)
LockApp ==
  /\ appMode # "locked"
  /\ open' = Nobody
  /\ ModeEffect("locked")
  /\ UNCHANGED <<rowOf, keys, secrets, stack, target, screen, listed, threadIds, registry,
                 restored, searching>>

UnlockApp ==
  /\ appMode = "locked"
  /\ \E mode \in {"real", "decoy"} : ModeEffect(mode)
  /\ UNCHANGED <<rowOf, keys, secrets, stack, target, screen, listed, open, threadIds, registry,
                 restored, searching>>

----------------------------------------------------------------------------
(* Opening chats. *)
Tabs == appMode # "locked" /\ open = Nobody

(* openChat: a row of the list, or a new chat whose number was looked up. *)
OpenChat(p) ==
  /\ Tabs /\ p \notin hiddenPeers
  /\ listed' = listed \cup {p}
  /\ target' = p /\ open' = p
  /\ UNCHANGED <<rowOf, keys, secrets, stack, screen, appMode, hiddenPeers, threadIds, registry,
                 restored, loading, searching>>

Back ==
  /\ open # Nobody
  /\ open' = Nobody
  /\ UNCHANGED <<rowOf, keys, secrets, stack, target, screen, listed, appMode, hiddenPeers,
                 threadIds, registry, restored, loading, searching>>

(* onSearch: the alias of a thread, else the secret of a hidden chat. *)
Search(c) ==
  /\ Tabs /\ appMode = "real"
  /\ c \in keys \cup secrets /\ Cardinality(searching) < MaxSearching
  /\ searching' = searching \cup {[what |-> "chat", chat |-> c]}
  /\ UNCHANGED <<rowOf, keys, secrets, stack, target, screen, listed, open, appMode, hiddenPeers,
                 threadIds, registry, restored, loading>>

(* A mutant: the thread is shown without telling the controller. *)
ShowThreadUntargeted(t) ==
  /\ registry' = registry \cup {t}
  /\ threadIds' = threadIds \cup {t}
  /\ listed' = listed \cup {t}
  /\ open' = t
  /\ UNCHANGED target

(* openShadowThreadLocal. *)
ShowThread(t) ==
  /\ registry' = registry \cup {t}
  /\ threadIds' = threadIds \cup {t}
  /\ listed' = listed \cup {t}
  /\ target' = ThreadPeer[t]
  /\ open' = t

(* A search ends, whatever happened to the lock meanwhile; a revealed chat *)
(* is shown without telling the controller.                                *)
Found(s) ==
  /\ s \in searching /\ s.what = "chat"
  /\ searching' = searching \ {s}
  /\ IF s.chat \in Threads
     THEN ShowThread(s.chat)
     ELSE /\ open' = s.chat
          /\ UNCHANGED <<registry, threadIds, listed, target>>
  /\ UNCHANGED <<rowOf, keys, secrets, stack, screen, appMode, hiddenPeers, restored, loading>>

(* An invite was accepted on either side: the thread becomes active and is *)
(* shown, over whatever chat was open.                                     *)
ThreadAccepted(t) ==
  /\ stack = "ready" /\ appMode = "real" /\ t \notin keys
  /\ keys' = keys \cup {t}
  /\ ShowThread(t)
  /\ UNCHANGED <<rowOf, secrets, stack, screen, appMode, hiddenPeers, restored, loading,
                 searching>>

(* Revoked here or by the peer: record, rows and conversation go. *)
ThreadRevoked(t) ==
  /\ stack = "ready" /\ appMode = "real" /\ t \in keys
  /\ keys' = keys \ {t}
  /\ rowOf' = [m \in Texts |-> IF rowOf[m] = t THEN Nobody ELSE rowOf[m]]
  /\ registry' = registry \ {t}
  /\ threadIds' = threadIds \ {t}
  /\ listed' = listed \ {t}
  /\ screen' = [screen EXCEPT ![t] = {}]
  /\ open' = IF open = t THEN Nobody ELSE open
  /\ UNCHANGED <<secrets, stack, target, appMode, hiddenPeers, restored, loading, searching>>

----------------------------------------------------------------------------
(* Messages. *)

(* A mutant: a live message does not mark its thread as shadow. *)
RenderUntagged(c, m, own) ==
  IF c \in Threads /\ c \notin registry /\ ~own
  THEN UNCHANGED <<screen, listed, threadIds, registry>>
  ELSE /\ screen' = [screen EXCEPT ![c] = @ \cup {m}]
       /\ listed' = listed \cup {c}
       /\ UNCHANGED threadIds
       /\ registry' = IF c \in Threads THEN registry \cup {c} ELSE registry

(* An event for chat c reaches the container; one for a thread the registry *)
(* does not know is dropped, unless it is our own first message.           *)
Render(c, m, own) ==
  IF c \in Threads /\ c \notin registry /\ ~own
  THEN UNCHANGED <<screen, listed, threadIds, registry>>
  ELSE /\ screen' = [screen EXCEPT ![c] = @ \cup {m}]
       /\ listed' = listed \cup {c}
       /\ IF c \in Threads
          THEN threadIds' = threadIds \cup {c} /\ registry' = registry \cup {c}
          ELSE UNCHANGED <<threadIds, registry>>

Receive(c, m) ==
  /\ stack = "ready" /\ Unused(m)
  /\ c \in Threads => c \in keys
  /\ rowOf' = [rowOf EXCEPT ![m] = c]
  /\ Render(c, m, FALSE)
  /\ UNCHANGED <<keys, secrets, stack, target, open, appMode, hiddenPeers, restored, loading,
                 searching>>

(* send and sendAttachment: typed in chat c, it goes to the controller's   *)
(* recipient, in the thread if c is one.  Without a stack or a recipient   *)
(* it is dropped.                                                          *)
Dispatch(c, m) ==
  IF stack # "ready" \/ target = Nobody
  THEN UNCHANGED <<rowOf, screen, listed, threadIds, registry>>
  ELSE LET d == IF c \in Threads THEN c ELSE target
       IN  /\ rowOf' = [rowOf EXCEPT ![m] = d]
           /\ Render(d, m, TRUE)

Type(m) ==
  /\ open \in listed /\ appMode # "locked" /\ Unused(m)
  /\ Dispatch(open, m)
  /\ UNCHANGED <<keys, secrets, stack, target, open, appMode, hiddenPeers, restored, loading,
                 searching>>

(* onAttach: the chat is noted, the picker covers the app. *)
Attach ==
  /\ open \in listed /\ appMode # "locked" /\ Cardinality(searching) < MaxSearching
  /\ searching' = searching \cup {[what |-> "photo", chat |-> open]}
  /\ UNCHANGED <<rowOf, keys, secrets, stack, target, screen, listed, open, appMode, hiddenPeers,
                 threadIds, registry, restored, loading>>

Picked(s, m) ==
  /\ s \in searching /\ s.what = "photo" /\ Unused(m)
  /\ searching' = searching \ {s}
  /\ Dispatch(s.chat, m)
  /\ UNCHANGED <<keys, secrets, stack, target, open, appMode, hiddenPeers, restored, loading>>

(* A view-once message is shown and purged. *)
View(m) ==
  /\ open \in listed /\ m \in screen[open] /\ stack = "ready" /\ target # Nobody
  /\ rowOf' = [rowOf EXCEPT ![m] = Nobody]
  /\ LET d == IF open \in Threads THEN open ELSE target
     IN  screen' = [screen EXCEPT ![d] = @ \ {m}] /\ listed' = listed \cup {d}
  /\ UNCHANGED <<keys, secrets, stack, target, open, appMode, hiddenPeers, threadIds, registry,
                 restored, loading, searching>>

(* A row's time is up; the row of a shadow thread is never given a time. *)
Expire(m) ==
  /\ stack = "ready" /\ rowOf[m] \in Peers
  /\ rowOf' = [rowOf EXCEPT ![m] = Nobody]
  /\ screen' = [screen EXCEPT ![rowOf[m]] = @ \ {m}]
  /\ listed' = listed \cup {rowOf[m]}
  /\ UNCHANGED <<keys, secrets, stack, target, open, appMode, hiddenPeers, threadIds, registry,
                 restored, loading, searching>>

----------------------------------------------------------------------------
(* The actions of the open chat's menu; all in real mode. *)
Menu(c) == appMode = "real" /\ open = c /\ c \in listed

Hide(p) ==
  /\ Menu(p)
  /\ secrets' = secrets \cup {p}
  /\ hiddenPeers' = hiddenPeers \cup {p}
  /\ open' = Nobody
  /\ UNCHANGED <<rowOf, keys, stack, target, screen, listed, appMode, threadIds, registry,
                 restored, loading, searching>>

Unhide(p) ==
  /\ Menu(p)
  /\ secrets' = secrets \ {p}
  /\ hiddenPeers' = hiddenPeers \ {p}
  /\ UNCHANGED <<rowOf, keys, stack, target, screen, listed, open, appMode, threadIds, registry,
                 restored, loading, searching>>

(* clearConversationHistory selects the rows whose remoteUid is the peer's: *)
(* a shadow row has its peer's too.                                        *)
Cleared(c) ==
  [m \in Texts |-> IF rowOf[m] # Nobody /\ (rowOf[m] = c \/ PeerOf(rowOf[m]) = c)
                   THEN Nobody ELSE rowOf[m]]

ClearChat(c) ==
  /\ Menu(c)
  /\ rowOf' = Cleared(c)
  /\ screen' = [screen EXCEPT ![c] = {}]
  /\ UNCHANGED <<keys, secrets, stack, target, listed, open, appMode, hiddenPeers, threadIds,
                 registry, restored, loading, searching>>

DeleteChat(p) ==
  /\ Menu(p)
  /\ rowOf' = Cleared(p)
  /\ secrets' = secrets \ (hiddenPeers \cap {p})
  /\ hiddenPeers' = hiddenPeers \ {p}
  /\ screen' = [screen EXCEPT ![p] = {}]
  /\ listed' = listed \ {p}
  /\ open' = Nobody
  /\ UNCHANGED <<keys, stack, target, appMode, threadIds, registry, restored, loading, searching>>

ShellNext ==
  \/ RelaunchApp \/ SetupDone \/ TapRetry \/ LeaveSession \/ RestoreThreads
  \/ \E r \in loading : SurfaceRestored(r) \/ ThreadsRestored(r) \/ HiddenListed(r)
  \/ LockApp \/ UnlockApp \/ Back \/ Attach
  \/ \E p \in Peers : OpenChat(p) \/ Hide(p) \/ Unhide(p) \/ DeleteChat(p)
  \/ \E c \in Chats : Search(c) \/ ClearChat(c)
  \/ \E s \in searching : Found(s)
  \/ \E t \in Threads : ThreadAccepted(t) \/ ThreadRevoked(t)
  \/ \E m \in Texts :
       \/ Type(m) \/ View(m) \/ Expire(m)
       \/ \E c \in Chats : Receive(c, m)
       \/ \E s \in searching : Picked(s, m)

ShellSpec == ShellInit /\ [][ShellNext]_shellVars

----------------------------------------------------------------------------
(* Properties. *)
ShellTypeOK ==
  /\ rowOf \in [Texts -> Chats \cup {Nobody}]
  /\ keys \subseteq Threads /\ secrets \subseteq Peers
  /\ stack \in {"registering", "ready", "failed"}
  /\ target \in Peers \cup {Nobody}
  /\ screen \in [Chats -> SUBSET Texts] /\ listed \subseteq Chats
  /\ open \in Chats \cup {Nobody}
  /\ appMode \in {"locked", "real", "decoy"}
  /\ hiddenPeers \subseteq Peers /\ threadIds \subseteq Threads /\ registry \subseteq Threads
  /\ restored \subseteq {"surface", "shadow"}
  /\ loading \subseteq [kind : {"surface", "shadow", "hidden"}, threads : SUBSET Threads]
  /\ searching \subseteq [what : {"chat", "photo"}, chat : Chats]

(* A shadow thread never stands in the list of chats or contacts, whichever *)
(* of a restore, an accept or a live message brought it (App.tsx:217).      *)
ShadowNeverListed == listed \cap Threads \subseteq threadIds

Aimed == open = Nobody \/ target = PeerOf(open)

(* The open chat's peer is whom the controller sends to: no step parts the *)
(* two but a reveal (App.tsx:929).                                         *)
TargetFollowsOpen ==
  [][Aimed /\ ~Aimed' =>
       \E s \in searching : s.what = "chat" /\ open' = s.chat /\ s.chat \in Peers]_shellVars
=============================================================================
