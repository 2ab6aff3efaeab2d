# Chit-Chat: a TLA+ verification

Chit-Chat is an end-to-end encrypted messenger: a NestJS backend (several
nodes behind Redis), a platform-neutral client core (`packages/crypto`), and a
mobile and a web application over that core. This directory holds TLA+ modules
translated from the code, the TLC configurations that check them on small
instances, and TLAPS proofs of what matters most for every instance.

Paths below are relative to the repository; `B/` stands for
`apps/backend/src/`, `C/` for `packages/crypto/src/`, `M/` for `apps/mobile/`.
`PROJECT.json` maps every definition to the lines it translates.

## 1. Inventory

| Component | State | Operations | Correct when |
|---|---|---|---|
| Realtime gateway `B/realtime/realtime.gateway.ts` | `connections`, `nodeSubscription`, one `isAlive`/`connId` per socket | handshake, heartbeat, disconnection, inbound frame, node channel, queue flush | a dead socket leaves every registry; a handshake drains the queue; no established socket misses a message |
| Relay `B/messaging/message-relay.service.ts` | none of its own | `relay`, `relayTyping`, `deliverLocal` | an acknowledged envelope is delivered, on its way or stored |
| Offline queue `B/messaging/offline-queue.service.ts` | Redis list per user | `enqueue`, `drain` | at most once, bounded, hints never stored |
| Presence and socket registries `B/redis/presence-registry.service.ts`, `B/messaging/local-socket-registry.ts` | Redis hash per user; map per node | add, remove, lookup | agree with the sockets that exist |
| Realtime client `C/realtime-client.ts` | phase, status, live attempt, handle, four timers, refresh in flight | `connect`, `disconnect`, `reconnectNow`, transport events, timers | its status is true; it never gets stuck; it obeys `disconnect` |
| Outbox `C/messaging.ts` | `pending` map, ack timers, async dispatches | `send`, `sendAttachment`, `retryMessage`, controls, ack, deadline, flush | one transmission per encryption; no false `sent`; no eternal spinner |
| Inbound `C/messaging.ts` (`onEnvelope`) | one chain of frames per peer | texts, reactions, edits, deletions, timers, verification, invites, what cannot be read | each frame leaves store and screen consistent |
| Vault `M/src/crypto/persistent-store.ts` | document in memory, blob, key, write chain | `read`, `mutate`, `release`, `wipe` | a resolved write survives |
| Conversation `C/conversation-reducer.ts`, `-rehydration.ts`, `-registry.ts` | message list per thread | append, status, control payloads, gaps, rehydrate, clear | shows what the store holds; nothing hidden on the surface; gaps are real |
| Mobile shell `M/App.tsx`, `M/src/app/chat-controller.ts` | conversations, open chat, recipient, app mode, restores in flight | open, search, hide, lock, unlock, clear, delete, retry, sign out | what is hidden is not listed; a send goes where the open chat says |
| App lock `C/app-lock.ts`, `C/lockout-policy.ts`, `M/src/app/secure-gate.ts` | verifiers, failed attempts | unlock, reveal, set a PIN | guessing is limited whichever way is used; hidden features follow the lock |
| Disappearing messages (`C/messaging.ts`, `C/disappearing-timer.ts`) | expiry stamps, one purge timer | stamp, purge, re-arm, prime | what has expired is deleted |
| Shadow chat and invites `C/shadow-*.ts` | secrets, threads, invites in memory and in the store | create, accept, decline, revoke, PIN, search | consent before use; both sides agree; revoked is final |
| Verification `C/identity-verification.ts`, `C/biometric-attestation.ts` | seeds, challenges, badges | request, answer, check, enrol, challenge, prove | a badge has a reason |
| Prekeys `B/keys/`, `B/devices/`, `B/database/transaction.service.ts` | device and prekey rows in PostgreSQL | register, claim, replenish | a row is granted once; senders claim the keys of the phone in use |
| Registrar and identity `C/device-registrar.ts`, `C/identity-manager.ts`, the bootstrap of `M/src/app/chat-controller.ts` | identity and device id in the vault, setup phase on the screen | generate, register with retries and one refresh, reuse, sign out | a phone registers once and keeps its identity; registration ends; registered means published |
| Admission `B/auth/`, `B/redis/token-cache.service.ts`, `B/redis/rate-limiter.service.ts` | cached verdicts, windows | verify, cache, hit | an expired token is refused; the limit holds |
| Sessions `C/session-manager.ts`, `C/libsignal-puretsignal.ts`, `M/src/crypto/persistent-store.ts` | known devices; sessions, identities and prekeys in the vault | look up, establish, encrypt, decrypt | what is sent to a phone can be read there |
| Sign-in `C/auth-service.ts`, directory, push, web application | see section 6 | | |

**Interaction.** A client core opens a WebSocket through `RealtimeClient`; the
gateway authenticates it, writes its presence entry to Redis and drains the
user's offline list to it. `Messaging` encrypts, hands frames to
`RealtimeClient`, and waits for the server's ack. The gateway gives each
frame to the relay, which looks the recipient up in Redis and either publishes
to the Redis channels of the nodes that hold the recipient or appends to the
recipient's list. Each node pushes what its channel brings to its local
sockets. `Messaging` decrypts what arrives, writes it through the vault, and
emits events that the shell feeds to the reducers of its conversations. The
controller builds vault, gate, registrar and `Messaging` in its bootstrap and
drops them at a retry or a sign-out; the lock decides the app mode, which shell
and invite coordinator each keep a copy of.

**What is hard.** Every await of the handshake is a point at which the socket
may close and other handshakes and relays go on; Redis is shared by nodes that
crash independently and keeps what they wrote; the client has overlapping
attempts whose events, timers and token refreshes arrive in any order; the
outbox has several async functions per message, an in-memory map that dies with
the process and a store that does not; a registration is repeated when its
answer is lost, beside claims of the rows it replaces, and nothing cancels a
bootstrap when the user signs out or taps retry. On the phone, unlocking,
searching, restoring and hashing are asynchronous, and the lock, the open chat
and the session may change under each of them; row and thread association are
two writes; one timeout serves every expiring message; two vaults may share one
key and blob. Between phones, control messages are best-effort: they are
dropped without a word when anything goes wrong, ignored by a locked phone, and die
with a process. Message numbers identify rows, acks and retries and are not unique:
threads share them, and a peer that signs out counts from one again. `PROJECT.json` lists 40
hazards with their lines, and the properties that watch them.

## 2. Modules

| Module | Models | Checked by | Proved in |
|---|---|---|---|
| `Mailbox` | abstract: what the backend promises of the frames clients send each other | as a property of `relay_devices` | `RelayProofs` |
| `Relay` | gateway, relay, offline queue, registries, over several nodes and one Redis | `relay_devices`, `relay_faults`, `relay_acked_dropped` | `RelayProofs` |
| `RealtimeClient` | the client's connection | `client_connection`, `client_status` | `RealtimeClientProofs` |
| `Delivery` | abstract: what a sender is promised of a message | as a property of `outbox` | `OutboxProofs` |
| `Outbox` | the sending half of `Messaging`, with the vault's write chain | `outbox`, `outbox_relaunch` | `OutboxProofs` |
| `PreKeys` | the backend's device and prekey rows: registration and claim as transactions | through `Enrolment` | `PreKeysProofs` |
| `Enrolment` | the phone's bootstrap, retry, sign-out and death, over an instance of `PreKeys` | `enrolment`, `peers`, `enrolment_reused_keys`, `enrolment_sign_out` | `EnrolmentProofs` |
| `AppLock` | verifiers, lockout, the modes of shell and controller | `phone` | `PhoneProofs` |
| `ChatShell` | the container of the mobile screens | `phone` | `PhoneProofs` |
| `Conversation` | one conversation's rows and what its screens show | `phone` | `PhoneProofs` |
| `Vanish` | disappearing messages | `phone` | `PhoneProofs` |
| `Vault` | the encrypted store | `phone` | `PhoneProofs` |
| `ShadowInvites` | shadow invites between two phones | `peers` | `PeersProofs` |
| `Verification` | rotating code and presence proof between two phones | `peers` | `PeersProofs` |
| `Admission` | token verification, its cache, the rate limit | `peers` | `PeersProofs` |
| `Sessions` | the protocol sessions between phones, over crossing sends and frames | `peers` | `PeersProofs` |
| `SequenceLemmas` | facts about appends, tails, suffixes, concatenation without duplicates | | itself |
| `MCRelay`, `MCRealtimeClient`, `MCOutbox`, `MCEnrolment`, `MCPhone`, `MCPeers` | the instances | | |

`MCPhone` and `MCPeers` put several components beside each other. Each
component's variables are its own, and a variable `focus`, chosen at the start,
says which of them moves: a behaviour of the run is a behaviour of one
component with the others at rest, and the state space is the sum of theirs. The
interactions that matter are inside the modules (two phones, a store and a screen,
a bootstrap and the backend).

The definitions whose comment begins "Mutant" or "A mutant" are the same
operation with a plausible mistake in it. No specification uses them; putting
one in the place of the operation it imitates makes a named property fail,
which is how we know that the property watches that operation.

### Relay

One action per await of `handleConnection`: `Connect` (token read), `Refuse`
or `Admit` (verification and rate limit), `AddPresence` (the HSET executes),
`EnsureSubscribed`/`SubscribeSucceeds`/`SubscribeFails` (one promise shared by
the node's handshakes), `Enrol` (the last synchronous block: heartbeat set,
local registry, listeners), `Drain` (LRANGE and DEL in one transaction) and
`Flush`. `Close` may fall between any two of them; `handleDisconnect` is
`Deregister` plus the HDEL, which executes later (`RemovePresence`). `hs[s]` is
the program counter of the handshake and `wire[s]` the transport as the server
sees it: `halfOpen` is a peer that is gone without a close frame, which only the
heartbeat finds.

A frame `m` passes `Lookup` (validation and the HGETALL), then one `Publish` per
node or one `Enqueue`, then `Ack`. Whether it is an envelope or a typing hint is
chosen at the lookup. `channel[n]` is a node's FIFO of published messages;
`Deliver` is `handleNodeMessage`. A `Publish` to a channel without subscriber
disappears, as in Redis. `Crash` takes everything a process held and leaves what
it wrote to Redis; `Restart` brings the node back under the same id, as the
compose file does.

Left out: the content of envelopes, close codes, the last-seen key, push
notifications, and the re-established connection of the Redis driver.
`witnesses[m]` is history: the recipient's sockets that were established when
`m` was looked up.

### Mailbox

The backend seen from outside, as if there were one process and no Redis: a frame is
fresh, stored, or live (on its way), and a connection holds what it took and has what
it was sent. A frame goes one way only. `Start` makes it live, and `Push` sends it to
connections of its recipient that never had it; or `Store` keeps it, at the cost of
older ones at the limit but never of itself, and one connection takes (`Take`)
everything stored for its user, without a repetition, and is sent it once in that
order (`HandOver`) or not at all. `Lose` is everything that may go wrong: it takes
frames away and sends nothing. `Relay` implements it with the mapping `Promise` at
its end. A lookup that finds the recipient's nodes is `Start`, the delivery of a node
is `Push`; a publication changes nothing unless it was the last and nobody subscribes,
which is `Lose`, like a crash, a refusal, an expiry and the ack that ends the handling of a
frame. What `Mailbox` does not say is that nothing is lost: `NoLiveLoss` and the
liveness properties say when.

### RealtimeClient

`client` is the record of the class's fields, one field per timer; `wire[a]`
tells the socket of attempt `a` from what the client believes of it. An attempt
whose socket is `zombie` was dropped without an event. `StartAttempt` is an
operator on the record because five handlers call it, and it contains the
branches of `startAttempt`: auto-reconnect off, no token, `open` throws, or a
socket opening. `Close` includes what follows it: idle, backoff or token
refresh (`AfterClose`, from `classifyReconnect`). `refreshing` counts the
refreshes in flight: a second 4401 can start another one while the first is
unanswered. Frames are not modelled except the ping, which arms a deadline.

### Outbox

A message stands for its row id; attempt `<<m, i>>` is its `i`-th dispatch.
`number[m]` is its (recipient, seq), chosen at the start from `Numberings`: it keys
the pending map, the acks and a retry's search for its row, and two shadow threads
with one peer both number from 10^9 + 1 (`messaging.ts:515`), so it need not be one-to-one. `task` is the program counter of the attempt's async
function: `uploading`, `saving` (awaiting the vault), `sealing` (awaiting the
session and the encryption), `done`. `entry` and `timers` are the pending map
and its ack deadlines; an entry without deadline is `queued`.

A vault `mutate` changes the document at once and then waits for its turn to be
written: `row` is the document, `writes` the write chain, `image` what the head
is writing, `disk` the blob. What follows an awaited write (the event to the
screen, the dispatch) is part of `Saved`. `Relaunch` keeps `disk` and shows it
as rehydration does: a row still `sending` is shown as `failed`.

A number means that an entry may replace another message's (`Pend`, which leaves the
deadline of the replaced one armed for nothing: `displaced`), that an ack settles
whichever entry has its number (`Ack`), and that a tap on one message may send the
row of another again, whose screen is then not told (`astray`). `Transmit` may be
refused what it hands over: the socket raced to closed and `send` throws while the
status is still `connected`. What is refused stays queued and without deadline, as
`transmit`'s catch leaves it and `messaging.test.ts:364` tests; `thrown` remembers it
for as long as that socket is there. What is not refused with it goes out.

Abstractions: the awaits of `dispatch` (sender, session, claim, encryption) are
one, which succeeds or fails; which row of a number a retry finds first is left open; the allocation of the seq is part of `Send`, since
a failure rejects before anything is shown and a crash merely skips a number;
a retry's read and flip are one step, since vault reads resolve in microtasks,
before another tap is handled. Not modelled: expiry, view-once, purge,
clear, dispose, the row of a misconfigured shadow chat.

### PreKeys and Enrolment

`PreKeys` is the backend's side, by itself: it takes any request from anybody.
A registration is `Receive`, then `Refuse` or `Begin` (`startTransaction`, which
fixes `now()`), `Replace` (the four statements of `registerDevice`, done and not
yet committed), then `CommitRegistration` or `AbortRegistration`. A claim is
`Resolve` (device and signed prekey), `Pick` (the locking SELECT), then
`CommitClaim` or `AbortClaim`. What READ COMMITTED lets each statement see, and
which row locks make it wait or skip, is in the guards and in `Free`. A
registration deletes the prekey rows and inserts new ones, so a row is a device,
a batch number and a key id: the same public key can be in two rows.

`Enrolment` is the phone. `pc[b]` is the program counter of bootstrap `b`:
`generating`, `savingIdentity`, `between` two requests (the backoff, the
refresh), `awaiting` an answer, `savingDevice`, and how it ended. `Open` is
`bootstrap` up to its first long await. A bootstrap is never cancelled: after
`SignOut`, or beside the one that retry has opened, it runs on with a vault of
its own, and only `live` is the controller's. `blob` is what is stored; `cached`
and `doc` are what a vault has in memory: `Read` hydrates it from the blob when
it has been released or wiped, and `Mutate` changes it at once and stores all of it
when the write is done (`IdentitySaved`, `DeviceSaved`). A `Timeout` leaves the
request under way: it may still commit, after later ones.

Abstractions: sign-out is one step; the retry budget may be over at any time;
the rest of the document, the data-encryption key and a blob that cannot be
decrypted are left out; two identities never draw the same registration id; the
DELETE and the INSERT of a replacement are one step, which no other transaction
can tell apart. `addOneTimePreKeys` is left out because no client calls it.

### Delivery

The status the sender sees of each message and the set of messages the server
has accepted. A message is attempted (again) only when it is new or failed;
`sent` needs acceptance; a process death keeps `sent` and makes `sending` fail or,
at best, `sent`. `Outbox` implements it with the mapping `Delivery` instance at
its end: the status is the screen's, and a message counts as accepted when the
server has accepted its number. That is all an ack tells the sender; `OwnNumberOwnAck`
(section 5) says that it is the message itself where numbers differ.

### AppLock

`pins` and `tally` are the vault's; `tally[a]` counts the failures of age `a`,
since ages are all `evaluateLockout` looks at. An attempt (`unlock` or
`revealHiddenChat`) is three steps: `Begin` looks at the lockout, `Hashed` writes
the outcome of the hash, `Answer` takes the answer to the screen.
Several may be in flight: the screens' busy flag is cleared before the hash is
done. `shell` is `App.tsx`'s mode with its effects; `inviteMode` is the
controller's copy, which gates shadow invites. Setup, retry, sign-out, relaunch
and a missing gate are actions. A PIN hash matches exactly its PIN.

### ChatShell

The container's state in `App.tsx` with the store and controller fields it
depends on. Restoring the surface chats, listing the hidden peers, restoring
shadow threads, searching and picking a photo are started by one action and end in
another; lock, hide, clear, delete, revoke and the end of a session fall in
between. A text is an identity whose row remembers the chat it belongs to.
`threadIds` is what the screen believes to be shadow, `registry` what the
renderer routes. Clearing, deleting and purging act on both rows and screen as
the handlers do.

### Conversation

One peer, its surface chat and its threads. Frames carry a seq of the surface
counter or of a thread's, which starts at `Offset`; a peer's frames are handled
one after another, in any order and possibly never. Any number may come again:
the peer signed out or installed anew and counts from one, two of its threads share
it, or a frame came twice and could not be decrypted. `count` is how often, and `nth` the
identity of a row among those of its key. The store looks rows up by key and takes
the first (`Firsts`), the screen keeps the last (`Upsert`), and a relaunch shows the
last (`Lasts`). A change of the peer's may name any message: nothing in the code checks
that an edit or a deletion names one of its own. `store` holds rows,
`shown` the reducers' messages, `controls` the seqs of frames that show nothing.
A thread's row is written and then tagged (`tagging`); clearing reads rows and
then purges them (`clearing`). A relaunch rehydrates from `store`.
`computeMissingBefore` is `MissingBefore`. Formatting, timestamps and read state are
left out; content changes are three kinds (edit, delete, react). `Apply` is what both
the store's functions and the reducer's cases do to one row or message, which agree
case by case: a deleted one takes no edit and no reaction.

### Vanish

`due` is `expiresAt`, `watched` the `expiring` map, `alarm` the single timeout,
`purges` the purges whose write is under way, `timer` and `ttl` the conversation's
setting on disk and in memory. `runPurge` takes what is due at that moment and
re-arms for the rest; the write behind it may fail. Launch reads the rows and
primes timers in two independent asynchronous steps.

### Vault

A document is the set of changes made to it. `call[u]` is one `mutate`: waiting
for the hydration, queued, reading the key, sealing, writing. `hydrating` is the
shared promise of a vault object, rejected for good when it fails; `chain` the
promise chain of writes; `wiping` the three awaits of `wipe`. Several vault
objects share one key and one blob, as an abandoned bootstrap's and its
successor's do. `orderly` is history: until it becomes false, no two documents
were in use and nothing was under way beside a wipe. What the vault promises
without that is finding 5's subject.

### ShadowInvites

Two phones; an invite and its thread are one value because the thread's id is
derived from the key the invite carries. Creating, accepting, setting a PIN and
revoking are split at their hash or between their two writes (`doing`). `mode` is
what `resolveMode` answers: a phone that is locked or in decoy mode ignores
control messages. `out` is what is on its way from each phone, in order. `Lose`
takes any message out of it at any time: `sendControl` returns without a word when
nobody is signed in, the peer has no bundle or the encryption fails, its ack timeout
removes the entry silently, and the server may drop what it acknowledged (finding 1,
the queue's limit). `PhoneDies` loses what was not handed over, with the RAM of
coordinator and app. Nothing is sent again. `revokedBy` and `missed` are history:
`missed` holds the invites whose acceptance was lost, or came to a phone that ignored it.

### Verification

Two phones, one step of the clock per code period. Control frames arrive in
order or not at all; while a phone's owner is prompted, later frames of the peer
wait. Codes are pairs of seed and step, proofs are challenges: signatures and
digits are injective. The duress code differs from the normal one in nothing that
the code acts on, since no caller ever sets a trusted contact.

### Admission

One user and one surface. A request passes the cache read, Firebase, the cache
write and the limiter, each of which may be answered, fail or be given up; a
command that was given up may still be executed up to `Lag` steps later. The
limiter's Lua script is one step, as in Redis. `passed`, which `RateBounded` is about,
is what Redis itself let through: while the limiter cannot reach Redis the code lets
every request in, and those are not counted.

### Sessions

People, each with one install at a time: installing anew gives a new device id, a
new identity and new prekeys, and the old sessions are gone. A send is a record
whose `stage` is the await it is in: `load` (`hasSession` reads the vault),
`claim`, `bundle`, `establish`, `encrypt`; any number overlap. The address is
resolved from `knownDevices` when `hasSession` and when `encrypt` is called, and
an envelope that arrives in between may have changed it. A frame carries its
session, whether its sender has had an answer in it (`fresh`: it is a prekey
message) and the prekey it was started with. It arrives in any order or never; an
envelope is `read` while the engine decrypts it.

The protocol library is external. What the module takes from it: a new session
becomes the open one of its address and the old ones stay readable; a prekey
message starts a session and uses its one-time prekey up; a message that is
decrypted ends the prekey form of its session; an untrusted identity is refused. Its
calls for one address are done one after another, so each is a step. Left out:
the ratchet within a session, duplicate frames (the relay sends an envelope to a
socket at most once), the library's limit on archived sessions, a vault that
fails, a registration repeated with the same keys (finding 4), and a sign-out with sends in flight, which goes
on in the old vault (finding 5's subject). A frame to an install that was replaced
is lost, and its sender is told it was sent: the property speaks of the install
that is there.

## 3. Runs

| Run | Instance | Shows |
|---|---|---|
| `relay_devices` | sender and two devices of the recipient, two nodes, one stored and one new frame, queue limit 1, no failures, the sender's socket stays open (1.12 million states) | the refinement of `Mailbox`; nothing reaches a socket twice, under every interleaving |
| `relay_faults` | sender and one device on different nodes, one failure of any of eight kinds | nothing published is lost to an established socket; a socket whose peer is gone is forgotten; the next handshake takes what is queued |
| `relay_acked_dropped` | one message, no failures | **violated**: see findings |
| `client_connection` | three overlapping attempts, two refreshes in flight | the status is true when it says connected; the client is never stranded, never leaves a promise, obeys `disconnect`, and no handshake hangs |
| `client_status` | the same | **violated**: see findings |
| `outbox` | two messages with different numbers or one number, one retry each (with one number: of the first), one process death, one socket that refuses sends, store failures for one of them (478,345 states) | the refinement of `Delivery`; one dispatch per message at a time, no `sent` without an accepted number and none that a relaunch takes back, no ownerless spinner, nothing queued on a connection that did not refuse it, one transmission per attempt, `sending` ends |
| `outbox_relaunch` | the same, no store failures | **violated**: see findings |
| `enrolment` | two bootstraps, three requests, one sign-out or death, no claims | the registered phone is the one senders find, a phone keeps its identity until it signs out, every bootstrap ends |
| `enrolment_reused_keys` | one bootstrap, two requests, two claims of one key | **violated**: see findings |
| `enrolment_sign_out` | two bootstraps, one request, one sign-out | **violated**: see findings |
| `phone` | the five parts of one phone, each alone (1.51 million states) | `Kept`: a resolved change is in the blob; `GuessesBounded`, `InvitesFollowLock`: the lock; `ShadowNeverListed`, `TargetFollowsOpen`: the container (no step but a reveal parts the open chat from the recipient); `ShownIsStored`, `GapsExplained`, `NoShadowOnSurface`: a conversation whose numbers come again; `DueIsWatched`: expiry |
| `peers` | invites, verification, sessions, claims and admission, each alone (1.18 million states) | `RowGrantedOnce`: claims; `Consent`, `AgreeUnlessMissed`, `RevokeIsFinal`: invites; `VerifiedByAnswer`, `PresenceIsLive`: badges; `RateBounded`, `OutlivesByLagOnly`: admission; `Readable`: sessions |

**Bounds and why they are enough.** The relay has one recipient: recipients
share nothing in the code but the node's subscription, and per-user state is a
function of the uid. Two devices on two nodes are the least with a fan-out, and
one of them shares the sender's node; a limit of one makes the second queued
envelope trim the first. The constraint `SenderStays` cuts off what follows the close of
the sender's socket: its one frame is the only thing it adds, a frame in handling
does not ask for its sender's socket before the ack, and `relay_faults` has the
close. One failure at a time is the claim; combined failures
are within the reach of the safety proofs, which have no bound. Three attempts
let two orphans coexist with a live one: the client tells attempts apart only
by being live or not. Two messages are the least that an ack can be attributed
wrongly to, or that can share a number; with one number the second is not retried
(`MCNext`), which leaves its entry, its ack and its row to be taken for the first's; one
refusing socket can refuse any of what it is handed; one retry covers a late ack of the first attempt during the second;
one relaunch suffices because a relaunch forgets everything but the blob.
Two bootstraps are the least in which an abandoned one meets its successor, and
two identities the least with a newest row; three requests let a late one
overtake a retry while the other bootstrap has one as well. Two keys and two
claims are the least that a lock can be missed by; key ids decide the order in
which rows are taken and are not symmetric, the claims are.

`phone`. Lock: two failures trip it, a window of one tick and a lockout of two (the
code's are 10 and 30 minutes), two attempts in flight, one PIN.
Shell: two peers, one of them with a thread, one text, one search or picker in
flight: the handlers tell at most the chat that is open from the one that acts.
Conversation: three surface seqs, one thread seq, three frames, one own text and
deletions, enough for a gap, its late filling, a control that fills it, and a number
that comes twice and is changed after; edits and reactions, of which the store and the
screen make the same by the same `Apply`, are in the proofs only. Vanish: two rows, lives of one and two, so that a later row may be due
earlier. Vault: one object, two changes, two hydrations and two keys; a release and a
new hydration give one object two documents, which is what two objects add. `peers`:
one invite, at most two messages under way per phone; a skew and a freshness of
one step, two seeds or challenges, a clock of two steps; one token, a limit of two
in windows of two, commands late by one, two requests in flight. Sessions: one
one-time prekey, so that a second claim finds none; three sends, the least with two
first messages that cross and a third in whichever session is open by then; one
relaunch or new install. Claims are here between two bootstraps' requests without a
sign-out or death, which `enrolment` has without claims; `RowGrantedOnce` is
proved of both. The two phones and the claims are symmetric. The proofs have none of these bounds.

**Fairness.** `Relay`: a reply that Redis or the verifier owes to a handshake
or a disconnection arrives (the Redis clients are configured with
`maxRetriesPerRequest: null` and the verifier has a 5 s budget), and the
heartbeat interval keeps firing. Nothing is assumed of clients, restarts or the
relaying itself. `RealtimeClient`: armed handshake, pong and backoff timers fire.
`Outbox`: HTTP calls and store writes end (each request has a timeout), armed
ack timers fire, a lost connection comes back, and a socket that refuses a send is
lost: it refuses because it is closing, and its close event follows; nothing is
assumed of acks.
`Enrolment`: weak fairness of each bootstrap as a whole: key generation and
storage calls return, a request is answered or times out after 10 s, and the
retry budget is finite. Nothing is assumed of the backend or of the user.
The other modules state safety only and assume none: what they would promise
eventually depends on a user, a peer or a relaunch.

**Deadlock.** The client can always be told to connect, so its run checks
deadlock. In `Relay`, `Outbox` and `Enrolment` every socket may be closed, every
message settled and every bootstrap ended, and in `phone` and `peers` every
message used and the clock at its bound: they may stop.

## 4. Findings

1. **An acknowledged message can be dropped while the recipient is
   connecting** (`relay_acked_dropped`). `handleConnection` adds the presence entry
   (line 226) before the subscription (227) and the local registration (250). A
   relay that looks the recipient up in between publishes into nothing and acks.
   The offline queue's header describes exactly this outcome as what it removes.
2. **An open socket with status `disconnected`** (`client_status`). A 4401 starts
   a refresh; `reconnectNow` opens another socket meanwhile; the refresh then
   starts an attempt of its own without closing that socket. It stays open, the
   server keeps delivering to it, and its frames are ignored.
3. **A message interrupted by a process death can never be re-sent**
   (`outbox_relaunch`). It is shown as failed, with "tap to retry"; its stored
   status is `sending`, so `retryMessage` does nothing.
4. **A claimed one-time prekey is published again** (`enrolment_reused_keys`).
   `replaceOneTimePreKeys` deletes the consumed rows with the rest and inserts the
   payload's keys. When the answer to a committed registration is lost, the
   client repeats it with the same payload (or, after a relaunch, with the same
   stored identity), and a key claimed in between is handed to a second sender.
   The recipient deletes the private half with the first message and cannot read
   the second sender's. The row lock does what it should (`RowGrantedOnce`); the
   guarantee the service's header draws from it does not follow.
5. **A sign-out during registration leaves a device id behind**
   (`enrolment_sign_out`). The vault's `released` flag is never read: the abandoned
   bootstrap's `saveDeviceId` writes a new blob after the wipe, with a device id and
   no identity. The next sign-in generates an identity, finds both, and reports
   itself registered without a request; senders claim keys nobody holds.
   `RegisteredIsNewest` says what holds when no unregistered phone is signed out.

**Divergences met while modelling, without a run of their own.** What holds
instead is in the models and their properties; these are for the reader of the
code.

- *Timers.* What arrives after a relaunch before timers are primed, or in a
  conversation without surviving rows, gets no expiry (`C/messaging.ts:390`
  says the timer applies); a shadow thread's timer purges nothing (`:736`).
- *Cache.* An entry can outlive its token by the time its write was late
  (`token-cache.service.ts:67` says never); `OutlivesByLagOnly` is what holds.
- *Lock.* A lockout ends when the failures that tripped it leave the window, after at most 10
  minutes and not 30: `evaluateLockout` drops them (`C/lockout-policy.ts:59`)
  before it looks at the lockout's length, and the test asks only at its start and
  after 31 minutes (`:47` says it lasts `lockoutMs`). Failures later
  than the clock are ignored, so a clock that is set back lifts a lockout.
- *Numbers.* A shadow control takes a surface seq and reports none
  (`messaging.ts:1399`), and a purged row's seq is forgotten by a relaunch
  (`conversation-reducer.ts:547`): both show a gap where nothing is missing.
- *Shared numbers.* Two threads with one peer number their texts alike
  (`messaging.ts:515`), although the pending key is said to be "disjoint across
  surface/shadow ..., so ack matching is correct for both" (`:829`). Between two
  threads it is not: the later entry replaces the earlier, whose message stays sending
  until a relaunch; one ack marks the other message sent; and a tap on a failed
  message may send the other thread's row again. `SentIsAcceptedAndSaved` and
  `SpinnerHasOwner` say what is left.
- *Numbers that come again.* A peer that signed out or installed anew counts from one,
  and (peer, direction, seq) then names two rows (`persistent-store.ts:219`). The store
  applies an edit or a deletion to the old row and the screen to the new one, so a
  relaunch undoes a deletion the user has seen. `ShownIsStored` excepts what came from
  the peer under a number that came more than once, and nothing else.
- *Shell.* A revealed hidden chat is shown without telling the controller
  (`M/App.tsx:929`): what is typed in it goes to the previous recipient, or to
  nobody. A photo goes to the recipient of the moment the picker closes. A search
  that answers after the app was locked opens its chat in whatever mode the app is
  in by then, although decoy mode reveals nothing (`:828`). An edit draft survives
  a change of the open chat, because the screen has no key, and is applied to the
  other chat's message.
- *Clear.* It takes the rows of the peer's threads as well
  (`M/src/app/clear-chat.ts:24`), and a message that arrives between its read and its
  event is shown again only after a relaunch.
- *Rehydration.* It drops creation time, view-once mark and attachment
  (`M/src/app/chat-controller.ts:1133` says it is byte for byte the live state); a
  crash between a row's write and its association leaves a shadow row that no
  thread shows.
- *Invites.* The acceptance is sent once: when it is dropped, the invited side uses a
  thread for which the inviter waits for good, and neither is told
  (`C/shadow-invite-coordinator.ts:268`). A peer's revoke leaves the card and the entry in memory; a PIN
  change that ends after a revoke writes the alias back; something can be typed in a thread
  before the peer accepts, where the code speaks of queueing (`C/shadow-invite-coordinator.ts:98`).
- *Verification.* Two crossing requests leave two seeds
  (`messaging.ts:1551`); any response uses the challenge up; the trusted contact
  has no caller, so a duress answer alerts nobody.
- *Sessions.* `knownDevices` is in memory only: after a relaunch `hasSession`
  answers false for a stored session (`session-manager.ts:100`) and the next send
  claims another prekey; two concurrent first sends establish twice
  (`messaging.ts:796`). `Readable` says that nothing becomes unreadable by it.
- *Sign-in and sign-out.* A token that answers after the sign-out is cached again
  (`firebase-auth.adapter.ts:74`); sign-out awaits the push revocation and then
  wipes whatever vault is current (`chat-controller.ts:1337`); after a code that
  failed the screen says to request a new one and offers no way to.
- *Vault.* A hydration that failed stays failed until the next launch
  (`persistent-store.ts:377`); a write that sealed before a wipe leaves a blob that
  the next key cannot open.

## 5. Proofs

TLAPS proves the following for all values of the constants that satisfy the
modules' named assumptions (ownership maps are functions, bounds are naturals,
the initial queues are within the limit and without duplicates, the markers such
as `Nobody`, `Nowhere`, `NoPin` are none of the values they stand beside, a peer's
hidden threads are finitely many, and a lockout is at least as long as the window, as
in `DEFAULT_LOCKOUT_POLICY`, the only policy the code uses). TLC evaluates
every one of these assumptions in some run.

`RelayProofs`. `NoLiveLoss`, `AtMostOnce` and `QueuedIsUndelivered` are
not inductive: they say where a frame may be, not why. The inductive invariant
is the conjunction of `Shape` (typing, and hints never queued), `Custody` (at most
one place can still hand an envelope to a given socket; gives the last two) and
`Routing` (handshakes, registries and channels; gives the first). It
adds that the registries agree with the handshake (an established socket is in
its node's local registry and in presence), that a frame is at most once in
all of queue, batches and inboxes and in no more channels than it was published
to, that the targets still to be published to, the channels and the inboxes are
disjoint per node, and that a frame that has been published was not queued. Its
sequence reasoning rests on `SequenceLemmas`.

`RelayProofs` also shows that `Relay` implements `Mailbox` (`ImplementsMailboxHolds`),
one lemma per action that moves a frame; all others leave the mapping
alone. `Custody` carries it: a list has no repetition and holds only its
user's frames, so a drain takes exactly what is stored for the user; a channel has
nothing in common with the inboxes of its node, so a delivery is new to every socket
it reaches; a frame not yet looked up is in no channel, so `Start` takes it from one
side to the other. `Idle` adds that what waits for its RPUSH is to be published nowhere.

`RealtimeClientProofs`. The invariant is the conjunction of typing, `Usable` (what
`connected`, the live attempt and the handle have to do with each other),
`Moving` (what is under way in each phase) and `Obeying` (what a deliberate
disconnection leaves behind). `QuietAfterDisconnect`, an action property,
follows from it step by step.

`OutboxProofs`. The invariant is typing, `Dispatching` (for one message: before its
first row there is no trace of it in the store, a row that is `sent` or `failed`
has no attempt left, and the attempts exclude each other; gives `OneInFlight`
together with `OnePending`: of the messages of a number one is pending), `Storing`
(a write in the chain is awaited by exactly one attempt, what is `sent` has a number
the server has accepted, and `sent`, once in the document, stays in every later image
and blob; gives `SentIsAcceptedAndSaved`) and `Transmitting` (an attempt handed to the
transport is done, and waits for its deadline while it is pending; gives
`TransmittedOnce`). `QueuedMeansOffline` and `SpinnerHasOwner` are inductive relative
to these. No assumption is made of the numbering. `OwnNumberOwnAck` is the corollary for
one that is one-to-one: then `sent` means that this very message was accepted.

`PreKeysProofs`. `RowGrantedOnce` is about keys already granted and is not
inductive. `Locks` says why it holds: the key of a claim that has yet to commit is
an unconsumed row of the published batch and no registration is deleting it (the
DELETE waits for the lock, and a claim skips the rows of a DELETE); the key of a
committed claim is consumed for as long as its batch is the published one.
`PickedRowIsPublished` is a consequence of it.

`EnrolmentProofs`. Every step of `Enrolment` is a step of `PreKeys` or leaves its
variables alone (`ImplementsPreKeys`), so the theorems of `PreKeys` carry over
unchanged. `KeepsIdentity` needs `Alone` (until a sign-out only the live bootstrap
works: retry needs a failure on the screen, and only the live one can put it
there) and `Agrees` (what that one has in memory, in the blob and in its payload is
one identity, or the blob has none and nothing was ever sent).

`OutboxProofs` also shows that `Outbox` implements `Delivery`
(`ImplementsDeliveryHolds`). The step needs `Shown`: what the screen shows of a message
while a write about it is under way (`Awaited`) and while it is encrypted or
pending (`Visible`), and that what is shown as sending has a row in the blob
(`Kept`). Of a retry that went astray the screen is told nothing, so there it says
that no spinner is shown, unless a write that ends an earlier attempt has yet to tell (`Told`).

`EnrolmentProofs` proves `RegisteredIsNewest` from `Steady`: until an unregistered
phone is signed out, only the live bootstrap works, what it holds in memory, in the
blob and in its request is one identity (`Held`), a request of an older one has
nothing left to insert, and the row of the stored identity is the newest (`Rows`).

`PhoneProofs`. `LockInv`: each attempt in flight carries a verdict that fits its
kind, and the controller's mode is the shell's or locked. `GuessInv` gives
`GuessesBounded`: within the window the log agrees with the history that is never
pruned, because pruning takes what is older than both window and lockout, and the failures
in the window and the attempts being hashed are together fewer than the limit plus the
attempts in flight. Only a `Begin` that found the lock open adds one that is hashed, and it
is then that a failure within the window has to mean a lockout, hence the
assumption that the lockout covers the window. `ShellInv`: typing and
`ShadowNeverListed`, which every step keeps by itself; `TargetFollowsOpen` is an
action property. `ChatInv`: what is below the offset belongs to the surface (`Apart`), a
key and a place among the rows of that key name one row (`Numbered`), every message on
the surface chat has that row in the store (`Backed`), what was received and is not
excused is a control or is shown (`Accounted`); `ShownIsStored` and `GapsExplained` follow. `ChatInv` gives the
typing of a conversation as well (`ChatTypeCorrect`).
`VanishInv`: `DueIsWatched` is inductive with the typing; that a timeout early
enough exists needs the least due time of a set, by well-founded induction.
`VaultInv`: where each call stands (`Placed`), that what is in memory was opened (`CachedOpen`), and while
`orderly`: one document is in use (`OnlyLast`), every image sealed holds what the
blob holds and is under the stored key (`Current`), and a wipe erases when nothing
else is under way (`WipeAlone`).

`PhoneTypeCorrect` and `PhoneCorrect` are about the composition `PhoneSpec`, as
`PeersTypeCorrect` and `PeersCorrect` are about `PeersSpec`: a behaviour of the composition is a
behaviour of each part's specification (`PhonePartsLemma`, `PeersPartsLemma`), so each
part's theorems hold of it, whatever the others do, and together they are what
the runs `phone` and `peers` check.

`PeersProofs`. `InviteInv` says of every invite which combinations of records,
messages and calls exist (unborn, one-sided, consented, ...); `Consent`,
`RevokeIsFinal` and `AgreeUnlessMissed` are consequences. `VerifyInv`: a frame on the
line is backed by a code that was sent or a proof that was given, and no prompt is
from the future. `AdmissionInv`: a cache write that is late is late by at most
`Lag`. `RateInv`: two windows do not overlap, so `Span` steps meet at most two.
`SessionsInv`: `Readable` says that a frame can be decrypted now; that it stays so
needs what the two vaults have to do with each other. A session with the install
somebody has now has its other end there, or can still be started there
(`KeptSound`), and so does every frame (`FramesSound`). The second alternative
ends when its prekey is used up, so the rest of the invariant says that each
one-time prekey has a single holder: one send, then one session of one person and
its frames (`OneHolder`, `HeldIsUnused`, `OneSession`, `FrameOfSession`,
`FramesOfOne`), because it is not offered again (`Claimed`).

**Only model-checked.** The liveness properties (`GoneIsForgotten`,
`NextConnectDrains`, `HandshakeEnds`, `SendingEnds`, `RegistrationEnds`), which are
out of the prover's reach, and the five violated statements, which are false. Every
other property of the passing runs is proved. `QueuedIsUndelivered` is the
reverse: proved, and in no run, where the refinement says more.

## 6. Not modelled

- **The protocol library**, the safety number and the secret stores'
  cryptography: what `Sessions` relies on is said there. Seal and open elsewhere
  are awaits that succeed or fail.
- **Sign-in** (`C/auth-service.ts`, the Firebase adapters, the sign-in screen): two
  calls of Firebase in sequence; the resend limit has no caller. The token and
  its refresh are in `RealtimeClient` and `Enrolment`.
- **Push notifications, directory and presence service, health, metrics,
  configuration**: a call sent and forgotten, single statements, reports. No state
  of the protocol depends on them.
- **Web application**: the same core over an in-memory store, without lock,
  persistence and most of the shell.
- **Screens**: composers, sheets, scrolling, layout. What a screen asks of the
  controller is an action of `ChatShell`, `AppLock` or `ShadowInvites`.
- **Backoff**: a pure function of the attempt; `RealtimeClient` lets the timer fire
  at any time.
- **A store that fails while a frame is handled**: the frame is lost, which
  `Conversation` has as a frame that never comes.
- **Combined failures** of Redis and of the phone's storage are within the safety
  proofs where the actions allow them, and outside the liveness runs.

The map covers the protocol state of core, backend and mobile container; most
of the remaining lines are screens, mock-ups, the web application, data types,
port interfaces, adapters and cryptography.
