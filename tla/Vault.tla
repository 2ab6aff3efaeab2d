------------------------------- MODULE Vault -------------------------------
(***************************************************************************)
(* The encrypted store of a phone: one document, loaded once per vault     *)
(* object, kept in memory, and sealed and written as a whole after every   *)
(* change, with a key of its own in secure storage.                        *)
(*                                                                         *)
(* A document is the set of changes made to it.  Every bootstrap builds a  *)
(* vault object over the same key and blob, and nothing stops the calls of *)
(* an earlier one.                                                         *)
(***************************************************************************)
EXTENDS Naturals, Sequences, FiniteSets

CONSTANTS
  Vaults,    \* the vault objects of a process
  Updates,   \* what is done to the document, each by one call of mutate
  MaxLoads,  \* bound on the hydrations in one process
  MaxKeys    \* bound on the data-encryption keys ever minted

ASSUME VaultAssumption == {MaxLoads, MaxKeys} \subseteq Nat

VARIABLES
  secured,    \* the key in secure storage, 0 for none
  sealed,     \* the blob: the key it is sealed with, 0 for none, and its document
  minted,     \* how many keys there have been
  loads,      \* the hydrations of this process and the documents they became
  cached,     \* the document in each vault's memory, 0 for none
  hydrating,  \* the hydration its calls share, 0 for none
  chain,      \* writeChain
  call,       \* each call of mutate: its progress, its document, key and image
  wiping,     \* each vault's wipe and the writes it waits for
  orderly     \* history: no two documents, and no wipe and later call, have overlapped

vaultVars ==
  <<secured, sealed, minted, loads, cached, hydrating, chain, call, wiping, orderly>>

NoBlob == [key |-> 0, of |-> {}]
Call(stage) == [stage |-> stage, load |-> 0, key |-> 0, image |-> {}]
NoWipe == [stage |-> "none", for |-> {}]

AllIdle ==
  /\ loads = << >>
  /\ cached = [v \in Vaults |-> 0] /\ hydrating = [v \in Vaults |-> 0]
  /\ chain = [v \in Vaults |-> << >>] /\ wiping = [v \in Vaults |-> NoWipe]

VaultInit ==
  /\ secured = 0 /\ sealed = NoBlob /\ minted = 0
  /\ AllIdle
  /\ call = [c \in Updates |-> Call("new")]
  /\ orderly = TRUE

Working(c) == call[c].stage \in {"opening", "queued", "minting", "storing"}
Loading(h) == loads[h].stage \in {"key", "mint", "blob"}
Erasing(v) == wiping[v].stage = "erasing"
NoWipes == \A v \in Vaults : wiping[v] = NoWipe

(* Nothing but v's queued writes is under way on this blob, and, but for   *)
(* v, no document is in memory.                                            *)
Alone(v) ==
  /\ \A c \in Updates : call[c].stage # "opening"
  /\ \A h \in DOMAIN loads : ~Loading(h)
  /\ \A w \in Vaults \ {v} : chain[w] = << >> /\ cached[w] = 0 /\ hydrating[w] = 0
  /\ NoWipes

----------------------------------------------------------------------------
(* ready: the document in memory, or the hydration that is under way or    *)
(* has failed, or a new one.                                               *)
Hydrate(v) ==
  /\ cached[v] = 0 /\ hydrating[v] = 0
  /\ Len(loads) < MaxLoads
  /\ hydrating' = [hydrating EXCEPT ![v] = Len(loads) + 1]
  /\ orderly' = (orderly /\ Alone(v) /\ chain[v] = << >>)

NewLoad(v, calls) == [vault |-> v, stage |-> "key", key |-> 0, doc |-> {}, calls |-> calls]

(* read: it changes nothing but may be the first to need the document. *)
Read(v) ==
  /\ Hydrate(v)
  /\ loads' = Append(loads, NewLoad(v, << >>))
  /\ UNCHANGED <<secured, sealed, minted, cached, chain, call, wiping>>

(* mutate up to its first await that takes time. *)
MutateCached(c, v) ==
  /\ call[c].stage = "new" /\ cached[v] # 0
  /\ loads' = [loads EXCEPT ![cached[v]].doc = @ \cup {c}]
  /\ chain' = [chain EXCEPT ![v] = Append(@, c)]
  /\ call' = [call EXCEPT ![c].stage = "queued", ![c].load = cached[v]]
  /\ orderly' = (orderly /\ NoWipes)
  /\ UNCHANGED <<secured, sealed, minted, cached, hydrating, wiping>>

MutateFirst(c, v) ==
  /\ call[c].stage = "new" /\ Hydrate(v)
  /\ loads' = Append(loads, NewLoad(v, <<c>>))
  /\ call' = [call EXCEPT ![c].stage = "opening", ![c].load = Len(loads) + 1]
  /\ UNCHANGED <<secured, sealed, minted, cached, chain, wiping>>

MutateJoining(c, v) ==
  LET h == hydrating[v] IN
  /\ call[c].stage = "new" /\ cached[v] = 0 /\ h # 0
  /\ IF loads[h].stage = "failed"
     THEN call' = [call EXCEPT ![c] = Call("failed")] /\ UNCHANGED loads
     ELSE /\ call' = [call EXCEPT ![c].stage = "opening", ![c].load = h]
          /\ loads' = [loads EXCEPT ![h].calls = Append(@, c)]
  /\ UNCHANGED <<secured, sealed, minted, cached, hydrating, chain, wiping, orderly>>

----------------------------------------------------------------------------
(* hydrate: loadOrCreateDek reads the key, and mints and stores one if     *)
(* there is none.                                                          *)
TakeKey(h) ==
  /\ loads[h].stage = "key"
  /\ IF secured # 0
     THEN /\ loads' = [loads EXCEPT ![h].stage = "blob", ![h].key = secured]
          /\ UNCHANGED minted
     ELSE /\ minted < MaxKeys
          /\ minted' = minted + 1
          /\ loads' = [loads EXCEPT ![h].stage = "mint", ![h].key = minted + 1]
  /\ UNCHANGED <<secured, sealed, cached, hydrating, chain, call, wiping, orderly>>

KeepKey(h) ==
  /\ loads[h].stage = "mint"
  /\ secured' = loads[h].key
  /\ loads' = [loads EXCEPT ![h].stage = "blob"]
  /\ UNCHANGED <<sealed, minted, cached, hydrating, chain, call, wiping, orderly>>

(* A hydration that has ended, and the document it ended with. *)
Ended(v, stage, doc) ==
  [vault |-> v, stage |-> stage, key |-> 0, doc |-> doc, calls |-> << >>]

Rejected(h) ==
  /\ loads' = [loads EXCEPT ![h] = Ended(@.vault, "failed", {})]
  /\ call' = [c \in Updates |->
                IF call[c].stage = "opening" /\ call[c].load = h
                THEN Call("failed") ELSE call[c]]
  /\ UNCHANGED <<cached, chain>>

(* The blob is read and opened: no blob is an empty document, and the      *)
(* calls that waited change the document and queue their writes.           *)
OpenBlob(h) ==
  LET v == loads[h].vault
      calls == loads[h].calls
  IN
  /\ loads[h].stage = "blob"
  /\ IF sealed.key \in {0, loads[h].key}
     THEN /\ loads' = [loads EXCEPT ![h] =
                         Ended(v, "open", sealed.of \cup {calls[i] : i \in DOMAIN calls})]
          /\ cached' = [cached EXCEPT ![v] = h]
          /\ chain' = [chain EXCEPT ![v] = @ \o calls]
          /\ call' = [c \in Updates |->
                        IF call[c].stage = "opening" /\ call[c].load = h
                        THEN [call[c] EXCEPT !.stage = "queued"] ELSE call[c]]
     ELSE Rejected(h)
  /\ UNCHANGED <<secured, sealed, minted, hydrating, wiping, orderly>>

(* The key or the blob cannot be read or stored: the promise is rejected,  *)
(* and every later call of this vault with it.                             *)
LoadFails(h) ==
  /\ Loading(h) /\ Rejected(h)
  /\ UNCHANGED <<secured, sealed, minted, hydrating, wiping, orderly>>

----------------------------------------------------------------------------
AtHead(c, v) == chain[v] # << >> /\ Head(chain[v]) = c

(* persist: the key is read again, and the document as it is then sealed   *)
(* with it; *)
Seal(c, v) ==
  /\ AtHead(c, v) /\ call[c].stage = "queued" /\ secured # 0
  /\ call' = [call EXCEPT ![c].stage = "storing", ![c].key = secured,
                          ![c].image = loads[call[c].load].doc]
  /\ UNCHANGED <<secured, sealed, minted, loads, cached, hydrating, chain, wiping, orderly>>

(* or there is none any more, and one is minted and stored first. *)
MintAgain(c, v) ==
  /\ AtHead(c, v) /\ call[c].stage = "queued" /\ secured = 0 /\ minted < MaxKeys
  /\ minted' = minted + 1
  /\ call' = [call EXCEPT ![c].stage = "minting", ![c].key = minted + 1]
  /\ UNCHANGED <<secured, sealed, loads, cached, hydrating, chain, wiping, orderly>>

SealAnew(c, v) ==
  /\ AtHead(c, v) /\ call[c].stage = "minting"
  /\ secured' = call[c].key
  /\ call' = [call EXCEPT ![c].stage = "storing", ![c].image = loads[call[c].load].doc]
  /\ UNCHANGED <<sealed, minted, loads, cached, hydrating, chain, wiping, orderly>>

(* The blob is written, the call resolves and the next write has its turn. *)
Store(c, v) ==
  /\ AtHead(c, v) /\ call[c].stage = "storing"
  /\ sealed' = [key |-> call[c].key, of |-> call[c].image]
  /\ chain' = [chain EXCEPT ![v] = Tail(@)]
  /\ call' = [call EXCEPT ![c] = Call("done")]
  /\ UNCHANGED <<secured, minted, loads, cached, hydrating, wiping, orderly>>

(* A mutant: mutate waits for the chain, which swallows what fails. *)
PersistFailsSwallowed(c, v) ==
  /\ AtHead(c, v)
  /\ chain' = [chain EXCEPT ![v] = Tail(@)]
  /\ call' = [call EXCEPT ![c] = Call("done")]
  /\ UNCHANGED <<secured, sealed, minted, loads, cached, hydrating, wiping, orderly>>

(* A step of persist fails: the call is rejected, the document keeps the   *)
(* change, and the chain goes on.                                          *)
PersistFails(c, v) ==
  /\ AtHead(c, v)
  /\ chain' = [chain EXCEPT ![v] = Tail(@)]
  /\ call' = [call EXCEPT ![c] = Call("failed")]
  /\ UNCHANGED <<secured, sealed, minted, loads, cached, hydrating, wiping, orderly>>

----------------------------------------------------------------------------
(* destroy: the vault forgets its document, and what is under way goes on. *)
Release(v) ==
  /\ cached[v] # 0 \/ hydrating[v] # 0
  /\ cached' = [cached EXCEPT ![v] = 0] /\ hydrating' = [hydrating EXCEPT ![v] = 0]
  /\ UNCHANGED <<secured, sealed, minted, loads, chain, call, wiping, orderly>>

(* wipe waits for the writes queued so far, *)
Wipe(v) ==
  /\ wiping[v] = NoWipe
  /\ wiping' = [wiping EXCEPT ![v] =
       [stage |-> "waiting", for |-> {chain[v][i] : i \in DOMAIN chain[v]}]]
  /\ orderly' = (orderly /\ Alone(v))
  /\ UNCHANGED <<secured, sealed, minted, loads, cached, hydrating, chain, call>>

(* removes the blob, *)
EraseBlob(v) ==
  /\ wiping[v].stage = "waiting" /\ \A c \in wiping[v].for : ~Working(c)
  /\ sealed' = NoBlob
  /\ wiping' = [wiping EXCEPT ![v] = [stage |-> "erasing", for |-> {}]]
  /\ call' = [c \in Updates |->
                IF call[c].stage = "done" THEN Call("erased") ELSE call[c]]
  /\ UNCHANGED <<secured, minted, loads, cached, hydrating, chain, orderly>>

(* and the key, and forgets the document. *)
EraseKey(v) ==
  /\ Erasing(v)
  /\ secured' = 0
  /\ wiping' = [wiping EXCEPT ![v] = NoWipe]
  /\ cached' = [cached EXCEPT ![v] = 0] /\ hydrating' = [hydrating EXCEPT ![v] = 0]
  /\ UNCHANGED <<sealed, minted, loads, chain, call, orderly>>

(* One of the two fails: the sign-out goes on without it. *)
WipeFails(v) ==
  /\ \/ Erasing(v)
     \/ wiping[v].stage = "waiting" /\ \A c \in wiping[v].for : ~Working(c)
  /\ wiping' = [wiping EXCEPT ![v] = NoWipe]
  /\ UNCHANGED <<secured, sealed, minted, loads, cached, hydrating, chain, call, orderly>>

(* The process ends, between any two of these. *)
Die ==
  /\ loads' = << >>
  /\ cached' = [v \in Vaults |-> 0] /\ hydrating' = [v \in Vaults |-> 0]
  /\ chain' = [v \in Vaults |-> << >>] /\ wiping' = [v \in Vaults |-> NoWipe]
  /\ call' = [c \in Updates |->
                IF Working(c) THEN Call("lost") ELSE call[c]]
  /\ UNCHANGED <<secured, sealed, minted, orderly>>

VaultNext ==
  \/ \E v \in Vaults : Read(v) \/ Release(v) \/ Wipe(v) \/ EraseBlob(v) \/ EraseKey(v) \/ WipeFails(v)
  \/ \E c \in Updates, v \in Vaults :
       \/ MutateCached(c, v) \/ MutateFirst(c, v) \/ MutateJoining(c, v)
       \/ Seal(c, v) \/ MintAgain(c, v) \/ SealAnew(c, v) \/ Store(c, v) \/ PersistFails(c, v)
  \/ \E h \in DOMAIN loads : TakeKey(h) \/ KeepKey(h) \/ OpenBlob(h) \/ LoadFails(h)
  \/ Die

VaultSpec == VaultInit /\ [][VaultNext]_vaultVars

----------------------------------------------------------------------------
(* Properties. *)
VaultTypeOK ==
  /\ secured \in 0..MaxKeys /\ minted \in 0..MaxKeys
  /\ sealed \in [key : 0..MaxKeys, of : SUBSET Updates]
  /\ loads \in Seq([vault : Vaults, stage : {"key", "mint", "blob", "open", "failed"},
                    key : 0..MaxKeys, doc : SUBSET Updates, calls : Seq(Updates)])
  /\ cached \in [Vaults -> 0..Len(loads)] /\ hydrating \in [Vaults -> 0..Len(loads)]
  /\ chain \in [Vaults -> Seq(Updates)]
  /\ call \in [Updates ->
       [stage : {"new", "opening", "queued", "minting", "storing",
                 "done", "failed", "lost", "erased"},
        load : Nat, key : 0..MaxKeys, image : SUBSET Updates]]
  /\ wiping \in [Vaults ->
       [stage : {"none", "waiting", "erasing"}, for : SUBSET Updates]]
  /\ orderly \in BOOLEAN

(* What mutate has resolved is what the next launch reads: the blob can be *)
(* opened with the key in secure storage and holds the change, whatever    *)
(* failed, died, was released or wiped in between (persistent-store.ts:322 *)
(* and 415), as long as no two documents of one account are in use at once *)
(* and nothing is called while a wipe is under way.                        *)
Kept ==
  orderly =>
    /\ sealed.key \in {0, secured}
    /\ \A c \in Updates : call[c].stage = "done" => sealed.key # 0 /\ c \in sealed.of
=============================================================================
