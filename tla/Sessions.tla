------------------------------ MODULE Sessions ------------------------------
(***************************************************************************)
(* The libsignal sessions between people's phones: the session manager,    *)
(* which address it takes for a person, the sessions, identities and       *)
(* one-time prekeys in the vault, and the calls of them by sends and by    *)
(* arriving envelopes, any number of which overlap.                        *)
(*                                                                         *)
(* A phone on which the app is installed anew is a new install, with a     *)
(* device id, an identity and prekeys of its own.  The protocol library    *)
(* is external: a session is known by the send that established it, its    *)
(* frames carry what the other side needs until a reply has come, and a    *)
(* session that another one takes the place of can still be read.          *)
(* Frames arrive in any order; one that is lost never does.                *)
(***************************************************************************)
EXTENDS Naturals, FiniteSets

CONSTANTS
  People,        \* uids
  KeyIds,        \* ids of the one-time prekeys of an install
  MaxSends,      \* bound on the sends
  MaxStops       \* bound on the relaunches and installs after the first

ASSUME SessionsAssumption ==
  KeyIds \subseteq Nat \ {0} /\ {MaxSends, MaxStops} \subseteq Nat

VARIABLES
  install,     \* the number of a person's install, which is its device id
  enrolled,    \* the newest install in the server's devices
  offered,     \* the newest device's one-time prekeys that nobody has claimed
  preKeys,     \* the vault: one-time prekeys of this install not yet used
  knownDevices,\* the session manager's map, 0 for no entry
  sessions,    \* the vault: sessions by address
  identities,  \* the vault: the install whose identity was saved for an address
  sends,       \* dispatches and control sends in progress
  sent,        \* how many there were
  frames,      \* envelopes on their way or being decrypted
  stops        \* relaunches and installs after the first

sessionVars == <<install, enrolled, offered, preKeys, knownDevices, sessions, identities,
                 sends, sent, frames, stops>>
vault == <<preKeys, sessions, identities>>

Installs == 1..(MaxStops + 1)
Addresses == People \X Installs
NoSessions == [open |-> 0, kept |-> {}]

(* A mutant: sessions and identities are kept by person. *)
AddressKeyOfPerson(a) == <<a[1], 1>>

(* Where the vault keeps what belongs to an address. *)
AddressKey(a) == a

SessionsInit ==
  /\ install = [p \in People |-> 1] /\ enrolled = [p \in People |-> 1]
  /\ offered = [p \in People |-> KeyIds] /\ preKeys = [p \in People |-> KeyIds]
  /\ knownDevices = [p \in People |-> [q \in People |-> 0]]
  /\ sessions = [p \in People |-> [a \in Addresses |-> NoSessions]]
  /\ identities = [p \in People |-> [a \in Addresses |-> 0]]
  /\ sends = {} /\ sent = 0 /\ frames = {} /\ stops = 0

(* isTrustedIdentity: the first identity seen at an address, and no other. *)
Trusted(p, q, d) == identities[p][AddressKey(<<q, d>>)] \in {0, d}
Of(p, q, d) == sessions[p][AddressKey(<<q, d>>)]
Turns(s, t) == sends' = (sends \ {s}) \cup {t}
Fails(s) == sends' = sends \ {s}

----------------------------------------------------------------------------
(* Sending. *)

(* dispatch or sendControl of a registered phone calls hasSession, which    *)
(* resolves the address and reads its session, or finds none known.        *)
BeginSend(p, q) ==
  /\ p # q /\ enrolled[p] = install[p] /\ sent < MaxSends
  /\ sent' = sent + 1
  /\ sends' = sends \cup {[n |-> sent + 1, by |-> p, to |-> q, device |-> knownDevices[p][q],
                           key |-> 0,
                           stage |-> IF knownDevices[p][q] = 0 THEN "claim" ELSE "load"]}
  /\ UNCHANGED <<install, enrolled, offered, vault, knownDevices, frames, stops>>

(* loadSession answers: encrypt resolves the address again. *)
SessionLoaded(s) ==
  /\ s.stage = "load"
  /\ IF Of(s.by, s.to, s.device).kept = {}
     THEN Turns(s, [s EXCEPT !.stage = "claim"])
     ELSE Turns(s, [s EXCEPT !.stage = "encrypt", !.device = knownDevices[s.by][s.to]])
  /\ UNCHANGED <<install, enrolled, offered, vault, knownDevices, sent, frames, stops>>

(* The server hands out the bundle of the newest device, with a one-time   *)
(* prekey unless none is left or another claim, which may yet fail, has    *)
(* the last one locked; the answer may be lost.                            *)
ClaimServed(s, k) ==
  /\ s.stage = "claim"
  /\ k # 0 => k \in offered[s.to]
  /\ k = 0 => offered[s.to] = {} \/ \E t \in sends \ {s} : t.to = s.to /\ t.stage = "claim"
  /\ offered' = [offered EXCEPT ![s.to] = @ \ {k}]
  /\ \/ Turns(s, [s EXCEPT !.stage = "bundle", !.device = enrolled[s.to], !.key = k])
     \/ Fails(s)
  /\ UNCHANGED <<install, enrolled, vault, knownDevices, sent, frames, stops>>

(* No device, no token, or no connection: the send fails. *)
ClaimFails(s) ==
  /\ s.stage = "claim" /\ Fails(s)
  /\ UNCHANGED <<install, enrolled, offered, vault, knownDevices, sent, frames, stops>>

(* establishSession notes the device, and calls the engine. *)
EstablishSession(s) ==
  /\ s.stage = "bundle"
  /\ knownDevices' = [knownDevices EXCEPT ![s.by][s.to] = s.device]
  /\ Turns(s, [s EXCEPT !.stage = "establish"])
  /\ UNCHANGED <<install, enrolled, offered, vault, sent, frames, stops>>

(* processPreKeyBundle: the new session takes the place of the open one;   *)
(* then encrypt resolves the address, which may have changed meanwhile.    *)
ProcessPreKeyBundle(s) ==
  /\ s.stage = "establish"
  /\ LET p == s.by  a == AddressKey(<<s.to, s.device>>)
     IN  IF Trusted(p, s.to, s.device)
         THEN /\ identities' = [identities EXCEPT ![p][a] = s.device]
              /\ sessions' = [sessions EXCEPT ![p][a] =
                   [open |-> s.n,
                    kept |-> @.kept \cup {[id |-> s.n, with |-> s.device, key |-> s.key,
                                           fresh |-> TRUE]}]]
              /\ Turns(s, [s EXCEPT !.stage = "encrypt", !.device = knownDevices[p][s.to]])
         ELSE Fails(s) /\ UNCHANGED <<identities, sessions>>
  /\ UNCHANGED <<install, enrolled, offered, preKeys, knownDevices, sent, frames, stops>>

(* The engine encrypts in the open session of the address and the envelope *)
(* goes out; without a session it rejects and the send fails.              *)
Encrypt(s) ==
  /\ s.stage = "encrypt" /\ Fails(s)
  /\ LET here == Of(s.by, s.to, s.device)
     IN  frames' = frames \cup
           {[n |-> s.n, from |-> s.by, device |-> install[s.by], to |-> s.to, with |-> x.with,
             id |-> x.id, key |-> x.key, fresh |-> x.fresh, read |-> FALSE] :
              x \in {x \in here.kept : x.id = here.open /\ Trusted(s.by, s.to, x.with)}}
  /\ UNCHANGED <<install, enrolled, offered, vault, knownDevices, sent, stops>>

----------------------------------------------------------------------------
(* Receiving. *)

(* onEnvelope: decrypt notes the sender's device and calls the engine. *)
EnvelopeArrives(f) ==
  /\ ~f.read
  /\ knownDevices' = [knownDevices EXCEPT ![f.to][f.from] = f.device]
  /\ frames' = (frames \ {f}) \cup {[f EXCEPT !.read = TRUE]}
  /\ UNCHANGED <<install, enrolled, offered, vault, sends, sent, stops>>

(* What the engine can decrypt: a frame for this install, of a trusted     *)
(* identity, in a session it has or can start with the prekey named.       *)
HasSessionOf(f) == \E x \in Of(f.to, f.from, f.device).kept : x.id = f.id
CanDecrypt(f) ==
  /\ f.with = install[f.to] /\ Trusted(f.to, f.from, f.device)
  /\ HasSessionOf(f) \/ (f.fresh /\ f.key \in preKeys[f.to] \cup {0})

(* A frame of a session that is kept: the session has been answered, and   *)
(* is the open one if the frame is no prekey message.                      *)
DecryptKnown(f) ==
  /\ f.read /\ CanDecrypt(f) /\ HasSessionOf(f)
  /\ frames' = frames \ {f}
  /\ sessions' = [sessions EXCEPT ![f.to][AddressKey(<<f.from, f.device>>)] =
       [open |-> IF f.fresh THEN @.open ELSE f.id,
        kept |-> {IF x.id = f.id THEN [x EXCEPT !.fresh = FALSE] ELSE x : x \in @.kept}]]
  /\ UNCHANGED <<install, enrolled, offered, preKeys, knownDevices, identities, sends, sent,
                 stops>>

(* The first prekey message of a session starts it and uses up the prekey. *)
DecryptPreKey(f) ==
  /\ f.read /\ CanDecrypt(f) /\ ~HasSessionOf(f)
  /\ frames' = frames \ {f}
  /\ LET a == AddressKey(<<f.from, f.device>>)
     IN  /\ identities' = [identities EXCEPT ![f.to][a] = f.device]
         /\ sessions' = [sessions EXCEPT ![f.to][a] =
              [open |-> f.id,
               kept |-> @.kept \cup {[id |-> f.id, with |-> f.device, key |-> 0,
                                      fresh |-> FALSE]}]]
  /\ preKeys' = [preKeys EXCEPT ![f.to] = @ \ {f.key}]
  /\ UNCHANGED <<install, enrolled, offered, knownDevices, sends, sent, stops>>

(* The engine rejects: a delivery error.  The identity that a prekey       *)
(* message names is saved before its body is found undecipherable.         *)
DecryptFails(f) ==
  /\ f.read /\ ~CanDecrypt(f)
  /\ frames' = frames \ {f}
  /\ LET a == AddressKey(<<f.from, f.device>>)
     IN  identities' = IF f.fresh /\ Trusted(f.to, f.from, f.device)
                       THEN [identities EXCEPT ![f.to][a] = f.device] ELSE identities
  /\ UNCHANGED <<install, enrolled, offered, preKeys, knownDevices, sessions, sends, sent,
                 stops>>

----------------------------------------------------------------------------
(* The process. *)

(* The process ends: what was in progress and the map are gone. *)
Stops(p) ==
  /\ stops < MaxStops /\ stops' = stops + 1
  /\ knownDevices' = [knownDevices EXCEPT ![p] = [q \in People |-> 0]]
  /\ sends' = {s \in sends : s.by # p}
  /\ frames' = {f \in frames : ~(f.read /\ f.to = p)}

(* The app is launched again. *)
Relaunch(p) ==
  /\ Stops(p)
  /\ UNCHANGED <<install, enrolled, offered, vault, sent>>

(* The app is installed anew: the vault is seeded from a new identity. *)
Reinstall(p) ==
  /\ enrolled[p] = install[p]
  /\ install' = [install EXCEPT ![p] = @ + 1]
  /\ preKeys' = [preKeys EXCEPT ![p] = KeyIds]
  /\ sessions' = [sessions EXCEPT ![p] = [a \in Addresses |-> NoSessions]]
  /\ identities' = [identities EXCEPT ![p] = [a \in Addresses |-> 0]]
  /\ Stops(p)
  /\ UNCHANGED <<enrolled, offered, sent>>

(* The new install is registered. *)
Enrol(p) ==
  /\ enrolled[p] # install[p]
  /\ enrolled' = [enrolled EXCEPT ![p] = install[p]]
  /\ offered' = [offered EXCEPT ![p] = KeyIds]
  /\ UNCHANGED <<install, vault, knownDevices, sends, sent, frames, stops>>

SessionsNext ==
  \/ \E p, q \in People : BeginSend(p, q)
  \/ \E s \in sends :
       \/ SessionLoaded(s) \/ ClaimFails(s) \/ EstablishSession(s)
       \/ ProcessPreKeyBundle(s) \/ Encrypt(s)
       \/ \E k \in KeyIds \cup {0} : ClaimServed(s, k)
  \/ \E f \in frames :
       \/ EnvelopeArrives(f) \/ DecryptKnown(f) \/ DecryptPreKey(f) \/ DecryptFails(f)
  \/ \E p \in People : Relaunch(p) \/ Reinstall(p) \/ Enrol(p)

SessionsSpec == SessionsInit /\ [][SessionsNext]_sessionVars

----------------------------------------------------------------------------
(* Properties. *)
SessionsTypeOK ==
  /\ install \in [People -> Installs] /\ enrolled \in [People -> Installs]
  /\ offered \in [People -> SUBSET KeyIds] /\ preKeys \in [People -> SUBSET KeyIds]
  /\ knownDevices \in [People -> [People -> {0} \cup Installs]]
  /\ identities \in [People -> [Addresses -> {0} \cup Installs]]
  /\ sent \in 0..MaxSends /\ stops \in 0..MaxStops
  /\ sessions \in [People -> [Addresses ->
       [open : 0..sent,
        kept : SUBSET [id : 1..sent, with : Installs, key : KeyIds \cup {0}, fresh : BOOLEAN]]]]
  /\ sends \subseteq [n : 1..sent, by : People, to : People, device : {0} \cup Installs,
                      key : KeyIds \cup {0},
                      stage : {"load", "claim", "bundle", "establish", "encrypt"}]
  /\ frames \subseteq [n : 1..sent, from : People, device : Installs, to : People,
                       with : Installs, id : 1..sent, key : KeyIds \cup {0},
                       fresh : BOOLEAN, read : BOOLEAN]

(* However first messages cross, establish twice or are answered late, and *)
(* whoever has relaunched or reinstalled: a frame encrypted to the install *)
(* its recipient has now can be decrypted there (messaging.ts:796).        *)
Readable == \A f \in frames : f.with = install[f.to] => CanDecrypt(f)
=============================================================================
