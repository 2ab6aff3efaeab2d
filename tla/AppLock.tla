------------------------------ MODULE AppLock ------------------------------
(***************************************************************************)
(* The app lock of the mobile client: the PIN verifiers and the log of     *)
(* failed attempts in the encrypted vault (secure-gate, lockout-policy),   *)
(* the mode the shell shows, and the controller's own copy of that mode,   *)
(* which gates the shadow invites.                                         *)
(*                                                                         *)
(* Time is counted in ticks.  The log is kept as the number of failures of *)
(* each age, as ages are all the policy looks at; what is Horizon ticks    *)
(* old or more is past deciding anything and is one bin.  A React effect   *)
(* that only repeats a state change is part of the action that makes it.   *)
(***************************************************************************)
EXTENDS Naturals, Sequences, SequencesExt

CONSTANTS
  Window,       \* windowMs, in ticks
  LockFor,      \* lockoutMs, in ticks
  MaxFailures,  \* failures within the window that trip a lockout
  MaxTries,     \* bound on the attempts in flight at once
  Pins,         \* the PINs a user may set; one of them is each verifier's
  NoPin         \* no verifier is stored

ASSUME PolicyAssumption ==
  Window \in Nat \ {0} /\ LockFor \in Nat \ {0} /\ MaxFailures \in Nat \ {0}
(* As in DEFAULT_LOCKOUT_POLICY, the only policy in use: 10 and 30 minutes. *)
ASSUME LockCoversWindow == Window <= LockFor
ASSUME TriesAssumption == MaxTries \in Nat
ASSUME NoPinAssumption == NoPin \notin Pins

VARIABLES
  pins,       \* doc.appPins: the stored verifiers
  tally,      \* doc.unlockFailures: tally[a] failures of age a
  hidden,     \* doc.hiddenChats is not empty
  gate,       \* the controller's gate is bound to an open vault
  setup,      \* the phase of the encryption setup
  shell,      \* the shell's state: mode, whether the lock was looked up, ...
  inviteMode, \* the controller's currentAppMode
  tries,      \* unlock and reveal calls in flight
  made        \* the failures since the last success, none pruned

lockVars == <<pins, tally, hidden, gate, setup, shell, inviteMode, tries, made>>

Horizon == IF Window > LockFor THEN Window ELSE LockFor
Ages == 0..Horizon
NoFailures == [a \in Ages |-> 0]
Modes == {"locked", "real", "decoy"}
Verdicts == {"real", "decoy", "chat", "locked", "invalid"}

LockInit ==
  /\ pins = [k \in {"real", "decoy"} |-> NoPin]
  /\ tally = NoFailures
  /\ made = NoFailures
  /\ hidden = FALSE
  /\ gate = FALSE
  /\ setup = "registering"
  /\ shell = [mode |-> "locked", known |-> FALSE, onboarded |-> FALSE,
              pinShown |-> FALSE, entryOff |-> FALSE]
  /\ inviteMode = "locked"
  /\ tries = << >>

----------------------------------------------------------------------------
(* The policy. *)
(* The failures within the window, each an age and its number of that age. *)
Recent(log) == UNION {{a} \X (1..log[a]) : a \in 0..(Window - 1)}
RecentFailures(log) == Cardinality(Recent(log))

(* evaluateLockout: the ticks until the lock lifts, 0 when not locked. *)
Lockout(log) ==
  LET recent == {a \in 0..(Window - 1) : log[a] > 0}
  IN  IF RecentFailures(log) < MaxFailures THEN 0
      ELSE LET last == CHOOSE a \in recent : \A b \in recent : a <= b
           IN  IF last < LockFor THEN LockFor - last ELSE 0

(* pruneFailures. *)
Pruned(log) == [a \in Ages |-> IF a = Horizon THEN 0 ELSE log[a]]

(* What the unpruned history is cut down to, to be finite. *)
Cut(log) == [a \in Ages |-> IF a = Horizon THEN 0 ELSE log[a]]

OneMore(log) == [log EXCEPT ![0] = @ + 1]

(* resolveAppMode; no PIN typed equals NoPin. *)
ModeOf(p) ==
  IF p = pins["real"] THEN "real" ELSE IF p = pins["decoy"] THEN "decoy" ELSE "invalid"

----------------------------------------------------------------------------
(* Launch, setup and sign-out. *)

(* The process is started (again) with a user signed in and onboarded. *)
Relaunch ==
  /\ gate' = FALSE
  /\ setup' = "registering"
  /\ shell' = [mode |-> "locked", known |-> FALSE, onboarded |-> TRUE,
               pinShown |-> FALSE, entryOff |-> FALSE]
  /\ inviteMode' = "locked"
  /\ tries' = << >>
  /\ UNCHANGED <<pins, tally, hidden, made>>

(* bootstrap opens the vault and binds the gate. *)
BindGate ==
  /\ setup = "registering" /\ ~gate
  /\ gate' = TRUE
  /\ UNCHANGED <<pins, tally, hidden, setup, shell, inviteMode, tries, made>>

(* bootstrap ends: the vault's self-test or the registration may fail. *)
SetupEnds ==
  /\ setup = "registering"
  /\ \/ gate /\ setup' = "ready"
     \/ setup' = "failed"
  /\ UNCHANGED <<pins, tally, hidden, gate, shell, inviteMode, tries, made>>

(* The retry banner is part of the unlocked screens.  teardown unbinds the *)
(* gate and forgets the mode; the shell's own mode does not change, so its *)
(* effect does not run.                                                    *)
RetrySetup ==
  /\ setup = "failed" /\ shell.onboarded /\ shell.mode # "locked"
  /\ gate' = FALSE
  /\ setup' = "registering"
  /\ inviteMode' = "locked"
  /\ UNCHANGED <<pins, tally, hidden, shell, tries, made>>

(* signOut wipes the vault and tears down; the next sign-in onboards. *)
SignOutLock ==
  /\ shell.onboarded /\ shell.mode # "locked"
  /\ pins' = [k \in {"real", "decoy"} |-> NoPin]
  /\ tally' = NoFailures /\ made' = NoFailures
  /\ hidden' = FALSE
  /\ gate' = FALSE
  /\ setup' = "registering"
  /\ shell' = [mode |-> "locked", known |-> FALSE, onboarded |-> FALSE,
               pinShown |-> FALSE, entryOff |-> FALSE]
  /\ inviteMode' = "locked"
  /\ UNCHANGED tries

(* OnboardingScreen.onDone: without a gate, setAppPin does nothing. *)
Onboarded ==
  /\ ~shell.onboarded
  /\ shell' = [shell EXCEPT !.mode = "real", !.known = TRUE, !.onboarded = TRUE]
  /\ inviteMode' = "real"
  /\ \E p \in Pins \cup {NoPin} :
       pins' = IF gate /\ p # NoPin THEN [pins EXCEPT !["real"] = p] ELSE pins
  /\ UNCHANGED <<tally, hidden, gate, setup, tries, made>>

(* The lock check of a launch; without a gate it finds no PIN. *)
CheckLock ==
  /\ shell.onboarded /\ ~shell.known
  /\ LET hasPin == gate /\ pins["real"] # NoPin
         mode == IF hasPin THEN "locked" ELSE "real"
     IN  /\ shell' = [shell EXCEPT !.mode = mode, !.known = TRUE, !.pinShown = hasPin]
         /\ inviteMode' = mode
  /\ UNCHANGED <<pins, tally, hidden, gate, setup, tries, made>>

----------------------------------------------------------------------------
(* Locking, settings and the attempts. *)

(* A mutant: the controller is not told. *)
RelockUntold ==
  /\ shell.known /\ shell.mode # "locked"
  /\ (gate /\ pins["real"] # NoPin) \/ shell.pinShown
  /\ shell' = [shell EXCEPT !.mode = "locked"]
  /\ UNCHANGED inviteMode
  /\ UNCHANGED <<pins, tally, hidden, gate, setup, tries, made>>

(* The app leaves the foreground with a PIN set, or "Lock now" is tapped. *)
Relock ==
  /\ shell.known /\ shell.mode # "locked"
  /\ (gate /\ pins["real"] # NoPin) \/ shell.pinShown
  /\ shell' = [shell EXCEPT !.mode = "locked"]
  /\ inviteMode' = "locked"
  /\ UNCHANGED <<pins, tally, hidden, gate, setup, tries, made>>

(* Settings: set or clear a PIN; the row shows it as set even if the gate  *)
(* was missing.                                                            *)
SetAppPin ==
  /\ shell.mode # "locked"
  /\ \E k \in {"real", "decoy"}, p \in Pins \cup {NoPin} :
       /\ pins' = IF gate THEN [pins EXCEPT ![k] = p] ELSE pins
       /\ shell' = IF k = "real" THEN [shell EXCEPT !.pinShown = (p # NoPin)] ELSE shell
  /\ UNCHANGED <<tally, hidden, gate, setup, inviteMode, tries, made>>

HideOrUnhideChat ==
  /\ shell.mode = "real" /\ gate
  /\ hidden' = ~hidden
  /\ UNCHANGED <<pins, tally, gate, setup, shell, inviteMode, tries, made>>

(* A mutant: a search is hashed without a look at the lockout. *)
BeginUnchecked(kind) ==
  /\ Len(tries) < MaxTries
  /\ LET refused == gate /\ kind = "pin" /\ Lockout(tally) > 0
         verdict == IF ~gate THEN "invalid" ELSE IF refused THEN "locked" ELSE "hashing"
     IN  /\ tries' = Append(tries, [kind |-> kind, verdict |-> verdict])
  /\ UNCHANGED <<pins, tally, hidden, gate, setup, shell, inviteMode, made>>

(* unlock and revealHiddenChat up to the hash.  onUnlock returns before    *)
(* the hash is done, so the busy flag does not stop a second submit; every *)
(* text typed in the search bar that is no alias tries the hidden chats.   *)
Begin(kind) ==
  /\ Len(tries) < MaxTries
  /\ LET refused == gate /\ Lockout(tally) > 0
         verdict == IF ~gate THEN "invalid" ELSE IF refused THEN "locked" ELSE "hashing"
     IN  /\ tries' = Append(tries, [kind |-> kind, verdict |-> verdict])
  /\ UNCHANGED <<pins, tally, hidden, gate, setup, shell, inviteMode, made>>

SubmitPin == shell.known /\ shell.mode = "locked" /\ ~shell.entryOff /\ Begin("pin")
SubmitSearch == shell.mode = "real" /\ Begin("search")

(* The hash is done: a match clears the log, anything else is recorded,    *)
(* and the failure that trips the lockout reports it.                      *)
Hashed(i) ==
  /\ tries[i].verdict = "hashing"
  /\ \E p \in Pins \cup {"wrong"} :
       LET match == IF tries[i].kind = "pin" THEN ModeOf(p)
                    ELSE IF hidden /\ p # "wrong" THEN "chat" ELSE "invalid"
           log == Pruned(OneMore(tally))
           verdict == IF match = "invalid" /\ Lockout(log) > 0 THEN "locked" ELSE match
       IN  /\ tries' = [tries EXCEPT ![i].verdict = verdict]
           /\ tally' = IF match = "invalid" THEN log ELSE NoFailures
           /\ made' = IF match = "invalid" THEN Cut(OneMore(made)) ELSE NoFailures
  /\ UNCHANGED <<pins, hidden, gate, setup, shell, inviteMode>>

(* unlockApp and onUnlock take the answer; a search takes a chat only. *)
Answer(i) ==
  /\ tries[i].verdict # "hashing"
  /\ LET t == tries[i] IN
       /\ tries' = RemoveAt(tries, i)
       /\ shell' = CASE t.kind = "search" -> shell
                     [] t.verdict \in Modes \ {"locked"} ->
                          [shell EXCEPT !.mode = t.verdict, !.entryOff = FALSE]
                     [] t.verdict = "locked" -> [shell EXCEPT !.entryOff = TRUE]
                     [] t.verdict = "invalid" -> shell
       /\ inviteMode' = IF t.verdict \in {"real", "decoy"} THEN t.verdict ELSE inviteMode
  /\ UNCHANGED <<pins, tally, hidden, gate, setup, made>>

Tick ==
  LET aged(log) == [a \in Ages |-> CASE a = 0 -> 0
                                     [] a > 0 /\ a < Horizon -> log[a - 1]
                                     [] a = Horizon -> log[a - 1] + log[a]]
  IN  /\ tally' = aged(tally)
      /\ made' = Cut(aged(made))
      /\ UNCHANGED <<pins, hidden, gate, setup, shell, inviteMode, tries>>

LockNext ==
  \/ Relaunch \/ BindGate \/ SetupEnds \/ RetrySetup \/ SignOutLock \/ Onboarded \/ CheckLock
  \/ Relock \/ SetAppPin \/ HideOrUnhideChat \/ SubmitPin \/ SubmitSearch
  \/ \E i \in DOMAIN tries : Hashed(i) \/ Answer(i)
  \/ Tick

LockSpec == LockInit /\ [][LockNext]_lockVars

----------------------------------------------------------------------------
(* Properties. *)
LockTypeOK ==
  /\ pins \in [{"real", "decoy"} -> Pins \cup {NoPin}]
  /\ tally \in [Ages -> Nat]
  /\ made \in [Ages -> Nat]
  /\ hidden \in BOOLEAN
  /\ gate \in BOOLEAN
  /\ setup \in {"registering", "failed", "ready"}
  /\ shell \in [mode : Modes, known : BOOLEAN, onboarded : BOOLEAN,
                pinShown : BOOLEAN, entryOff : BOOLEAN]
  /\ inviteMode \in Modes
  /\ tries \in Seq([kind : {"pin", "search"}, verdict : Verdicts \cup {"hashing"}])

(* Guessing is rate-limited across the two ways of guessing: within a      *)
(* window no more failures are made than trip the lockout, plus what was   *)
(* already being hashed when it tripped ("5 wrong attempts per 10          *)
(* minutes", lockout-policy.ts:5).                                         *)
GuessesBounded == RecentFailures(made) < MaxFailures + MaxTries

(* The shadow invites are never open while the app is locked or shows the  *)
(* decoy, in whatever order attempts answer and the app is backgrounded    *)
(* (chat-controller.ts:488).                                               *)
InvitesFollowLock == inviteMode = "real" => shell.mode = "real"
=============================================================================
