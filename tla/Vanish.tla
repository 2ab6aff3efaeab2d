------------------------------- MODULE Vanish -------------------------------
(***************************************************************************)
(* Disappearing messages on one phone: the timer of a conversation, kept   *)
(* in the store and in the memory of Messaging, the rows stamped by it,    *)
(* and the purge engine with its single timeout.                           *)
(*                                                                         *)
(* The engine is the same for all conversations; the rows of one are       *)
(* modelled.  Time is counted in steps, Never is NO_EXPIRY.                *)
(***************************************************************************)
EXTENDS Integers, FiniteSets, FiniteSetsExt

CONSTANTS
  Rows,      \* the messages, each sent or received once
  Lives,     \* the timer's settings
  EndOfTime  \* bound on the clock

ASSUME VanishAssumption ==
  Lives \subseteq Nat \ {0} /\ IsFiniteSet(Lives) /\ EndOfTime \in Nat

VARIABLES
  now,      \* the clock
  due,      \* expiresAt of each row, Never if it has none
  disk,     \* the rows in the vault's blob
  timer,    \* doc.timers, 0 for off
  ttl,      \* conversationTtls, 0 for off
  watched,  \* expiring
  alarm,    \* when the timeout is due, Never if there is none
  purges,   \* the rows of each purge whose write has not ended
  botched,  \* rows purged in memory whose write failed
  waking,   \* initPurgeSchedule waits for the rows
  priming,  \* loadConversations waits for the rows and timers
  unused    \* rows not yet sent or received

vanishVars ==
  <<now, due, disk, timer, ttl, watched, alarm, purges, botched, waking, priming, unused>>

Never == EndOfTime + (IF Lives = {} THEN 0 ELSE Max(Lives)) + 1

VanishInit ==
  /\ now = 0 /\ due = [r \in Rows |-> Never] /\ disk = {} /\ timer = 0 /\ ttl = 0
  /\ watched = {} /\ alarm = Never /\ purges = {} /\ botched = {}
  /\ waking = TRUE /\ priming = TRUE /\ unused = Rows

(* reschedulePurge: the timeout for what is watched. *)
Alarm(rows) ==
  IF rows = {} THEN Never ELSE Max({now, Min({due'[r] : r \in rows})})

(* A write of the vault writes all of the document, so what an earlier one *)
(* failed to erase goes with it.                                           *)
Written(rows) == disk' = rows \ botched /\ botched' = {}
InMemory == disk \ (botched \cup UNION purges)

(* A mutant: a later row leaves the timeout as it is. *)
AddRowUnarmed(r) ==
  /\ r \in unused
  /\ unused' = unused \ {r}
  /\ due' = [due EXCEPT ![r] = IF ttl > 0 THEN now + ttl ELSE Never]
  /\ Written(disk \cup {r})
  /\ IF ttl > 0
     THEN /\ watched' = watched \cup {r}
          /\ alarm' = IF alarm # Never THEN alarm ELSE Alarm(watched')
     ELSE UNCHANGED <<watched, alarm>>
  /\ UNCHANGED <<now, timer, ttl, purges, waking, priming>>

(* A message or attachment is sent or received: stampExpiry, then the row. *)
AddRow(r) ==
  /\ r \in unused
  /\ unused' = unused \ {r}
  /\ due' = [due EXCEPT ![r] = IF ttl > 0 THEN now + ttl ELSE Never]
  /\ Written(disk \cup {r})
  /\ IF ttl > 0
     THEN watched' = watched \cup {r} /\ alarm' = Alarm(watched')
     ELSE UNCHANGED <<watched, alarm>>
  /\ UNCHANGED <<now, timer, ttl, purges, waking, priming>>

(* The user sets the timer, or the peer's timer frame arrives. *)
SetTimer(life) ==
  /\ life # timer \/ life # ttl
  /\ timer' = life /\ ttl' = life
  /\ Written(disk)
  /\ UNCHANGED <<now, due, watched, alarm, purges, waking, priming, unused>>

(* runPurge up to its write, over the rows that are watched; armed is what  *)
(* is left of the timeout.                                                 *)
RunPurge(rows, armed) ==
  LET expired == {r \in rows : due[r] <= now}
  IN  /\ watched' = rows \ expired
      /\ IF expired = {}
         THEN alarm' = Alarm(rows) /\ UNCHANGED purges
         ELSE alarm' = armed /\ purges' = purges \cup {expired}

AlarmRings ==
  /\ alarm <= now
  /\ UNCHANGED due /\ RunPurge(watched, Never)
  /\ UNCHANGED <<now, disk, timer, ttl, botched, waking, priming, unused>>

(* The write ends, or fails; the rows leave the screen either way. *)
PurgeEnds(rows) ==
  /\ rows \in purges
  /\ purges' = purges \ {rows}
  /\ Written(disk \ rows) \/ (UNCHANGED disk /\ botched' = botched \cup (disk \cap rows))
  /\ UNCHANGED due /\ alarm' = Alarm(watched)
  /\ UNCHANGED <<now, timer, ttl, watched, waking, priming, unused>>

(* The rows reach initPurgeSchedule. *)
Awake ==
  /\ waking
  /\ waking' = FALSE
  /\ UNCHANGED due /\ RunPurge(watched \cup {r \in InMemory : due[r] # Never}, alarm)
  /\ UNCHANGED <<now, disk, timer, ttl, botched, priming, unused>>

(* The conversations that have rows are restored, and their timers with them. *)
Primed ==
  /\ priming
  /\ priming' = FALSE
  /\ ttl' = IF InMemory # {} /\ timer > 0 THEN timer ELSE ttl
  /\ UNCHANGED <<now, due, disk, timer, watched, alarm, purges, botched, waking, unused>>

(* A view-once message is purged once shown. *)
EraseRow(r) ==
  /\ r \in InMemory
  /\ Written(disk \ {r})
  /\ UNCHANGED <<now, due, timer, ttl, watched, alarm, purges, waking, priming, unused>>

(* The chat is cleared; or deleted, and the stored timer with it. *)
DropRows(deleted) ==
  /\ Written(disk \ InMemory)
  /\ timer' = IF deleted THEN 0 ELSE timer
  /\ UNCHANGED <<now, due, ttl, watched, alarm, purges, waking, priming, unused>>

(* The process ends and starts again, and so does Messaging. *)
RelaunchEngine ==
  /\ watched' = {} /\ alarm' = Never /\ purges' = {} /\ botched' = {}
  /\ ttl' = 0 /\ waking' = TRUE /\ priming' = TRUE
  /\ UNCHANGED <<now, due, disk, timer, unused>>

Pass ==
  /\ now < EndOfTime
  /\ now' = now + 1
  /\ UNCHANGED <<due, disk, timer, ttl, watched, alarm, purges, botched, waking, priming, unused>>

VanishNext ==
  \/ \E r \in Rows : AddRow(r) \/ EraseRow(r)
  \/ \E life \in Lives \cup {0} : SetTimer(life)
  \/ AlarmRings \/ Awake \/ Primed \/ RelaunchEngine \/ Pass
  \/ \E rows \in purges : PurgeEnds(rows)
  \/ \E b \in BOOLEAN : DropRows(b)

VanishSpec == VanishInit /\ [][VanishNext]_vanishVars

----------------------------------------------------------------------------
(* Properties. *)
VanishTypeOK ==
  /\ now \in 0..EndOfTime
  /\ due \in [Rows -> 0..Never]
  /\ disk \subseteq Rows /\ watched \subseteq Rows /\ botched \subseteq Rows
  /\ unused \subseteq Rows /\ purges \subseteq SUBSET Rows
  /\ timer \in Lives \cup {0} /\ ttl \in Lives \cup {0}
  /\ alarm \in 0..Never
  /\ waking \in BOOLEAN /\ priming \in BOOLEAN

(* No row that has a time outlives it unwatched: a timeout that is early   *)
(* enough is set for it, or it is being purged, or a purge or the start    *)
(* that is under way will set one; whatever arrives, is cleared or is      *)
(* purged meanwhile (messaging.ts:1702).  A purge whose write failed is    *)
(* the next launch's.                                                      *)
DueIsWatched ==
  \A r \in disk \ botched : due[r] # Never =>
    \/ waking \/ r \in UNION purges
    \/ r \in watched /\ (alarm <= Max({due[r], now}) \/ purges # {})
=============================================================================
