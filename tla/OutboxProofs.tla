---------------------------- MODULE OutboxProofs ----------------------------
(***************************************************************************)
(* Proofs about Outbox, for any messages, any numbering of them and any    *)
(* bounds on retries, refusals and process deaths: type correctness, the   *)
(* four safety invariants, the action property of the reconnection, and    *)
(* the refinement of Delivery.                                             *)
(*                                                                         *)
(* The inductive invariant is the type invariant with                      *)
(*   Dispatching  what an attempt's progress says of its message;          *)
(*   OnePending   of one number one entry is pending;                      *)
(*   Storing      what a write, its image and the blob say of the row;     *)
(*   Transmitting what the transport has been handed;                      *)
(*   Shown        what the screen says while a message is on its way;      *)
(*   SpinnerHasOwner and QueuedMeansOffline, which follow from those step  *)
(*   by step.                                                              *)
(***************************************************************************)
EXTENDS Outbox, SequenceLemmas

Kinds == {"append", "resend", "sent", "failed"}
Job == Kinds \X Messages \X (0..MaxRetries)

(* A write whose caller goes on to encrypt. *)
Starts(w) == w[1] \in {"append", "resend"}

(* The attempt a write is made for; the screen is not told of an astray one. *)
Of(w) == <<w[2], w[3]>>
Tells(w) == ~Starts(w) /\ Of(w) \notin astray

(* Attempt i of m is being dispatched (an element of Busy(m)).             *)
Working(m, i) == task[<<m, i>>] \notin {"idle", "done"}
Resting(m) == \A i \in 0..MaxRetries : ~Working(m, i)
Sealing(m) == \E i \in 0..MaxRetries : task[<<m, i>>] = "sealing"

(* The blob, and the image on its way to it, know nothing of m.            *)
Blank(m) == disk[m] = "none" /\ (image # <<>> => image[m] = "none")

(* Before its first row a message has left no trace in the store, *)
Fresh(m) ==
  /\ task[<<m, 0>>] \in {"idle", "uploading"}
       => /\ row[m] = "none" /\ Blank(m) /\ ~Writing(m)
          /\ \A i \in 0..MaxRetries : i # 0 => task[<<m, i>>] = "idle"
  /\ task[<<m, 0>>] = "idle" => screen[m] = "none"

(* and one that is shown without a row is a failed upload.                 *)
Rowless(m) ==
  row[m] = "none" /\ screen[m] # "none"
    => task[<<m, 0>>] # "idle" /\ Resting(m) /\ entry[m] = None /\ ~Writing(m)

(* A settled row has no attempt left, and a pending attempt is done.       *)
Settled(m) ==
  /\ row[m] \in {"failed", "sent"} => Resting(m) /\ entry[m] = None
  /\ entry[m] # None => task[<<m, entry[m]>>] = "done"

(* OneInFlight, of m. *)
Alone(m) ==
  /\ \A i, j \in 0..MaxRetries : Working(m, i) /\ Working(m, j) => i = j
  /\ ~Resting(m) => entry[m] = None
  /\ \A i \in 0..MaxRetries : <<m, i>> \in timers =>
       entry[m] = i \/ (entry[m] = None /\ m \in displaced)

(* A message whose entry was replaced has nothing under way any more, nor  *)
(* a row that could be retried.                                            *)
Replaced(m) ==
  m \in displaced =>
    /\ Resting(m) /\ entry[m] = None /\ row[m] \in {"none", "sending"}
    /\ task[<<m, 0>>] \notin {"idle", "uploading"}

(* While an attempt is encrypted or pending, the store has caught up.      *)
Quiet(m) == Sealing(m) \/ entry[m] # None => ~Writing(m)

Local(m) == Fresh(m) /\ Rowless(m) /\ Settled(m) /\ Alone(m) /\ Replaced(m) /\ Quiet(m)
Dispatching == \A m \in Messages : Local(m)

OnePending == \A m \in Messages : \A n \in Alike(m) : entry[m] # None /\ entry[n] # None => m = n

(* A write in the chain: the caller of one that starts an attempt waits    *)
(* for it, and what settled the attempt before is the only other write     *)
(* about the message.                                                      *)
Chained ==
  \A k \in 1..Len(writes) :
    /\ task[Of(writes[k])] # "idle"
    /\ Starts(writes[k]) => task[Of(writes[k])] = "saving" /\ row[writes[k][2]] # "none"
    /\ writes[k][1] = "sent" => Taken(writes[k][2]) /\ row[writes[k][2]] \in {"sent", "none"}
    /\ \A j \in 1..Len(writes) :
         j < k /\ writes[j][2] = writes[k][2] => ~Starts(writes[j]) /\ Starts(writes[k])

(* Once sent, sent in whatever is written after, and before that accepted. *)
Lasting ==
  /\ image # <<>> =>
       /\ writes # <<>>
       /\ writes[1][1] = "sent" => image[writes[1][2]] = row[writes[1][2]]
       /\ \A m \in Messages : /\ image[m] = "sent" => row[m] = "sent"
                              /\ disk[m] = "sent" => image[m] = "sent"
  /\ \A m \in Messages : /\ disk[m] = "sent" => row[m] = "sent"
                         /\ screen[m] = "sent" => disk[m] = "sent"
                         /\ row[m] = "sent" => Taken(m)
  /\ \A t \in acks : t[1] \in accepted

Storing == Chained /\ Lasting

(* What was handed to the transport is done, and waits for its deadline    *)
(* for as long as it is pending.                                           *)
Transmitting ==
  \A t \in sentOut : task[t] = "done" /\ (entry[t[1]] = t[2] => t \in timers)

(* The writes about a message that are on their way. *)
About(m) == {w \in Job : w[2] = m /\ \E k \in 1..Len(writes) : writes[k] = w}

(* What the screen shows of a message while a write about it is under way: *)
(* of an astray attempt it is not told, so that it shows no spinner unless *)
(* the write that ends the attempt before is still to tell it;             *)
Told(m) == \E w \in About(m) : Tells(w)
Still(m) == m \in unsaved \/ screen[m] # "sending"
Awaited(m) ==
  \A w \in About(m) :
    IF Of(w) \in astray
    THEN Still(m) \/ (Starts(w) /\ Told(m))
    ELSE IF Starts(w) THEN screen[m] \in {"none", "failed"}
                      ELSE row[m] = "none" \/ screen[m] = "sending"

(* while it is encrypted or pending;                                       *)
Visible(m) ==
  \A i \in 0..MaxRetries : task[<<m, i>>] = "sealing" \/ entry[m] = i =>
    IF <<m, i>> \in astray THEN Still(m) ELSE row[m] = "none" \/ screen[m] = "sending"

(* and that it shows what was settled or is retried.                       *)
Known(m) ==
  /\ row[m] \in {"failed", "sent"} => screen[m] # "none"
  /\ \A i \in 0..MaxRetries : <<m, i>> \in astray => screen[m] # "none"

(* What is shown as sending survives: it has a row in the blob.            *)
Kept ==
  /\ \A m \in Messages : /\ screen[m] = "sending" => disk[m] # "none"
                         /\ disk[m] # "none" => row[m] # "none"
  /\ image # <<>> =>
       /\ Starts(writes[1]) => image[writes[1][2]] # "none"
       /\ \A m \in Messages : /\ disk[m] # "none" => image[m] # "none"
                              /\ image[m] # "none" => row[m] # "none"

Shown == (\A m \in Messages : Awaited(m) /\ Visible(m) /\ Known(m)) /\ Kept

Inductive ==
  /\ TypeOK /\ Dispatching /\ OnePending /\ Storing /\ Transmitting /\ Shown
  /\ QueuedMeansOffline /\ SpinnerHasOwner

----------------------------------------------------------------------------
(* What a vault call does: one job at the end of the chain, one row set.   *)
LEMMA WriteEffect ==
  ASSUME TypeOK, NEW what \in Kinds, NEW m \in Messages, NEW i \in 0..MaxRetries,
         Write(what, m, i)
  PROVE  /\ writes' \in Seq(Job)
         /\ Len(writes') = Len(writes) + 1
         /\ \A k \in 1..Len(writes) : writes'[k] = writes[k]
         /\ writes'[Len(writes) + 1] = <<what, m, i>>
         /\ row' \in [Messages -> Statuses]
         /\ \A n \in Messages : n # m => row'[n] = row[n]
         /\ what \in {"append", "resend"} => row'[m] = "sending"
         /\ what \in {"sent", "failed"} => row'[m] = IF row[m] = "none" THEN "none" ELSE what
         /\ \A n \in Messages : Writing(n)' <=> Writing(n) \/ n = m
<1>1. writes \in Seq(Job) /\ <<what, m, i>> \in Job /\ writes' = Append(writes, <<what, m, i>>)
  BY DEF TypeOK, Write, Job, Kinds
<1>2. /\ writes' \in Seq(Job)
      /\ Len(writes') = Len(writes) + 1
      /\ \A k \in 1..Len(writes) : writes'[k] = writes[k]
      /\ writes'[Len(writes) + 1] = <<what, m, i>>
  BY <1>1, AppendProperties
<1>3. Len(writes) \in Nat
  BY <1>1, LenProperties
<1>4. ASSUME NEW n \in Messages PROVE Writing(n)' <=> Writing(n) \/ n = m
  BY <1>2, <1>3 DEF Writing
<1>5. /\ row' \in [Messages -> Statuses]
      /\ \A n \in Messages : n # m => row'[n] = row[n]
      /\ what \in {"append", "resend"} => row'[m] = "sending"
      /\ what \in {"sent", "failed"} => row'[m] = IF row[m] = "none" THEN "none" ELSE what
  BY DEF TypeOK, Write, Statuses, Kinds
<1> QED
  BY <1>2, <1>4, <1>5

(* What the end of the head's write does to the chain.                     *)
LEMMA PopEffect ==
  ASSUME TypeOK, writes # <<>>, writes' = Tail(writes)
  PROVE  /\ Len(writes) \in Nat \ {0}
         /\ writes[1] \in Job /\ Head(writes) = writes[1]
         /\ writes' \in Seq(Job)
         /\ Len(writes') = Len(writes) - 1
         /\ \A k \in 1..Len(writes') : k + 1 \in 1..Len(writes) /\ writes'[k] = writes[k + 1]
         /\ \A n \in Messages : Writing(n) <=> Writing(n)' \/ n = writes[1][2]
<1>1. writes \in Seq(Job)
  BY DEF TypeOK, Job, Kinds
<1>2. Len(writes) \in Nat \ {0}
  BY <1>1, EmptySeq, LenProperties
<1>3. /\ writes[1] \in Job /\ Head(writes) = writes[1]
      /\ writes' \in Seq(Job)
      /\ Len(writes') = Len(writes) - 1
      /\ \A k \in 1..Len(writes') : writes'[k] = writes[k + 1]
  BY <1>1, <1>2, HeadTailProperties, ElementOfSeq
<1>4. \A k \in 1..Len(writes') : k + 1 \in 1..Len(writes)
  BY <1>2, <1>3
<1>5. ASSUME NEW n \in Messages PROVE Writing(n) <=> Writing(n)' \/ n = writes[1][2]
  <2>1. ASSUME NEW k \in 1..Len(writes), writes[k][2] = n
        PROVE  Writing(n)' \/ n = writes[1][2]
    <3>1. CASE k = 1
      BY <2>1, <3>1
    <3>2. CASE k # 1
      <4>1. k - 1 \in 1..Len(writes') /\ writes'[k - 1] = writes[k]
        BY <1>2, <1>3, <3>2
      <4> QED
        BY <2>1, <4>1 DEF Writing
    <3> QED
      BY <3>1, <3>2
  <2>2. ASSUME Writing(n)' PROVE Writing(n)
    BY <1>3, <1>4, <2>2 DEF Writing
  <2>3. 1 \in 1..Len(writes)
    BY <1>2
  <2> QED
    BY <2>1, <2>2, <2>3 DEF Writing
<1> QED
  BY <1>2, <1>3, <1>4, <1>5

(* What is known of the jobs in the chain. *)
LEMMA Jobs ==
  ASSUME TypeOK, NEW k \in 1..Len(writes)
  PROVE  /\ writes[k] \in Job /\ writes[k][1] \in Kinds
         /\ writes[k][2] \in Messages /\ writes[k][3] \in 0..MaxRetries
         /\ Of(writes[k]) \in Attempts
<1>1. writes \in Seq(Job)
  BY DEF TypeOK, Job, Kinds
<1>2. writes[k] \in Job
  BY <1>1, ElementOfSeq
<1> QED
  BY <1>2 DEF Job, Of, Attempts

(* Where the numbers of attempts and the value None lie. *)
LEMMA Ranges ==
  /\ 0 \in 0..MaxRetries /\ None \notin 0..MaxRetries /\ 0..None = (0..MaxRetries) \cup {None}
  /\ \A m \in Messages, i \in 0..MaxRetries : <<m, i>> \in Attempts
  /\ \A t \in Attempts : t[1] \in Messages /\ t[2] \in 0..MaxRetries /\ t = <<t[1], t[2]>>
BY RetriesAssumption DEF None, Attempts

----------------------------------------------------------------------------
(* A message keeps its number, and the server takes nothing back. *)
LEMMA NumberStays == [Next]_vars => number' = number /\ accepted \subseteq accepted'
<1> SUFFICES ASSUME [Next]_vars PROVE number' = number /\ accepted \subseteq accepted'
  OBVIOUS
<1> USE DEF wireVars
<1>1. ASSUME NEW m \in Messages, User(m) \/ Upload(m)
      PROVE  number' = number /\ accepted \subseteq accepted'
  BY <1>1 DEF User, Send, SendAttachment, SendControl, Retry, Upload, Uploaded, UploadFails
<1>2. ASSUME NEW t \in Attempts, Seal(t) \/ AckTimeout(t)
      PROVE  number' = number /\ accepted \subseteq accepted'
  BY <1>2 DEF Seal, Sealed, SealFails, AckTimeout
<1>3. CASE Store
  BY <1>3 DEF Store, Picture, Saved, SaveFails
<1>4. CASE Network
  BY <1>4 DEF Network, Disconnect, Reconnect, Accept, Ignore, Ack
<1>5. CASE Relaunch
  BY <1>5 DEF Relaunch
<1>6. CASE UNCHANGED vars
  BY <1>6 DEF vars
<1> QED
  BY <1>1, <1>2, <1>3, <1>4, <1>5, <1>6 DEF Next

(* The initial states satisfy the invariant. *)
LEMMA InitInductive == Init => Inductive
<1> SUFFICES ASSUME Init PROVE Inductive
  OBVIOUS
<1> USE RetriesAssumption, RelaunchesAssumption, RefusalsAssumption
<1>1. Len(writes) = 0 /\ \A m \in Messages : ~Writing(m)
  BY DEF Init, Writing
<1>2. TypeOK
  <2>1. None \in 0..None /\ 0 \in 0..MaxRelaunches /\ 0 \in 0..MaxRefusals
    BY DEF None
  <2>2. <<>> \in Seq(Kinds \X Messages \X (0..MaxRetries))
    BY EmptySeq
  <2> QED
    BY <2>1, <2>2, NumberingsAssumption DEF Init, TypeOK, Statuses, Kinds
<1>3. \A m \in Messages : ~Sealing(m) /\ entry[m] = None
  BY DEF Init, Sealing, Attempts
<1>4. Dispatching
  BY <1>1, <1>3 DEF Init, Dispatching, Local, Fresh, Rowless, Settled, Alone, Replaced, Quiet,
                    Resting, Working, Blank, Attempts, None
<1>5. Storing
  BY <1>1 DEF Init, Storing, Chained, Lasting
<1>6. Shown
  <2>1. ASSUME NEW m \in Messages PROVE Awaited(m) /\ Visible(m) /\ Known(m)
    BY <1>1, <1>3, Ranges DEF Init, About, Awaited, Visible, Known, Sealing
  <2> QED
    BY <2>1 DEF Init, Shown, Kept
<1>7. OnePending
  BY <1>3 DEF OnePending
<1>8. Transmitting /\ QueuedMeansOffline /\ SpinnerHasOwner
  BY DEF Init, Transmitting, QueuedMeansOffline, SpinnerHasOwner
<1> QED
  BY <1>2, <1>4, <1>5, <1>6, <1>7, <1>8 DEF Inductive

(* Every step keeps the types. *)
LEMMA TypingStep == TypeOK /\ [Next]_vars => TypeOK'
<1> SUFFICES ASSUME TypeOK, [Next]_vars PROVE TypeOK'
  OBVIOUS
<1> USE RetriesAssumption, RelaunchesAssumption, RefusalsAssumption DEF Attempts, wireVars, storeVars
<1>a. 0 \in 0..MaxRetries /\ None \in 0..None /\ 0..None = 0..MaxRetries \cup {None}
  BY DEF None
<1>b. <<>> \in Seq(Kinds \X Messages \X (0..MaxRetries))
  BY EmptySeq
<1>1. ASSUME NEW what \in Kinds, NEW m \in Messages, NEW i \in 0..MaxRetries, Write(what, m, i)
      PROVE  /\ writes' \in Seq(Kinds \X Messages \X (0..MaxRetries))
             /\ row' \in [Messages -> Statuses]
             /\ UNCHANGED <<image, disk, screen, unsaved>>
  BY <1>1, WriteEffect DEF Job, Write
<1>c. ASSUME NEW ts \in SUBSET Attempts, Transmit(ts)
      PROVE  /\ refusals' \in 0..MaxRefusals /\ thrown' \subseteq Attempts
             /\ frames' \subseteq Attempts /\ sentOut' \subseteq Attempts /\ timers' \subseteq Attempts
  <2>1. PICK refused \in SUBSET ts :
          /\ refused # {} => refusals < MaxRefusals
          /\ refusals' = IF refused = {} THEN refusals ELSE refusals + 1
          /\ thrown' = thrown \cup refused
          /\ frames' = frames \cup (ts \ refused)
          /\ sentOut' = sentOut \cup (ts \ refused)
          /\ timers' = timers \cup (ts \ refused)
    BY <1>c DEF Transmit
  <2>2. refusals' \in 0..MaxRefusals
    BY <2>1 DEF TypeOK
  <2> QED
    BY <2>1, <2>2 DEF TypeOK
<1>2. ASSUME NEW m \in Messages, Send(m) PROVE TypeOK'
  BY <1>a, <1>1, <1>2 DEF Send, TypeOK, Kinds
<1>3. ASSUME NEW m \in Messages, SendAttachment(m) PROVE TypeOK'
  BY <1>3 DEF SendAttachment, TypeOK
<1>4. ASSUME NEW m \in Messages, SendControl(m) PROVE TypeOK'
  BY <1>4 DEF SendControl, TypeOK
<1>5. ASSUME NEW m \in Messages, NEW n \in Messages, NEW i \in 0..MaxRetries, Retry(m, n, i)
      PROVE  TypeOK'
  <2>1. astray' \subseteq Attempts
    BY <1>5 DEF Retry, TypeOK
  <2> QED
    BY <1>1, <1>5, <2>1 DEF Retry, TypeOK, Kinds
<1>6. ASSUME NEW m \in Messages, Uploaded(m) PROVE TypeOK'
  BY <1>a, <1>1, <1>6 DEF Uploaded, TypeOK, Kinds
<1>7. ASSUME NEW m \in Messages, UploadFails(m) PROVE TypeOK'
  BY <1>7 DEF UploadFails, TypeOK, Statuses
<1>8. ASSUME NEW m \in Messages, NEW i \in 0..MaxRetries, Sealed(m, i) PROVE TypeOK'
  <2>1. entry' \in [Messages -> 0..None] /\ displaced' \subseteq Messages
    BY <1>a, <1>8 DEF Sealed, Pend, Alike, TypeOK
  <2>2. task' \in [Attempts -> {"idle", "uploading", "saving", "sealing", "done"}]
    BY <1>8 DEF Sealed, TypeOK
  <2>3. /\ refusals' \in 0..MaxRefusals /\ thrown' \subseteq Attempts
        /\ frames' \subseteq Attempts /\ sentOut' \subseteq Attempts /\ timers' \subseteq Attempts
    <3>1. CASE connected
      <4>1. {<<m, i>>} \in SUBSET Attempts /\ Transmit({<<m, i>>})
        BY <1>8, <3>1 DEF Sealed
      <4> QED
        BY <1>c, <4>1
    <3>2. CASE ~connected
      BY <1>8, <3>2 DEF Sealed, TypeOK
    <3> QED
      BY <3>1, <3>2
  <2> QED
    BY <1>8, <2>1, <2>2, <2>3 DEF Sealed, TypeOK
<1>9. ASSUME NEW m \in Messages, NEW i \in 0..MaxRetries, SealFails(m, i) PROVE TypeOK'
  BY <1>1, <1>9 DEF SealFails, TypeOK, Kinds
<1>10. ASSUME NEW t \in Attempts, AckTimeout(t) PROVE TypeOK'
  <2>1. t[1] \in Messages /\ t[2] \in 0..MaxRetries
    OBVIOUS
  <2>2. CASE entry[t[1]] = t[2]
    BY <1>a, <1>1, <1>10, <2>1, <2>2 DEF AckTimeout, TypeOK, Kinds
  <2>3. CASE entry[t[1]] # t[2]
    BY <1>10, <2>3 DEF AckTimeout, TypeOK
  <2> QED
    BY <2>2, <2>3
<1>11. CASE Picture
  BY <1>11 DEF Picture, TypeOK
<1>12. CASE Saved
  <2>1. image \in [Messages -> Statuses] /\ writes # <<>> /\ writes' = Tail(writes)
    BY <1>12 DEF Saved, TypeOK
  <2>2. writes[1] \in Job /\ Head(writes) = writes[1] /\ writes' \in Seq(Job)
    BY <2>1, PopEffect
  <2> DEFINE w == writes[1]
  <2>3. w[1] \in Kinds /\ w[2] \in Messages /\ w[3] \in 0..MaxRetries
    BY <2>2 DEF Job
  <2>4. CASE w[1] \in {"append", "resend"}
    <3>1. /\ screen' = [screen EXCEPT ![w[2]] = IF <<w[2], w[3]>> \in astray THEN @ ELSE "sending"]
          /\ task' = [task EXCEPT ![<<w[2], w[3]>>] = "sealing"]
      BY <1>12, <2>2, <2>4 DEF Saved
    <3>2. /\ screen' \in [Messages -> Statuses]
          /\ task' \in [Attempts -> {"idle", "uploading", "saving", "sealing", "done"}]
      BY <2>3, <3>1 DEF TypeOK, Statuses
    <3> QED
      BY <1>12, <2>1, <2>2, <3>2 DEF Saved, TypeOK, Job, Kinds
  <2>5. CASE w[1] \in {"sent", "failed"}
    <3>1. /\ screen' = [screen EXCEPT ![w[2]] =
                          IF <<w[2], w[3]>> \in astray \/ @ = "none" THEN @ ELSE w[1]]
          /\ task' = task
      BY <1>12, <2>2, <2>5 DEF Saved
    <3>2. screen' \in [Messages -> Statuses]
      BY <2>3, <2>5, <3>1 DEF TypeOK, Statuses
    <3> QED
      BY <1>12, <2>1, <2>2, <3>1, <3>2 DEF Saved, TypeOK, Job, Kinds
  <2> QED
    BY <2>3, <2>4, <2>5 DEF Kinds
<1>13. CASE SaveFails
  <2>1. writes # <<>> /\ writes' = Tail(writes)
    BY <1>13 DEF SaveFails
  <2>2. writes[1] \in Job /\ Head(writes) = writes[1] /\ writes' \in Seq(Job)
    BY <2>1, PopEffect
  <2> QED
    BY <1>13, <2>1, <2>2 DEF SaveFails, TypeOK, Job, Kinds
<1>14. CASE Disconnect
  BY <1>14 DEF Disconnect, TypeOK
<1>15. CASE Reconnect
  <2>1. Queued \in SUBSET Attempts /\ Transmit(Queued)
    BY <1>15 DEF Reconnect, Queued
  <2>2. /\ refusals' \in 0..MaxRefusals /\ thrown' \subseteq Attempts
        /\ frames' \subseteq Attempts /\ sentOut' \subseteq Attempts /\ timers' \subseteq Attempts
    BY <1>c, <2>1
  <2> QED
    BY <1>15, <2>2 DEF Reconnect, TypeOK
<1>16. ASSUME NEW t \in Attempts, Accept(t) PROVE TypeOK'
  BY <1>16 DEF Accept, TypeOK
<1>17. ASSUME NEW t \in Attempts, Ignore(t) PROVE TypeOK'
  BY <1>17 DEF Ignore, TypeOK
<1>18. ASSUME NEW t \in Attempts, Ack(t) PROVE TypeOK'
  <2>1. CASE UNCHANGED <<entry, timers, storeVars>>
    BY <1>18, <2>1 DEF Ack, TypeOK
  <2>2. ASSUME NEW m \in Messages, entry[m] # None, Settle(m) PROVE TypeOK'
    <3>1. entry[m] \in 0..MaxRetries /\ Write("sent", m, entry[m])
      BY <1>a, <2>2 DEF Settle, TypeOK
    <3> QED
      BY <1>a, <1>1, <1>18, <2>2, <3>1 DEF Ack, Settle, TypeOK, Kinds
  <2> QED
    BY <1>18, <2>1, <2>2 DEF Ack, Alike
<1>19. CASE Relaunch
  <2>1. /\ task' \in [Attempts -> {"idle", "uploading", "saving", "sealing", "done"}]
        /\ screen' \in [Messages -> Statuses]
        /\ relaunches' \in 0..MaxRelaunches
    BY <1>19 DEF Relaunch, TypeOK, Statuses
  <2> QED
    BY <1>a, <1>b, <1>19, <2>1 DEF Relaunch, TypeOK, Kinds
<1>20. CASE UNCHANGED vars
  BY <1>20 DEF vars, TypeOK
<1> QED
  BY <1>2, <1>3, <1>4, <1>5, <1>6, <1>7, <1>8, <1>9, <1>10, <1>11, <1>12, <1>13, <1>14, <1>15,
     <1>16, <1>17, <1>18, <1>19, <1>20 DEF Next, User, Upload, Seal, Store, Network

----------------------------------------------------------------------------
(* The end of a write, spelt out in terms of the job at the head.          *)
LEMMA PoppedEffect ==
  ASSUME TypeOK, Saved \/ SaveFails
  PROVE  \E w \in Job, v \in {"sealing", "done"} :
           /\ w = writes[1] /\ writes # <<>> /\ writes' = Tail(writes)
           /\ image # <<>> /\ image \in [Messages -> Statuses] /\ image' = <<>>
           /\ UNCHANGED <<astray, entry, displaced, timers, row, wireVars>>
           /\ \A u \in Attempts : task'[u] = IF Starts(w) /\ u = Of(w) THEN v ELSE task[u]
           /\ unsaved' = IF v = "done" THEN unsaved \cup {w[2]} ELSE unsaved
           /\ disk' = IF v = "done" THEN disk ELSE image
           /\ screen' = IF v = "done" \/ Of(w) \in astray THEN screen
                        ELSE [screen EXCEPT ![w[2]] = IF Starts(w) THEN "sending"
                                                      ELSE IF @ = "none" THEN @ ELSE w[1]]
<1>1. /\ writes # <<>> /\ writes' = Tail(writes) /\ image # <<>> /\ image' = <<>>
      /\ UNCHANGED <<astray, entry, displaced, timers, row, wireVars>>
  BY DEF Saved, SaveFails
<1>2. writes[1] \in Job /\ Head(writes) = writes[1]
  BY <1>1, PopEffect
<1>3. image \in [Messages -> Statuses]
  BY <1>1 DEF TypeOK
<1>4. PICK w \in Job : w = writes[1]
  BY <1>2
<1>5. w[1] \in Kinds /\ w[2] \in Messages /\ Of(w) \in Attempts /\ Of(w) = <<w[2], w[3]>>
  BY DEF Job, Of, Attempts
<1>6. CASE Saved
  <2>1. /\ disk' = image /\ unsaved' = unsaved
        /\ Starts(w) => /\ screen' = [screen EXCEPT ![w[2]] = IF Of(w) \in astray THEN @ ELSE "sending"]
                        /\ task' = [task EXCEPT ![Of(w)] = "sealing"]
        /\ ~Starts(w) => /\ screen' = [screen EXCEPT ![w[2]] =
                                         IF Of(w) \in astray \/ @ = "none" THEN @ ELSE w[1]]
                         /\ task' = task
    <3>1. Head(writes) = w /\ Saved
      BY <1>2, <1>4, <1>6
    <3>2. CASE Starts(w)
      BY <3>1, <3>2 DEF Saved, Starts, Of
    <3>3. CASE ~Starts(w)
      BY <3>1, <3>3 DEF Saved, Starts, Of
    <3> QED
      BY <3>2, <3>3
  <2>2. \A u \in Attempts : task'[u] = IF Starts(w) /\ u = Of(w) THEN "sealing" ELSE task[u]
    BY <1>5, <2>1 DEF TypeOK
  <2>3. screen' = IF Of(w) \in astray THEN screen
                  ELSE [screen EXCEPT ![w[2]] = IF Starts(w) THEN "sending"
                                                ELSE IF @ = "none" THEN @ ELSE w[1]]
    <3>1. CASE Of(w) \in astray
      BY <1>5, <2>1, <3>1 DEF TypeOK
    <3>2. CASE Of(w) \notin astray
      BY <2>1, <3>2
    <3> QED
      BY <3>1, <3>2
  <2> QED
    BY <1>1, <1>3, <1>4, <2>1, <2>2, <2>3
<1>7. CASE SaveFails
  <2>1. /\ disk' = disk /\ screen' = screen /\ unsaved' = unsaved \cup {w[2]}
        /\ Starts(w) => task' = [task EXCEPT ![Of(w)] = "done"]
        /\ ~Starts(w) => task' = task
    BY <1>2, <1>4, <1>5, <1>7 DEF SaveFails, Starts
  <2>2. \A u \in Attempts : task'[u] = IF Starts(w) /\ u = Of(w) THEN "done" ELSE task[u]
    BY <1>5, <2>1 DEF TypeOK
  <2> QED
    BY <1>1, <1>3, <1>4, <2>1, <2>2
<1> QED
  BY <1>6, <1>7

----------------------------------------------------------------------------
(* While its first attempt has not come to the store, a message has no     *)
(* other attempt.                                                          *)
LEMMA NothingElse ==
  ASSUME TypeOK, NEW m \in Messages, Local(m), task[<<m, 0>>] \in {"idle", "uploading"}
  PROVE  /\ entry[m] = None /\ row[m] = "none" /\ Blank(m) /\ ~Writing(m) /\ m \notin displaced
         /\ \A i \in 0..MaxRetries : i # 0 => task[<<m, i>>] = "idle"
         /\ \A i \in 0..MaxRetries : <<m, i>> \notin timers
<1>1. entry[m] \in 0..MaxRetries \cup {None} /\ None \notin 0..MaxRetries
  BY Ranges DEF TypeOK
<1>2. /\ row[m] = "none" /\ Blank(m) /\ ~Writing(m) /\ m \notin displaced
      /\ \A i \in 0..MaxRetries : i # 0 => task[<<m, i>>] = "idle"
  BY DEF Local, Fresh, Replaced
<1>3. entry[m] = None
  BY <1>1, <1>2 DEF Local, Settled
<1> QED
  BY <1>1, <1>2, <1>3 DEF Local, Alone

(* A message one of whose attempts is being dispatched has no entry, no    *)
(* deadline and no other attempt.                                          *)
LEMMA OneAtWork ==
  ASSUME TypeOK, NEW m \in Messages, Local(m), NEW i \in 0..MaxRetries, Working(m, i)
  PROVE  /\ ~Resting(m) /\ entry[m] = None /\ m \notin displaced
         /\ row[m] \notin {"failed", "sent"}
         /\ \A j \in 0..MaxRetries : Working(m, j) => j = i
         /\ \A j \in 0..MaxRetries : <<m, j>> \notin timers
<1>1. ~Resting(m) /\ m \notin displaced
  BY DEF Resting, Local, Replaced
<1>2. entry[m] = None /\ row[m] \notin {"failed", "sent"}
  BY <1>1 DEF Local, Alone, Settled
<1> QED
  BY <1>1, <1>2, Ranges DEF Local, Alone

(* A step that does not touch a message, or only lets go of writes and     *)
(* deadlines of it or replaces its entry, keeps what is said of it.        *)
LEMMA Untouched ==
  ASSUME TypeOK, NEW n \in Messages, Local(n),
         \A j \in 0..MaxRetries : task'[<<n, j>>] = task[<<n, j>>],
         row'[n] = row[n], screen'[n] = screen[n],
         entry'[n] = entry[n] \/ (entry'[n] = None /\ n \in displaced'),
         n \in displaced => n \in displaced',
         n \in displaced' => n \in displaced \/ (entry[n] # None /\ entry'[n] = None),
         Blank(n) /\ row[n] = "none" => Blank(n)', Writing(n)' => Writing(n),
         \A j \in 0..MaxRetries : <<n, j>> \in timers' => <<n, j>> \in timers \/ entry'[n] = j
  PROVE  Local(n)'
<1>1. 0..None = (0..MaxRetries) \cup {None} /\ 0 \in 0..MaxRetries
  BY Ranges
<1>2. (Resting(n)' <=> Resting(n)) /\ (Sealing(n)' <=> Sealing(n))
  BY DEF Resting, Working, Sealing
<1>3. Fresh(n)'
  BY <1>1 DEF Local, Fresh
<1>4. Rowless(n)'
  BY <1>1, <1>2 DEF Local, Rowless
<1>5. Settled(n)'
  <2>1. entry[n] # None => entry[n] \in 0..MaxRetries
    BY <1>1 DEF TypeOK
  <2> QED
    BY <1>2, <2>1 DEF Local, Settled
<1>6. Alone(n)'
  <2>1. \A i, j \in 0..MaxRetries : Working(n, i)' /\ Working(n, j)' => i = j
    BY DEF Local, Alone, Working
  <2>2. ~Resting(n)' => entry'[n] = None
    BY <1>2 DEF Local, Alone
  <2>3. ASSUME NEW i \in 0..MaxRetries, <<n, i>> \in timers'
        PROVE  entry'[n] = i \/ (entry'[n] = None /\ n \in displaced')
    <3>1. entry[n] = i \/ (entry[n] = None /\ n \in displaced) \/ entry'[n] = i
      BY <2>3 DEF Local, Alone
    <3> QED
      BY <3>1
  <2> QED
    BY <2>1, <2>2, <2>3 DEF Alone
<1>7. Replaced(n)'
  <2>1. CASE n \in displaced
    BY <1>1, <1>2, <2>1 DEF Local, Replaced
  <2>2. CASE n \notin displaced /\ n \in displaced'
    <3>1. entry[n] # None /\ entry'[n] = None /\ Resting(n)
      BY <2>2 DEF Local, Alone
    <3>2. row[n] \in {"none", "sending"}
      BY <3>1 DEF Local, Settled, TypeOK, Statuses
    <3>3. task[<<n, 0>>] \notin {"idle", "uploading"}
      BY <3>1, NothingElse
    <3> QED
      BY <1>1, <1>2, <3>1, <3>2, <3>3 DEF Replaced
  <2> QED
    BY <2>1, <2>2 DEF Replaced
<1>8. Quiet(n)'
  BY <1>2 DEF Local, Quiet
<1> QED
  BY <1>3, <1>4, <1>5, <1>6, <1>7, <1>8 DEF Local

(* Every step keeps what an attempt's progress says of its message.        *)
LEMMA DispatchingStep ==
  TypeOK /\ Dispatching /\ Storing /\ [Next]_vars => Dispatching'
<1> SUFFICES ASSUME TypeOK, Dispatching, Storing, [Next]_vars, NEW n \in Messages PROVE Local(n)'
  BY DEF Dispatching
<1> USE RetriesAssumption DEF wireVars, storeVars
<1>a. /\ 0 \in 0..MaxRetries /\ None \notin 0..MaxRetries /\ 0..None = (0..MaxRetries) \cup {None}
      /\ entry \in [Messages -> 0..None]
  BY Ranges DEF TypeOK
<1>b. \A m \in Messages : Local(m)
  BY DEF Dispatching
<1> HIDE DEF Dispatching
<1>1. ASSUME \A j \in 0..MaxRetries : task'[<<n, j>>] = task[<<n, j>>],
             row'[n] = row[n], screen'[n] = screen[n], entry'[n] = entry[n], displaced' = displaced,
             Blank(n) /\ row[n] = "none" => Blank(n)', Writing(n)' => Writing(n),
             \A j \in 0..MaxRetries : <<n, j>> \in timers' => <<n, j>> \in timers \/ entry[n] = j
      PROVE  Local(n)'
  BY <1>1, <1>b, Untouched
<1>2. ASSUME NEW m \in Messages, Send(m) \/ Uploaded(m) PROVE Local(n)'
  <2>1. /\ UNCHANGED <<image, disk, screen, entry, displaced, timers>>
        /\ task[<<m, 0>>] \in {"idle", "uploading"}
        /\ task' = [task EXCEPT ![<<m, 0>>] = "saving"]
        /\ Write("append", m, 0)
    BY <1>2 DEF Send, Uploaded, Write
  <2>2. /\ \A k \in Messages : k # m => row'[k] = row[k]
        /\ row'[m] = "sending"
        /\ \A k \in Messages : Writing(k)' <=> Writing(k) \/ k = m
    BY <1>a, <2>1, WriteEffect DEF Kinds
  <2>3. \A k \in Messages : \A j \in 0..MaxRetries :
          task'[<<k, j>>] = IF k = m /\ j = 0 THEN "saving" ELSE task[<<k, j>>]
    BY <1>a, <2>1 DEF TypeOK, Attempts
  <2>4. Blank(n)' <=> Blank(n)
    BY <2>1 DEF Blank
  <2>5. CASE n # m
    BY <1>1, <2>1, <2>2, <2>3, <2>4, <2>5
  <2>6. CASE n = m
    <3>1. /\ entry[m] = None /\ m \notin displaced
          /\ \A j \in 0..MaxRetries : j # 0 => task[<<m, j>>] = "idle"
          /\ \A j \in 0..MaxRetries : <<m, j>> \notin timers
      BY <1>b, <2>1, NothingElse
    <3>2. ~Sealing(m)'
      BY <2>3, <3>1 DEF Sealing
    <3> QED
      BY <1>a, <2>1, <2>2, <2>3, <2>6, <3>1, <3>2
         DEF Local, Fresh, Rowless, Settled, Alone, Replaced, Quiet, Resting, Working
  <2> QED
    BY <2>5, <2>6
<1>3. ASSUME NEW m \in Messages, SendAttachment(m) \/ SendControl(m) PROVE Local(n)'
  <2>1. /\ UNCHANGED <<writes, row, image, disk, screen, entry, displaced, timers>>
        /\ task[<<m, 0>>] = "idle"
        /\ \/ task' = [task EXCEPT ![<<m, 0>>] = "uploading"]
           \/ task' = [task EXCEPT ![<<m, 0>>] = "sealing"]
    BY <1>3 DEF SendAttachment, SendControl
  <2>2. /\ task'[<<m, 0>>] \in {"uploading", "sealing"}
        /\ \A k \in Messages : \A j \in 0..MaxRetries :
             ~(k = m /\ j = 0) => task'[<<k, j>>] = task[<<k, j>>]
    BY <1>a, <2>1 DEF TypeOK, Attempts
  <2>3. (Writing(n)' <=> Writing(n)) /\ (Blank(n)' <=> Blank(n))
    BY <2>1 DEF Writing, Blank
  <2>4. CASE n # m
    BY <1>1, <2>1, <2>2, <2>3, <2>4
  <2>5. CASE n = m
    <3>1. /\ entry[m] = None /\ row[m] = "none" /\ Blank(m) /\ ~Writing(m) /\ screen[m] = "none"
          /\ m \notin displaced
          /\ \A j \in 0..MaxRetries : j # 0 => task[<<m, j>>] = "idle"
          /\ \A j \in 0..MaxRetries : <<m, j>> \notin timers
      BY <1>b, <2>1, NothingElse DEF Local, Fresh
    <3> QED
      BY <1>a, <2>1, <2>2, <2>3, <2>5, <3>1
         DEF Local, Fresh, Rowless, Settled, Alone, Replaced, Quiet, Resting, Working
  <2> QED
    BY <2>4, <2>5
<1>4. ASSUME NEW q \in Messages, NEW m \in Messages, NEW i \in 0..MaxRetries, Retry(q, m, i)
      PROVE  Local(n)'
  <2>1. /\ UNCHANGED <<image, disk, screen, entry, displaced, timers>>
        /\ i # 0 /\ task[<<m, i>>] = "idle" /\ row[m] = "failed"
        /\ task' = [task EXCEPT ![<<m, i>>] = "saving"]
        /\ Write("resend", m, i)
    BY <1>4 DEF Retry, Write
  <2>2. /\ \A k \in Messages : k # m => row'[k] = row[k]
        /\ row'[m] = "sending"
        /\ \A k \in Messages : Writing(k)' <=> Writing(k) \/ k = m
    BY <2>1, WriteEffect DEF Kinds
  <2>3. \A k \in Messages : \A j \in 0..MaxRetries :
          task'[<<k, j>>] = IF k = m /\ j = i THEN "saving" ELSE task[<<k, j>>]
    BY <2>1 DEF TypeOK, Attempts
  <2>4. Blank(n)' <=> Blank(n)
    BY <2>1 DEF Blank
  <2>5. CASE n # m
    BY <1>1, <2>1, <2>2, <2>3, <2>4, <2>5
  <2>6. CASE n = m
    <3>1. /\ entry[m] = None /\ m \notin displaced
          /\ \A j \in 0..MaxRetries : task[<<m, j>>] \in {"idle", "done"}
          /\ task[<<m, 0>>] \notin {"idle", "uploading"}
      BY <1>b, <2>1 DEF Local, Fresh, Settled, Replaced, Resting, Working
    <3>2. \A j \in 0..MaxRetries : <<m, j>> \notin timers
      BY <1>a, <1>b, <3>1 DEF Local, Alone
    <3>3. ~Sealing(m)'
      BY <2>3, <3>1 DEF Sealing
    <3> QED
      BY <1>a, <2>1, <2>2, <2>3, <2>6, <3>1, <3>2, <3>3
         DEF Local, Fresh, Rowless, Settled, Alone, Replaced, Quiet, Resting, Working
  <2> QED
    BY <2>5, <2>6
<1>5. ASSUME NEW m \in Messages, UploadFails(m) PROVE Local(n)'
  <2>1. /\ UNCHANGED <<writes, row, image, disk, entry, displaced, timers>>
        /\ task[<<m, 0>>] = "uploading"
        /\ task' = [task EXCEPT ![<<m, 0>>] = "done"]
        /\ screen' = [screen EXCEPT ![m] = "failed"]
    BY <1>5 DEF UploadFails
  <2>2. /\ \A k \in Messages : \A j \in 0..MaxRetries :
             task'[<<k, j>>] = IF k = m /\ j = 0 THEN "done" ELSE task[<<k, j>>]
        /\ \A k \in Messages : k # m => screen'[k] = screen[k]
    BY <1>a, <2>1 DEF TypeOK, Attempts
  <2>3. (Writing(n)' <=> Writing(n)) /\ (Blank(n)' <=> Blank(n))
    BY <2>1 DEF Writing, Blank
  <2>4. CASE n # m
    BY <1>1, <2>1, <2>2, <2>3, <2>4
  <2>5. CASE n = m
    <3>1. /\ entry[m] = None /\ row[m] = "none" /\ ~Writing(m) /\ m \notin displaced
          /\ \A j \in 0..MaxRetries : j # 0 => task[<<m, j>>] = "idle"
          /\ \A j \in 0..MaxRetries : <<m, j>> \notin timers
      BY <1>b, <2>1, NothingElse
    <3> QED
      BY <1>a, <2>1, <2>2, <2>3, <2>5, <3>1
         DEF Local, Fresh, Rowless, Settled, Alone, Replaced, Quiet, Resting, Working
  <2> QED
    BY <2>4, <2>5
<1>6. CASE Picture
  <2>1. UNCHANGED <<task, entry, displaced, timers, writes, row, disk, screen>> /\ image' = row
    BY <1>6 DEF Picture
  <2>2. Blank(n) /\ row[n] = "none" => Blank(n)'
    BY <2>1 DEF Blank
  <2>3. Writing(n)' <=> Writing(n)
    BY <2>1 DEF Writing
  <2> QED
    BY <1>1, <2>1, <2>2, <2>3
<1>7. CASE Saved \/ SaveFails
  <2>1. PICK w \in Job, v \in {"sealing", "done"} :
          /\ w = writes[1] /\ writes # <<>> /\ writes' = Tail(writes)
          /\ image # <<>> /\ image' = <<>> /\ disk' \in {disk, image}
          /\ UNCHANGED <<astray, entry, displaced, timers, row>>
          /\ \A u \in Attempts : task'[u] = IF Starts(w) /\ u = Of(w) THEN v ELSE task[u]
          /\ screen' = IF v = "done" \/ Of(w) \in astray THEN screen
                       ELSE [screen EXCEPT ![w[2]] = IF Starts(w) THEN "sending"
                                                     ELSE IF @ = "none" THEN @ ELSE w[1]]
    BY <1>7, PoppedEffect
  <2>2. /\ 1 \in 1..Len(writes) /\ Len(writes') = Len(writes) - 1 /\ Len(writes) \in Nat
        /\ \A k \in 1..Len(writes') : k + 1 \in 1..Len(writes) /\ writes'[k] = writes[k + 1]
        /\ \A k \in Messages : Writing(k) <=> Writing(k)' \/ k = w[2]
    BY <2>1, PopEffect
  <2>3. Blank(n) => Blank(n)'
    BY <2>1 DEF Blank
  <2>4. PICK m \in Messages, i \in 0..MaxRetries : m = w[2] /\ Of(w) = <<m, i>>
    BY DEF Job, Of
  <2>5. /\ Starts(w) => task[<<m, i>>] = "saving" /\ row[m] # "none"
        /\ Writing(m) /\ w[1] \in Kinds
    BY <2>1, <2>2, <2>4 DEF Storing, Chained, Job
  <2>6. \A k \in Messages, j \in 0..MaxRetries :
          task'[<<k, j>>] = IF Starts(w) /\ k = m /\ j = i THEN v ELSE task[<<k, j>>]
    <3> SUFFICES ASSUME NEW k \in Messages, NEW j \in 0..MaxRetries
                 PROVE  task'[<<k, j>>] = IF Starts(w) /\ k = m /\ j = i THEN v ELSE task[<<k, j>>]
      OBVIOUS
    <3>1. <<k, j>> \in Attempts /\ (<<k, j>> = Of(w) <=> k = m /\ j = i)
      BY <2>4, Ranges
    <3> QED
      BY <2>1, <3>1
  <2>7. /\ \A k \in Messages : k # m => screen'[k] = screen[k]
        /\ screen'[m] # "none" => screen[m] # "none" \/ Starts(w)
    BY <2>1, <2>4 DEF TypeOK
  <2>8. CASE n # m
    BY <1>1, <2>1, <2>2, <2>3, <2>4, <2>6, <2>7, <2>8
  <2>9. CASE n = m
    <3>1. task[<<m, 0>>] \notin {"idle", "uploading"} /\ (row[m] = "none" => screen[m] = "none")
      BY <1>b, <2>5 DEF Local, Fresh, Rowless
    <3>2. CASE ~Starts(w)
      <4>1. \A j \in 0..MaxRetries : task'[<<m, j>>] = task[<<m, j>>]
        BY <2>6, <3>2
      <4>2. (Resting(m)' <=> Resting(m)) /\ (Sealing(m)' <=> Sealing(m))
        BY <4>1 DEF Resting, Working, Sealing
      <4>3. Settled(m)' /\ Alone(m)' /\ Replaced(m)' /\ Quiet(m)'
        <5>1. entry[m] # None => entry[m] \in 0..MaxRetries
          BY <1>a
        <5>2. Settled(m) /\ Alone(m) /\ Replaced(m) /\ Quiet(m) /\ (Writing(m)' => Writing(m))
          BY <1>b, <2>2 DEF Local
        <5>3. Settled(m)' /\ Alone(m)'
          BY <2>1, <4>1, <4>2, <5>1, <5>2 DEF Settled, Alone, Working
        <5>4. Replaced(m)' /\ Quiet(m)'
          BY <1>a, <2>1, <4>1, <4>2, <5>1, <5>2 DEF Replaced, Quiet
        <5> QED
          BY <5>3, <5>4
      <4> QED
        BY <1>a, <2>1, <2>7, <2>9, <3>1, <3>2, <4>1, <4>3 DEF Local, Fresh, Rowless
    <3>3. CASE Starts(w)
      <4>1. Working(m, i)
        BY <2>5, <3>3 DEF Working
      <4>2. /\ entry[m] = None /\ row[m] \notin {"none", "failed", "sent"} /\ m \notin displaced
            /\ \A j \in 0..MaxRetries : Working(m, j) => j = i
            /\ \A j \in 0..MaxRetries : <<m, j>> \notin timers
        BY <1>b, <2>5, <3>3, <4>1, OneAtWork
      <4>3. ~Writing(m)'
        <5> SUFFICES ASSUME NEW k \in 1..Len(writes'), writes'[k][2] = m PROVE FALSE
          BY DEF Writing
        <5>1. k + 1 \in 1..Len(writes) /\ 1 < k + 1 /\ writes[k + 1][2] = writes[1][2]
          BY <2>1, <2>2, <2>4
        <5> QED
          BY <2>1, <2>2, <3>3, <5>1 DEF Storing, Chained
      <4>4. /\ Fresh(m)' /\ Rowless(m)' /\ Settled(m)' /\ Replaced(m)' /\ Quiet(m)'
        BY <1>a, <2>1, <2>4, <2>6, <3>1, <3>3, <4>2, <4>3
           DEF Fresh, Rowless, Settled, Replaced, Quiet
      <4>5. Alone(m)'
        BY <2>1, <2>6, <3>3, <4>2 DEF Alone, Working
      <4> QED
        BY <2>9, <4>4, <4>5 DEF Local
    <3> QED
      BY <3>2, <3>3
  <2> QED
    BY <2>8, <2>9
<1>8. ASSUME NEW m \in Messages, NEW i \in 0..MaxRetries, Sealed(m, i) PROVE Local(n)'
  <2>1. /\ UNCHANGED <<image, disk, screen, row, writes>>
        /\ task[<<m, i>>] = "sealing"
        /\ task' = [task EXCEPT ![<<m, i>>] = "done"]
        /\ entry' = [k \in Messages |-> IF k = m THEN i ELSE IF k \in Alike(m) THEN None ELSE entry[k]]
        /\ displaced' = displaced \cup {k \in Alike(m) \ {m} : entry[k] # None}
        /\ timers' \subseteq timers \cup {<<m, i>>}
    BY <1>8 DEF Sealed, Pend, Transmit
  <2>2. \A k \in Messages : \A j \in 0..MaxRetries :
          task'[<<k, j>>] = IF k = m /\ j = i THEN "done" ELSE task[<<k, j>>]
    BY <2>1 DEF TypeOK, Attempts
  <2>3. (Blank(n)' <=> Blank(n)) /\ (Writing(n)' <=> Writing(n))
    BY <2>1 DEF Blank, Writing
  <2>4. CASE n # m
    <3>1. entry'[n] = entry[n] \/ (entry'[n] = None /\ n \in displaced')
      BY <2>1, <2>4
    <3>2. /\ n \in displaced => n \in displaced'
          /\ n \in displaced' => n \in displaced \/ (entry[n] # None /\ entry'[n] = None)
      BY <2>1, <2>4
    <3>3. \A j \in 0..MaxRetries : <<n, j>> \in timers' => <<n, j>> \in timers
      BY <2>1, <2>4
    <3> QED
      BY <1>b, <2>1, <2>2, <2>3, <2>4, <3>1, <3>2, <3>3, Untouched
  <2>5. CASE n = m
    <3>1. Working(m, i) /\ Sealing(m)
      BY <2>1 DEF Working, Sealing
    <3>2. /\ m \notin displaced /\ row[m] \notin {"failed", "sent"}
          /\ \A j \in 0..MaxRetries : Working(m, j) => j = i
          /\ \A j \in 0..MaxRetries : <<m, j>> \notin timers
          /\ ~Resting(m)
      BY <1>b, <3>1, OneAtWork
    <3>3. /\ row[m] = "none" => screen[m] = "none"
          /\ task[<<m, 0>>] \notin {"idle", "uploading"} /\ ~Writing(m)
      BY <1>a, <1>b, <2>1, <3>1, <3>2 DEF Local, Rowless, Fresh, Quiet
    <3>4. Resting(m)'
      BY <2>2, <3>2 DEF Resting, Working
    <3>5. entry'[m] = i /\ m \notin displaced'
      BY <2>1, <3>2
    <3>6. Fresh(m)' /\ Rowless(m)' /\ Replaced(m)' /\ Quiet(m)'
      BY <1>a, <2>1, <2>2, <2>3, <2>5, <3>3, <3>5 DEF Fresh, Rowless, Replaced, Quiet
    <3>7. Settled(m)'
      BY <2>1, <2>2, <3>2, <3>5 DEF Settled
    <3>8. Alone(m)'
      BY <2>1, <3>2, <3>4, <3>5 DEF Alone, Resting
    <3> QED
      BY <2>5, <3>6, <3>7, <3>8 DEF Local
  <2> QED
    BY <2>4, <2>5
<1>9. ASSUME NEW m \in Messages, NEW i \in 0..MaxRetries, SealFails(m, i) PROVE Local(n)'
  <2>1. /\ UNCHANGED <<image, disk, screen, entry, displaced, timers>>
        /\ task[<<m, i>>] = "sealing"
        /\ task' = [task EXCEPT ![<<m, i>>] = "done"]
    BY <1>9 DEF SealFails, Write
  <2>2. /\ \A k \in Messages : k # m => row'[k] = row[k]
        /\ row'[m] = row[m] \/ (row'[m] = "failed" /\ row[m] # "none")
        /\ \A k \in Messages : Writing(k)' => Writing(k) \/ (k = m /\ row[k] # "none")
    <3>1. CASE UNCHANGED storeVars
      BY <3>1 DEF Writing
    <3>2. CASE Write("failed", m, i) /\ row[m] # "none"
      BY <3>2, WriteEffect DEF Kinds
    <3> QED
      BY <1>9, <3>1, <3>2 DEF SealFails
  <2>3. \A k \in Messages : \A j \in 0..MaxRetries :
          task'[<<k, j>>] = IF k = m /\ j = i THEN "done" ELSE task[<<k, j>>]
    BY <2>1 DEF TypeOK, Attempts
  <2>4. Blank(n)' <=> Blank(n)
    BY <2>1 DEF Blank
  <2>5. CASE n # m
    BY <1>1, <2>1, <2>2, <2>3, <2>4, <2>5
  <2>6. CASE n = m
    <3>1. Working(m, i)
      BY <2>1 DEF Working
    <3>2. /\ entry[m] = None /\ m \notin displaced /\ ~Resting(m)
          /\ row[m] \notin {"failed", "sent"}
          /\ \A j \in 0..MaxRetries : Working(m, j) => j = i
          /\ \A j \in 0..MaxRetries : <<m, j>> \notin timers
      BY <1>b, <3>1, OneAtWork
    <3>3. /\ row[m] = "none" => screen[m] = "none"
          /\ task[<<m, 0>>] \notin {"idle", "uploading"}
      BY <1>a, <1>b, <2>1, <3>2 DEF Local, Rowless, Fresh
    <3>4. Resting(m)' /\ ~Sealing(m)'
      BY <2>3, <3>2 DEF Resting, Working, Sealing
    <3>5. Fresh(m)' /\ Rowless(m)'
      BY <1>a, <2>1, <2>2, <2>3, <3>3 DEF Fresh, Rowless
    <3>6. Settled(m)' /\ Alone(m)' /\ Replaced(m)' /\ Quiet(m)'
      BY <1>a, <2>1, <3>2, <3>4 DEF Settled, Alone, Replaced, Quiet, Resting
    <3> QED
      BY <2>6, <3>5, <3>6 DEF Local
  <2> QED
    BY <2>5, <2>6
<1>10. CASE Reconnect \/ Disconnect \/ (\E t \in Attempts : Accept(t) \/ Ignore(t)) \/ UNCHANGED vars
  <2>1. /\ UNCHANGED <<task, writes, row, image, disk, screen, entry, displaced>>
        /\ \A t \in timers' : t \in timers \/ t \in Queued
    BY <1>10 DEF Reconnect, Transmit, Disconnect, Accept, Ignore, vars
  <2>2. (Writing(n)' <=> Writing(n)) /\ (Blank(n)' <=> Blank(n))
    BY <2>1 DEF Writing, Blank
  <2>3. \A j \in 0..MaxRetries : <<n, j>> \in timers' => <<n, j>> \in timers \/ entry[n] = j
    BY <2>1 DEF Queued
  <2> QED
    BY <1>1, <2>1, <2>2, <2>3
<1>11. ASSUME NEW m \in Messages, NEW i \in 0..MaxRetries, NEW what \in {"sent", "failed"},
              entry[m] = i, entry' = [entry EXCEPT ![m] = None], timers' = timers \ {<<m, i>>},
              Write(what, m, i), UNCHANGED <<task, displaced>>
       PROVE  Local(n)'
  <2>1. /\ UNCHANGED <<image, disk, screen>>
        /\ entry'[m] = None
        /\ \A k \in Messages : k # m => entry'[k] = entry[k]
    BY <1>a, <1>11 DEF Write
  <2>2. /\ \A k \in Messages : k # m => row'[k] = row[k]
        /\ row'[m] = IF row[m] = "none" THEN "none" ELSE what
        /\ \A k \in Messages : Writing(k)' <=> Writing(k) \/ k = m
    BY <1>11, WriteEffect DEF Kinds
  <2>3. Blank(n)' <=> Blank(n)
    BY <2>1 DEF Blank
  <2>4. CASE n # m
    BY <1>1, <1>11, <2>1, <2>2, <2>3, <2>4
  <2>5. CASE n = m
    <3>1. entry[m] # None /\ m \notin displaced
      BY <1>a, <1>b, <1>11 DEF Local, Replaced
    <3>2. Resting(m) /\ (\A j \in 0..MaxRetries : <<m, j>> \in timers => j = i)
      BY <1>b, <1>11, <3>1 DEF Local, Alone
    <3>3. task[<<m, 0>>] \notin {"idle", "uploading"}
      BY <1>b, <3>1, NothingElse
    <3>4. row[m] = "none" => screen[m] = "none"
      BY <1>b, <3>1 DEF Local, Rowless
    <3>5. Resting(m)' /\ ~Sealing(m)' /\ (\A j \in 0..MaxRetries : <<m, j>> \notin timers')
      BY <1>11, <3>2 DEF Resting, Working, Sealing
    <3>6. Fresh(m)' /\ Rowless(m)'
      BY <1>11, <2>1, <2>2, <3>3, <3>4 DEF Fresh, Rowless
    <3>7. Settled(m)' /\ Alone(m)' /\ Replaced(m)' /\ Quiet(m)'
      BY <1>11, <2>1, <3>1, <3>5 DEF Settled, Alone, Replaced, Quiet, Resting
    <3> QED
      BY <2>5, <3>6, <3>7 DEF Local
  <2> QED
    BY <2>4, <2>5
<1>12. ASSUME UNCHANGED <<task, writes, row, image, disk, screen, entry, displaced>>,
              timers' \subseteq timers
       PROVE  Local(n)'
  <2>1. (Writing(n)' <=> Writing(n)) /\ (Blank(n)' <=> Blank(n))
    BY <1>12 DEF Writing, Blank
  <2> QED
    BY <1>1, <1>12, <2>1
<1>13. ASSUME NEW t \in Attempts, Ack(t) PROVE Local(n)'
  <2>1. CASE UNCHANGED <<entry, timers, storeVars>>
    BY <1>12, <1>13, <2>1 DEF Ack
  <2>2. ASSUME NEW m \in Messages, entry[m] # None, Settle(m) PROVE Local(n)'
    <3>1. entry[m] \in 0..MaxRetries
      BY <1>a, <2>2
    <3> QED
      BY <1>11, <1>13, <2>2, <3>1 DEF Ack, Settle
  <2> QED
    BY <1>13, <2>1, <2>2 DEF Ack, Alike
<1>14. ASSUME NEW t \in Attempts, AckTimeout(t) PROVE Local(n)'
  <2>1. t[1] \in Messages /\ t[2] \in 0..MaxRetries /\ t = <<t[1], t[2]>>
    BY Ranges
  <2>2. CASE entry[t[1]] # t[2]
    BY <1>12, <1>14, <2>2 DEF AckTimeout
  <2>3. CASE entry[t[1]] = t[2]
    <3>1. /\ entry' = [entry EXCEPT ![t[1]] = None] /\ timers' = timers \ {<<t[1], t[2]>>}
          /\ Write("failed", t[1], t[2]) /\ UNCHANGED <<task, displaced>>
      BY <1>14, <2>1, <2>3 DEF AckTimeout
    <3> QED
      BY <1>11, <2>1, <2>3, <3>1
  <2> QED
    BY <2>2, <2>3
<1>15. CASE Relaunch
  <2>1. /\ \A j \in 0..MaxRetries :
             task'[<<n, j>>] = IF task[<<n, j>>] = "idle" THEN "idle" ELSE "done"
        /\ writes' = <<>> /\ image' = <<>> /\ row' = disk /\ disk' = disk /\ timers' = {}
        /\ screen'[n] = IF disk[n] = "sending" THEN "failed" ELSE disk[n]
        /\ entry'[n] = None /\ displaced' = {}
    BY <1>15 DEF Relaunch, Attempts
  <2>2. ~Writing(n)' /\ Resting(n)' /\ ~Sealing(n)'
    <3>1. ~Writing(n)'
      BY <2>1 DEF Writing
    <3>2. \A j \in 0..MaxRetries : task'[<<n, j>>] \in {"idle", "done"}
      BY <2>1
    <3> QED
      BY <3>1, <3>2 DEF Resting, Working, Sealing
  <2>3. task[<<n, 0>>] = "idle"
          => disk[n] = "none" /\ \A j \in 0..MaxRetries : j # 0 => task[<<n, j>>] = "idle"
    BY <1>b DEF Local, Fresh, Blank
  <2>4. Fresh(n)' /\ Rowless(n)'
    BY <1>a, <2>1, <2>2, <2>3 DEF Fresh, Rowless, Blank
  <2>5. Settled(n)' /\ Alone(n)' /\ Replaced(n)' /\ Quiet(n)'
    BY <2>1, <2>2 DEF Settled, Alone, Replaced, Quiet, Resting
  <2> QED
    BY <2>4, <2>5 DEF Local
<1> QED
  BY <1>2, <1>3, <1>4, <1>5, <1>6, <1>7, <1>8, <1>9, <1>10, <1>13, <1>14, <1>15
     DEF Next, User, Upload, Seal, Store, Network, Attempts

(* Every step leaves one pending entry to a number. *)
LEMMA OnePendingStep == TypeOK /\ OnePending /\ [Next]_vars => OnePending'
<1> SUFFICES ASSUME TypeOK, OnePending, [Next]_vars PROVE OnePending'
  OBVIOUS
<1> USE DEF wireVars, storeVars
<1>a. \A m \in Messages : Alike(m)' = Alike(m)
  BY NumberStays DEF Alike
<1>1. ASSUME \A m \in Messages : entry'[m] \in {entry[m], None} PROVE OnePending'
  BY <1>1, <1>a DEF OnePending, Alike
<1>2. ASSUME NEW m \in Messages, NEW i \in 0..MaxRetries, Sealed(m, i) PROVE OnePending'
  <2>1. entry' = [k \in Messages |-> IF k = m THEN i ELSE IF k \in Alike(m) THEN None ELSE entry[k]]
    BY <1>2 DEF Sealed, Pend
  <2>2. ASSUME NEW p \in Messages, NEW q \in Messages, number[p] = number[q],
               entry'[p] # None, entry'[q] # None
        PROVE  p = q
    BY <2>1, <2>2 DEF OnePending, Alike
  <2> QED
    BY <1>a, <2>2 DEF OnePending, Alike
<1>3. ASSUME NEW m \in Messages, User(m) \/ Upload(m) PROVE entry' = entry
  BY <1>3 DEF User, Send, SendAttachment, SendControl, Retry, Upload, Uploaded, UploadFails
<1>4. ASSUME NEW t \in Attempts, SealFails(t[1], t[2]) \/ AckTimeout(t) \/ Ack(t)
      PROVE  \A m \in Messages : entry'[m] \in {entry[m], None}
  <2>1. CASE entry' = entry
    BY <2>1
  <2>2. ASSUME NEW m \in Messages, entry' = [entry EXCEPT ![m] = None]
        PROVE  \A k \in Messages : entry'[k] \in {entry[k], None}
    BY <2>2 DEF TypeOK
  <2> QED
    BY <1>4, <2>1, <2>2, Ranges DEF SealFails, AckTimeout, Ack, Settle, Alike
<1>5. ASSUME Store \/ Disconnect \/ Reconnect \/ (\E t \in Attempts : Accept(t) \/ Ignore(t))
               \/ UNCHANGED vars
      PROVE  entry' = entry
  BY <1>5 DEF Store, Picture, Saved, SaveFails, Disconnect, Reconnect, Accept, Ignore, vars
<1>6. CASE Relaunch
  BY <1>1, <1>6 DEF Relaunch
<1> QED
  BY <1>1, <1>2, <1>3, <1>4, <1>5, <1>6, Ranges DEF Next, Seal, Network

----------------------------------------------------------------------------
(* A vault call keeps what is said of the chain and of the blob, when the  *)
(* attempt it starts is new or the one it settles has no other write, and  *)
(* when it takes back no `sent`.                                           *)
LEMMA WriteStoring ==
  ASSUME TypeOK, Storing, NEW what \in Kinds, NEW m \in Messages, NEW i \in 0..MaxRetries,
         Write(what, m, i),
         number' = number, accepted' = accepted, acks' \subseteq acks,
         \A t \in Attempts : task[t] = "saving" => task'[t] = "saving",
         \A t \in Attempts : task[t] # "idle" => task'[t] # "idle",
         task'[<<m, i>>] # "idle",
         what \in {"append", "resend"}
           => /\ task'[<<m, i>>] = "saving"
              /\ row[m] = "failed" \/ (row[m] = "none" /\ ~Writing(m))
              /\ \A k \in 1..Len(writes) : writes[k][2] = m => ~Starts(writes[k]),
         what \in {"sent", "failed"} => ~Writing(m),
         what = "sent" => Taken(m),
         what = "failed" => row[m] # "sent"
  PROVE  Storing'
<1>1. PICK new \in Job :
      /\ new = <<what, m, i>>
      /\ writes' \in Seq(Job)
      /\ Len(writes') = Len(writes) + 1
      /\ \A k \in 1..Len(writes) : writes'[k] = writes[k]
      /\ writes'[Len(writes) + 1] = new
      /\ \A n \in Messages : n # m => row'[n] = row[n]
      /\ what \in {"append", "resend"} => row'[m] = "sending"
      /\ what \in {"sent", "failed"} => row'[m] = IF row[m] = "none" THEN "none" ELSE what
  <2>1. <<what, m, i>> \in Job
    BY DEF Job
  <2> QED
    BY <2>1, WriteEffect
<1>n. Of(new) = <<m, i>> /\ new[1] = what /\ new[2] = m
  BY <1>1 DEF Of
<1>2. writes \in Seq(Job) /\ Len(writes) \in Nat
  <2>1. writes \in Seq(Job)
    BY DEF TypeOK, Job, Kinds
  <2> QED
    BY <2>1, LenProperties
<1>t. \A n \in Messages : Taken(n)' <=> Taken(n)
  BY DEF Taken, Alike
<1>3. ASSUME NEW k \in 1..Len(writes), writes[k][1] = "sent" PROVE writes[k][2] # m
  <2> SUFFICES ASSUME writes[k][2] = m PROVE FALSE
    OBVIOUS
  <2>1. row[m] \in {"sent", "none"} /\ Writing(m)
    BY <1>3 DEF Storing, Chained, Writing
  <2> QED
    BY <2>1 DEF Kinds
<1>4. /\ row[m] = "sent" => row'[m] = "sent"
      /\ row'[m] = "sent" => Taken(m)
      /\ row[m] # "none" => row'[m] # "none"
  BY <1>1 DEF Kinds, Storing, Lasting
<1>5. Chained'
  <2>1. ASSUME NEW k \in 1..Len(writes')
        PROVE  \/ k \in 1..Len(writes) /\ writes'[k] = writes[k]
               \/ k = Len(writes) + 1 /\ writes'[k] = new
    BY <1>1, <1>2
  <2>2. ASSUME NEW k \in 1..Len(writes')
        PROVE  /\ task'[Of(writes'[k])] # "idle"
               /\ Starts(writes'[k]) => task'[Of(writes'[k])] = "saving"
                                        /\ row'[writes'[k][2]] # "none"
    <3>1. CASE k \in 1..Len(writes) /\ writes'[k] = writes[k]
      <4>1. Of(writes[k]) \in Attempts /\ writes[k][2] \in Messages
        BY <3>1, Jobs
      <4>2. /\ task[Of(writes[k])] # "idle"
            /\ Starts(writes[k]) => task[Of(writes[k])] = "saving" /\ row[writes[k][2]] # "none"
        BY <3>1 DEF Storing, Chained
      <4> QED
        BY <1>1, <1>4, <3>1, <4>1, <4>2
    <3>2. CASE k = Len(writes) + 1 /\ writes'[k] = new
      BY <1>1, <1>n, <3>2 DEF Starts
    <3> QED
      BY <2>1, <3>1, <3>2
  <2>3. ASSUME NEW k \in 1..Len(writes'), writes'[k][1] = "sent"
        PROVE  Taken(writes[k][2])' /\ row'[writes'[k][2]] \in {"sent", "none"}
    <3>1. CASE k \in 1..Len(writes) /\ writes'[k] = writes[k]
      <4>1. PICK n \in Messages : n = writes[k][2]
        BY <3>1, Jobs
      <4>2. Taken(n) /\ row[n] \in {"sent", "none"} /\ n # m
        BY <1>3, <2>3, <3>1, <4>1 DEF Storing, Chained
      <4>3. Taken(n)' /\ row'[n] \in {"sent", "none"}
        BY <1>1, <1>t, <4>2
      <4> QED
        BY <3>1, <4>1, <4>3 DEF Taken, Alike
    <3>2. CASE k = Len(writes) + 1 /\ writes'[k] = new
      <4>1. what = "sent"
        BY <1>n, <2>3, <3>2
      <4>2. Taken(m)' /\ row'[m] \in {"sent", "none"}
        BY <1>1, <1>t, <4>1
      <4> QED
        BY <1>n, <3>2, <4>2 DEF Taken, Alike
    <3> QED
      BY <2>1, <3>1, <3>2
  <2>4. ASSUME NEW k \in 1..Len(writes'), NEW j \in 1..Len(writes'), j < k,
               writes'[j][2] = writes'[k][2]
        PROVE  ~Starts(writes'[j]) /\ Starts(writes'[k])
    <3>0. j \in 1..Len(writes) /\ writes'[j] = writes[j]
      BY <1>1, <1>2, <2>4
    <3>1. CASE k \in 1..Len(writes) /\ writes'[k] = writes[k]
      BY <2>4, <3>0, <3>1 DEF Storing, Chained
    <3>2. CASE k = Len(writes) + 1 /\ writes'[k] = new
      <4>1. Writing(m) /\ writes[j][2] = m
        BY <1>n, <2>4, <3>0, <3>2 DEF Writing
      <4>2. what \in {"append", "resend"}
        BY <4>1 DEF Kinds
      <4> QED
        BY <1>n, <3>0, <3>2, <4>1, <4>2 DEF Starts
    <3> QED
      BY <2>1, <3>1, <3>2
  <2> QED
    BY <2>2, <2>3, <2>4 DEF Chained, Starts, Of
<1>6. Lasting'
  <2>1. UNCHANGED <<image, disk, screen>>
    BY DEF Write
  <2>2. ASSUME image # <<>>
        PROVE  /\ writes' # <<>>
               /\ writes'[1][1] = "sent" => image[writes'[1][2]] = row'[writes'[1][2]]
    <3>1. writes # <<>>
      BY <2>2 DEF Storing, Lasting
    <3>2. 1 \in 1..Len(writes) /\ writes' # <<>>
      BY <1>1, <1>2, <3>1, EmptySeq
    <3>3. writes'[1] = writes[1] /\ writes[1][2] \in Messages
      BY <1>1, <3>2, Jobs
    <3>4. writes[1][1] = "sent" => image[writes[1][2]] = row[writes[1][2]]
      BY <2>2 DEF Storing, Lasting
    <3> QED
      BY <1>1, <1>3, <3>2, <3>3, <3>4
  <2>3. \A n \in Messages : /\ row[n] = "sent" => row'[n] = "sent"
                            /\ row'[n] = "sent" => Taken(n)'
    BY <1>1, <1>4, <1>t DEF Storing, Lasting
  <2> QED
    BY <2>1, <2>2, <2>3 DEF Storing, Lasting
<1> QED
  BY <1>5, <1>6 DEF Storing

(* A step that leaves the store alone, and ends no save, keeps it too.     *)
LEMMA StoringUntouched ==
  ASSUME TypeOK, Storing, UNCHANGED <<number, writes, row, image, disk>>,
         accepted \subseteq accepted', \A t \in acks' : t \in acks \/ t[1] \in accepted',
         \A t \in Attempts : task[t] = "saving" => task'[t] = "saving",
         \A t \in Attempts : task[t] # "idle" => task'[t] # "idle",
         \A n \in Messages : screen'[n] = "sent" => screen[n] = "sent"
  PROVE  Storing'
<1>1. ASSUME NEW n, Taken(n) PROVE Taken(n)'
  BY <1>1 DEF Taken, Alike
<1>2. Chained'
  <2>1. ASSUME NEW k \in 1..Len(writes)
        PROVE  /\ task'[Of(writes[k])] # "idle"
               /\ Starts(writes[k]) => task'[Of(writes[k])] = "saving"
    BY Jobs DEF Storing, Chained
  <2>2. ASSUME NEW k \in 1..Len(writes), writes[k][1] = "sent" PROVE Taken(writes[k][2])'
    <3>1. Taken(writes[k][2])
      BY <2>2 DEF Storing, Chained
    <3> QED
      BY <3>1 DEF Taken, Alike
  <2> QED
    BY <2>1, <2>2 DEF Storing, Chained, Starts, Of
<1>3. Lasting'
  BY <1>1 DEF Storing, Lasting
<1> QED
  BY <1>2, <1>3 DEF Storing

(* Every step keeps what is said of the chain and of the blob.             *)
LEMMA StoringStep ==
  TypeOK /\ Dispatching /\ Storing /\ [Next]_vars => Storing'
<1> SUFFICES ASSUME TypeOK, Dispatching, Storing, [Next]_vars PROVE Storing'
  OBVIOUS
<1> USE RetriesAssumption DEF wireVars, storeVars
<1>a. /\ 0 \in 0..MaxRetries /\ None \notin 0..MaxRetries /\ 0..None = (0..MaxRetries) \cup {None}
      /\ entry \in [Messages -> 0..None] /\ number' = number
      /\ \A m \in Messages, i \in 0..MaxRetries : <<m, i>> \in Attempts
  BY Ranges, NumberStays DEF TypeOK
<1>b. \A m \in Messages : Local(m)
  BY DEF Dispatching
<1>c. ASSUME NEW m \in Messages, \A i \in 0..MaxRetries : task[<<m, i>>] # "saving",
             NEW k \in 1..Len(writes), writes[k][2] = m
      PROVE  ~Starts(writes[k])
  BY <1>c, Jobs DEF Storing, Chained, Of
<1> HIDE DEF Dispatching
<1>1. ASSUME NEW m \in Messages, Send(m) \/ Uploaded(m) PROVE Storing'
  <2>1. /\ task[<<m, 0>>] \in {"idle", "uploading"} /\ <<m, 0>> \in Attempts
        /\ task' = [task EXCEPT ![<<m, 0>>] = "saving"]
        /\ Write("append", m, 0) /\ accepted' = accepted /\ acks' = acks
    BY <1>1, <1>a DEF Send, Uploaded
  <2>2. row[m] = "none" /\ ~Writing(m)
    BY <1>b, <2>1, NothingElse
  <2>3. /\ task'[<<m, 0>>] = "saving"
        /\ \A t \in Attempts : task[t] = "saving" => task'[t] = "saving"
        /\ \A t \in Attempts : task[t] # "idle" => task'[t] # "idle"
    BY <2>1 DEF TypeOK
  <2>4. \A k \in 1..Len(writes) : writes[k][2] = m => ~Starts(writes[k])
    BY <2>2 DEF Writing
  <2> QED
    BY <1>a, <2>1, <2>2, <2>3, <2>4, WriteStoring DEF Kinds
<1>2. ASSUME NEW q \in Messages, NEW m \in Messages, NEW i \in 0..MaxRetries, Retry(q, m, i)
      PROVE  Storing'
  <2>1. /\ task[<<m, i>>] = "idle" /\ row[m] = "failed" /\ <<m, i>> \in Attempts
        /\ task' = [task EXCEPT ![<<m, i>>] = "saving"]
        /\ Write("resend", m, i) /\ accepted' = accepted /\ acks' = acks
    BY <1>2, <1>a DEF Retry
  <2>2. /\ task'[<<m, i>>] = "saving"
        /\ \A t \in Attempts : task[t] = "saving" => task'[t] = "saving"
        /\ \A t \in Attempts : task[t] # "idle" => task'[t] # "idle"
    BY <2>1 DEF TypeOK
  <2>3. \A j \in 0..MaxRetries : task[<<m, j>>] # "saving"
    BY <1>b, <2>1 DEF Local, Settled, Resting, Working
  <2>4. \A k \in 1..Len(writes) : writes[k][2] = m => ~Starts(writes[k])
    BY <1>c, <2>3
  <2> QED
    BY <1>a, <2>1, <2>2, <2>4, WriteStoring DEF Kinds
<1>3. ASSUME NEW m \in Messages, SendAttachment(m) \/ SendControl(m) \/ UploadFails(m)
      PROVE  Storing'
  <2>1. /\ UNCHANGED <<writes, row, image, disk, accepted, acks>>
        /\ task[<<m, 0>>] \in {"idle", "uploading"} /\ <<m, 0>> \in Attempts
        /\ \/ task' = [task EXCEPT ![<<m, 0>>] = "uploading"]
           \/ task' = [task EXCEPT ![<<m, 0>>] = "sealing"]
           \/ task' = [task EXCEPT ![<<m, 0>>] = "done"]
        /\ screen' = screen \/ screen' = [screen EXCEPT ![m] = "failed"]
    BY <1>3, <1>a DEF SendAttachment, SendControl, UploadFails
  <2>2. /\ \A t \in Attempts : task[t] = "saving" => task'[t] = "saving"
        /\ \A t \in Attempts : task[t] # "idle" => task'[t] # "idle"
    BY <2>1 DEF TypeOK
  <2>3. \A n \in Messages : screen'[n] = "sent" => screen[n] = "sent"
    BY <2>1 DEF TypeOK
  <2> QED
    BY <1>a, <2>1, <2>2, <2>3, StoringUntouched
<1>4. CASE Picture
  <2>1. /\ UNCHANGED <<number, writes, row, disk, screen, task, accepted, acks>>
        /\ image' = row /\ writes # <<>>
    BY <1>4 DEF Picture
  <2>2. Chained'
    BY <2>1 DEF Storing, Chained, Of, Starts, Taken, Alike
  <2>3. Lasting'
    BY <2>1 DEF Storing, Lasting, Taken, Alike
  <2> QED
    BY <2>2, <2>3 DEF Storing
<1>5. CASE Saved \/ SaveFails
  <2>1. PICK w \in Job, v \in {"sealing", "done"} :
          /\ w = writes[1] /\ writes # <<>> /\ writes' = Tail(writes)
          /\ image # <<>> /\ image \in [Messages -> Statuses] /\ image' = <<>>
          /\ UNCHANGED <<astray, entry, displaced, timers, row, wireVars>>
          /\ \A u \in Attempts : task'[u] = IF Starts(w) /\ u = Of(w) THEN v ELSE task[u]
          /\ disk' = IF v = "done" THEN disk ELSE image
          /\ screen' = IF v = "done" \/ Of(w) \in astray THEN screen
                       ELSE [screen EXCEPT ![w[2]] = IF Starts(w) THEN "sending"
                                                     ELSE IF @ = "none" THEN @ ELSE w[1]]
    BY <1>5, PoppedEffect
  <2>2. /\ 1 \in 1..Len(writes) /\ Len(writes') = Len(writes) - 1 /\ Len(writes) \in Nat
        /\ \A k \in 1..Len(writes') : k + 1 \in 1..Len(writes) /\ writes'[k] = writes[k + 1]
        /\ \A k \in Messages : Writing(k) <=> Writing(k)' \/ k = w[2]
    BY <2>1, PopEffect
  <2>3. \A n : Taken(n)' <=> Taken(n)
    BY <1>a, <2>1 DEF Taken, Alike
  <2>4. w[1] \in Kinds /\ w[2] \in Messages /\ Of(w) \in Attempts /\ Writing(w[2])
    BY <2>1, <2>2, Jobs
  <2>5. Chained'
    <3>1. ASSUME NEW k \in 1..Len(writes')
          PROVE  /\ task'[Of(writes'[k])] # "idle"
                 /\ Starts(writes'[k]) => task'[Of(writes'[k])] = "saving"
      <4>1. /\ k + 1 \in 1..Len(writes) /\ writes'[k] = writes[k + 1] /\ 1 < k + 1
            /\ Of(writes[k + 1]) \in Attempts
        BY <2>2, Jobs
      <4>2. task[Of(writes[k + 1])] # "idle"
            /\ (Starts(writes[k + 1]) => task[Of(writes[k + 1])] = "saving")
        BY <4>1 DEF Storing, Chained
      <4>3. Starts(w) => Of(writes[k + 1]) # Of(w)
        BY <2>1, <2>2, <4>1 DEF Storing, Chained, Of
      <4> QED
        BY <2>1, <4>1, <4>2, <4>3
    <3>2. ASSUME NEW k \in 1..Len(writes')
          PROVE  /\ Starts(writes'[k]) => row[writes'[k][2]] # "none"
                 /\ writes'[k][1] = "sent" => /\ Taken(writes'[k][2])
                                              /\ row[writes'[k][2]] \in {"sent", "none"}
      BY <2>2 DEF Storing, Chained
    <3>3. ASSUME NEW k \in 1..Len(writes'), writes'[k][1] = "sent" PROVE Taken(writes[k][2])'
      <4>1. Taken(writes'[k][2])
        BY <3>2, <3>3
      <4>2. accepted' = accepted
        BY <2>1
      <4> QED
        BY <1>a, <4>1, <4>2 DEF Taken, Alike
    <3>4. ASSUME NEW k \in 1..Len(writes'), NEW j \in 1..Len(writes'), j < k,
                 writes'[j][2] = writes'[k][2]
          PROVE  ~Starts(writes'[j]) /\ Starts(writes'[k])
      <4>1. /\ k + 1 \in 1..Len(writes) /\ writes'[k] = writes[k + 1]
            /\ j + 1 \in 1..Len(writes) /\ writes'[j] = writes[j + 1] /\ j + 1 < k + 1
        BY <2>2, <3>4
      <4> QED
        BY <3>4, <4>1 DEF Storing, Chained
    <3> QED
      BY <2>1, <3>1, <3>2, <3>3, <3>4 DEF Chained, Of, Starts
  <2>6. Lasting'
    <3>1. /\ \A n \in Messages : row[n] = "sent" => Taken(n)
          /\ \A t \in acks : t[1] \in accepted
          /\ \A n \in Messages : /\ image[n] = "sent" => row[n] = "sent"
                                 /\ disk[n] = "sent" => image[n] = "sent" /\ row[n] = "sent"
                                 /\ screen[n] = "sent" => disk[n] = "sent"
          /\ w[1] = "sent" => image[w[2]] = row[w[2]]
      BY <2>1 DEF Storing, Lasting
    <3>2. ASSUME NEW n \in Messages, screen'[n] = "sent" PROVE disk'[n] = "sent"
      <4>1. CASE screen'[n] = screen[n]
        BY <2>1, <3>1, <3>2, <4>1
      <4>2. CASE screen'[n] # screen[n]
        <5>1. /\ v # "done" /\ n = w[2] /\ ~Starts(w) /\ w[1] = "sent" /\ screen[n] # "none"
          BY <2>1, <2>4, <3>2, <4>2 DEF TypeOK
        <5>2. row[n] \in {"sent", "none"} /\ row[n] # "none"
          <6>1. row[n] \in {"sent", "none"}
            BY <2>1, <2>2, <5>1 DEF Storing, Chained
          <6>2. row[n] # "none"
            BY <1>b, <2>4, <5>1 DEF Local, Rowless
          <6> QED
            BY <6>1, <6>2
        <5> QED
          BY <2>1, <3>1, <5>1, <5>2
      <4> QED
        BY <4>1, <4>2
    <3>3. \A n \in Messages : disk'[n] = "sent" => row[n] = "sent"
      BY <2>1, <3>1
    <3> QED
      BY <2>1, <2>3, <3>1, <3>2, <3>3 DEF Lasting
  <2> QED
    BY <2>5, <2>6 DEF Storing
<1>6. ASSUME NEW m \in Messages, NEW i \in 0..MaxRetries, Sealed(m, i) \/ SealFails(m, i)
      PROVE  Storing'
  <2>1. /\ task[<<m, i>>] = "sealing" /\ <<m, i>> \in Attempts
        /\ task' = [task EXCEPT ![<<m, i>>] = "done"]
        /\ accepted' = accepted /\ acks' = acks
        /\ UNCHANGED storeVars \/ Write("failed", m, i)
    BY <1>6, <1>a DEF Sealed, SealFails
  <2>2. /\ \A t \in Attempts : task[t] = "saving" => task'[t] = "saving"
        /\ \A t \in Attempts : task[t] # "idle" => task'[t] # "idle"
        /\ task'[<<m, i>>] # "idle"
    BY <2>1 DEF TypeOK
  <2>3. row[m] # "sent" /\ ~Writing(m)
    BY <1>b, <2>1 DEF Local, Settled, Quiet, Sealing, Resting, Working
  <2>4. CASE UNCHANGED storeVars
    BY <1>a, <2>1, <2>2, <2>4, StoringUntouched
  <2>5. CASE Write("failed", m, i)
    BY <1>a, <2>1, <2>2, <2>3, <2>5, WriteStoring DEF Kinds
  <2> QED
    BY <2>1, <2>4, <2>5
<1>7. CASE Reconnect \/ Disconnect \/ (\E t \in Attempts : Accept(t) \/ Ignore(t)) \/ UNCHANGED vars
  <2>1. /\ UNCHANGED <<task, writes, row, image, disk, screen>>
        /\ accepted \subseteq accepted'
        /\ \A t \in acks' : t \in acks \/ t[1] \in accepted'
    BY <1>7 DEF Reconnect, Disconnect, Accept, Ignore, vars
  <2> QED
    BY <1>a, <2>1, StoringUntouched
<1>8. ASSUME NEW m \in Messages, NEW i \in 0..MaxRetries, NEW what \in {"sent", "failed"},
             entry[m] = i, Write(what, m, i), what = "sent" => Taken(m),
             accepted' = accepted, acks' \subseteq acks, task' = task
      PROVE  Storing'
  <2>1. entry[m] # None
    BY <1>a, <1>8
  <2>2. task[<<m, i>>] = "done" /\ row[m] # "sent" /\ ~Writing(m)
    BY <1>b, <1>8, <2>1 DEF Local, Settled, Quiet
  <2> QED
    BY <1>a, <1>8, <2>2, WriteStoring DEF Kinds
<1>9. ASSUME NEW t \in Attempts, Ack(t) PROVE Storing'
  <2>1. CASE UNCHANGED <<entry, timers, storeVars>>
    BY <1>9, <1>a, <2>1, StoringUntouched DEF Ack
  <2>2. ASSUME NEW m \in Alike(t[1]), entry[m] # None, Settle(m) PROVE Storing'
    <3>1. m \in Messages /\ entry[m] \in 0..MaxRetries
      BY <1>a, <2>2 DEF Alike
    <3>2. Taken(m)
      <4>1. t[1] \in accepted /\ t[1] \in Alike(m)
        BY <1>9, Ranges DEF Ack, Storing, Lasting, Alike
      <4> QED
        BY <4>1 DEF Taken
    <3> QED
      BY <1>8, <1>9, <2>2, <3>1, <3>2 DEF Ack, Settle
  <2> QED
    BY <1>9, <2>1, <2>2 DEF Ack
<1>10. ASSUME NEW t \in Attempts, AckTimeout(t) PROVE Storing'
  <2>1. t[1] \in Messages /\ t[2] \in 0..MaxRetries
    BY Ranges
  <2>2. CASE entry[t[1]] # t[2]
    BY <1>10, <1>a, <2>2, StoringUntouched DEF AckTimeout
  <2>3. CASE entry[t[1]] = t[2]
    BY <1>8, <1>10, <2>1, <2>3 DEF AckTimeout
  <2> QED
    BY <2>2, <2>3
<1>11. CASE Relaunch
  <2>1. /\ writes' = <<>> /\ image' = <<>> /\ row' = disk /\ disk' = disk /\ acks' = {}
        /\ accepted' = accepted
        /\ \A n \in Messages : screen'[n] = IF disk[n] = "sending" THEN "failed" ELSE disk[n]
    BY <1>11 DEF Relaunch
  <2>2. \A n : Taken(n)' <=> Taken(n)
    BY <1>a, <2>1 DEF Taken, Alike
  <2>3. Chained'
    BY <2>1 DEF Chained
  <2>4. Lasting'
    BY <2>1, <2>2 DEF Storing, Lasting
  <2> QED
    BY <2>3, <2>4 DEF Storing
<1> QED
  BY <1>1, <1>2, <1>3, <1>4, <1>5, <1>6, <1>7, <1>9, <1>10, <1>11
     DEF Next, User, Upload, Seal, Store, Network, Attempts

----------------------------------------------------------------------------
(* What the transport does with what it is handed. *)
LEMMA TransmitEffect ==
  ASSUME NEW ts, Transmit(ts)
  PROVE  /\ frames' \subseteq frames \cup ts
         /\ sentOut \subseteq sentOut' /\ sentOut' \subseteq sentOut \cup ts
         /\ timers \subseteq timers' /\ thrown \subseteq thrown'
         /\ \A t \in ts : t \in thrown' \/ t \in timers'
         /\ \A t \in sentOut' : t \in sentOut \/ t \in timers'
BY DEF Transmit

(* A pending attempt is done, and one that is handed to the transport now  *)
(* was not before.                                                         *)
LEMMA TransmittingStep ==
  TypeOK /\ Dispatching /\ Storing /\ Transmitting /\ QueuedMeansOffline /\ [Next]_vars
    => Transmitting' /\ QueuedMeansOffline' /\ (frames' \ frames) \cap sentOut = {}
<1> DEFINE Goal == Transmitting' /\ QueuedMeansOffline' /\ (frames' \ frames) \cap sentOut = {}
<1> SUFFICES ASSUME TypeOK, Dispatching, Storing, Transmitting, QueuedMeansOffline, [Next]_vars
             PROVE  Goal
  OBVIOUS
<1> USE RetriesAssumption DEF wireVars, storeVars
<1>a. /\ None \notin 0..MaxRetries /\ 0..None = (0..MaxRetries) \cup {None}
      /\ entry \in [Messages -> 0..None] /\ sentOut \subseteq Attempts
      /\ \A t \in Attempts : t[1] \in Messages /\ t[2] \in 0..MaxRetries /\ t = <<t[1], t[2]>>
  BY Ranges DEF TypeOK
<1>b. \A t \in Attempts : entry[t[1]] = t[2] => task[t] = "done"
  BY <1>a DEF Dispatching, Local, Settled
<1>c. connected => \A t \in Attempts : entry[t[1]] = t[2] => t \in timers \/ t \in thrown
  BY DEF QueuedMeansOffline, Queued
<1>d. \A t \in sentOut : task[t] = "done" /\ (entry[t[1]] = t[2] => t \in timers)
  BY DEF Transmitting
<1> HIDE DEF Dispatching, Goal
<1>1. ASSUME \A t \in Attempts : task[t] = "done" => task'[t] = "done",
             \A t \in Attempts :
               entry'[t[1]] = t[2] => entry[t[1]] = t[2] /\ (t \in timers => t \in timers'),
             connected' => connected /\ thrown' = thrown,
             frames' \subseteq frames, sentOut' = sentOut
      PROVE  Goal
  BY <1>1, <1>a, <1>c, <1>d DEF Goal, Transmitting, QueuedMeansOffline, Queued
<1>2. ASSUME NEW t \in Attempts, task[t] # "done", entry' = entry, timers' = timers,
             connected' = connected, thrown' = thrown, frames' = frames, sentOut' = sentOut,
             \A u \in Attempts : u # t => task'[u] = task[u]
      PROVE  Goal
  BY <1>1, <1>2
<1>3. ASSUME NEW m \in Messages,
             Send(m) \/ Uploaded(m) \/ SendAttachment(m) \/ SendControl(m) \/ UploadFails(m)
      PROVE  Goal
  <2>1. <<m, 0>> \in Attempts
    BY Ranges
  <2>2. /\ task[<<m, 0>>] # "done" /\ UNCHANGED <<entry, timers, connected, thrown, frames, sentOut>>
        /\ \A u \in Attempts : u # <<m, 0>> => task'[u] = task[u]
    BY <1>3 DEF Send, Uploaded, SendAttachment, SendControl, UploadFails, TypeOK
  <2> QED
    BY <1>2, <2>1, <2>2
<1>4. ASSUME NEW q \in Messages, NEW m \in Messages, NEW i \in 0..MaxRetries,
             Retry(q, m, i) \/ SealFails(m, i)
      PROVE  Goal
  <2>1. <<m, i>> \in Attempts
    BY Ranges
  <2>2. /\ task[<<m, i>>] # "done" /\ UNCHANGED <<entry, timers, connected, thrown, frames, sentOut>>
        /\ \A u \in Attempts : u # <<m, i>> => task'[u] = task[u]
    BY <1>4 DEF Retry, SealFails, TypeOK
  <2> QED
    BY <1>2, <2>1, <2>2
<1>5. CASE Saved \/ SaveFails \/ Picture
  <2>1. UNCHANGED <<entry, timers, connected, thrown, frames, sentOut>>
    BY <1>5 DEF Saved, SaveFails, Picture
  <2>2. ASSUME NEW t \in Attempts, task[t] = "done" PROVE task'[t] = "done"
    <3>1. CASE Picture
      BY <2>2, <3>1 DEF Picture
    <3>2. CASE Saved \/ SaveFails
      <4>1. PICK w \in Job, v \in {"sealing", "done"} :
              /\ w = writes[1] /\ writes # <<>> /\ writes' = Tail(writes)
              /\ \A u \in Attempts : task'[u] = IF Starts(w) /\ u = Of(w) THEN v ELSE task[u]
        BY <3>2, PoppedEffect
      <4>2. 1 \in 1..Len(writes)
        BY <4>1, PopEffect
      <4>3. Starts(w) => task[Of(w)] = "saving"
        BY <4>1, <4>2 DEF Storing, Chained
      <4> QED
        BY <2>2, <4>1, <4>3
    <3> QED
      BY <1>5, <3>1, <3>2
  <2> QED
    BY <1>1, <2>1, <2>2
<1>6. ASSUME NEW m \in Messages, NEW i \in 0..MaxRetries, Sealed(m, i) PROVE Goal
  <2>1. /\ task[<<m, i>>] = "sealing" /\ task' = [task EXCEPT ![<<m, i>>] = "done"]
        /\ entry' = [n \in Messages |-> IF n = m THEN i ELSE IF n \in Alike(m) THEN None ELSE entry[n]]
        /\ connected' = connected
        /\ IF connected THEN Transmit({<<m, i>>}) ELSE UNCHANGED <<frames, sentOut, timers, thrown>>
    BY <1>6 DEF Sealed, Pend
  <2>2. <<m, i>> \in Attempts /\ <<m, i>> \notin sentOut
    BY <1>d, <2>1, Ranges
  <2>3. /\ \A t \in Attempts : task'[t] = IF t = <<m, i>> THEN "done" ELSE task[t]
        /\ \A t \in Attempts : t # <<m, i>> /\ entry'[t[1]] = t[2] => entry[t[1]] = t[2]
    BY <1>a, <2>1 DEF TypeOK
  <2>4. /\ frames' \subseteq frames \cup {<<m, i>>} /\ sentOut' \subseteq sentOut \cup {<<m, i>>}
        /\ timers \subseteq timers' /\ thrown \subseteq thrown'
        /\ <<m, i>> \in sentOut' => <<m, i>> \in timers'
        /\ connected => <<m, i>> \in thrown' \/ <<m, i>> \in timers'
    <3>1. CASE connected
      <4>1. Transmit({<<m, i>>})
        BY <2>1, <3>1
      <4> QED
        BY <2>2, <4>1, TransmitEffect
    <3>2. CASE ~connected
      BY <2>1, <2>2, <3>2
    <3> QED
      BY <3>1, <3>2
  <2>5. Transmitting'
    BY <1>a, <1>d, <2>2, <2>3, <2>4 DEF Transmitting
  <2>6. QueuedMeansOffline'
    BY <1>a, <1>c, <2>1, <2>3, <2>4 DEF QueuedMeansOffline, Queued
  <2> QED
    BY <2>2, <2>4, <2>5, <2>6 DEF Goal
<1>7. CASE Reconnect
  <2>1. UNCHANGED <<task, entry>> /\ Transmit(Queued)
    BY <1>7 DEF Reconnect
  <2>2. \A t \in Queued : t \in Attempts /\ entry[t[1]] = t[2] /\ t \notin timers
    BY DEF Queued
  <2>3. /\ frames' \subseteq frames \cup Queued /\ sentOut' \subseteq sentOut \cup Queued
        /\ timers \subseteq timers'
        /\ \A t \in Queued : t \in thrown' \/ t \in timers'
        /\ \A t \in sentOut' : t \in sentOut \/ t \in timers'
    BY <2>1, TransmitEffect
  <2>4. Transmitting'
    BY <1>b, <1>d, <2>1, <2>2, <2>3 DEF Transmitting
  <2>5. QueuedMeansOffline'
    BY <2>1, <2>3 DEF QueuedMeansOffline, Queued
  <2> QED
    BY <1>d, <2>2, <2>3, <2>4, <2>5 DEF Goal
<1>8. CASE Disconnect \/ (\E t \in Attempts : Accept(t) \/ Ignore(t)) \/ UNCHANGED vars
  <2>1. /\ UNCHANGED <<task, entry, timers, sentOut>>
        /\ frames' \subseteq frames /\ (connected' => connected /\ thrown' = thrown)
    BY <1>8 DEF Disconnect, Accept, Ignore, vars
  <2> QED
    BY <1>1, <2>1
<1>9. ASSUME NEW t \in Attempts, Ack(t) PROVE Goal
  <2>1. UNCHANGED <<task, connected, thrown, frames, sentOut>>
    BY <1>9 DEF Ack
  <2>2. CASE UNCHANGED <<entry, timers, storeVars>>
    BY <1>1, <2>1, <2>2
  <2>3. ASSUME NEW m \in Messages, entry[m] # None, Settle(m) PROVE Goal
    <3>1. entry' = [entry EXCEPT ![m] = None] /\ timers' = timers \ {<<m, entry[m]>>}
      BY <2>3 DEF Settle
    <3> QED
      BY <1>1, <1>a, <2>1, <3>1
  <2> QED
    BY <1>9, <2>2, <2>3 DEF Ack, Alike
<1>10. ASSUME NEW t \in Attempts, AckTimeout(t) PROVE Goal
  <2>1. UNCHANGED <<task, connected, thrown, frames, sentOut>> /\ timers' = timers \ {t}
    BY <1>10 DEF AckTimeout
  <2>2. entry' = IF entry[t[1]] = t[2] THEN [entry EXCEPT ![t[1]] = None] ELSE entry
    BY <1>10 DEF AckTimeout
  <2> QED
    BY <1>1, <1>a, <2>1, <2>2
<1>11. CASE Relaunch
  <2>1. /\ task' = [t \in Attempts |-> IF task[t] = "idle" THEN "idle" ELSE "done"]
        /\ entry' = [m \in Messages |-> None] /\ connected' = FALSE
        /\ frames' = {} /\ sentOut' = sentOut
    BY <1>11 DEF Relaunch
  <2> QED
    BY <1>1, <1>a, <2>1
<1> QED
  BY <1>3, <1>4, <1>5, <1>6, <1>7, <1>8, <1>9, <1>10, <1>11
     DEF Next, User, Upload, Seal, Store, Network, Attempts, Goal


----------------------------------------------------------------------------
(* What the chain says of the writes about a message. *)
LEMMA AboutChained ==
  ASSUME TypeOK, Storing, NEW m \in Messages
  PROVE  /\ \A w \in About(m) :
              /\ task[Of(w)] # "idle" /\ Writing(m)
              /\ Starts(w) => task[Of(w)] = "saving" /\ row[m] # "none"
              /\ w[1] = "sent" => Taken(m) /\ row[m] \in {"sent", "none"}
         /\ \A v, w \in About(m) : (Starts(v) <=> Starts(w)) => v = w
         /\ Writing(m) => About(m) # {}
<1>1. Len(writes) \in Nat /\ writes \in Seq(Job)
  <2>1. writes \in Seq(Job)
    BY DEF TypeOK, Job, Kinds
  <2> QED
    BY <2>1, LenProperties
<1>2. ASSUME NEW w \in About(m)
      PROVE  /\ task[Of(w)] # "idle" /\ Writing(m)
             /\ Starts(w) => task[Of(w)] = "saving" /\ row[m] # "none"
             /\ w[1] = "sent" => Taken(m) /\ row[m] \in {"sent", "none"}
  BY <1>2 DEF About, Storing, Chained, Writing
<1>3. ASSUME NEW v \in About(m), NEW w \in About(m), Starts(v) <=> Starts(w) PROVE v = w
  <2>1. PICK j \in 1..Len(writes), k \in 1..Len(writes) :
          writes[j] = v /\ writes[k] = w /\ v[2] = m /\ w[2] = m
    BY <1>3 DEF About
  <2>2. ~(j < k) /\ ~(k < j)
    BY <1>3, <2>1 DEF Storing, Chained
  <2>3. j = k
    BY <1>1, <2>2
  <2> QED
    BY <2>1, <2>3
<1>4. ASSUME Writing(m) PROVE About(m) # {}
  <2>1. PICK k \in 1..Len(writes) : writes[k][2] = m
    BY <1>4 DEF Writing
  <2>2. writes[k] \in About(m)
    BY <2>1, Jobs DEF About
  <2> QED
    BY <2>2
<1> QED
  BY <1>2, <1>3, <1>4

(* A vault call adds one write about its message. *)
LEMMA AboutWrite ==
  ASSUME TypeOK, NEW what \in Kinds, NEW m \in Messages, NEW i \in 0..MaxRetries,
         Write(what, m, i), NEW n \in Messages
  PROVE  About(n)' = IF n = m THEN About(n) \cup {<<what, m, i>>} ELSE About(n)
<1>1. PICK new \in Job :
      /\ new = <<what, m, i>>
      /\ Len(writes') = Len(writes) + 1
      /\ \A k \in 1..Len(writes) : writes'[k] = writes[k]
      /\ writes'[Len(writes) + 1] = new
  <2>1. <<what, m, i>> \in Job
    BY DEF Job
  <2> QED
    BY <2>1, WriteEffect
<1>2. Len(writes) \in Nat /\ new[2] = m
  <2>1. writes \in Seq(Job)
    BY DEF TypeOK, Job, Kinds
  <2> QED
    BY <1>1, <2>1, LenProperties
<1>3. ASSUME NEW w PROVE (\E k \in 1..Len(writes') : writes'[k] = w)
                           <=> (\E k \in 1..Len(writes) : writes[k] = w) \/ w = new
  <2>1. \A k \in 1..Len(writes') : k \in 1..Len(writes) \/ k = Len(writes) + 1
    BY <1>1, <1>2
  <2>2. \A k \in 1..Len(writes) : k \in 1..Len(writes')
    BY <1>1, <1>2
  <2>3. Len(writes) + 1 \in 1..Len(writes')
    BY <1>1, <1>2
  <2> QED
    BY <1>1, <2>1, <2>2, <2>3
<1> QED
  BY <1>1, <1>2, <1>3 DEF About

(* The end of the head's write leaves those about other messages, and of   *)
(* its own message at most one that starts an attempt.                     *)
LEMMA AboutPop ==
  ASSUME TypeOK, Storing, writes # <<>>, writes' = Tail(writes),
         NEW w \in Job, w = writes[1], NEW n \in Messages
  PROVE  /\ n # w[2] => About(n)' = About(n)
         /\ n = w[2] => /\ w \in About(n) /\ About(n)' \subseteq About(n)
                        /\ \A u \in About(n)' : Starts(u) /\ ~Starts(w)
         /\ n = w[2] /\ Starts(w) => About(n) = {w} /\ About(n)' = {}
<1>1. /\ 1 \in 1..Len(writes) /\ Len(writes') = Len(writes) - 1 /\ Len(writes) \in Nat
      /\ \A k \in 1..Len(writes') : k + 1 \in 1..Len(writes) /\ writes'[k] = writes[k + 1]
  BY PopEffect
<1>2. ASSUME NEW k \in 1..Len(writes), k # 1
      PROVE  k - 1 \in 1..Len(writes') /\ writes'[k - 1] = writes[k]
  BY <1>1, <1>2
<1>3. ASSUME n # w[2] PROVE About(n)' = About(n)
  <2>1. ASSUME NEW u, u[2] = n
        PROVE  (\E k \in 1..Len(writes') : writes'[k] = u) <=> (\E k \in 1..Len(writes) : writes[k] = u)
    <3>1. ASSUME NEW k \in 1..Len(writes), writes[k] = u PROVE \E j \in 1..Len(writes') : writes'[j] = u
      <4>1. k # 1
        BY <1>3, <2>1, <3>1
      <4> QED
        BY <1>2, <3>1, <4>1
    <3> QED
      BY <1>1, <3>1
  <2> QED
    BY <2>1 DEF About
<1>4. ASSUME n = w[2] PROVE w \in About(n)
  BY <1>1, <1>4 DEF About
<1>5. About(n)' \subseteq About(n)
  BY <1>1 DEF About
<1>6. ASSUME n = w[2], NEW u \in About(n)' PROVE Starts(u) /\ ~Starts(w)
  <2>1. PICK k \in 1..Len(writes') : writes'[k] = u /\ u[2] = n
    BY <1>6 DEF About
  <2>2. k + 1 \in 1..Len(writes) /\ writes[k + 1] = u /\ 1 < k + 1
    BY <1>1, <2>1
  <2> QED
    BY <1>1, <1>6, <2>1, <2>2 DEF Storing, Chained
<1>7. ASSUME n = w[2], Starts(w), NEW u \in About(n) PROVE u = w
  <2>1. PICK k \in 1..Len(writes) : writes[k] = u /\ u[2] = n
    BY <1>7 DEF About
  <2>2. ~(1 < k)
    BY <1>1, <1>7, <2>1 DEF Storing, Chained
  <2>3. k = 1
    BY <1>1, <2>2
  <2> QED
    BY <2>1, <2>3
<1> QED
  BY <1>3, <1>4, <1>5, <1>6, <1>7

----------------------------------------------------------------------------
(* What is awaited of a message stays so while the writes about it and     *)
(* what is shown of it stay.                                               *)
LEMMA AwaitedStays ==
  ASSUME NEW n \in Messages, Awaited(n), About(n)' = About(n),
         row'[n] = row[n], screen'[n] = screen[n], n \in unsaved => n \in unsaved',
         \A w \in About(n) : Of(w) \in astray' <=> Of(w) \in astray
  PROVE  Awaited(n)'
<1>1. Told(n) => Told(n)'
  BY DEF Told, Tells, Starts, Of
<1>2. Still(n) => Still(n)'
  BY DEF Still
<1> QED
  BY <1>1, <1>2 DEF Awaited, Starts, Of

(* A vault call keeps it, when the write it adds fits what is shown.       *)
LEMMA AwaitedAdded ==
  ASSUME TypeOK, NEW n \in Messages, Awaited(n),
         NEW what \in Kinds, NEW m \in Messages, NEW i \in 0..MaxRetries, Write(what, m, i),
         what \in {"append", "resend"} /\ About(m) # {} => row[m] # "none",
         what \in {"sent", "failed"} => About(m) = {},
         \A w \in About(n) : Of(w) \in astray' <=> Of(w) \in astray,
         IF <<m, i>> \in astray'
         THEN Still(m) \/ (what \in {"append", "resend"} /\ Told(m))
         ELSE IF what \in {"append", "resend"} THEN screen[m] \in {"none", "failed"}
              ELSE row[m] = "none" \/ screen[m] = "sending"
  PROVE  Awaited(n)'
<1>1. /\ UNCHANGED <<screen, unsaved>>
      /\ \A k \in Messages : k # m => row'[k] = row[k]
      /\ what \in {"sent", "failed"} => row'[m] = IF row[m] = "none" THEN "none" ELSE what
      /\ About(n)' = IF n = m THEN About(n) \cup {<<what, m, i>>} ELSE About(n)
  <2>1. About(n)' = IF n = m THEN About(n) \cup {<<what, m, i>>} ELSE About(n)
    BY AboutWrite
  <2>2. UNCHANGED <<screen, unsaved>>
    BY DEF Write
  <2> QED
    BY <2>1, <2>2, WriteEffect DEF Kinds
<1>2. CASE n # m
  BY <1>1, <1>2, AwaitedStays
<1>3. CASE n = m
  <2>1. Told(n) => Told(n)'
    BY <1>1 DEF Told, Tells, Starts, Of
  <2>2. Still(n)' <=> Still(n)
    BY <1>1 DEF Still
  <2>3. ASSUME NEW w \in About(n)
        PROVE  IF Of(w) \in astray'
               THEN Still(n)' \/ (Starts(w) /\ Told(n)')
               ELSE IF Starts(w) THEN screen'[n] \in {"none", "failed"}
                                 ELSE row'[n] = "none" \/ screen'[n] = "sending"
    <3>1. what \in {"append", "resend"} /\ row[n] # "none"
      BY <1>3, <2>3 DEF Kinds
    <3> QED
      BY <1>1, <2>1, <2>2, <2>3, <3>1 DEF Awaited
  <2>4. PICK new \in Job : new = <<what, m, i>>
    BY DEF Job
  <2>5. /\ new[1] = what /\ Of(new) = <<m, i>>
        /\ Starts(new) <=> what \in {"append", "resend"}
    BY <2>4 DEF Of, Starts
  <2>6. IF Of(new) \in astray'
        THEN Still(n)' \/ (Starts(new) /\ Told(n)')
        ELSE IF Starts(new) THEN screen'[n] \in {"none", "failed"}
                            ELSE row'[n] = "none" \/ screen'[n] = "sending"
    <3>1. ~Starts(new) => (row'[m] = "none" <=> row[m] = "none")
      BY <1>1, <2>5 DEF Kinds
    <3> QED
      BY <1>1, <1>3, <2>1, <2>2, <2>5, <3>1
  <2>7. About(n)' = About(n) \cup {new}
    BY <1>1, <1>3, <2>4
  <2> QED
    BY <2>3, <2>6, <2>7 DEF Awaited, Starts, Of
<1> QED
  BY <1>2, <1>3

(* What is shown while an attempt is encrypted or pending stays so, when   *)
(* no other becomes either.                                                *)
LEMMA VisibleStays ==
  ASSUME NEW n \in Messages, Visible(n),
         row'[n] = row[n], screen'[n] = screen[n], n \in unsaved => n \in unsaved',
         \A i \in 0..MaxRetries :
           /\ task'[<<n, i>>] = "sealing" \/ entry'[n] = i
                => task[<<n, i>>] = "sealing" \/ entry[n] = i
           /\ <<n, i>> \in astray' <=> <<n, i>> \in astray
  PROVE  Visible(n)'
BY DEF Visible, Still

(* A settled write, told or not, leaves no spinner behind, unless it fails.*)
LEMMA PoppedStill ==
  ASSUME TypeOK, Storing, NEW w \in Job, Awaited(w[2]), w \in About(w[2]), ~Starts(w),
         NEW v \in {"sealing", "done"},
         unsaved' = IF v = "done" THEN unsaved \cup {w[2]} ELSE unsaved,
         screen' = IF v = "done" \/ Of(w) \in astray THEN screen
                   ELSE [screen EXCEPT ![w[2]] = IF Starts(w) THEN "sending"
                                                 ELSE IF @ = "none" THEN @ ELSE w[1]]
  PROVE  Still(w[2])'
<1>1. w[2] \in Messages /\ w[1] \in {"sent", "failed"}
  BY DEF Job, Kinds, Starts
<1>2. CASE v = "done"
  BY <1>2 DEF Still
<1>3. CASE v # "done" /\ Of(w) \in astray
  BY <1>3 DEF Still, Awaited
<1>4. CASE v # "done" /\ Of(w) \notin astray
  BY <1>1, <1>4 DEF Still, TypeOK
<1> QED
  BY <1>2, <1>3, <1>4

----------------------------------------------------------------------------
(* Every step keeps what the screen says of a message on its way.          *)
LEMMA OnItsWayStep ==
  ASSUME TypeOK, Dispatching, Storing, SpinnerHasOwner, [Next]_vars,
         \A m \in Messages : Awaited(m) /\ Visible(m) /\ Known(m),
         NEW n \in Messages
  PROVE  Awaited(n)' /\ Visible(n)' /\ Known(n)'
<1> DEFINE Goal == Awaited(n)' /\ Visible(n)' /\ Known(n)'
<1> SUFFICES Goal
  OBVIOUS
<1> USE DEF wireVars, storeVars
<1>a. /\ 0 \in 0..MaxRetries /\ None \notin 0..MaxRetries
      /\ \A m \in Messages : entry[m] \in (0..MaxRetries) \cup {None}
      /\ \A m \in Messages, i \in 0..MaxRetries : <<m, i>> \in Attempts
  BY Ranges DEF TypeOK
<1>b. \A m \in Messages : Local(m)
  BY DEF Dispatching
<1>c. ASSUME NEW m \in Messages, ~Writing(m) PROVE About(m) = {}
  BY <1>c, AboutChained
<1> HIDE DEF Dispatching, Goal
(* A step that writes nothing and shows nothing new of n,                  *)
<1>1. ASSUME UNCHANGED <<writes, astray>>, row'[n] = row[n], screen'[n] = screen[n],
             n \in unsaved => n \in unsaved',
             \A i \in 0..MaxRetries : task'[<<n, i>>] = "sealing" \/ entry'[n] = i
                                        => task[<<n, i>>] = "sealing" \/ entry[n] = i
      PROVE  Goal
  <2>1. About(n)' = About(n)
    BY <1>1 DEF About
  <2>2. Awaited(n)'
    BY <1>1, <2>1, AwaitedStays
  <2>3. Visible(n)'
    BY <1>1, VisibleStays
  <2>4. Known(n)'
    BY <1>1 DEF Known
  <2> QED
    BY <2>2, <2>3, <2>4 DEF Goal
(* and one that writes about another message, or starts an attempt of n.   *)
<1>2. ASSUME NEW m \in Messages, m # n, NEW what \in Kinds, NEW i \in 0..MaxRetries,
             Write(what, m, i),
             \A j \in 0..MaxRetries : <<n, j>> \in astray' <=> <<n, j>> \in astray,
             \A j \in 0..MaxRetries : task'[<<n, j>>] = "sealing" \/ entry'[n] = j
                                        => task[<<n, j>>] = "sealing" \/ entry[n] = j
      PROVE  Goal
  <2>1. UNCHANGED <<screen, unsaved>> /\ row'[n] = row[n]
    BY <1>2, WriteEffect DEF Write
  <2>2. About(n)' = About(n)
    BY <1>2, AboutWrite
  <2>3. \A w \in About(n) : Of(w) \in astray' <=> Of(w) \in astray
    <3> SUFFICES ASSUME NEW w \in About(n) PROVE Of(w) \in astray' <=> Of(w) \in astray
      OBVIOUS
    <3>1. w[3] \in 0..MaxRetries /\ Of(w) = <<n, w[3]>>
      BY DEF About, Job, Of
    <3> QED
      BY <1>2, <3>1
  <2>4. Awaited(n)'
    BY <2>1, <2>2, <2>3, AwaitedStays
  <2>5. Visible(n)'
    BY <1>2, <2>1, VisibleStays
  <2>6. Known(n)'
    BY <1>2, <2>1 DEF Known
  <2> QED
    BY <2>4, <2>5, <2>6 DEF Goal
<1>3. ASSUME NEW m \in Messages, NEW i \in 0..MaxRetries, NEW what \in {"append", "resend"},
             task' = [task EXCEPT ![<<m, i>>] = "saving"], entry' = entry,
             Write(what, m, i), Resting(m) \/ i = 0, entry[m] = None,
             \A j \in 0..MaxRetries : j # i => task[<<m, j>>] # "sealing",
             astray' = astray \/ astray' = astray \cup {<<m, i>>},
             About(m) # {} => row[m] # "none",
             \A w \in About(m) : Of(w) \in astray' <=> Of(w) \in astray,
             <<m, i>> \in astray' /\ <<m, i>> \notin astray => screen[m] # "none",
             IF <<m, i>> \in astray' THEN Still(m) \/ Told(m) ELSE screen[m] \in {"none", "failed"}
      PROVE  Goal
  <2>1. \A k \in Messages, j \in 0..MaxRetries :
          task'[<<k, j>>] = IF k = m /\ j = i THEN "saving" ELSE task[<<k, j>>]
    <3> SUFFICES ASSUME NEW k \in Messages, NEW j \in 0..MaxRetries
                 PROVE  task'[<<k, j>>] = IF k = m /\ j = i THEN "saving" ELSE task[<<k, j>>]
      OBVIOUS
    <3> QED
      BY <1>3, <1>a DEF TypeOK
  <2>2. CASE n # m
    <3>1. \A j \in 0..MaxRetries : <<n, j>> \in astray' <=> <<n, j>> \in astray
      BY <1>3, <2>2
    <3>2. \A j \in 0..MaxRetries : task'[<<n, j>>] = task[<<n, j>>]
      BY <2>1, <2>2
    <3> QED
      BY <1>2, <1>3, <2>2, <3>1, <3>2 DEF Kinds
  <2>3. CASE n = m
    <3>1. Awaited(n)'
      BY <1>3, <2>3, AwaitedAdded DEF Kinds
    <3>2. Visible(n)'
      BY <1>3, <1>a, <2>1, <2>3 DEF Visible
    <3>3. row'[n] = "sending" /\ screen' = screen
      BY <1>3, <2>3, WriteEffect DEF Kinds, Write
    <3>4. Known(n)'
      BY <1>3, <2>3, <3>3 DEF Known
    <3> QED
      BY <3>1, <3>2, <3>4 DEF Goal
  <2> QED
    BY <2>2, <2>3
<1>4. ASSUME NEW m \in Messages, Send(m) \/ Uploaded(m) PROVE Goal
  <2>1. /\ task[<<m, 0>>] \in {"idle", "uploading"}
        /\ task' = [task EXCEPT ![<<m, 0>>] = "saving"] /\ UNCHANGED <<entry, astray>>
        /\ Write("append", m, 0)
    BY <1>4 DEF Send, Uploaded
  <2>2. /\ row[m] = "none" /\ ~Writing(m) /\ entry[m] = None
        /\ \A j \in 0..MaxRetries : j # 0 => task[<<m, j>>] = "idle"
    BY <1>b, <2>1, NothingElse
  <2>3. screen[m] = "none"
    <3>1. CASE task[<<m, 0>>] = "idle"
      BY <1>b, <3>1 DEF Local, Fresh
    <3>2. CASE task[<<m, 0>>] = "uploading"
      BY <1>a, <1>b, <2>2, <3>2 DEF Local, Rowless, Resting, Working
    <3> QED
      BY <2>1, <3>1, <3>2
  <2> QED
    BY <1>3, <1>a, <1>c, <2>1, <2>2, <2>3 DEF Still
<1>5. ASSUME NEW m \in Messages, SendAttachment(m) \/ SendControl(m) PROVE Goal
  <2>1. PICK v \in {"uploading", "sealing"} :
          /\ task[<<m, 0>>] = "idle" /\ task' = [task EXCEPT ![<<m, 0>>] = v]
          /\ UNCHANGED <<writes, astray, row, screen, unsaved, entry>>
    BY <1>5 DEF SendAttachment, SendControl
  <2>2. \A k \in Messages, j \in 0..MaxRetries :
          task'[<<k, j>>] = IF k = m /\ j = 0 THEN v ELSE task[<<k, j>>]
    <3> SUFFICES ASSUME NEW k \in Messages, NEW j \in 0..MaxRetries
                 PROVE  task'[<<k, j>>] = IF k = m /\ j = 0 THEN v ELSE task[<<k, j>>]
      OBVIOUS
    <3> QED
      BY <1>a, <2>1 DEF TypeOK
  <2>3. CASE n # m
    BY <1>1, <2>1, <2>2, <2>3
  <2>4. CASE n = m
    <3>1. /\ row[m] = "none" /\ screen[m] = "none" /\ entry[m] = None
          /\ \A j \in 0..MaxRetries : j # 0 => task[<<m, j>>] = "idle"
      BY <1>b, <2>1, NothingElse DEF Local, Fresh
    <3>2. About(n)' = About(n)
      BY <2>1 DEF About
    <3>3. Awaited(n)'
      BY <2>1, <3>2, AwaitedStays
    <3>4. Visible(n)' /\ Known(n)'
      BY <2>1, <2>4, <3>1 DEF Visible, Known
    <3> QED
      BY <3>3, <3>4 DEF Goal
  <2> QED
    BY <2>3, <2>4
<1>6. ASSUME NEW m \in Messages, UploadFails(m) PROVE Goal
  <2>1. /\ task[<<m, 0>>] = "uploading" /\ task' = [task EXCEPT ![<<m, 0>>] = "done"]
        /\ screen' = [screen EXCEPT ![m] = "failed"]
        /\ UNCHANGED <<writes, astray, row, unsaved, entry>>
    BY <1>6 DEF UploadFails
  <2>2. \A k \in Messages, j \in 0..MaxRetries :
          task'[<<k, j>>] = IF k = m /\ j = 0 THEN "done" ELSE task[<<k, j>>]
    <3> SUFFICES ASSUME NEW k \in Messages, NEW j \in 0..MaxRetries
                 PROVE  task'[<<k, j>>] = IF k = m /\ j = 0 THEN "done" ELSE task[<<k, j>>]
      OBVIOUS
    <3> QED
      BY <1>a, <2>1 DEF TypeOK
  <2>3. CASE n # m
    <3>1. screen'[n] = screen[n]
      BY <2>1, <2>3 DEF TypeOK
    <3> QED
      BY <1>1, <2>1, <2>2, <2>3, <3>1
  <2>4. CASE n = m
    <3>1. /\ row[m] = "none" /\ ~Writing(m) /\ entry[m] = None
          /\ \A j \in 0..MaxRetries : j # 0 => task[<<m, j>>] = "idle"
      BY <1>b, <2>1, NothingElse
    <3>2. About(n)' = {}
      <4>1. About(n)' = About(n)
        BY <2>1 DEF About
      <4> QED
        BY <1>c, <2>4, <3>1, <4>1
    <3>3. Awaited(n)'
      BY <3>2 DEF Awaited
    <3>4. screen'[n] = "failed"
      BY <2>1, <2>4 DEF TypeOK
    <3>5. Visible(n)' /\ Known(n)'
      BY <1>a, <2>1, <2>2, <2>4, <3>1, <3>4 DEF Visible, Known
    <3> QED
      BY <3>3, <3>5 DEF Goal
  <2> QED
    BY <2>3, <2>4
<1>7. ASSUME NEW q \in Messages, NEW m \in Messages, NEW i \in 0..MaxRetries, Retry(q, m, i)
      PROVE  Goal
  <2>1. /\ task[<<m, i>>] = "idle" /\ task' = [task EXCEPT ![<<m, i>>] = "saving"]
        /\ screen[q] = "failed" /\ row[m] = "failed" /\ entry' = entry
        /\ astray' = IF q = m THEN astray ELSE astray \cup {<<m, i>>}
        /\ Write("resend", m, i)
    BY <1>7 DEF Retry
  <2>2. Resting(m) /\ entry[m] = None /\ m \notin displaced
    BY <1>b, <2>1 DEF Local, Settled, Replaced
  <2>3. \A j \in 0..MaxRetries : task[<<m, j>>] \in {"idle", "done"}
    BY <2>2 DEF Resting, Working
  <2>4. \A w \in About(m) : ~Starts(w) /\ Of(w) # <<m, i>>
    <3> SUFFICES ASSUME NEW w \in About(m) PROVE ~Starts(w) /\ Of(w) # <<m, i>>
      OBVIOUS
    <3>1. w[3] \in 0..MaxRetries /\ Of(w) = <<m, w[3]>>
      BY DEF About, Job, Of
    <3>2. task[Of(w)] # "idle" /\ (Starts(w) => task[Of(w)] = "saving")
      BY AboutChained
    <3> QED
      BY <2>1, <2>3, <3>1, <3>2
  <2>5. \A w \in About(m) : Of(w) \in astray' <=> Of(w) \in astray
    BY <2>1, <2>4
  <2>6. q # m => Still(m) \/ Told(m)
    <3> SUFFICES ASSUME ~Still(m) PROVE Told(m)
      OBVIOUS
    <3>1. m \notin unsaved /\ screen[m] = "sending"
      BY DEF Still
    <3>2. Writing(m)
      BY <2>2, <3>1 DEF SpinnerHasOwner, Busy, Resting, Working
    <3>3. PICK w \in About(m) : TRUE
      BY <3>2, AboutChained
    <3>4. ~Starts(w) /\ Of(w) \notin astray
      BY <2>4 DEF Awaited
    <3> QED
      BY <3>4 DEF Told, Tells
  <2>7. screen[m] # "none"
    BY <2>1 DEF Known
  <2>8. IF <<m, i>> \in astray' THEN Still(m) \/ Told(m) ELSE screen[m] \in {"none", "failed"}
    BY <2>1, <2>6 DEF Still
  <2>9. \A j \in 0..MaxRetries : j # i => task[<<m, j>>] # "sealing"
    BY <2>3
  <2> QED
    BY <1>3, <2>1, <2>2, <2>5, <2>7, <2>8, <2>9
<1>8. CASE Picture
  <2>1. UNCHANGED <<writes, astray, row, screen, unsaved, task, entry>>
    BY <1>8 DEF Picture
  <2> QED
    BY <1>1, <2>1
<1>9. CASE Saved \/ SaveFails
  <2>1. PICK w \in Job, v \in {"sealing", "done"} :
          /\ w = writes[1] /\ writes # <<>> /\ writes' = Tail(writes)
          /\ UNCHANGED <<astray, entry, row>>
          /\ \A u \in Attempts : task'[u] = IF Starts(w) /\ u = Of(w) THEN v ELSE task[u]
          /\ unsaved' = IF v = "done" THEN unsaved \cup {w[2]} ELSE unsaved
          /\ screen' = IF v = "done" \/ Of(w) \in astray THEN screen
                       ELSE [screen EXCEPT ![w[2]] = IF Starts(w) THEN "sending"
                                                     ELSE IF @ = "none" THEN @ ELSE w[1]]
    BY <1>9, PoppedEffect
  <2>2. PICK m \in Messages, i \in 0..MaxRetries : m = w[2] /\ Of(w) = <<m, i>>
    BY DEF Job, Of
  <2>3. \A k \in Messages, j \in 0..MaxRetries :
          task'[<<k, j>>] = IF Starts(w) /\ k = m /\ j = i THEN v ELSE task[<<k, j>>]
    <3> SUFFICES ASSUME NEW k \in Messages, NEW j \in 0..MaxRetries
                 PROVE  task'[<<k, j>>] = IF Starts(w) /\ k = m /\ j = i THEN v ELSE task[<<k, j>>]
      OBVIOUS
    <3> QED
      BY <1>a, <2>1, <2>2
  <2>4. CASE n # m
    <3>1. About(n)' = About(n)
      BY <2>1, <2>2, <2>4, AboutPop
    <3>2. screen'[n] = screen[n] /\ (n \in unsaved => n \in unsaved')
      BY <2>1, <2>2, <2>4 DEF TypeOK
    <3>3. Awaited(n)'
      BY <2>1, <3>1, <3>2, AwaitedStays
    <3>4. Visible(n)'
      BY <2>1, <2>3, <2>4, <3>2, VisibleStays
    <3>5. Known(n)'
      BY <2>1, <3>2 DEF Known
    <3> QED
      BY <3>3, <3>4, <3>5 DEF Goal
  <2>5. CASE n = m
    <3>1. /\ w \in About(m) /\ About(m)' \subseteq About(m)
          /\ \A u \in About(m)' : Starts(u) /\ ~Starts(w)
          /\ Starts(w) => About(m) = {w} /\ About(m)' = {}
      BY <2>1, <2>2, AboutPop
    <3>2. /\ task[Of(w)] # "idle" /\ Writing(m)
          /\ Starts(w) => task[Of(w)] = "saving" /\ row[m] # "none"
      BY <3>1, AboutChained
    <3>3. Known(n)'
      <4>1. screen'[n] = "none" => screen[n] = "none"
        BY <2>1, <2>2, <2>5 DEF TypeOK, Job, Kinds
      <4> QED
        BY <2>1, <4>1 DEF Known
    <3>4. CASE Starts(w)
      <4>1. Awaited(n)'
        BY <2>5, <3>1, <3>4 DEF Awaited
      <4>2. Working(m, i)
        BY <2>2, <3>2, <3>4 DEF Working
      <4>3. entry[m] = None /\ \A j \in 0..MaxRetries : Working(m, j) => j = i
        BY <1>b, <4>2, OneAtWork
      <4>4. Of(w) \in astray => Still(m)
        BY <3>1, <3>4 DEF Awaited, Told, Tells
      <4>5. v = "sealing" => IF Of(w) \in astray THEN Still(m)' ELSE screen'[m] = "sending"
        BY <2>1, <2>2, <3>4, <4>4 DEF Still, TypeOK
      <4>6. \A j \in 0..MaxRetries : task'[<<m, j>>] = "sealing" \/ entry'[m] = j
                                       => j = i /\ v = "sealing"
        BY <1>a, <2>1, <2>3, <3>4, <4>3 DEF Working
      <4>7. Visible(n)'
        BY <2>1, <2>2, <2>5, <4>5, <4>6 DEF Visible
      <4> QED
        BY <3>3, <4>1, <4>7 DEF Goal
    <3>5. CASE ~Starts(w)
      <4>1. Still(m)'
        BY <2>1, <2>2, <3>1, <3>5, PoppedStill
      <4>2. ASSUME NEW u \in About(m)', Of(u) \notin astray
            PROVE  screen'[m] \in {"none", "failed"}
        <5>1. Starts(u) /\ u \in About(m)
          BY <3>1
        <5>2. screen[m] \in {"none", "failed"} /\ row[m] # "none"
          BY <4>2, <5>1, AboutChained DEF Awaited
        <5>3. Of(w) \notin astray => row[m] = "none" \/ screen[m] = "sending"
          BY <3>1, <3>5 DEF Awaited
        <5>4. Of(w) \in astray
          BY <5>2, <5>3
        <5> QED
          BY <2>1, <5>2, <5>4
      <4>3. Awaited(n)'
        BY <2>1, <2>5, <3>1, <4>1, <4>2 DEF Awaited, Starts, Of
      <4>4. ~Sealing(m) /\ entry[m] = None
        BY <1>b, <3>2 DEF Local, Quiet
      <4>5. Visible(n)'
        BY <1>a, <2>1, <2>3, <2>5, <3>5, <4>4 DEF Visible, Sealing
      <4> QED
        BY <3>3, <4>3, <4>5 DEF Goal
    <3> QED
      BY <3>4, <3>5
  <2> QED
    BY <2>4, <2>5
<1>10. ASSUME NEW m \in Messages, NEW i \in 0..MaxRetries, Sealed(m, i) PROVE Goal
  <2>1. /\ UNCHANGED <<writes, astray, row, screen, unsaved>>
        /\ task[<<m, i>>] = "sealing" /\ task' = [task EXCEPT ![<<m, i>>] = "done"]
        /\ entry' = [k \in Messages |-> IF k = m THEN i ELSE IF k \in Alike(m) THEN None ELSE entry[k]]
    BY <1>10 DEF Sealed, Pend
  <2>2. \A j \in 0..MaxRetries : task'[<<n, j>>] = "sealing" => task[<<n, j>>] = "sealing"
    <3> SUFFICES ASSUME NEW j \in 0..MaxRetries, task'[<<n, j>>] = "sealing"
                 PROVE  task[<<n, j>>] = "sealing"
      OBVIOUS
    <3> QED
      BY <1>a, <2>1 DEF TypeOK
  <2>3. \A j \in 0..MaxRetries : entry'[n] = j => task[<<n, j>>] = "sealing" \/ entry[n] = j
    BY <1>a, <2>1
  <2> QED
    BY <1>1, <2>1, <2>2, <2>3
(* A write that settles the attempt being encrypted, or the pending one.   *)
<1>11. ASSUME NEW m \in Messages, NEW i \in 0..MaxRetries, NEW what \in {"sent", "failed"},
              Write(what, m, i), task[<<m, i>>] = "sealing" \/ entry[m] = i,
              astray' = astray, entry' = [entry EXCEPT ![m] = None],
              \/ task' = task
              \/ task[<<m, i>>] = "sealing" /\ task' = [task EXCEPT ![<<m, i>>] = "done"],
              \A j \in 0..MaxRetries : task'[<<m, j>>] # "sealing"
       PROVE  Goal
  <2>1. \A j \in 0..MaxRetries : task'[<<n, j>>] = "sealing" => task[<<n, j>>] = "sealing"
    <3> SUFFICES ASSUME NEW j \in 0..MaxRetries, task'[<<n, j>>] = "sealing"
                 PROVE  task[<<n, j>>] = "sealing"
      OBVIOUS
    <3> QED
      BY <1>11, <1>a DEF TypeOK
  <2>2. CASE n # m
    BY <1>2, <1>11, <2>1, <2>2 DEF Kinds
  <2>3. CASE n = m
    <3>1. ~Writing(m)
      BY <1>a, <1>b, <1>11 DEF Local, Quiet, Sealing
    <3>2. IF <<m, i>> \in astray THEN Still(m) ELSE row[m] = "none" \/ screen[m] = "sending"
      BY <1>11 DEF Visible
    <3>3. Awaited(n)'
      BY <1>c, <1>11, <2>3, <3>1, <3>2, AwaitedAdded DEF Kinds
    <3>4. entry'[m] = None
      BY <1>11 DEF TypeOK
    <3>5. Visible(n)'
      BY <1>a, <1>11, <2>3, <3>4 DEF Visible
    <3>6. /\ row'[m] = (IF row[m] = "none" THEN "none" ELSE what) /\ screen' = screen
      BY <1>11, WriteEffect DEF Kinds, Write
    <3>7. row[m] # "none" => screen[m] # "none"
      BY <3>2 DEF Known
    <3>8. Known(n)'
      BY <1>11, <2>3, <3>6, <3>7 DEF Known
    <3> QED
      BY <3>3, <3>5, <3>8 DEF Goal
  <2> QED
    BY <2>2, <2>3
<1>12. ASSUME NEW m \in Messages, NEW i \in 0..MaxRetries, SealFails(m, i) PROVE Goal
  <2>1. /\ task[<<m, i>>] = "sealing" /\ task' = [task EXCEPT ![<<m, i>>] = "done"]
        /\ UNCHANGED <<astray, entry>>
        /\ UNCHANGED storeVars \/ Write("failed", m, i)
    BY <1>12 DEF SealFails
  <2>2. \A k \in Messages, j \in 0..MaxRetries :
          task'[<<k, j>>] = IF k = m /\ j = i THEN "done" ELSE task[<<k, j>>]
    <3> SUFFICES ASSUME NEW k \in Messages, NEW j \in 0..MaxRetries
                 PROVE  task'[<<k, j>>] = IF k = m /\ j = i THEN "done" ELSE task[<<k, j>>]
      OBVIOUS
    <3> QED
      BY <1>a, <2>1 DEF TypeOK
  <2>3. Working(m, i)
    BY <2>1 DEF Working
  <2>4. entry[m] = None /\ \A j \in 0..MaxRetries : Working(m, j) => j = i
    BY <1>b, <2>3, OneAtWork
  <2>5. CASE UNCHANGED storeVars
    BY <1>1, <2>1, <2>2, <2>5
  <2>6. CASE Write("failed", m, i)
    <3>1. entry' = [entry EXCEPT ![m] = None]
      BY <2>1, <2>4 DEF TypeOK
    <3>2. \A j \in 0..MaxRetries : task'[<<m, j>>] # "sealing"
      BY <2>2, <2>4 DEF Working
    <3> QED
      BY <1>11, <2>1, <2>6, <3>1, <3>2
  <2> QED
    BY <2>1, <2>5, <2>6
<1>13. ASSUME NEW m \in Messages, entry[m] # None, NEW what \in {"sent", "failed"},
              Write(what, m, entry[m]), entry' = [entry EXCEPT ![m] = None],
              UNCHANGED <<task, astray>>
       PROVE  Goal
  <2>1. PICK i \in 0..MaxRetries : entry[m] = i
    BY <1>13, <1>a
  <2>2. \A j \in 0..MaxRetries : task[<<m, j>>] # "sealing"
    BY <1>13, <1>b, OneAtWork DEF Working
  <2> QED
    BY <1>11, <1>13, <2>1, <2>2
<1>14. CASE Reconnect \/ Disconnect \/ (\E t \in Attempts : Accept(t) \/ Ignore(t)) \/ UNCHANGED vars
  <2>1. UNCHANGED <<writes, astray, row, screen, unsaved, task, entry>>
    BY <1>14 DEF Reconnect, Disconnect, Accept, Ignore, vars
  <2> QED
    BY <1>1, <2>1
<1>15. ASSUME NEW t \in Attempts, Ack(t) PROVE Goal
  <2>1. UNCHANGED <<task, astray>>
    BY <1>15 DEF Ack
  <2>2. CASE UNCHANGED <<entry, timers, storeVars>>
    BY <1>1, <2>1, <2>2
  <2>3. ASSUME NEW m \in Messages, entry[m] # None, Settle(m) PROVE Goal
    BY <1>13, <2>1, <2>3 DEF Settle
  <2> QED
    BY <1>15, <2>2, <2>3 DEF Ack, Alike
<1>16. ASSUME NEW t \in Attempts, AckTimeout(t) PROVE Goal
  <2>1. UNCHANGED <<task, astray>> /\ t[1] \in Messages /\ t[2] \in 0..MaxRetries
    BY <1>16, Ranges DEF AckTimeout
  <2>2. CASE entry[t[1]] # t[2]
    BY <1>1, <1>16, <2>1, <2>2 DEF AckTimeout
  <2>3. CASE entry[t[1]] = t[2]
    <3>1. /\ entry' = [entry EXCEPT ![t[1]] = None] /\ Write("failed", t[1], entry[t[1]])
          /\ entry[t[1]] # None
      BY <1>16, <1>a, <2>1, <2>3 DEF AckTimeout
    <3> QED
      BY <1>13, <2>1, <3>1
  <2> QED
    BY <2>2, <2>3
<1>17. CASE Relaunch
  <2>1. /\ writes' = <<>> /\ row' = disk /\ astray' = {}
        /\ screen'[n] = IF disk[n] = "sending" THEN "failed" ELSE disk[n]
        /\ entry'[n] = None
        /\ \A j \in 0..MaxRetries : task'[<<n, j>>] = IF task[<<n, j>>] = "idle" THEN "idle" ELSE "done"
    BY <1>17, <1>a DEF Relaunch
  <2>2. About(n)' = {}
    BY <2>1 DEF About
  <2>3. Awaited(n)' /\ Visible(n)' /\ Known(n)'
    BY <1>a, <2>1, <2>2 DEF Awaited, Visible, Known
  <2> QED
    BY <2>3 DEF Goal
<1> QED
  BY <1>4, <1>5, <1>6, <1>7, <1>8, <1>9, <1>10, <1>12, <1>14, <1>15, <1>16, <1>17
     DEF Next, User, Upload, Seal, Store, Network, Attempts

----------------------------------------------------------------------------
(* What SpinnerHasOwner says of one message, and in terms of Working.      *)
Owned(m) == screen[m] = "sending" => ~Resting(m) \/ entry[m] # None \/ Writing(m)

LEMMA SpinnerHasOwnerIsOwned ==
  SpinnerHasOwner <=> \A m \in Messages \ (unsaved \cup displaced) : Owned(m)
BY DEF SpinnerHasOwner, Owned, Busy, Resting, Working

(* Every step keeps the owners of a message shown as sending.              *)
LEMMA SpinnerStep ==
  ASSUME TypeOK, Dispatching, Storing, \A m \in Messages : Awaited(m),
         SpinnerHasOwner, [Next]_vars
  PROVE  SpinnerHasOwner'
<1> SUFFICES ASSUME NEW n \in Messages \ (unsaved' \cup displaced')
             PROVE  Owned(n)'
  BY DEF SpinnerHasOwner, Owned, Busy, Resting, Working
<1> USE DEF wireVars, storeVars
<1>a. /\ 0 \in 0..MaxRetries /\ None \notin 0..MaxRetries
      /\ \A m \in Messages, i \in 0..MaxRetries : <<m, i>> \in Attempts
      /\ \A t \in Attempts : t[1] \in Messages /\ t[2] \in 0..MaxRetries
  BY Ranges
<1>b. /\ \A m \in Messages : Local(m)
      /\ \A m \in Messages \ (unsaved \cup displaced) : Owned(m)
  BY SpinnerHasOwnerIsOwned DEF Dispatching
<1> HIDE DEF Dispatching
<1>1. ASSUME unsaved \subseteq unsaved', n \in displaced => n \in displaced',
             screen'[n] = screen[n], entry'[n] = entry[n],
             Writing(n) => Writing(n)', ~Resting(n) => ~Resting(n)'
      PROVE  Owned(n)'
  BY <1>1, <1>b DEF Owned
<1>2. ASSUME NEW m \in Messages, NEW i \in 0..MaxRetries,
             UNCHANGED <<screen, entry, unsaved, displaced>>,
             \E v \in {"uploading", "saving", "sealing"} : task' = [task EXCEPT ![<<m, i>>] = v],
             writes' = writes \/ Write("append", m, i) \/ Write("resend", m, i)
      PROVE  Owned(n)'
  <2>1. Writing(n) => Writing(n)'
    <3>1. CASE writes' = writes
      BY <3>1 DEF Writing
    <3>2. CASE Write("append", m, i) \/ Write("resend", m, i)
      BY <3>2, WriteEffect DEF Kinds
    <3> QED
      BY <1>2, <3>1, <3>2
  <2>2. \A j \in 0..MaxRetries : Working(n, j) => Working(n, j)'
    BY <1>a, <1>2 DEF Working, TypeOK
  <2> QED
    BY <1>1, <1>2, <2>1, <2>2 DEF Resting
<1>3. ASSUME NEW m \in Messages, Send(m) \/ Uploaded(m) \/ SendAttachment(m) \/ SendControl(m)
      PROVE  Owned(n)'
  <2>1. /\ UNCHANGED <<screen, entry, unsaved, displaced>>
        /\ \E v \in {"uploading", "saving", "sealing"} : task' = [task EXCEPT ![<<m, 0>>] = v]
        /\ writes' = writes \/ Write("append", m, 0)
    BY <1>3 DEF Send, Uploaded, SendAttachment, SendControl, Write
  <2> QED
    BY <1>2, <1>a, <2>1
<1>4. ASSUME NEW q \in Messages, NEW m \in Messages, NEW i \in 0..MaxRetries, Retry(q, m, i)
      PROVE  Owned(n)'
  <2>1. /\ UNCHANGED <<screen, entry, unsaved, displaced>>
        /\ task' = [task EXCEPT ![<<m, i>>] = "saving"]
        /\ Write("resend", m, i)
    BY <1>4 DEF Retry, Write
  <2> QED
    BY <1>2, <2>1
<1>5. ASSUME NEW m \in Messages, UploadFails(m) PROVE Owned(n)'
  <2>1. /\ UNCHANGED <<writes, entry, unsaved, displaced>>
        /\ screen' = [screen EXCEPT ![m] = "failed"]
        /\ task' = [task EXCEPT ![<<m, 0>>] = "done"]
    BY <1>5 DEF UploadFails
  <2>2. CASE n = m
    BY <2>1, <2>2 DEF Owned, TypeOK
  <2>3. CASE n # m
    <3>1. /\ screen'[n] = screen[n]
          /\ \A i \in 0..MaxRetries : task'[<<n, i>>] = task[<<n, i>>]
      BY <1>a, <2>1, <2>3 DEF TypeOK
    <3> QED
      BY <1>1, <2>1, <3>1 DEF Resting, Working, Writing
  <2> QED
    BY <2>2, <2>3
<1>6. CASE Picture
  <2>1. UNCHANGED <<task, writes, screen, entry, unsaved, displaced>>
    BY <1>6 DEF Picture
  <2> QED
    BY <1>1, <2>1 DEF Resting, Working, Writing
<1>7. CASE Saved \/ SaveFails
  <2>1. PICK w \in Job, v \in {"sealing", "done"} :
          /\ w = writes[1] /\ writes # <<>> /\ writes' = Tail(writes)
          /\ UNCHANGED <<astray, entry, displaced, row>>
          /\ \A u \in Attempts : task'[u] = IF Starts(w) /\ u = Of(w) THEN v ELSE task[u]
          /\ unsaved' = IF v = "done" THEN unsaved \cup {w[2]} ELSE unsaved
          /\ screen' = IF v = "done" \/ Of(w) \in astray THEN screen
                       ELSE [screen EXCEPT ![w[2]] = IF Starts(w) THEN "sending"
                                                     ELSE IF @ = "none" THEN @ ELSE w[1]]
    BY <1>7, PoppedEffect
  <2>2. PICK m \in Messages, i \in 0..MaxRetries : m = w[2] /\ Of(w) = <<m, i>>
    BY DEF Job, Of
  <2>3. CASE n # m
    <3>1. \A j \in 0..MaxRetries : task'[<<n, j>>] = task[<<n, j>>]
      BY <1>a, <2>1, <2>2, <2>3
    <3>2. screen'[n] = screen[n]
      BY <2>1, <2>2, <2>3 DEF TypeOK
    <3>3. Writing(n) => Writing(n)'
      BY <2>1, <2>2, <2>3, PopEffect
    <3> QED
      BY <1>1, <2>1, <3>1, <3>2, <3>3 DEF Resting, Working
  <2>4. CASE n = m /\ Starts(w)
    <3>1. task'[<<n, i>>] = "sealing"
      BY <1>a, <2>1, <2>2, <2>4
    <3> QED
      BY <3>1 DEF Owned, Resting, Working
  <2>5. CASE n = m /\ ~Starts(w)
    <3>1. w \in About(m)
      BY <2>1, <2>2, AboutPop
    <3>2. Still(m)'
      BY <2>1, <2>2, <2>5, <3>1, PoppedStill
    <3> QED
      BY <2>5, <3>2 DEF Still, Owned
  <2> QED
    BY <2>3, <2>4, <2>5
<1>8. ASSUME NEW m \in Messages, NEW i \in 0..MaxRetries, Sealed(m, i) PROVE Owned(n)'
  <2>1. /\ UNCHANGED <<screen, unsaved, writes>>
        /\ task[<<m, i>>] = "sealing" /\ task' = [task EXCEPT ![<<m, i>>] = "done"]
        /\ entry' = [k \in Messages |-> IF k = m THEN i ELSE IF k \in Alike(m) THEN None ELSE entry[k]]
        /\ displaced' = displaced \cup {k \in Alike(m) \ {m} : entry[k] # None}
    BY <1>8 DEF Sealed, Pend
  <2>2. CASE n # m
    <3>1. entry'[n] = entry[n]
      BY <2>1, <2>2
    <3>2. \A j \in 0..MaxRetries : task'[<<n, j>>] = task[<<n, j>>]
      BY <1>a, <2>1, <2>2 DEF TypeOK
    <3> QED
      BY <1>1, <2>1, <3>1, <3>2 DEF Resting, Working, Writing
  <2>3. CASE n = m
    BY <1>a, <2>1, <2>3 DEF Owned
  <2> QED
    BY <2>2, <2>3
<1>9. ASSUME NEW m \in Messages, NEW i \in 0..MaxRetries, SealFails(m, i) PROVE Owned(n)'
  <2>1. /\ UNCHANGED <<screen, unsaved, entry, displaced>>
        /\ task[<<m, i>>] = "sealing" /\ task' = [task EXCEPT ![<<m, i>>] = "done"]
        /\ Write("failed", m, i) \/ (row[m] = "none" /\ writes' = writes)
    BY <1>9 DEF SealFails, Write
  <2>2. Writing(n) => Writing(n)'
    <3>1. CASE writes' = writes
      BY <3>1 DEF Writing
    <3>2. CASE Write("failed", m, i)
      BY <3>2, WriteEffect DEF Kinds
    <3> QED
      BY <2>1, <3>1, <3>2
  <2>3. CASE n # m
    <3>1. \A j \in 0..MaxRetries : task'[<<n, j>>] = task[<<n, j>>]
      BY <1>a, <2>1, <2>3 DEF TypeOK
    <3> QED
      BY <1>1, <2>1, <2>2, <3>1 DEF Resting, Working
  <2>4. CASE n = m /\ Write("failed", m, i)
    <3>1. Writing(n)'
      BY <2>4, WriteEffect DEF Kinds
    <3> QED
      BY <3>1 DEF Owned
  <2>5. CASE n = m /\ row[m] = "none"
    <3>1. ~Resting(m)
      BY <2>1 DEF Resting, Working
    <3>2. screen[m] = "none"
      BY <1>b, <2>5, <3>1 DEF Local, Rowless
    <3> QED
      BY <2>1, <2>5, <3>2 DEF Owned
  <2> QED
    BY <2>1, <2>3, <2>4, <2>5
<1>10. CASE Reconnect \/ Disconnect \/ (\E t \in Attempts : Accept(t) \/ Ignore(t)) \/ UNCHANGED vars
  <2>1. UNCHANGED <<task, writes, screen, entry, unsaved, displaced>>
    BY <1>10 DEF Reconnect, Disconnect, Accept, Ignore, vars
  <2> QED
    BY <1>1, <2>1 DEF Resting, Working, Writing
<1>11. ASSUME NEW m \in Messages, NEW i \in 0..MaxRetries, NEW what \in {"sent", "failed"},
              entry' = [entry EXCEPT ![m] = None], Write(what, m, i), UNCHANGED <<task, displaced>>
       PROVE  Owned(n)'
  <2>1. /\ screen' = screen /\ unsaved' = unsaved
        /\ \A k \in Messages : Writing(k)' <=> Writing(k) \/ k = m
    BY <1>11, WriteEffect DEF Write, Kinds
  <2>2. CASE n = m
    BY <2>1, <2>2 DEF Owned
  <2>3. CASE n # m
    <3>1. entry'[n] = entry[n]
      BY <1>11, <2>3 DEF TypeOK
    <3> QED
      BY <1>1, <1>11, <2>1, <3>1 DEF Resting, Working
  <2> QED
    BY <2>2, <2>3
<1>12. ASSUME NEW t \in Attempts, Ack(t) \/ AckTimeout(t) PROVE Owned(n)'
  <2>1. UNCHANGED <<task, displaced>>
    BY <1>12 DEF Ack, AckTimeout
  <2>2. CASE UNCHANGED <<writes, screen, entry, unsaved>>
    BY <1>1, <2>1, <2>2 DEF Resting, Working, Writing
  <2>3. ASSUME NEW m \in Messages, NEW i \in 0..MaxRetries, NEW what \in {"sent", "failed"},
               entry' = [entry EXCEPT ![m] = None], Write(what, m, i)
        PROVE  Owned(n)'
    BY <1>11, <2>1, <2>3
  <2>4. ASSUME NEW m \in Messages, entry[m] # None, Settle(m) PROVE Owned(n)'
    <3>1. entry[m] \in 0..MaxRetries
      BY <2>4, Ranges DEF TypeOK
    <3> QED
      BY <2>3, <2>4, <3>1 DEF Settle
  <2> QED
    BY <1>12, <1>a, <2>2, <2>3, <2>4 DEF Ack, AckTimeout, Alike
<1>13. CASE Relaunch
  <2>1. screen'[n] # "sending"
    BY <1>13 DEF Relaunch
  <2> QED
    BY <2>1 DEF Owned
<1> QED
  BY <1>3, <1>4, <1>5, <1>6, <1>7, <1>8, <1>9, <1>10, <1>12, <1>13
     DEF Next, User, Upload, Seal, Store, Network, Attempts

----------------------------------------------------------------------------
(* What is said of the rows in the blob stays when a write is added.       *)
LEMMA KeptAdded ==
  ASSUME TypeOK, Kept, Storing, NEW what \in Kinds, NEW m \in Messages, NEW i \in 0..MaxRetries,
         Write(what, m, i)
  PROVE  Kept'
<1>1. /\ Len(writes) \in Nat
      /\ \A k \in 1..Len(writes) : writes'[k] = writes[k]
      /\ \A k \in Messages : k # m => row'[k] = row[k]
      /\ what \in {"append", "resend"} => row'[m] = "sending"
      /\ what \in {"sent", "failed"} => row'[m] = IF row[m] = "none" THEN "none" ELSE what
  BY WriteEffect, LenProperties DEF TypeOK, Kinds
<1>2. UNCHANGED <<image, disk, screen>>
  BY DEF Write
<1>3. image # <<>> => writes'[1] = writes[1]
  <2>1. image # <<>> => writes # <<>>
    BY DEF Storing, Lasting
  <2>2. writes # <<>> => Len(writes) # 0
    BY EmptySeq DEF TypeOK
  <2> QED
    BY <1>1, <2>1, <2>2
<1>4. \A k \in Messages : row[k] # "none" => row'[k] # "none"
  BY <1>1 DEF Kinds
<1> QED
  BY <1>2, <1>3, <1>4 DEF Kept, Starts

(* Every step keeps the rows of what is shown as sending in the blob.      *)
LEMMA KeptStep == TypeOK /\ Dispatching /\ Storing /\ Shown /\ [Next]_vars => Kept'
<1> SUFFICES ASSUME TypeOK, Dispatching, Storing, Shown, [Next]_vars PROVE Kept'
  OBVIOUS
<1> USE RetriesAssumption DEF wireVars, storeVars
<1>a. /\ 0 \in 0..MaxRetries /\ Kept /\ Chained
      /\ \A m \in Messages : entry[m] # None => entry[m] \in 0..MaxRetries
      /\ \A t \in Attempts : t[1] \in Messages /\ t[2] \in 0..MaxRetries
  BY Ranges DEF Shown, Storing, TypeOK
<1>1. ASSUME UNCHANGED <<writes, image, row, disk>>,
             \A m \in Messages : screen'[m] = "sending" => screen[m] = "sending"
      PROVE  Kept'
  BY <1>1, <1>a DEF Kept, Starts
<1>2. ASSUME NEW m \in Messages, Send(m) \/ Uploaded(m) PROVE Kept'
  BY <1>2, <1>a, KeptAdded DEF Send, Uploaded, Kinds
<1>3. ASSUME NEW m \in Messages, SendAttachment(m) \/ SendControl(m) PROVE Kept'
  BY <1>3, <1>1 DEF SendAttachment, SendControl
<1>4. ASSUME NEW q \in Messages, NEW m \in Messages, NEW i \in 0..MaxRetries, Retry(q, m, i)
      PROVE  Kept'
  BY <1>4, <1>a, KeptAdded DEF Retry, Kinds
<1>5. ASSUME NEW m \in Messages, UploadFails(m) PROVE Kept'
  <2>1. UNCHANGED <<writes, image, row, disk>> /\ screen' = [screen EXCEPT ![m] = "failed"]
    BY <1>5 DEF UploadFails
  <2> QED
    BY <1>1, <2>1 DEF TypeOK
<1>6. CASE Picture
  <2>1. UNCHANGED <<writes, row, disk, screen>> /\ writes # <<>> /\ image' = row
    BY <1>6 DEF Picture
  <2>2. 1 \in 1..Len(writes) /\ writes[1] \in Job
    <3>1. writes \in Seq(Job)
      BY DEF TypeOK, Job, Kinds
    <3> QED
      BY <2>1, <3>1, EmptySeq, LenProperties, ElementOfSeq
  <2>3. Starts(writes[1]) => row[writes[1][2]] # "none"
    BY <1>a, <2>2 DEF Chained
  <2> QED
    BY <1>a, <2>1, <2>3 DEF Kept, Starts
<1>7. CASE Saved \/ SaveFails
  <2>1. PICK w \in Job, v \in {"sealing", "done"} :
          /\ w = writes[1] /\ writes # <<>> /\ writes' = Tail(writes)
          /\ image # <<>> /\ image' = <<>> /\ row' = row
          /\ disk' = IF v = "done" THEN disk ELSE image
          /\ screen' = IF v = "done" \/ Of(w) \in astray THEN screen
                       ELSE [screen EXCEPT ![w[2]] = IF Starts(w) THEN "sending"
                                                     ELSE IF @ = "none" THEN @ ELSE w[1]]
    BY <1>7, PoppedEffect
  <2>2. w[1] \in Kinds /\ w[2] \in Messages
    BY DEF Job
  <2>3. ASSUME NEW m \in Messages, screen'[m] = "sending" PROVE disk'[m] # "none"
    <3>1. CASE screen[m] = "sending"
      BY <1>a, <2>1, <3>1 DEF Kept
    <3>2. CASE screen[m] # "sending"
      <4>1. m = w[2] /\ Starts(w) /\ v # "done"
        BY <2>1, <2>2, <2>3, <3>2 DEF TypeOK, Starts, Kinds
      <4> QED
        BY <1>a, <2>1, <4>1 DEF Kept
    <3> QED
      BY <3>1, <3>2
  <2> QED
    BY <1>a, <2>1, <2>3 DEF Kept
<1>9. ASSUME NEW m \in Messages, NEW i \in 0..MaxRetries, Sealed(m, i) \/ SealFails(m, i)
      PROVE  Kept'
  <2>1. UNCHANGED storeVars \/ Write("failed", m, i)
    BY <1>9 DEF Sealed, SealFails
  <2> QED
    BY <1>1, <1>a, <2>1, KeptAdded DEF Kinds
<1>10. CASE Reconnect \/ Disconnect \/ (\E t \in Attempts : Accept(t) \/ Ignore(t)) \/ UNCHANGED vars
  <2>1. UNCHANGED storeVars
    BY <1>10 DEF Reconnect, Disconnect, Accept, Ignore, vars
  <2> QED
    BY <1>1, <2>1
<1>11. ASSUME NEW t \in Attempts, Ack(t) \/ AckTimeout(t) PROVE Kept'
  <2>1. \/ UNCHANGED storeVars
        \/ \E m \in Messages : entry[m] # None /\ Write("sent", m, entry[m])
        \/ Write("failed", t[1], t[2])
    BY <1>11 DEF Ack, Settle, Alike, AckTimeout
  <2>2. CASE UNCHANGED storeVars
    BY <1>1, <2>2
  <2>3. ASSUME NEW m \in Messages, entry[m] # None, Write("sent", m, entry[m]) PROVE Kept'
    BY <1>a, <2>3, KeptAdded DEF Kinds
  <2>4. CASE Write("failed", t[1], t[2])
    BY <1>a, <2>4, KeptAdded DEF Kinds
  <2> QED
    BY <2>1, <2>2, <2>3, <2>4
<1>12. CASE Relaunch
  <2>1. /\ image' = <<>> /\ row' = disk /\ disk' = disk
        /\ screen' = [m \in Messages |-> IF disk[m] = "sending" THEN "failed" ELSE disk[m]]
    BY <1>12 DEF Relaunch
  <2> QED
    BY <2>1 DEF Kept
<1> QED
  BY <1>2, <1>3, <1>4, <1>5, <1>6, <1>7, <1>9, <1>10, <1>11, <1>12
     DEF Next, User, Upload, Seal, Store, Network, Attempts

----------------------------------------------------------------------------
(* The invariant is inductive, *)
LEMMA InductiveStep == Inductive /\ [Next]_vars => Inductive'
<1> SUFFICES ASSUME Inductive, [Next]_vars PROVE Inductive'
  OBVIOUS
<1>1. /\ TypeOK /\ Dispatching /\ OnePending /\ Storing /\ Transmitting /\ Shown
      /\ QueuedMeansOffline /\ SpinnerHasOwner
  BY DEF Inductive
<1>2. TypeOK' /\ Dispatching' /\ OnePending' /\ Storing'
  BY <1>1, TypingStep, DispatchingStep, OnePendingStep, StoringStep
<1>3. Transmitting' /\ QueuedMeansOffline'
  BY <1>1, TransmittingStep
<1>4. \A m \in Messages : Awaited(m) /\ Visible(m) /\ Known(m)
  BY <1>1 DEF Shown
<1>5. SpinnerHasOwner'
  BY <1>1, <1>4, SpinnerStep
<1>6. \A n \in Messages : Awaited(n)' /\ Visible(n)' /\ Known(n)'
  BY <1>1, <1>4, OnItsWayStep
<1>7. Shown'
  BY <1>1, <1>6, KeptStep DEF Shown
<1> QED
  BY <1>2, <1>3, <1>5, <1>7 DEF Inductive

(* and so it always holds.                                                 *)
LEMMA AlwaysInductive == Spec => []Inductive
BY InitInductive, InductiveStep, PTL DEF Spec

(* Every variable always has its type. *)
THEOREM TypeCorrect == Spec => []TypeOK
<1>1. Inductive => TypeOK
  BY DEF Inductive
<1> QED
  BY <1>1, AlwaysInductive, PTL

(* A message is never in flight twice, and of one number one entry is      *)
(* pending, whatever the taps on retry, the acks and the deadlines, and    *)
(* however messages share numbers: an ack finds at most one entry.         *)
THEOREM OneInFlightHolds == Spec => []OneInFlight
<1>1. Inductive => OneInFlight
  BY DEF Inductive, Dispatching, Local, Alone, Resting, Working, OneInFlight, Busy, OnePending
<1> QED
  BY <1>1, AlwaysInductive, PTL

(* What is shown as sent was accepted by the server, or one of the same    *)
(* number was, for any numbering; and the blob already says so: no         *)
(* relaunch takes it back.                                                 *)
THEOREM SentIsAcceptedAndSavedHolds == Spec => []SentIsAcceptedAndSaved
<1>1. Inductive => SentIsAcceptedAndSaved
  BY DEF Inductive, Storing, Lasting, SentIsAcceptedAndSaved
<1> QED
  BY <1>1, AlwaysInductive, PTL

(* With numbers of its own, what a message is shown as sent for is its own *)
(* acceptance (an ack of another message is not taken for one of it).      *)
THEOREM OwnNumberOwnAck ==
  ASSUME \A m, n \in Messages, f \in Numberings : f[m] = f[n] => m = n
  PROVE  Spec => [](\A m \in Messages : screen[m] = "sent" => m \in accepted)
<1> DEFINE Numbered == number \in Numberings
           Own == \A m \in Messages : screen[m] = "sent" => m \in accepted
<1>1. Init => Numbered
  BY DEF Init
<1>2. Numbered /\ [Next]_vars => Numbered'
  BY NumberStays
<1>3. Inductive /\ Numbered => Own
  BY DEF Inductive, Storing, Lasting, Taken, Alike
<1> HIDE DEF Numbered
<1>4. Spec => []Own
  BY <1>1, <1>2, <1>3, AlwaysInductive, PTL DEF Spec
<1> QED
  BY <1>4

(* A message shown as sending is held by a dispatch, by the pending map or *)
(* by a write that will tell the screen, unless the store has failed it or *)
(* one of its number has taken its place in the pending map.               *)
THEOREM SpinnerHasOwnerHolds == Spec => []SpinnerHasOwner
<1>1. Inductive => SpinnerHasOwner
  BY DEF Inductive
<1> QED
  BY <1>1, AlwaysInductive, PTL

(* While connected, nothing is left waiting for a connection but what the  *)
(* socket of this connection has refused to take.                          *)
THEOREM QueuedMeansOfflineHolds == Spec => []QueuedMeansOffline
<1>1. Inductive => QueuedMeansOffline
  BY DEF Inductive
<1> QED
  BY <1>1, AlwaysInductive, PTL

(* No attempt is handed to the transport twice: a reconnection flushes     *)
(* what was queued or refused and never what awaits its ack.               *)
THEOREM TransmittedOnceHolds == Spec => TransmittedOnce
<1>1. Inductive /\ [Next]_vars => [(frames' \ frames) \cap sentOut = {}]_vars
  BY TransmittingStep DEF Inductive
<1> QED
  BY <1>1, AlwaysInductive, PTL DEF Spec, TransmittedOnce

----------------------------------------------------------------------------
(* The initial states keep the promise, *)
LEMMA InitPromised == Init => Promise!Init
BY DEF Init, Promise!Init, Taken, Alike

(* and every step is one of the promise, or none.                          *)
LEMMA StepPromised ==
  Inductive /\ [Next]_vars => [Promise!Next]_(Promise!deliveryVars)
<1> SUFFICES ASSUME Inductive, [Next]_vars PROVE [Promise!Next]_(Promise!deliveryVars)
  OBVIOUS
<1> USE DEF wireVars, storeVars
<1>a. TypeOK /\ Storing /\ Lasting /\ \A m \in Messages : Local(m)
  BY DEF Inductive, Storing, Dispatching
<1>b. Kept /\ \A m \in Messages : Awaited(m) /\ Visible(m) /\ Known(m)
  BY DEF Inductive, Shown
<1>c. number' = number
  BY NumberStays
<1> HIDE DEF Inductive
<1>d. ASSUME accepted' = accepted
      PROVE  {m \in Messages : Taken(m)}' = {m \in Messages : Taken(m)}
  BY <1>c, <1>d DEF Taken, Alike
<1>1. ASSUME UNCHANGED <<screen, accepted>> PROVE [Promise!Next]_(Promise!deliveryVars)
  BY <1>1, <1>d DEF Promise!deliveryVars
<1>2. ASSUME NEW m \in Messages, UploadFails(m) PROVE Promise!Next
  <2>1. /\ screen' = [screen EXCEPT ![m] = "failed"] /\ UNCHANGED accepted
        /\ task[<<m, 0>>] = "uploading"
    BY <1>2 DEF UploadFails
  <2>2. row[m] = "none" /\ ~Resting(m)
    BY <1>a, <2>1, NothingElse, Ranges DEF Resting, Working
  <2>3. screen[m] = "none"
    BY <1>a, <2>2 DEF Local, Rowless
  <2>4. Promise!GiveUp(m)
    BY <1>d, <2>1, <2>3 DEF Promise!GiveUp, Promise!Turn
  <2> QED
    BY <2>4 DEF Promise!Next
<1>3. CASE Saved
  <2>1. PICK w \in Job, v \in {"sealing", "done"} :
          /\ w = writes[1] /\ writes # <<>> /\ writes' = Tail(writes) /\ accepted' = accepted
          /\ screen' = IF v = "done" \/ Of(w) \in astray THEN screen
                       ELSE [screen EXCEPT ![w[2]] = IF Starts(w) THEN "sending"
                                                     ELSE IF @ = "none" THEN @ ELSE w[1]]
    BY <1>a, <1>3, PoppedEffect
  <2>2. PICK m \in Messages : m = w[2]
    BY DEF Job
  <2>3. w \in About(m) /\ w[1] \in Kinds
    BY <1>a, <2>1, <2>2, AboutPop DEF Job
  <2>4. CASE v = "done" \/ Of(w) \in astray
    BY <1>1, <2>1, <2>4
  <2>5. CASE v # "done" /\ Of(w) \notin astray /\ Starts(w)
    <3>1. screen[m] \in {"none", "failed"} /\ screen' = [screen EXCEPT ![m] = "sending"]
      BY <1>b, <2>1, <2>2, <2>3, <2>5 DEF Awaited
    <3>2. Promise!Try(m)
      BY <1>d, <2>1, <3>1 DEF Promise!Try, Promise!Turn
    <3> QED
      BY <3>2 DEF Promise!Next
  <2>6. CASE v # "done" /\ Of(w) \notin astray /\ ~Starts(w) /\ screen[m] = "none"
    <3>1. screen' = screen
      BY <1>a, <2>1, <2>2, <2>6 DEF TypeOK
    <3> QED
      BY <1>1, <2>1, <3>1
  <2>7. CASE v # "done" /\ Of(w) \notin astray /\ ~Starts(w) /\ screen[m] # "none"
    <3>1. screen' = [screen EXCEPT ![m] = w[1]] /\ w[1] \in {"sent", "failed"}
      BY <2>1, <2>2, <2>3, <2>7 DEF Starts, Kinds
    <3>2. Writing(m) /\ (w[1] = "sent" => Taken(m))
      BY <1>a, <2>3, AboutChained
    <3>3. row[m] # "none"
      BY <1>a, <2>7, <3>2 DEF Local, Rowless
    <3>4. screen[m] = "sending"
      BY <1>b, <2>3, <2>7, <3>3 DEF Awaited
    <3>5. Promise!GiveUp(m) \/ Promise!Confirm(m)
      BY <1>d, <2>1, <3>1, <3>2, <3>4 DEF Promise!GiveUp, Promise!Confirm, Promise!Turn
    <3> QED
      BY <3>5 DEF Promise!Next
  <2> QED
    BY <2>4, <2>5, <2>6, <2>7
<1>4. ASSUME NEW t \in Attempts, Accept(t) PROVE Promise!Next
  <2>1. t[1] \in Messages /\ accepted' = accepted \cup {t[1]} /\ UNCHANGED screen
    BY <1>4, Ranges DEF Accept
  <2>2. {m \in Messages : Taken(m)}' = {m \in Messages : Taken(m)} \cup Alike(t[1])
    <3>1. ASSUME NEW m \in Messages PROVE Taken(m)' <=> Taken(m) \/ m \in Alike(t[1])
      BY <1>c, <2>1 DEF Taken, Alike
    <3> QED
      BY <1>c, <3>1 DEF Alike
  <2>3. Promise!Accept(Alike(t[1])) /\ Alike(t[1]) \in SUBSET Messages
    BY <2>1, <2>2 DEF Promise!Accept, Alike
  <2> QED
    BY <2>3 DEF Promise!Next
<1>5. CASE Relaunch
  <2>1. /\ screen' = [m \in Messages |-> IF disk[m] = "sending" THEN "failed" ELSE disk[m]]
        /\ accepted' = accepted
    BY <1>5 DEF Relaunch
  <2>2. screen' \in [Messages -> Statuses]
    BY <1>a, <2>1 DEF TypeOK, Statuses
  <2>3. ASSUME NEW m \in Messages
        PROVE  /\ Promise!Survives(screen[m], screen'[m])
               /\ screen'[m] = "sent" => m \in {k \in Messages : Taken(k)}
    <3>1. /\ screen'[m] = (IF disk[m] = "sending" THEN "failed" ELSE disk[m])
          /\ disk[m] \in Statuses /\ screen[m] \in Statuses
      BY <1>a, <2>1 DEF TypeOK
    <3>2. /\ disk[m] = "sent" => row[m] = "sent" /\ Taken(m)
          /\ screen[m] = "sent" => disk[m] = "sent"
      BY <1>a DEF Lasting
    <3>3. disk[m] = "sent" => screen[m] # "none"
      BY <1>b, <3>2 DEF Known
    <3>4. screen[m] = "sending" => disk[m] # "none"
      BY <1>b DEF Kept
    <3> QED
      BY <3>1, <3>2, <3>3, <3>4 DEF Promise!Survives, Statuses
  <2>4. Promise!Restart
    BY <1>d, <2>1, <2>2, <2>3 DEF Promise!Restart, Promise!Statuses, Statuses
  <2> QED
    BY <2>4 DEF Promise!Next
<1>6. ASSUME NEW m \in Messages, User(m) \/ Uploaded(m) PROVE UNCHANGED <<screen, accepted>>
  BY <1>6 DEF User, Send, SendAttachment, SendControl, Retry, Uploaded, Write
<1>7. ASSUME NEW t \in Attempts, Seal(t) \/ AckTimeout(t) \/ Ignore(t) \/ Ack(t)
      PROVE  UNCHANGED <<screen, accepted>>
  BY <1>7 DEF Seal, Sealed, SealFails, AckTimeout, Ignore, Ack, Settle, Write
<1>8. ASSUME Picture \/ SaveFails \/ Disconnect \/ Reconnect \/ UNCHANGED vars
      PROVE  UNCHANGED <<screen, accepted>>
  BY <1>8 DEF Picture, SaveFails, Disconnect, Reconnect, vars
<1> QED
  BY <1>1, <1>2, <1>3, <1>4, <1>5, <1>6, <1>7, <1>8 DEF Next, Upload, Store, Network

(* The outbox keeps what the sender is promised of each message: `sent` is *)
(* shown only of what the server has accepted, as far as the numbers tell, *)
(* and is never taken back, and what is shown as sending comes out of a    *)
(* process death as failed or sent.                                        *)
THEOREM ImplementsDeliveryHolds == Spec => ImplementsDelivery
<1> QED
  BY InitPromised, StepPromised, AlwaysInductive, PTL DEF Spec, ImplementsDelivery, Promise!Spec

=============================================================================
