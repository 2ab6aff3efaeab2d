----------------------------- MODULE PhoneProofs -----------------------------
(***************************************************************************)
(* What one phone does on its own, for any PINs, contacts, threads,        *)
(* messages, timers and bounds.                                            *)
(***************************************************************************)
EXTENDS MCPhone, SequenceLemmas, FiniteSetTheorems, WellFoundedInduction

(* A count of pairs <<a, i>> with i up to f[a] is a number, and no f[a]    *)
(* exceeds it.                                                             *)
LEMMA BinsLemma ==
  ASSUME NEW S, IsFiniteSet(S), NEW f \in [S -> Nat]
  PROVE  LET all == UNION {{a} \X (1..f[a]) : a \in S}
         IN  /\ IsFiniteSet(all) /\ Cardinality(all) \in Nat
             /\ \A a \in S : f[a] <= Cardinality(all)
<1> DEFINE Bin(a) == {a} \X (1..f[a])
           Bins == {Bin(a) : a \in S}
<1>1. IsFiniteSet(Bins)
  <2> DEFINE bin == [a \in S |-> Bin(a)]
  <2>1. bin \in Surjection(S, Bins)
    BY DEF Surjection
  <2> QED
    BY <2>1, FS_Surjection
<1>2. ASSUME NEW a \in S PROVE IsFiniteSet(Bin(a))
  <2>1. IsFiniteSet({a})
    BY FS_Singleton
  <2>2. IsFiniteSet(1..f[a])
    BY FS_Interval
  <2> QED
    BY <2>1, <2>2, FS_Product
<1>3. IsFiniteSet(UNION Bins)
  <2>1. \A T \in Bins : IsFiniteSet(T)
    BY <1>2
  <2> QED
    BY <1>1, <2>1, FS_UNION
<1>4. Cardinality(UNION Bins) \in Nat
  BY <1>3, FS_CardinalityType
<1>5. ASSUME NEW a \in S PROVE f[a] <= Cardinality(UNION Bins)
  <2> DEFINE tag == [i \in 1..f[a] |-> <<a, i>>]
  <2>1. \A i \in 1..f[a] : <<a, i>> \in UNION Bins
    <3> SUFFICES ASSUME NEW i \in 1..f[a] PROVE <<a, i>> \in Bin(a)
      OBVIOUS
    <3> QED
      OBVIOUS
  <2>2. tag \in Injection(1..f[a], UNION Bins)
    BY <2>1 DEF Injection, IsInjective
  <2>3. Cardinality(1..f[a]) <= Cardinality(UNION Bins)
    BY <1>3, <2>2, FS_Injection
  <2>4. Cardinality(1..f[a]) = f[a]
    BY FS_Interval
  <2> QED
    BY <2>3, <2>4
<1> QED
  BY <1>3, <1>4, <1>5

----------------------------------------------------------------------------
(* The lock. *)

(* Removing an element leaves elements of the sequence only. *)
LEMMA RemoveAtLemma ==
  ASSUME NEW S, NEW q \in Seq(S), NEW i \in DOMAIN q
  PROVE  /\ RemoveAt(q, i) \in Seq(S)
         /\ Range(RemoveAt(q, i)) \subseteq Range(q)
<1>1. DOMAIN q = 1..Len(q) /\ Len(q) \in Nat /\ i \in 1..Len(q)
  BY LenProperties
<1> DEFINE p == SubSeq(q, 1, i - 1)
           s == SubSeq(q, i + 1, Len(q))
<1>2. p \in Seq(S) /\ Range(p) \subseteq Range(q)
  <2>1. i - 1 \in 0..Len(q)
    BY <1>1
  <2> QED
    BY <2>1, PrefixLemma
<1>3. s \in Seq(S) /\ Range(s) \subseteq Range(q)
  <2>1. i + 1 \in 1..(Len(q) + 1)
    BY <1>1
  <2> QED
    BY <2>1, SuffixLemma
<1>4. RemoveAt(q, i) = p \o s
  BY DEF RemoveAt
<1> HIDE DEF p, s
<1> QED
  BY <1>2, <1>3, <1>4, ConcatLemma

(* An attempt with a verdict its kind may have: a search finds no mode,    *)
(* which only a PIN does, and a PIN finds no chat.  Otherwise a search that *)
(* ends late could open the invites of a phone that is locked.             *)
Attempts == [kind : {"pin", "search"}, verdict : Verdicts \cup {"hashing"}]
Fitting ==
  {x \in Attempts : /\ x.kind = "search" => x.verdict \notin {"real", "decoy"}
                    /\ x.kind = "pin" => x.verdict # "chat"}

LockInv == LockTypeOK /\ tries \in Seq(Fitting) /\ InvitesFollowLock

LEMMA LockInvInit == LockInit => LockInv
<1> SUFFICES ASSUME LockInit PROVE LockInv
  OBVIOUS
<1>1. NoFailures \in [Ages -> Nat]
  BY DEF NoFailures
<1>2. tries \in Seq(Fitting) /\ tries \in Seq(Attempts)
  BY EmptySeq DEF LockInit
<1> QED
  BY <1>1, <1>2 DEF LockInit, LockInv, LockTypeOK, InvitesFollowLock, Modes, Attempts

LEMMA LockInvStep == LockInv /\ [LockNext]_lockVars => LockInv'
<1> SUFFICES ASSUME LockInv, [LockNext]_lockVars PROVE LockInv'
  OBVIOUS
<1> USE DEF LockInv, LockTypeOK, InvitesFollowLock, Modes
<1> DEFINE Log == [Ages -> Nat]
<1>0. /\ NoFailures \in Log
      /\ \A log \in Log : OneMore(log) \in Log /\ Pruned(log) \in Log /\ Cut(log) \in Log
  <2>1. Horizon \in Nat \ {0}
    BY PolicyAssumption DEF Horizon
  <2>2. 0 \in Ages
    BY <2>1 DEF Ages
  <2> QED
    BY <2>2 DEF NoFailures, OneMore, Pruned, Cut
<1>f. ASSUME NEW q \in Seq(Fitting) PROVE q \in Seq(Attempts)
  <2>1. Fitting \subseteq Attempts
    BY DEF Fitting
  <2> QED
    BY <2>1, SeqMonotonic
<1>t. ASSUME NEW i \in DOMAIN tries PROVE tries[i] \in Fitting
  BY ElementOfSeq, LenProperties
<1>1. CASE Relaunch
  <2>1. tries' \in Seq(Fitting)
    BY <1>1, EmptySeq DEF Relaunch
  <2> QED
    BY <1>f, <1>1, <2>1 DEF Relaunch, Attempts
<1>2. CASE BindGate \/ SetupEnds \/ RetrySetup \/ HideOrUnhideChat
  BY <1>2 DEF BindGate, SetupEnds, RetrySetup, HideOrUnhideChat
<1>3. CASE SignOutLock
  BY <1>0, <1>3 DEF SignOutLock
<1>4. CASE Onboarded \/ CheckLock \/ Relock
  <2>1. CASE Onboarded
    BY <2>1 DEF Onboarded
  <2>2. CASE CheckLock
    <3>1. PICK m \in {"locked", "real"}, b \in BOOLEAN :
            /\ shell' = [shell EXCEPT !.mode = m, !.known = TRUE, !.pinShown = b]
            /\ inviteMode' = m
      BY <2>2 DEF CheckLock
    <3> QED
      BY <2>2, <3>1 DEF CheckLock
  <2>3. CASE Relock
    BY <2>3 DEF Relock
  <2> QED
    BY <1>4, <2>1, <2>2, <2>3
<1>5. CASE SetAppPin
  BY <1>5 DEF SetAppPin
<1>6. ASSUME NEW kind \in {"pin", "search"}, Begin(kind) PROVE LockInv'
  <2>1. PICK verdict \in {"invalid", "locked", "hashing"} :
          tries' = Append(tries, [kind |-> kind, verdict |-> verdict])
    BY <1>6 DEF Begin
  <2>2. tries' \in Seq(Fitting)
    <3>1. [kind |-> kind, verdict |-> verdict] \in Fitting
      BY DEF Fitting, Attempts, Verdicts
    <3> QED
      BY <2>1, <3>1, AppendLemma
  <2> QED
    BY <1>f, <1>6, <2>2 DEF Begin, Attempts
<1>7. ASSUME NEW i \in DOMAIN tries, Hashed(i) PROVE LockInv'
  <2>1. PICK verdict \in Verdicts :
          /\ tries' = [tries EXCEPT ![i].verdict = verdict]
          /\ tries[i].kind = "pin" => verdict # "chat"
          /\ tries[i].kind = "search" => verdict \notin {"real", "decoy"}
    BY <1>7 DEF Hashed, ModeOf, Verdicts
  <2>2. tries' \in Seq(Fitting)
    <3>1. [tries[i] EXCEPT !.verdict = verdict] \in Fitting
      BY <1>t, <2>1 DEF Fitting, Attempts
    <3> QED
      BY <2>1, <3>1, ExceptSeq, LenProperties
  <2>3. tally' \in Log /\ made' \in Log
    <3>1. \/ tally' = Pruned(OneMore(tally)) /\ made' = Cut(OneMore(made))
          \/ tally' = NoFailures /\ made' = NoFailures
          \/ tally' = Pruned(OneMore(tally)) /\ made' = NoFailures
          \/ tally' = NoFailures /\ made' = Cut(OneMore(made))
      BY <1>7 DEF Hashed
    <3>2. Pruned(OneMore(tally)) \in Log /\ Cut(OneMore(made)) \in Log
      <4>1. OneMore(tally) \in Log /\ OneMore(made) \in Log
        BY <1>0
      <4> QED
        BY <1>0, <4>1
    <3> QED
      BY <1>0, <3>1, <3>2
  <2> QED
    BY <1>f, <1>7, <2>2, <2>3 DEF Hashed, Attempts
<1>8. ASSUME NEW i \in DOMAIN tries, Answer(i) PROVE LockInv'
  <2>1. tries' \in Seq(Fitting)
    BY <1>8, RemoveAtLemma DEF Answer
  <2>2. tries[i] \in Fitting /\ tries[i].verdict # "hashing"
    BY <1>t, <1>8 DEF Answer
  <2>3. CASE tries[i].kind = "search"
    BY <1>f, <1>8, <2>1, <2>2, <2>3 DEF Answer, Attempts, Fitting
  <2>4. CASE tries[i].kind = "pin"
    <3>1. tries[i].verdict \in {"real", "decoy", "locked", "invalid"}
      BY <2>2, <2>4 DEF Fitting, Attempts, Verdicts
    <3>2. CASE tries[i].verdict \in {"real", "decoy"}
      BY <1>f, <1>8, <2>1, <2>4, <3>2 DEF Answer, Attempts
    <3>3. CASE tries[i].verdict = "locked"
      BY <1>f, <1>8, <2>1, <2>4, <3>3 DEF Answer, Attempts
    <3>4. CASE tries[i].verdict = "invalid"
      BY <1>f, <1>8, <2>1, <2>4, <3>4 DEF Answer, Attempts
    <3> QED
      BY <3>1, <3>2, <3>3, <3>4
  <2> QED
    BY <2>2, <2>3, <2>4 DEF Fitting, Attempts
<1>9. CASE Tick
  <2>1. Horizon \in Nat \ {0}
    BY PolicyAssumption DEF Horizon
  <2>2. ASSUME NEW log \in Log, NEW a \in Ages
        PROVE  (CASE a = 0 -> 0
                  [] a > 0 /\ a < Horizon -> log[a - 1]
                  [] a = Horizon -> log[a - 1] + log[a]) \in Nat
    <3>1. CASE a = 0
      BY <2>1, <3>1
    <3>2. CASE a # 0
      <4>1. a - 1 \in Ages /\ a > 0 /\ a <= Horizon
        BY <2>1, <3>2 DEF Ages
      <4>2. log[a - 1] \in Nat /\ log[a] \in Nat
        BY <4>1
      <4>3. CASE a < Horizon
        BY <3>2, <4>1, <4>2, <4>3
      <4>4. CASE a = Horizon
        BY <2>1, <3>2, <4>1, <4>2, <4>4
      <4> QED
        BY <2>1, <4>1, <4>3, <4>4 DEF Ages
    <3> QED
      BY <3>1, <3>2
  <2>3. tally' \in Log
    BY <1>9, <2>2 DEF Tick
  <2>4. made' \in Log
    BY <1>0, <1>9, <2>2 DEF Tick
  <2> QED
    BY <1>9, <2>3, <2>4 DEF Tick, Attempts
<1>10. CASE UNCHANGED lockVars
  BY <1>10 DEF lockVars
<1> QED
  BY <1>1, <1>2, <1>3, <1>4, <1>5, <1>6, <1>7, <1>8, <1>9, <1>10
     DEF LockNext, SubmitPin, SubmitSearch

(* The lock of a phone is well typed, whatever is typed, backgrounded,     *)
(* retried or signed out (AppLock).                                        *)
THEOREM LockTypeCorrect == LockSpec => []LockTypeOK
<1>1. LockInv => LockTypeOK
  BY DEF LockInv
<1> QED
  BY <1>1, LockInvInit, LockInvStep, PTL DEF LockSpec

(* The controller's copy of the mode opens the invites only while the      *)
(* shell is in real mode (chat-controller.ts:488).                         *)
THEOREM InvitesFollowLockHolds == LockSpec => []InvitesFollowLock
<1>1. LockInv => InvitesFollowLock
  BY DEF LockInv
<1> QED
  BY <1>1, LockInvInit, LockInvStep, PTL DEF LockSpec

----------------------------------------------------------------------------
(* The screens. *)
ShellInv == ShellTypeOK /\ ShadowNeverListed

LEMMA ShellInvInit == ShellInit => ShellInv
BY DEF ShellInit, ShellInv, ShellTypeOK, ShadowNeverListed, Blank, Chats

(* An event that reaches the container, whichever handler emits it. *)
LEMMA RenderLemma ==
  ASSUME ShellInv, NEW c \in Chats, NEW m \in Texts, NEW own \in BOOLEAN, Render(c, m, own)
  PROVE  /\ screen' \in [Chats -> SUBSET Texts] /\ listed' \subseteq Chats
         /\ threadIds' \subseteq Threads /\ registry' \subseteq Threads
         /\ ShadowNeverListed'
BY DEF Render, ShellInv, ShellTypeOK, ShadowNeverListed, Chats

LEMMA DispatchLemma ==
  ASSUME ShellInv, NEW c \in Chats, NEW m \in Texts, Dispatch(c, m)
  PROVE  /\ rowOf' \in [Texts -> Chats \cup {Nobody}]
         /\ screen' \in [Chats -> SUBSET Texts] /\ listed' \subseteq Chats
         /\ threadIds' \subseteq Threads /\ registry' \subseteq Threads
         /\ ShadowNeverListed'
<1>1. CASE stack # "ready" \/ target = Nobody
  BY <1>1 DEF Dispatch, ShellInv, ShellTypeOK, ShadowNeverListed
<1>2. CASE ~(stack # "ready" \/ target = Nobody)
  <2> DEFINE d == IF c \in Threads THEN c ELSE target
  <2>1. d \in Chats /\ rowOf' = [rowOf EXCEPT ![m] = d] /\ Render(d, m, TRUE)
    BY <1>2 DEF Dispatch, ShellInv, ShellTypeOK, Chats
  <2> HIDE DEF d
  <2> QED
    BY <2>1, RenderLemma DEF ShellInv, ShellTypeOK
<1> QED
  BY <1>1, <1>2

LEMMA ModeEffectLemma ==
  ASSUME ShellTypeOK, NEW mode \in {"locked", "real", "decoy"}, ModeEffect(mode)
  PROVE  /\ appMode' = mode /\ hiddenPeers' \subseteq Peers
         /\ loading' \subseteq [kind : {"surface", "shadow", "hidden"}, threads : SUBSET Threads]
BY DEF ModeEffect, ShellTypeOK

LEMMA ShowThreadLemma ==
  ASSUME ShellInv, NEW t \in Threads, ShowThread(t)
  PROVE  /\ registry' \subseteq Threads /\ threadIds' \subseteq Threads
         /\ listed' \subseteq Chats /\ target' \in Peers /\ open' \in Chats
         /\ target' = PeerOf(open') /\ ShadowNeverListed'
BY ShellAssumption DEF ShowThread, ShellInv, ShellTypeOK, ShadowNeverListed, Chats, PeerOf

LEMMA ShellInvStep == ShellInv /\ [ShellNext]_shellVars => ShellInv'
<1> SUFFICES ASSUME ShellInv, [ShellNext]_shellVars PROVE ShellInv'
  OBVIOUS
<1> USE ShellAssumption DEF ShellInv, ShellTypeOK, ShadowNeverListed
<1>1. CASE RelaunchApp
  BY <1>1 DEF RelaunchApp, Blank, Chats
<1>2. CASE SetupDone
  <2>1. /\ stack' \in {"ready", "failed"}
        /\ loading' \subseteq loading \cup {[kind |-> "surface", threads |-> {}]}
        /\ restored' \subseteq restored \cup {"surface"}
    BY <1>2 DEF SetupDone
  <2> QED
    BY <1>2, <2>1 DEF SetupDone
<1>3. CASE TapRetry
  BY <1>3 DEF TapRetry
<1>4. CASE LeaveSession
  BY <1>4, ModeEffectLemma DEF LeaveSession, Blank, Chats
<1>5. CASE RestoreThreads
  BY <1>5 DEF RestoreThreads
<1>6. ASSUME NEW r \in loading, SurfaceRestored(r) PROVE ShellInv'
  <2>1. screen' \in [Chats -> SUBSET Texts]
    BY <1>6 DEF SurfaceRestored, RowsIn
  <2> QED
    BY <1>6, <2>1 DEF SurfaceRestored, Chats
<1>7. ASSUME NEW r \in loading, ThreadsRestored(r) PROVE ShellInv'
  <2>1. screen' \in [Chats -> SUBSET Texts]
    BY <1>7 DEF ThreadsRestored, RowsIn
  <2> QED
    BY <1>7, <2>1 DEF ThreadsRestored, Chats
<1>8. ASSUME NEW r \in loading, HiddenListed(r) PROVE ShellInv'
  BY <1>8 DEF HiddenListed
<1>9. CASE LockApp \/ UnlockApp
  BY <1>9, ModeEffectLemma DEF LockApp, UnlockApp
<1>10. CASE Back \/ Attach
  <2>1. CASE Back
    BY <2>1 DEF Back
  <2>2. CASE Attach
    <3>1. [what |-> "photo", chat |-> open] \in [what : {"chat", "photo"}, chat : Chats]
      BY <2>2 DEF Attach
    <3> QED
      BY <2>2, <3>1 DEF Attach
  <2> QED
    BY <1>10, <2>1, <2>2
<1>11. ASSUME NEW p \in Peers, OpenChat(p) \/ Hide(p) \/ Unhide(p) \/ DeleteChat(p)
       PROVE  ShellInv'
  <2>1. CASE OpenChat(p)
    BY <2>1 DEF OpenChat, Chats
  <2>2. CASE Hide(p) \/ Unhide(p)
    BY <2>2 DEF Hide, Unhide
  <2>3. CASE DeleteChat(p)
    BY <2>3 DEF DeleteChat, Cleared, Chats
  <2> QED
    BY <1>11, <2>1, <2>2, <2>3
<1>12. ASSUME NEW c \in Chats, Search(c) PROVE ShellInv'
  BY <1>12 DEF Search
<1>13. ASSUME NEW c \in Chats, ClearChat(c) PROVE ShellInv'
  BY <1>13 DEF ClearChat, Cleared
<1>14. ASSUME NEW s \in searching, Found(s) PROVE ShellInv'
  <2>1. CASE s.chat \in Threads
    BY <1>14, <2>1, ShowThreadLemma DEF Found
  <2>2. CASE s.chat \notin Threads
    BY <1>14, <2>2 DEF Found
  <2> QED
    BY <2>1, <2>2
<1>15. ASSUME NEW t \in Threads, ThreadAccepted(t) PROVE ShellInv'
  BY <1>15, ShowThreadLemma DEF ThreadAccepted
<1>16. ASSUME NEW t \in Threads, ThreadRevoked(t) PROVE ShellInv'
  BY <1>16 DEF ThreadRevoked, Chats
<1>17. ASSUME NEW m \in Texts, Type(m) PROVE ShellInv'
  BY <1>17, DispatchLemma DEF Type
<1>18. ASSUME NEW m \in Texts, View(m) PROVE ShellInv'
  <2>1. open \in Chats
    BY <1>18 DEF View
  <2> QED
    BY <1>18, <2>1 DEF View, Chats
<1>19. ASSUME NEW m \in Texts, Expire(m) PROVE ShellInv'
  BY <1>19 DEF Expire, Chats
<1>20. ASSUME NEW m \in Texts, NEW c \in Chats, Receive(c, m) PROVE ShellInv'
  BY <1>20, RenderLemma DEF Receive
<1>21. ASSUME NEW m \in Texts, NEW s \in searching, Picked(s, m) PROVE ShellInv'
  BY <1>21, DispatchLemma DEF Picked
<1>22. CASE UNCHANGED shellVars
  BY <1>22 DEF shellVars
<1> QED
  BY <1>1, <1>2, <1>3, <1>4, <1>5, <1>6, <1>7, <1>8, <1>9, <1>10, <1>11, <1>12, <1>13, <1>14,
     <1>15, <1>16, <1>17, <1>18, <1>19, <1>20, <1>21, <1>22 DEF ShellNext

(* What is on the screen, listed and searched is what the comments say. *)
THEOREM ShellTypeCorrect == ShellSpec => []ShellTypeOK
<1>1. ShellInv => ShellTypeOK
  BY DEF ShellInv
<1> QED
  BY ShellInvInit, ShellInvStep, <1>1, PTL DEF ShellSpec

(* No shadow thread stands in the list of chats or contacts, whichever     *)
(* restore, accept, search or live message brought it (App.tsx:217).       *)
THEOREM ShadowNeverListedHolds == ShellSpec => []ShadowNeverListed
<1>1. ShellInv => ShadowNeverListed
  BY DEF ShellInv
<1> QED
  BY <1>1, ShellInvInit, ShellInvStep, PTL DEF ShellSpec

(* What is typed goes to the peer whose chat is open, unless a reveal has  *)
(* parted the two (App.tsx:929).                                           *)
THEOREM TargetFollowsOpenHolds == ShellSpec => TargetFollowsOpen
<1>1. ASSUME ShellInv, [ShellNext]_shellVars, Aimed, ~Aimed'
      PROVE  \E s \in searching : s.what = "chat" /\ open' = s.chat /\ s.chat \in Peers
  <2> USE DEF Aimed
  <2>0. ASSUME UNCHANGED <<open, target>> PROVE FALSE
    BY <1>1, <2>0
  <2>1. ASSUME open' = Nobody PROVE FALSE
    BY <1>1, <2>1
  <2>2. CASE RelaunchApp \/ LockApp \/ Back
    BY <2>1, <2>2 DEF RelaunchApp, LockApp, Back
  <2>3. CASE TapRetry \/ LeaveSession
    BY <2>1, <2>3 DEF TapRetry, LeaveSession
  <2>4. CASE SetupDone \/ RestoreThreads \/ UnlockApp \/ Attach
    BY <2>0, <2>4 DEF SetupDone, RestoreThreads, UnlockApp, Attach
  <2>5. ASSUME NEW r \in loading, SurfaceRestored(r) \/ ThreadsRestored(r) \/ HiddenListed(r)
        PROVE  FALSE
    BY <2>0, <2>5 DEF SurfaceRestored, ThreadsRestored, HiddenListed
  <2>6. ASSUME NEW p \in Peers, OpenChat(p) PROVE FALSE
    BY <1>1, <2>6, ShellAssumption DEF OpenChat, PeerOf
  <2>7. ASSUME NEW p \in Peers, Hide(p) \/ DeleteChat(p) PROVE FALSE
    BY <2>1, <2>7 DEF Hide, DeleteChat
  <2>8. ASSUME NEW p \in Peers, Unhide(p) PROVE FALSE
    BY <2>0, <2>8 DEF Unhide
  <2>9. ASSUME NEW c \in Chats, Search(c) \/ ClearChat(c) PROVE FALSE
    BY <2>0, <2>9 DEF Search, ClearChat
  <2>10. ASSUME NEW s \in searching, Found(s)
         PROVE  s.what = "chat" /\ open' = s.chat /\ s.chat \in Peers
    <3>1. s.chat \in Chats
      BY <1>1 DEF ShellInv, ShellTypeOK
    <3>2. CASE s.chat \in Threads
      BY <1>1, <2>10, <3>2, ShowThreadLemma DEF Found
    <3>3. CASE s.chat \notin Threads
      BY <2>10, <3>1, <3>3 DEF Found, Chats
    <3> QED
      BY <3>2, <3>3
  <2>11. ASSUME NEW t \in Threads, ThreadAccepted(t) PROVE FALSE
    BY <1>1, <2>11, ShowThreadLemma DEF ThreadAccepted
  <2>12. ASSUME NEW t \in Threads, ThreadRevoked(t) PROVE FALSE
    BY <2>0, <2>1, <2>12 DEF ThreadRevoked
  <2>13. ASSUME NEW m \in Texts, Type(m) \/ View(m) \/ Expire(m) PROVE FALSE
    BY <2>0, <2>13 DEF Type, View, Expire
  <2>14. ASSUME NEW m \in Texts, NEW c \in Chats, Receive(c, m) PROVE FALSE
    BY <2>0, <2>14 DEF Receive
  <2>15. ASSUME NEW m \in Texts, NEW s \in searching, Picked(s, m) PROVE FALSE
    BY <2>0, <2>15 DEF Picked
  <2>16. CASE UNCHANGED shellVars
    BY <2>0, <2>16 DEF shellVars
  <2> QED
    BY <1>1, <2>2, <2>3, <2>4, <2>5, <2>6, <2>7, <2>8, <2>9, <2>10, <2>11, <2>12, <2>13, <2>14,
       <2>15, <2>16 DEF ShellNext
<1>2. ShellInv /\ [ShellNext]_shellVars =>
        [Aimed /\ ~Aimed' =>
           \E s \in searching : s.what = "chat" /\ open' = s.chat /\ s.chat \in Peers]_shellVars
  BY <1>1
<1> QED
  BY <1>2, ShellInvInit, ShellInvStep, PTL DEF ShellSpec, TargetFollowsOpen

----------------------------------------------------------------------------
(* A conversation. *)
Messages ==
  [chat : Places \cup {Nowhere}, dir : {"in", "out"}, seq : Numbers, nth : Nat \ {0},
   lost : BOOLEAN, text : {"none", "first", "second"}, deleted : BOOLEAN, liked : BOOLEAN]

ChatTyped ==
  /\ store \subseteq Messages /\ shown \in [Places -> SUBSET Messages]
  /\ clearing \subseteq Keys \X (Nat \ {0})
  /\ routed \subseteq Hidden
  /\ tagging \subseteq [row : Messages, chat : Hidden] /\ Cardinality(tagging) <= 1
  /\ used \in [Places -> 0..MaxTyped] /\ count \in [Keys -> Nat]
  /\ controls \subseteq got /\ excused \subseteq got

(* The seq of a row tells surface from shadow, also while it is untagged. *)
Apart == /\ \A r \in store : r.seq < Offset => r.chat = Surface
         /\ \A tag \in tagging : ~(tag.row.seq < Offset)

(* A row is told from all others by its key and its place among them, and  *)
(* a key of the surface chat is given to one text of this phone's only.    *)
Given(r) == r.nth <= count[KeyOf(r)]
Numbered ==
  /\ \A r \in store : Given(r)
  /\ \A c \in Places : \A r \in shown[c] : Given(r)
  /\ \A tag \in tagging : Given(tag.row)
  /\ \A x, y \in store : x.seq < Offset /\ RowId(x) = RowId(y) => x = y
  /\ \A n \in Numbers : n < Offset => /\ count[<<"out", n>>] <= 1
                                      /\ n > used[Surface] => count[<<"out", n>>] = 0

(* Every message on the surface chat has its row in the store, so that a   *)
(* relaunch shows its number again.                                        *)
Repeated(r) == r.dir = "in" /\ count[KeyOf(r)] > 1
Same(r, x) == RowId(x) = RowId(r) /\ (r.lost \/ x = r \/ Repeated(r))
Backed == \A r \in shown[Surface] : r.seq < Offset => \E x \in store : Same(r, x)

(* What has arrived and is not excused is a control or a message shown. *)
Visible(n) == n \in controls \/ \E x \in shown[Surface] : x.dir = "in" /\ x.seq = n
Accounted == \A n \in got \ excused : n < Offset => Visible(n)

ChatInv == ChatTyped /\ Apart /\ Numbered /\ Backed /\ Accounted /\ NoShadowOnSurface

LEMMA PlacesLemma ==
  /\ Surface \in Places /\ Hidden \subseteq Places /\ Surface \notin Hidden
  /\ Surface # Nowhere /\ Nowhere \notin Hidden
  /\ Offset \in Nat /\ MaxTyped \in Nat /\ Numbers \subseteq Nat
  /\ Keys = {"in", "out"} \X Numbers
  /\ \A n \in SeqsOf(Surface) : n \in Numbers /\ n < Offset
  /\ \A c \in Hidden : \A n \in SeqsOf(c) : n \in Numbers /\ n > Offset
  /\ \A n \in 1..MaxTyped : n \in Numbers /\ n < Offset /\ n + Offset \in Numbers
<1>1. /\ MaxIn \in Nat /\ MaxShadow \in Nat /\ MaxTyped \in Nat /\ Offset \in Nat
      /\ Offset > MaxIn /\ Offset > MaxTyped
      /\ Surface # Nowhere /\ Surface \notin Hidden /\ Nowhere \notin Hidden
  BY ConversationAssumption
<1>2. \A n \in 1..MaxTyped : n \in Numbers /\ n < Offset /\ n + Offset \in Numbers
  BY <1>1 DEF Numbers
<1> QED
  BY <1>1, <1>2 DEF Places, SeqsOf, Numbers, Keys

LEMMA RowLemma ==
  ASSUME count \in [Keys -> Nat], NEW c \in Places \cup {Nowhere}, NEW dir \in {"in", "out"},
         NEW n \in Numbers, NEW lost \in BOOLEAN
  PROVE  /\ Row(c, dir, n, lost) \in Messages
         /\ Row(c, dir, n, lost).chat = c /\ Row(c, dir, n, lost).dir = dir
         /\ Row(c, dir, n, lost).seq = n /\ Row(c, dir, n, lost).lost = lost
         /\ KeyOf(Row(c, dir, n, lost)) = <<dir, n>>
         /\ Row(c, dir, n, lost).nth = count[<<dir, n>>] + 1
<1>1. <<dir, n>> \in Keys
  BY PlacesLemma
<1>2. count[<<dir, n>>] \in Nat
  BY <1>1
<1> QED
  BY <1>2 DEF Row, NewRow, Messages, KeyOf

LEMMA KeyLemma == \A r \in Messages : KeyOf(r) \in Keys /\ r.nth \in Nat \ {0} /\ r.seq \in Nat
BY PlacesLemma DEF Messages, KeyOf

(* A key is counted once more. *)
LEMMA CountLemma ==
  ASSUME ChatTyped, NEW dir \in {"in", "out"}, NEW n \in Numbers, Count(<<dir, n>>)
  PROVE  /\ count' \in [Keys -> Nat] /\ \A key \in Keys : count'[key] >= count[key]
         /\ count'[<<dir, n>>] = count[<<dir, n>>] + 1
         /\ \A key \in Keys : key # <<dir, n>> => count'[key] = count[key]
         /\ got' = IF dir = "in" THEN got \cup {n} ELSE got
<1>1. <<dir, n>> \in Keys /\ count \in [Keys -> Nat] /\ count' = [count EXCEPT ![<<dir, n>>] = @ + 1]
  BY PlacesLemma DEF ChatTyped, Count
<1>2. /\ count' \in [Keys -> Nat] /\ \A key \in Keys : count'[key] >= count[key]
      /\ count'[<<dir, n>>] = count[<<dir, n>>] + 1
      /\ \A key \in Keys : key # <<dir, n>> => count'[key] = count[key]
  BY <1>1
<1>3. \A m \in Numbers : <<"in", m>> \in Keys /\ count[<<"in", m>>] \in Nat
  BY <1>1, PlacesLemma
<1>4. ASSUME NEW m \in Numbers
      PROVE  count'[<<"in", m>>] > 0 <=> count[<<"in", m>>] > 0 \/ (dir = "in" /\ m = n)
  BY <1>2, <1>3
<1>5. got' = {m \in Numbers : count'[<<"in", m>>] > 0}
  BY DEF got
<1>6. got' = IF dir = "in" THEN got \cup {n} ELSE got
  BY <1>4, <1>5 DEF got
<1> QED
  BY <1>2, <1>6

LEMMA ApplyLemma ==
  ASSUME NEW r \in Messages, NEW change \in Changes
  PROVE  /\ Apply(r, change) \in Messages
         /\ Apply(r, change).chat = r.chat /\ Apply(r, change).dir = r.dir
         /\ Apply(r, change).seq = r.seq /\ Apply(r, change).nth = r.nth
         /\ Apply(r, change).lost = r.lost
         /\ KeyOf(Apply(r, change)) = KeyOf(r) /\ RowId(Apply(r, change)) = RowId(r)
<1>1. change \in {"edit", "delete", "react"}
  BY ConversationAssumption
<1>2. /\ Apply(r, change) \in Messages
      /\ Apply(r, change).chat = r.chat /\ Apply(r, change).dir = r.dir
      /\ Apply(r, change).seq = r.seq /\ Apply(r, change).nth = r.nth
      /\ Apply(r, change).lost = r.lost
  BY <1>1 DEF Apply, Messages
<1> QED
  BY <1>2 DEF KeyOf, RowId

(* Every set of numbers that is not empty has a least element. *)
LEMMA LeastLemma ==
  ASSUME NEW S \in SUBSET Nat, S # {}
  PROVE  Min(S) \in S /\ \A y \in S : Min(S) <= y
<1> DEFINE Less == {ss \in Nat \X Nat : ss[1] < ss[2]}
<1>1. IsWellFoundedOn(Less, Nat)
  BY NatLessThanWellFounded DEF OpToRel
<1>2. PICK x \in S : \A y \in S : <<y, x>> \notin Less
  BY <1>1, WFMin
<1>3. \A y \in S : ~(y < x)
  BY <1>2
<1>4. \A y \in S : x <= y
  BY <1>3
<1> QED
  BY <1>4 DEF Min

(* Of the rows of a key, one comes after all others. *)
LEMMA LastsLemma ==
  ASSUME ChatTyped, NEW rows \in SUBSET store, \A r \in rows : Given(r), NEW y \in rows
  PROVE  \E z \in Lasts(rows) : KeyOf(z) = KeyOf(y)
<1> DEFINE Twins == {x \in rows : KeyOf(x) = KeyOf(y)}
           Rest(x) == count[KeyOf(y)] - x.nth
           S == {Rest(x) : x \in Twins}
<1>1. count[KeyOf(y)] \in Nat
  BY KeyLemma DEF ChatTyped
<1>2. \A x \in Twins : x.nth \in Nat /\ Rest(x) \in Nat
  BY <1>1, KeyLemma DEF ChatTyped, Given
<1>3. S \in SUBSET Nat /\ S # {}
  <2>1. y \in Twins
    OBVIOUS
  <2> QED
    BY <1>2, <2>1
<1>4. PICK z \in Twins : \A x \in Twins : Rest(z) <= Rest(x)
  <2> HIDE DEF Rest
  <2>1. Min(S) \in S /\ \A m \in S : Min(S) <= m
    BY <1>3, LeastLemma
  <2> QED
    BY <2>1
<1>5. \A x \in Twins : x.nth <= z.nth
  BY <1>1, <1>2, <1>4
<1>6. z \in Lasts(rows)
  BY <1>5 DEF Lasts
<1> QED
  BY <1>6

(* A row that is alone under its key is the first. *)
LEMMA AloneLemma ==
  ASSUME ChatTyped, Numbered, NEW x \in store, x.seq < Offset,
         x.dir = "out" \/ ~(count[KeyOf(x)] > 1)
  PROVE  \A y \in store : KeyOf(y) = KeyOf(x) => y = x
<1> SUFFICES ASSUME NEW y \in store, KeyOf(y) = KeyOf(x) PROVE y = x
  OBVIOUS
<1>1. x \in Messages /\ y \in Messages /\ KeyOf(x) \in Keys /\ count[KeyOf(x)] \in Nat
  BY KeyLemma DEF ChatTyped
<1>2. count[KeyOf(x)] <= 1
  <2>1. CASE x.dir = "out"
    <3>1. x.seq \in Numbers /\ KeyOf(x) = <<"out", x.seq>>
      BY <1>1, <2>1 DEF Messages, KeyOf
    <3> QED
      BY <3>1 DEF Numbered
  <2>2. CASE ~(count[KeyOf(x)] > 1)
    BY <1>1, <2>2
  <2> QED
    BY <2>1, <2>2
<1>3. x.nth = 1 /\ y.nth = 1
  <2>1. x.nth \in Nat \ {0} /\ y.nth \in Nat \ {0}
    BY <1>1, KeyLemma
  <2>2. x.nth <= count[KeyOf(x)] /\ y.nth <= count[KeyOf(x)]
    BY DEF Numbered, Given
  <2> QED
    BY <1>1, <1>2, <2>1, <2>2
<1>4. RowId(x) = RowId(y)
  BY <1>3 DEF RowId
<1> QED
  BY <1>4 DEF Numbered

(* A new row, stored and shown in its conversation. *)
LEMMA ShowLemma ==
  ASSUME ChatInv, NEW c \in Places, NEW r \in Messages, r.chat = c,
         r.seq < Offset => c = Surface,
         r.nth = count[KeyOf(r)] + 1, Count(KeyOf(r)),
         r.dir = "out" /\ r.seq < Offset => r.seq > used[Surface] /\ r.seq <= used'[Surface],
         store' = store \cup {r}, shown' = Upsert(c, r), UNCHANGED tagging,
         used'[Surface] >= used[Surface], used'[Surface] \in Nat
  PROVE  /\ store' \subseteq Messages /\ shown' \in [Places -> SUBSET Messages]
         /\ Apart' /\ Numbered' /\ NoShadowOnSurface' /\ Backed'
         /\ \A x \in shown[Surface] : \E y \in shown'[Surface] : KeyOf(y) = KeyOf(x)
         /\ c = Surface => r \in shown'[Surface]
<1> USE DEF ChatInv, ChatTyped
<1>1. /\ shown' \in [Places -> SUBSET Messages]
      /\ shown'[Surface] = IF c = Surface
                           THEN {x \in shown[Surface] : KeyOf(x) # KeyOf(r)} \cup {r}
                           ELSE shown[Surface]
      /\ \A d \in Places : \A x \in shown'[d] : x \in shown[d] \/ x = r
  BY PlacesLemma DEF Upsert
<1>2. /\ count' \in [Keys -> Nat] /\ \A key \in Keys : count'[key] >= count[key]
      /\ count'[KeyOf(r)] = r.nth
      /\ \A key \in Keys : key # KeyOf(r) => count'[key] = count[key]
  <2>1. r.dir \in {"in", "out"} /\ r.seq \in Numbers /\ KeyOf(r) = <<r.dir, r.seq>>
    BY DEF Messages, KeyOf
  <2> QED
    BY <2>1, CountLemma
<1>3. Apart'
  BY DEF Apart
<1>4. Numbered'
  <2>1. r.nth \in Nat /\ Given(r)'
    BY <1>2, KeyLemma DEF Given
  <2>2. \A x \in Messages : Given(x) => Given(x)'
    <3> SUFFICES ASSUME NEW x \in Messages, Given(x) PROVE x.nth <= count'[KeyOf(x)]
      BY DEF Given
    <3>1. KeyOf(x) \in Keys /\ x.nth \in Nat
      BY KeyLemma
    <3> QED
      BY <1>2, <3>1 DEF Given
  <2>3. \A x \in store' : Given(x)'
    BY <2>1, <2>2 DEF Numbered
  <2>4. \A d \in Places : \A x \in shown'[d] : Given(x)'
    BY <1>1, <2>1, <2>2 DEF Numbered
  <2>5. \A tag \in tagging' : Given(tag.row)'
    BY <2>2 DEF Numbered
  <2>6. \A x \in store : RowId(x) # RowId(r)
    <3> SUFFICES ASSUME NEW x \in store, KeyOf(x) = KeyOf(r), x.nth = r.nth PROVE FALSE
      BY DEF RowId
    <3>1. x.nth <= count[KeyOf(r)] /\ count[KeyOf(r)] \in Nat /\ x.nth \in Nat
      BY KeyLemma DEF Numbered, Given
    <3> QED
      BY <3>1
  <2>7. \A x, y \in store' : x.seq < Offset /\ RowId(x) = RowId(y) => x = y
    BY <2>6 DEF Numbered
  <2>8. ASSUME NEW n \in Numbers, n < Offset
        PROVE  count'[<<"out", n>>] <= 1 /\ (n > used'[Surface] => count'[<<"out", n>>] = 0)
    <3>1. <<"out", n>> \in Keys /\ n \in Nat /\ used[Surface] \in Nat
      BY PlacesLemma
    <3>2. CASE KeyOf(r) = <<"out", n>>
      <4>1. r.dir = "out" /\ r.seq = n
        BY <3>2 DEF KeyOf
      <4> QED
        BY <1>2, <2>8, <3>1, <3>2, <4>1 DEF Numbered
    <3>3. CASE KeyOf(r) # <<"out", n>>
      BY <1>2, <2>8, <3>1, <3>3 DEF Numbered
    <3> QED
      BY <3>2, <3>3
  <2> QED
    BY <2>3, <2>4, <2>5, <2>7, <2>8 DEF Numbered
<1>5. NoShadowOnSurface'
  BY <1>1 DEF NoShadowOnSurface
<1>6. Backed'
  <2> SUFFICES ASSUME NEW x \in shown'[Surface], x.seq < Offset
               PROVE  \E y \in store' : Same(x, y)'
    BY DEF Backed
  <2>1. CASE x = r
    BY <2>1 DEF Same
  <2>2. CASE x \in shown[Surface]
    <3>1. PICK y \in store : Same(x, y)
      BY <2>2 DEF Backed
    <3>2. KeyOf(x) \in Keys /\ count[KeyOf(x)] \in Nat /\ count'[KeyOf(x)] \in Nat
      BY <1>2, <2>2, KeyLemma, PlacesLemma
    <3>3. Repeated(x) => Repeated(x)'
      BY <1>2, <3>2 DEF Repeated
    <3> QED
      BY <3>1, <3>3 DEF Same
  <2> QED
    BY <1>1, <2>1, <2>2
<1>7. /\ \A x \in shown[Surface] : \E y \in shown'[Surface] : KeyOf(y) = KeyOf(x)
      /\ c = Surface => r \in shown'[Surface]
  BY <1>1
<1> QED
  BY <1>1, <1>3, <1>4, <1>5, <1>6, <1>7

(* A change of what a key names, on the screen and in the store. *)
LEMMA ChangeLemma ==
  ASSUME ChatInv, NEW change \in Changes, NEW key,
         store' = Changed(change, key), shown' = Redrawn(change, key), UNCHANGED <<tagging, used>>,
         count' \in [Keys -> Nat], \A k \in Keys : count'[k] >= count[k],
         \A n \in Numbers : count'[<<"out", n>>] = count[<<"out", n>>]
  PROVE  /\ store' \subseteq Messages /\ shown' \in [Places -> SUBSET Messages]
         /\ Apart' /\ Numbered' /\ NoShadowOnSurface' /\ Backed'
         /\ \A x \in shown[Surface] : \E y \in shown'[Surface] : KeyOf(y) = KeyOf(x)
<1> USE DEF ChatInv, ChatTyped
<1> DEFINE found == Firsts({r \in store : KeyOf(r) = key})
           Altered(r) == IF r \in found THEN Apply(r, change) ELSE r
           Drawn(r) == IF KeyOf(r) = key THEN Apply(r, change) ELSE r
<1>1. store' = {Altered(r) : r \in store}
  <2>1. found \subseteq store
    BY DEF Firsts
  <2>2. store' = (store \ found) \cup {Apply(r, change) : r \in found}
    BY DEF Changed
  <2> HIDE DEF found
  <2> QED
    BY <2>1, <2>2
<1>2. /\ shown'[Surface] = {Drawn(r) : r \in shown[Surface]}
      /\ \A d \in Places : d # Surface => shown'[d] = shown[d]
      /\ DOMAIN shown' = Places /\ shown' = [d \in Places |-> shown'[d]]
  BY PlacesLemma DEF Redrawn
<1>3. ASSUME NEW r \in Messages
      PROVE  /\ Drawn(r) \in Messages /\ RowId(Drawn(r)) = RowId(r) /\ KeyOf(Drawn(r)) = KeyOf(r)
             /\ Drawn(r).seq = r.seq /\ Drawn(r).chat = r.chat /\ Drawn(r).lost = r.lost
             /\ Drawn(r).nth = r.nth /\ Drawn(r).dir = r.dir
             /\ Altered(r) \in Messages /\ RowId(Altered(r)) = RowId(r) /\ KeyOf(Altered(r)) = KeyOf(r)
             /\ Altered(r).seq = r.seq /\ Altered(r).chat = r.chat /\ Altered(r).nth = r.nth
  BY ApplyLemma
<1>4. ASSUME NEW r \in store, r.seq < Offset, ~Repeated(r)
      PROVE  Altered(r) = Drawn(r)
  <2>1. r \in Messages /\ count[KeyOf(r)] \in Nat /\ r.dir \in {"in", "out"}
    BY KeyLemma DEF Messages
  <2>2. \A y \in store : KeyOf(y) = KeyOf(r) => y = r
    BY <1>4, <2>1, AloneLemma DEF Repeated
  <2>3. KeyOf(r) = key => r \in found
    BY <2>1, <2>2, KeyLemma DEF Firsts
  <2>4. r \in found => KeyOf(r) = key
    BY DEF Firsts
  <2> QED
    BY <2>3, <2>4
<1> HIDE DEF found, Altered, Drawn
<1>5. store' \subseteq Messages
  BY <1>1, <1>3
<1>6. shown' \in [Places -> SUBSET Messages]
  <2>1. \A d \in Places : shown'[d] \in SUBSET Messages
    BY <1>2, <1>3, PlacesLemma
  <2> QED
    BY <1>2, <2>1
<1>7. Apart'
  <2>1. \A x \in store' : x.seq < Offset => x.chat = Surface
    BY <1>1, <1>3 DEF Apart
  <2> QED
    BY <2>1 DEF Apart
<1>8. Numbered'
  <2>1. \A x, y \in Messages : Given(x) /\ KeyOf(x) = KeyOf(y) /\ x.nth = y.nth => Given(y)'
    <3> SUFFICES ASSUME NEW x \in Messages, NEW y \in Messages,
                        Given(x), KeyOf(x) = KeyOf(y), x.nth = y.nth
                 PROVE  y.nth <= count'[KeyOf(x)]
      BY DEF Given
    <3>1. KeyOf(x) \in Keys /\ x.nth \in Nat
      BY KeyLemma
    <3> QED
      BY <3>1 DEF Given
  <2>2. \A x \in store' : Given(x)'
    <3> SUFFICES ASSUME NEW x \in store' PROVE Given(x)'
      OBVIOUS
    <3>1. PICK r \in store : x = Altered(r)
      BY <1>1
    <3>2. r \in Messages /\ Given(r) /\ x \in Messages /\ KeyOf(r) = KeyOf(x) /\ r.nth = x.nth
      BY <1>3, <3>1 DEF Numbered
    <3> QED
      BY <2>1, <3>2
  <2>3. \A d \in Places : \A x \in shown'[d] : Given(x)'
    <3> SUFFICES ASSUME NEW d \in Places, NEW x \in shown'[d] PROVE Given(x)'
      OBVIOUS
    <3>1. \E r \in shown[d] : KeyOf(r) = KeyOf(x) /\ r.nth = x.nth
      BY <1>2, <1>3
    <3> QED
      BY <1>6, <2>1, <3>1 DEF Numbered
  <2>4. \A tag \in tagging' : Given(tag.row)'
    BY <2>1 DEF Numbered
  <2>5. \A x, y \in store' : x.seq < Offset /\ RowId(x) = RowId(y) => x = y
    <3> SUFFICES ASSUME NEW r \in store, NEW s \in store,
                        Altered(r).seq < Offset, RowId(Altered(r)) = RowId(Altered(s))
                 PROVE  Altered(r) = Altered(s)
      BY <1>1
    <3> QED
      BY <1>3 DEF Numbered
  <2>6. \A n \in Numbers : n < Offset => /\ count'[<<"out", n>>] <= 1
                                         /\ n > used'[Surface] => count'[<<"out", n>>] = 0
    BY DEF Numbered
  <2> QED
    BY <2>2, <2>3, <2>4, <2>5, <2>6 DEF Numbered
<1>9. NoShadowOnSurface'
  BY <1>2, <1>3, PlacesLemma DEF NoShadowOnSurface
<1>10. Backed'
  <2> SUFFICES ASSUME NEW x \in shown'[Surface], x.seq < Offset
               PROVE  \E y \in store' : Same(x, y)'
    BY DEF Backed
  <2>1. PICK r \in shown[Surface] : x = Drawn(r)
    BY <1>2
  <2>2. r \in Messages /\ r.seq < Offset
    BY <1>3, <2>1, PlacesLemma
  <2>3. PICK s \in store : Same(r, s)
    BY <2>2 DEF Backed
  <2>4. s \in Messages /\ RowId(s) = RowId(r)
    BY <2>3 DEF Same
  <2>5. Altered(s) \in store' /\ RowId(Altered(s)) = RowId(x) /\ KeyOf(x) = KeyOf(r)
    BY <1>1, <1>3, <2>1, <2>2, <2>4
  <2>6. Repeated(r) => Repeated(x)'
    <3>1. KeyOf(r) \in Keys /\ count[KeyOf(r)] \in Nat /\ count'[KeyOf(r)] \in Nat /\ x.dir = r.dir
      BY <1>3, <2>1, <2>2, KeyLemma
    <3> QED
      BY <2>5, <3>1 DEF Repeated
  <2>7. x.lost \/ Altered(s) = x \/ Repeated(x)'
    <3> SUFFICES ASSUME ~r.lost, ~Repeated(r) PROVE Altered(s) = x
      BY <1>3, <2>1, <2>2, <2>6
    <3>1. s = r
      BY <2>3 DEF Same
    <3> QED
      BY <1>4, <2>1, <2>2, <3>1
  <2> QED
    BY <2>5, <2>7 DEF Same
<1>11. \A x \in shown[Surface] : \E y \in shown'[Surface] : KeyOf(y) = KeyOf(x)
  BY <1>2, <1>3, PlacesLemma
<1> QED
  BY <1>5, <1>6, <1>7, <1>8, <1>9, <1>10, <1>11

(* More arrivals leave what is shown as well kept as it was. *)
LEMMA GrownLemma ==
  ASSUME ChatTyped, Backed, count' \in [Keys -> Nat], \A key \in Keys : count'[key] >= count[key],
         UNCHANGED shown, store \subseteq store'
  PROVE  Backed'
<1> SUFFICES ASSUME NEW x \in shown[Surface], x.seq < Offset
             PROVE  \E y \in store' : Same(x, y)'
  BY DEF Backed
<1>1. PICK y \in store : Same(x, y)
  BY DEF Backed
<1>2. KeyOf(x) \in Keys /\ count[KeyOf(x)] \in Nat /\ count'[KeyOf(x)] \in Nat
  BY KeyLemma, PlacesLemma DEF ChatTyped
<1>3. Repeated(x) => Repeated(x)'
  BY <1>2 DEF Repeated
<1> QED
  BY <1>1, <1>3 DEF Same

LEMMA ChatInvInit == ChatInit => ChatInv
<1> SUFFICES ASSUME ChatInit PROVE ChatInv
  OBVIOUS
<1>1. count \in [Keys -> Nat] /\ \A key \in Keys : count[key] = 0
  BY DEF ChatInit
<1>2. got = {}
  BY <1>1, PlacesLemma DEF got
<1>3. ChatTyped
  <2>1. Cardinality({}) = 0
    BY FS_EmptySet
  <2> QED
    BY <1>1, <1>2, <2>1, PlacesLemma DEF ChatInit, ChatTyped
<1>4. Numbered
  BY <1>1, PlacesLemma DEF ChatInit, Numbered
<1> QED
  BY <1>2, <1>3, <1>4, PlacesLemma
  DEF ChatInit, ChatInv, Apart, Accounted, NoShadowOnSurface, Backed

(* A text or an error entry arrives, and is shown in the surface chat. *)
LEMMA ArrivalLemma ==
  ASSUME ChatInv, NEW c \in Places, NEW n \in SeqsOf(c), NEW lost \in BOOLEAN, Taken(c, n),
         store' = store \cup {Row(Surface, "in", n, lost)},
         shown' = Upsert(Surface, Row(Surface, "in", n, lost)),
         excused' = excused \ {n}, UNCHANGED <<controls, routed, tagging, clearing, used>>
  PROVE  ChatInv'
<1>0. PICK r : r = Row(Surface, "in", n, lost)
  OBVIOUS
<1>1. n \in Numbers /\ Count(<<"in", n>>) /\ ChatTyped
  BY PlacesLemma DEF Taken, Places, ChatInv
<1>2. /\ r \in Messages /\ r.chat = Surface /\ r.dir = "in" /\ r.seq = n
      /\ KeyOf(r) = <<"in", n>> /\ r.nth = count[KeyOf(r)] + 1
  BY <1>0, <1>1, RowLemma, PlacesLemma DEF ChatTyped
<1>3. store' = store \cup {r} /\ shown' = Upsert(Surface, r)
  BY <1>0
<1>4. used'[Surface] >= used[Surface] /\ used'[Surface] \in Nat
  BY <1>1, PlacesLemma DEF ChatTyped
<1>5. /\ store' \subseteq Messages /\ shown' \in [Places -> SUBSET Messages]
      /\ Apart' /\ Numbered' /\ NoShadowOnSurface' /\ Backed'
      /\ \A x \in shown[Surface] : \E y \in shown'[Surface] : KeyOf(y) = KeyOf(x)
      /\ r \in shown'[Surface]
  BY <1>1, <1>2, <1>3, <1>4, ShowLemma, PlacesLemma
<1>6. count' \in [Keys -> Nat] /\ got' = got \cup {n}
  BY <1>1, CountLemma
<1>7. ChatTyped'
  BY <1>1, <1>5, <1>6 DEF ChatTyped
<1>8. Accounted'
  BY <1>2, <1>5, <1>6 DEF ChatInv, Accounted, Visible, KeyOf
<1> QED
  BY <1>5, <1>7, <1>8 DEF ChatInv

LEMMA TypedLemma ==
  ASSUME ChatTyped, NEW c \in Places, TypeText(c)
  PROVE  used[c] + 1 \in 1..MaxTyped
<1>1. IsFiniteSet(Places)
  <2>1. IsFiniteSet(Hidden) /\ IsFiniteSet({Surface})
    BY ConversationAssumption, FS_Singleton
  <2> QED
    BY <2>1, FS_Union DEF Places
<1>2. used \in [Places -> Nat] /\ MaxTyped \in Nat
  BY ConversationAssumption DEF ChatTyped
<1>3. Cardinality(Typed) \in Nat /\ used[c] <= Cardinality(Typed)
  BY <1>1, <1>2, BinsLemma DEF Typed
<1>4. Cardinality(Typed) < MaxTyped
  BY DEF TypeText
<1> QED
  BY <1>2, <1>3, <1>4

LEMMA TypeTextStep == ASSUME ChatInv, NEW c \in Places, TypeText(c) PROVE ChatInv'
<1>0. PICK r : r = Row(c, "out", NextSeq(used, c), FALSE)
  OBVIOUS
<1>1. /\ used \in [Places -> 0..MaxTyped] /\ used' = [used EXCEPT ![c] = @ + 1]
      /\ Count(<<"out", NextSeq(used, c)>>)
      /\ store' = store \cup {r} /\ shown' = Upsert(c, r) /\ routed' = routed \cup ({c} \cap Hidden)
      /\ UNCHANGED <<controls, tagging, clearing, excused>>
  BY <1>0 DEF ChatInv, ChatTyped, TypeText
<1>2. ChatTyped /\ used[c] + 1 \in 1..MaxTyped
  BY TypedLemma DEF ChatInv
<1>3. /\ NextSeq(used, c) \in Numbers /\ used' \in [Places -> 0..MaxTyped]
      /\ used'[Surface] >= used[Surface] /\ used'[Surface] \in Nat /\ used[Surface] \in Nat
      /\ c = Surface => NextSeq(used, c) = used[Surface] + 1 /\ used'[Surface] = used[Surface] + 1
      /\ c # Surface => NextSeq(used, c) > Offset
  BY <1>1, <1>2, PlacesLemma DEF NextSeq
<1>4. /\ r \in Messages /\ r.chat = c /\ r.dir = "out" /\ r.seq = NextSeq(used, c)
      /\ KeyOf(r) = <<"out", NextSeq(used, c)>> /\ r.nth = count[KeyOf(r)] + 1
  <2>1. <<"out", NextSeq(used, c)>> \in Keys /\ count \in [Keys -> Nat]
    BY <1>2, <1>3, PlacesLemma DEF ChatTyped
  <2>2. count[<<"out", NextSeq(used, c)>>] \in Nat
    BY <2>1
  <2> QED
    BY <1>0, <1>3, <2>2 DEF Row, NewRow, Messages, KeyOf
<1>5. r.seq < Offset => c = Surface
  <2> SUFFICES ASSUME c # Surface PROVE ~(r.seq < Offset)
    OBVIOUS
  <2>1. r.seq \in Nat /\ Offset \in Nat
    BY <1>3, <1>4, PlacesLemma
  <2>2. r.seq > Offset
    BY <1>3, <1>4
  <2> QED
    BY <2>1, <2>2
<1>6. r.seq < Offset => r.seq > used[Surface] /\ r.seq <= used'[Surface]
  BY <1>3, <1>4, <1>5, PlacesLemma
<1>7. /\ store' \subseteq Messages /\ shown' \in [Places -> SUBSET Messages]
      /\ Apart' /\ Numbered' /\ NoShadowOnSurface' /\ Backed'
      /\ \A x \in shown[Surface] : \E y \in shown'[Surface] : KeyOf(y) = KeyOf(x)
  BY <1>1, <1>3, <1>4, <1>5, <1>6, ShowLemma
<1>8. count' \in [Keys -> Nat] /\ got' = got
  BY <1>1, <1>2, <1>3, CountLemma
<1>9. ChatTyped'
  BY <1>1, <1>2, <1>3, <1>7, <1>8 DEF ChatTyped
<1>10. Accounted'
  BY <1>1, <1>7, <1>8 DEF ChatInv, Accounted, Visible, KeyOf
<1> QED
  BY <1>7, <1>9, <1>10 DEF ChatInv

(* A thread's text, before and after it is tagged with its thread. *)
LEMMA HiddenTextStep ==
  ASSUME ChatInv, NEW c \in Places, NEW n \in SeqsOf(c), HiddenTextArrives(c, n)
  PROVE  ChatInv'
<1>0. PICK r : r = Row(Nowhere, "in", n, FALSE)
  OBVIOUS
<1>1. /\ n \in Numbers /\ n > Offset /\ n \in Nat /\ c \in Hidden /\ Count(<<"in", n>>)
      /\ store' = store \cup {r} /\ tagging' = {[row |-> r, chat |-> c]}
      /\ UNCHANGED <<shown, controls, routed, clearing, used, excused>>
  BY <1>0, PlacesLemma DEF HiddenTextArrives, Taken
<1>2. ChatTyped
  BY DEF ChatInv
<1>3. /\ r \in Messages /\ r.seq = n /\ KeyOf(r) = <<"in", n>> /\ r.nth = count[<<"in", n>>] + 1
  <2>1. <<"in", n>> \in Keys /\ count \in [Keys -> Nat]
    BY <1>1, <1>2, PlacesLemma DEF ChatTyped
  <2>2. count[<<"in", n>>] \in Nat
    BY <2>1
  <2> QED
    BY <1>0, <1>1, <2>2 DEF Row, NewRow, Messages, KeyOf
<1>4. /\ count' \in [Keys -> Nat] /\ \A key \in Keys : count'[key] >= count[key]
      /\ count'[<<"in", n>>] = r.nth /\ got' = got \cup {n}
      /\ \A m \in Numbers : count'[<<"out", m>>] = count[<<"out", m>>]
  BY <1>1, <1>2, <1>3, CountLemma, PlacesLemma
<1>5. ChatTyped'
  <2>1. \A x : Cardinality({x}) = 1
    BY FS_Singleton
  <2>2. Cardinality(tagging') <= 1
    <3>1. Cardinality(tagging') = 1
      BY <1>1, <2>1
    <3> QED
      BY <3>1
  <2> QED
    BY <1>1, <1>2, <1>3, <1>4, <2>2 DEF ChatTyped
<1>6. Apart'
  BY <1>1, <1>3, PlacesLemma DEF ChatInv, Apart
<1>7. \A x \in Messages : Given(x) => Given(x)'
  <2> SUFFICES ASSUME NEW x \in Messages, Given(x) PROVE x.nth <= count'[KeyOf(x)]
    BY DEF Given
  <2> QED
    BY <1>2, <1>4, KeyLemma DEF Given, ChatTyped
<1>8. Given(r)'
  BY <1>3, <1>4, KeyLemma DEF Given
<1>9. Numbered'
  <2>1. \A x \in store' : Given(x)'
    BY <1>1, <1>2, <1>7, <1>8 DEF ChatInv, ChatTyped, Numbered
  <2>2. \A d \in Places : \A x \in shown'[d] : Given(x)'
    BY <1>1, <1>2, <1>7 DEF ChatInv, ChatTyped, Numbered
  <2>3. \A tag \in tagging' : Given(tag.row)'
    BY <1>1, <1>8
  <2>4. \A x, y \in store' : x.seq < Offset /\ RowId(x) = RowId(y) => x = y
    BY <1>1, <1>3, PlacesLemma DEF ChatInv, Numbered, RowId, KeyOf
  <2>5. \A m \in Numbers : m < Offset => /\ count'[<<"out", m>>] <= 1
                                         /\ m > used'[Surface] => count'[<<"out", m>>] = 0
    BY <1>1, <1>4 DEF ChatInv, Numbered
  <2> QED
    BY <2>1, <2>2, <2>3, <2>4, <2>5 DEF Numbered
<1>10. Accounted'
  BY <1>1, <1>4, PlacesLemma DEF ChatInv, Accounted, Visible
<1>11. Backed'
  BY <1>1, <1>2, <1>4, GrownLemma DEF ChatInv
<1> QED
  BY <1>1, <1>5, <1>6, <1>9, <1>10, <1>11 DEF ChatInv, NoShadowOnSurface

LEMMA TaggedStep == ASSUME ChatInv, HiddenTextTagged PROVE ChatInv'
<1>1. PICK tag \in tagging :
        LET untagged == {r \in store : r.chat = Nowhere /\ RowId(r) = RowId(tag.row)}
        IN  /\ store' = (store \ untagged) \cup {[r EXCEPT !.chat = tag.chat] : r \in untagged}
            /\ shown' = IF tag.chat \in routed
                        THEN Upsert(tag.chat, [tag.row EXCEPT !.chat = tag.chat]) ELSE shown
  BY DEF HiddenTextTagged
<1> DEFINE untagged == {r \in store : r.chat = Nowhere /\ RowId(r) = RowId(tag.row)}
           Moved(r) == [r EXCEPT !.chat = tag.chat]
<1>2. /\ tag.chat \in Hidden /\ tag.chat \in Places /\ tag.chat # Surface
      /\ tag.row \in Messages /\ ~(tag.row.seq < Offset) /\ Given(tag.row)
  BY PlacesLemma DEF ChatInv, ChatTyped, Apart, Numbered
<1>3. ASSUME NEW r \in Messages
      PROVE  /\ Moved(r) \in Messages /\ Moved(r).seq = r.seq /\ Moved(r).nth = r.nth
             /\ KeyOf(Moved(r)) = KeyOf(r)
  BY <1>2 DEF Messages, KeyOf
<1>4. /\ store' = (store \ untagged) \cup {Moved(r) : r \in untagged}
      /\ tagging' = {} /\ UNCHANGED <<controls, routed, clearing, used, count, excused>>
      /\ \/ shown' = shown
         \/ shown' = Upsert(tag.chat, Moved(tag.row))
  BY <1>1 DEF HiddenTextTagged
<1>5. \A r \in untagged : r \in store /\ r.seq = tag.row.seq
  BY DEF RowId, KeyOf
<1> HIDE DEF untagged, Moved
<1>6. /\ shown' \in [Places -> SUBSET Messages] /\ shown'[Surface] = shown[Surface]
      /\ \A d \in Places : \A x \in shown'[d] : Given(x)
  <2>1. Moved(tag.row) \in Messages /\ Given(Moved(tag.row))
    BY <1>2, <1>3 DEF Given
  <2>2. shown \in [Places -> SUBSET Messages] /\ \A d \in Places : \A x \in shown[d] : Given(x)
    BY DEF ChatInv, ChatTyped, Numbered
  <2>3. CASE shown' = shown
    BY <2>2, <2>3
  <2>4. CASE shown' = Upsert(tag.chat, Moved(tag.row))
    BY <1>2, <2>1, <2>2, <2>4, PlacesLemma DEF Upsert
  <2> QED
    BY <1>4, <2>3, <2>4
<1>7. store \subseteq Messages
  BY DEF ChatInv, ChatTyped
<1>8. \A x \in store' : \/ x \in store \ untagged
                        \/ /\ x \in Messages /\ x.seq = tag.row.seq
                           /\ \E r \in store : KeyOf(x) = KeyOf(r) /\ x.nth = r.nth
  BY <1>3, <1>4, <1>5, <1>7
<1>9. got' = got
  BY <1>4 DEF got
<1>10. ChatTyped'
  <2>1. Cardinality({}) = 0
    BY FS_EmptySet
  <2> QED
    BY <1>4, <1>6, <1>7, <1>8, <1>9, <2>1 DEF ChatInv, ChatTyped
<1>11. Apart'
  BY <1>2, <1>4, <1>8 DEF ChatInv, Apart
<1>12. Numbered'
  <2>1. \A x \in store' : Given(x)'
    BY <1>4, <1>8 DEF ChatInv, Numbered, Given
  <2>2. \A d \in Places : \A x \in shown'[d] : Given(x)'
    BY <1>4, <1>6 DEF Given
  <2>3. \A x, y \in store' : x.seq < Offset /\ RowId(x) = RowId(y) => x = y
    BY <1>2, <1>8 DEF ChatInv, Numbered, RowId, KeyOf
  <2> QED
    BY <1>4, <2>1, <2>2, <2>3 DEF ChatInv, Numbered
<1>13. Accounted'
  BY <1>4, <1>6, <1>9 DEF ChatInv, Accounted, Visible
<1>14. NoShadowOnSurface'
  BY <1>6 DEF ChatInv, NoShadowOnSurface
<1>15. Backed'
  <2> SUFFICES ASSUME NEW x \in shown[Surface], x.seq < Offset
               PROVE  \E y \in store' : Same(x, y)'
    BY <1>6 DEF Backed
  <2>1. PICK y \in store : Same(x, y)
    BY DEF ChatInv, Backed
  <2>2. y.seq = x.seq
    BY <2>1 DEF Same, RowId, KeyOf
  <2>3. y \in store'
    BY <1>2, <1>4, <1>5, <2>2
  <2> QED
    BY <1>4, <2>1, <2>3 DEF Same, Repeated
<1> QED
  BY <1>10, <1>11, <1>12, <1>13, <1>14, <1>15 DEF ChatInv

(* A change of either side. *)
LEMMA ChangeStep ==
  ASSUME ChatInv, NEW change \in Changes, NEW key,
         store' = Changed(change, key), shown' = Redrawn(change, key),
         UNCHANGED <<routed, tagging, clearing, used>>,
         \/ UNCHANGED <<controls, count, excused>>
         \/ \E n \in SeqsOf(Surface) : /\ Count(<<"in", n>>) /\ controls' = controls \cup {n}
                                       /\ excused' = excused \ {n}
  PROVE  ChatInv'
<1>1. /\ count' \in [Keys -> Nat] /\ \A k \in Keys : count'[k] >= count[k]
      /\ \A n \in Numbers : count'[<<"out", n>>] = count[<<"out", n>>]
      /\ controls' \subseteq got' /\ excused' \subseteq got' /\ controls \subseteq controls'
      /\ \A n \in got' \ excused' : n \in got \ excused \/ n \in controls'
  <2>1. ChatTyped
    BY DEF ChatInv
  <2>2. CASE UNCHANGED <<controls, count, excused>>
    <3>1. got' = got
      BY <2>2 DEF got
    <3>2. count \in [Keys -> Nat] /\ \A k \in Keys : count[k] \in Nat
      BY <2>1 DEF ChatTyped
    <3> QED
      BY <2>1, <2>2, <3>1, <3>2 DEF ChatTyped
  <2>3. ASSUME NEW n \in SeqsOf(Surface), Count(<<"in", n>>), controls' = controls \cup {n},
               excused' = excused \ {n}
        PROVE  /\ count' \in [Keys -> Nat] /\ \A k \in Keys : count'[k] >= count[k]
               /\ \A m \in Numbers : count'[<<"out", m>>] = count[<<"out", m>>]
               /\ controls' \subseteq got' /\ excused' \subseteq got' /\ controls \subseteq controls'
               /\ \A m \in got' \ excused' : m \in got \ excused \/ m \in controls'
    BY <2>1, <2>3, CountLemma, PlacesLemma DEF ChatTyped
  <2> QED
    BY <2>2, <2>3
<1>2. /\ store' \subseteq Messages /\ shown' \in [Places -> SUBSET Messages]
      /\ Apart' /\ Numbered' /\ NoShadowOnSurface' /\ Backed'
      /\ \A x \in shown[Surface] : \E y \in shown'[Surface] : KeyOf(y) = KeyOf(x)
  BY <1>1, ChangeLemma
<1>3. ChatTyped'
  BY <1>1, <1>2 DEF ChatInv, ChatTyped
<1>4. Accounted'
  BY <1>1, <1>2 DEF ChatInv, Accounted, Visible, KeyOf
<1> QED
  BY <1>2, <1>3, <1>4 DEF ChatInv

(* A frame that only its seq shows, or not even that. *)
LEMMA ControlStep ==
  ASSUME ChatInv, NEW n \in SeqsOf(Surface), ControlArrives(n) \/ InviteControlArrives(n)
  PROVE  ChatInv'
<1>1. /\ n \in Numbers /\ Count(<<"in", n>>) /\ UNCHANGED <<store, shown, routed, tagging, clearing, used>>
      /\ \/ controls' = controls \cup {n} /\ excused' = excused \ {n}
         \/ controls' = controls /\ excused' = excused \cup ({n} \ got)
  BY PlacesLemma DEF ControlArrives, InviteControlArrives, Taken
<1>2. ChatTyped
  BY DEF ChatInv
<1>3. /\ count' \in [Keys -> Nat] /\ \A k \in Keys : count'[k] >= count[k]
      /\ \A m \in Numbers : count'[<<"out", m>>] = count[<<"out", m>>]
      /\ got' = got \cup {n}
  BY <1>1, <1>2, CountLemma, PlacesLemma
<1>4. ChatTyped'
  BY <1>1, <1>2, <1>3 DEF ChatTyped
<1>5. Apart' /\ NoShadowOnSurface'
  BY <1>1 DEF ChatInv, Apart, NoShadowOnSurface
<1>6. Backed'
  BY <1>1, <1>2, <1>3, GrownLemma DEF ChatInv
<1>7. Numbered'
  <2>1. \A x \in Messages : Given(x) => Given(x)'
    <3> SUFFICES ASSUME NEW x \in Messages, Given(x) PROVE x.nth <= count'[KeyOf(x)]
      BY DEF Given
    <3> QED
      BY <1>2, <1>3, KeyLemma DEF Given, ChatTyped
  <2>2. /\ store \subseteq Messages /\ shown \in [Places -> SUBSET Messages]
        /\ \A tag \in tagging : tag.row \in Messages
    BY <1>2 DEF ChatTyped
  <2>3. (\A x \in store : Given(x)') /\ (\A tag \in tagging : Given(tag.row)')
    BY <2>1, <2>2 DEF ChatInv, Numbered
  <2>4. \A d \in Places : \A x \in shown[d] : Given(x)'
    BY <2>1, <2>2 DEF ChatInv, Numbered
  <2> QED
    BY <1>1, <1>3, <2>3, <2>4 DEF ChatInv, Numbered
<1>8. Accounted'
  BY <1>1, <1>3 DEF ChatInv, Accounted, Visible
<1> QED
  BY <1>4, <1>5, <1>6, <1>7, <1>8 DEF ChatInv

LEMMA PurgeStep == ASSUME ChatInv, NEW r \in store, Purge(r) PROVE ChatInv'
<1> DEFINE gone == {x \in shown[Surface] : RowId(x) = RowId(r)}
<1>1. /\ store' = store \ {r} /\ shown' = [shown EXCEPT ![Surface] = @ \ gone]
      /\ excused' = excused \cup {x.seq : x \in {y \in gone : y.dir = "in"}}
      /\ UNCHANGED <<controls, routed, tagging, clearing, used, count>>
  BY DEF Purge
<1>2. /\ shown' \in [Places -> SUBSET Messages] /\ shown'[Surface] = shown[Surface] \ gone
      /\ \A d \in Places : shown'[d] \subseteq shown[d]
  BY <1>1, PlacesLemma DEF ChatInv, ChatTyped
<1>3. got' = got
  BY <1>1 DEF got
<1>4. excused' \subseteq got
  <2> SUFFICES ASSUME NEW x \in shown[Surface], x.dir = "in" PROVE x.seq \in got
    BY <1>1 DEF ChatInv, ChatTyped
  <2>1. /\ x \in Messages /\ Given(x) /\ x.nth \in Nat \ {0} /\ x.seq \in Numbers
        /\ KeyOf(x) = <<"in", x.seq>> /\ count[KeyOf(x)] \in Nat
    BY PlacesLemma, KeyLemma DEF ChatInv, ChatTyped, Numbered, Messages, KeyOf
  <2> QED
    BY <2>1 DEF Given, got
<1>5. ChatTyped' /\ Apart' /\ NoShadowOnSurface'
  BY <1>1, <1>2, <1>3, <1>4 DEF ChatInv, ChatTyped, Apart, NoShadowOnSurface
<1>6. Numbered'
  BY <1>1, <1>2 DEF ChatInv, Numbered, Given
<1>7. Backed'
  <2> SUFFICES ASSUME NEW x \in shown[Surface], x \notin gone, x.seq < Offset
               PROVE  \E y \in store' : Same(x, y)'
    BY <1>2 DEF Backed
  <2>1. PICK y \in store : Same(x, y)
    BY DEF ChatInv, Backed
  <2>2. y # r
    BY <2>1 DEF Same
  <2> QED
    BY <1>1, <2>1, <2>2 DEF Same, Repeated
<1>8. Accounted'
  BY <1>1, <1>2, <1>3 DEF ChatInv, Accounted, Visible
<1> QED
  BY <1>5, <1>6, <1>7, <1>8 DEF ChatInv

LEMMA ClearedStep == ASSUME ChatInv, SurfaceCleared PROVE ChatInv'
<1>1. /\ store' \subseteq store /\ shown' = [shown EXCEPT ![Surface] = {}]
      /\ controls' = {} /\ clearing' = {} /\ excused' = got
      /\ UNCHANGED <<routed, tagging, used, count>>
  BY DEF SurfaceCleared
<1>2. /\ shown' \in [Places -> SUBSET Messages] /\ shown'[Surface] = {}
      /\ \A d \in Places : shown'[d] \subseteq shown[d]
  BY <1>1, PlacesLemma DEF ChatInv, ChatTyped
<1>3. got' = got
  BY <1>1 DEF got
<1>4. ChatTyped' /\ Apart' /\ NoShadowOnSurface' /\ Backed' /\ Accounted'
  BY <1>1, <1>2, <1>3
  DEF ChatInv, ChatTyped, Apart, NoShadowOnSurface, Backed, Accounted
<1>5. Numbered'
  BY <1>1, <1>2 DEF ChatInv, Numbered, Given
<1> QED
  BY <1>4, <1>5 DEF ChatInv

LEMMA RelaunchStep == ASSUME ChatInv, RelaunchChat PROVE ChatInv'
<1>1. /\ shown' = Restored /\ routed' = Hidden /\ excused' = excused \cup controls /\ controls' = {}
      /\ tagging' = {} /\ clearing' = {} /\ UNCHANGED <<store, used, count>>
  BY DEF RelaunchChat
<1>2. ASSUME NEW r \in store
      PROVE  /\ Again(r) \in Messages /\ Again(r).chat = r.chat /\ Again(r).seq = r.seq
             /\ Again(r).nth = r.nth /\ Again(r).dir = r.dir
             /\ KeyOf(Again(r)) = KeyOf(r) /\ RowId(Again(r)) = RowId(r)
             /\ Again(r).lost \/ Again(r) = r
  <2>1. r \in Messages
    BY DEF ChatInv, ChatTyped
  <2>2. CASE r.dir = "in" /\ r.lost /\ r.text = "none"
    <3>1. /\ r.chat \in Places \cup {Nowhere} /\ r.seq \in Numbers /\ r.nth \in Nat \ {0}
          /\ Again(r) = NewRow(r.chat, "in", r.seq, r.nth, TRUE)
      BY <2>1, <2>2 DEF Again, Messages
    <3>2. /\ Again(r) \in Messages /\ Again(r).chat = r.chat /\ Again(r).seq = r.seq
          /\ Again(r).nth = r.nth /\ Again(r).dir = r.dir /\ Again(r).lost
      BY <2>2, <3>1 DEF NewRow, Messages
    <3> QED
      BY <3>2 DEF KeyOf, RowId
  <2>3. CASE ~(r.dir = "in" /\ r.lost /\ r.text = "none")
    BY <2>1, <2>3 DEF Again
  <2> QED
    BY <2>2, <2>3
<1> DEFINE own == {x \in store : x.seq < Offset}
<1>3. \A rows \in SUBSET store : \A x \in Replayed(rows) : \E r \in rows : x = Again(r)
  BY DEF Replayed, Lasts
<1>4. /\ shown' \in [Places -> SUBSET Messages]
      /\ shown'[Surface] = Replayed(own)
      /\ \A d \in Places : \A x \in shown'[d] : \E r \in store : x = Again(r)
  <2> DEFINE Mine(c) == {x \in store : IF c = Surface THEN x.seq < Offset
                                       ELSE x.seq >= Offset /\ x.chat = c}
  <2>1. shown' = [c \in Places |-> Replayed(Mine(c))]
    BY <1>1 DEF Restored
  <2>2. \A c : Mine(c) \in SUBSET store
    OBVIOUS
  <2>3. Mine(Surface) = own
    OBVIOUS
  <2> HIDE DEF Mine, own
  <2>4. \A c : \A x \in Replayed(Mine(c)) : \E r \in store : x = Again(r)
    BY <1>3, <2>2
  <2>5. \A c : Replayed(Mine(c)) \in SUBSET Messages
    BY <1>2, <2>4
  <2> QED
    BY <2>1, <2>3, <2>4, <2>5, PlacesLemma
<1>5. got' = got
  BY <1>1 DEF got
<1>6. ChatTyped' /\ Apart'
  <2>1. Cardinality({}) = 0
    BY FS_EmptySet
  <2>2. ChatTyped'
    BY <1>1, <1>4, <1>5, <2>1 DEF ChatInv, ChatTyped
  <2>3. Apart'
    BY <1>1 DEF ChatInv, Apart
  <2> QED
    BY <2>2, <2>3
<1>7. Numbered'
  <2>1. \A d \in Places : \A x \in shown'[d] : Given(x)'
    <3> SUFFICES ASSUME NEW r \in store, NEW x, x = Again(r) PROVE Given(x)'
      BY <1>4
    <3>1. KeyOf(x) = KeyOf(r) /\ x.nth = r.nth /\ Given(r)
      BY <1>2 DEF ChatInv, Numbered
    <3> QED
      BY <1>1, <3>1 DEF Given
  <2> QED
    BY <1>1, <2>1 DEF ChatInv, Numbered, Given
<1>8. NoShadowOnSurface' /\ Backed'
  <2> SUFFICES ASSUME NEW x \in shown'[Surface]
               PROVE  x.chat = Surface /\ \E y \in store' : Same(x, y)'
    BY DEF NoShadowOnSurface, Backed
  <2>1. PICK r \in own : x = Again(r)
    BY <1>3, <1>4
  <2>2. x.chat = Surface
    BY <1>2, <2>1 DEF ChatInv, Apart
  <2>3. r \in store' /\ RowId(r) = RowId(x) /\ (x.lost \/ r = x)
    BY <1>1, <1>2, <2>1
  <2> QED
    BY <2>2, <2>3 DEF Same
<1>9. Accounted'
  <2> SUFFICES ASSUME NEW n \in got \ excused, n < Offset, n \notin controls
               PROVE  \E x \in shown'[Surface] : x.dir = "in" /\ x.seq = n
    BY <1>1, <1>5 DEF Accounted, Visible
  <2>1. PICK x \in shown[Surface] : x.dir = "in" /\ x.seq = n
    BY DEF ChatInv, Accounted, Visible
  <2>2. PICK y \in store : Same(x, y)
    BY <2>1 DEF ChatInv, Backed
  <2>3. KeyOf(y) = <<"in", n>> /\ y \in own
    BY <2>1, <2>2 DEF Same, RowId, KeyOf
  <2>4. PICK z \in Lasts(own) : KeyOf(z) = KeyOf(y)
    BY <2>3, LastsLemma DEF ChatInv, Numbered
  <2>5. z \in store /\ Again(z) \in shown'[Surface] /\ KeyOf(Again(z)) = <<"in", n>>
    BY <1>2, <1>4, <2>3, <2>4 DEF Lasts, Replayed
  <2> QED
    BY <2>5 DEF KeyOf
<1> QED
  BY <1>6, <1>7, <1>8, <1>9 DEF ChatInv

LEMMA ChatInvStep == ChatInv /\ [ChatNext]_chatVars => ChatInv'
<1> SUFFICES ASSUME ChatInv, [ChatNext]_chatVars PROVE ChatInv'
  OBVIOUS
<1>1. ASSUME NEW c \in Places, TypeText(c) PROVE ChatInv'
  BY <1>1, TypeTextStep
<1>2. ASSUME NEW c \in Places, NEW n \in SeqsOf(c), UndecryptableArrives(c, n) PROVE ChatInv'
  BY <1>2, ArrivalLemma DEF UndecryptableArrives
<1>3. ASSUME NEW c \in Places, NEW n \in SeqsOf(c), HiddenTextArrives(c, n) PROVE ChatInv'
  BY <1>3, HiddenTextStep
<1>4. ASSUME NEW n \in SeqsOf(Surface), SurfaceTextArrives(n) PROVE ChatInv'
  BY <1>4, ArrivalLemma, PlacesLemma DEF SurfaceTextArrives
<1>5. ASSUME NEW n \in SeqsOf(Surface), ControlArrives(n) \/ InviteControlArrives(n) PROVE ChatInv'
  BY <1>5, ControlStep
<1>6. ASSUME NEW n \in SeqsOf(Surface), ChangeArrives(n) PROVE ChatInv'
  BY <1>6, ChangeStep DEF ChangeArrives, Taken
<1>7. CASE HiddenTextTagged
  BY <1>7, TaggedStep
<1>8. ASSUME NEW c \in Places, NEW r \in shown[c], NEW change \in Changes, ChangeMessage(c, r, change)
      PROVE  ChatInv'
  BY <1>8, ChangeStep DEF ChangeMessage
<1>9. CASE \/ UNCHANGED chatVars \/ ClearSurface \/ \E c \in Hidden : OpenHidden(c)
  <2>1. /\ UNCHANGED <<store, shown, controls, tagging, used, count, excused>>
        /\ routed' \subseteq Hidden
        /\ clearing' = clearing \/ clearing' = {RowId(x) : x \in store}
    BY <1>9 DEF chatVars, ClearSurface, OpenHidden, ChatInv, ChatTyped
  <2>2. clearing' \subseteq Keys \X (Nat \ {0})
    BY <2>1, KeyLemma DEF ChatInv, ChatTyped, RowId
  <2>3. got' = got
    BY <2>1 DEF got
  <2>4. ChatTyped' /\ Apart' /\ Accounted' /\ NoShadowOnSurface'
    BY <2>1, <2>2, <2>3 DEF ChatInv, ChatTyped, Apart, Accounted, Visible, NoShadowOnSurface
  <2>5. Numbered' /\ Backed'
    BY <2>1 DEF ChatInv, Numbered, Given, Backed, Same, Repeated
  <2> QED
    BY <2>4, <2>5 DEF ChatInv
<1>10. ASSUME NEW r \in store, Purge(r) PROVE ChatInv'
  BY <1>10, PurgeStep
<1>11. CASE SurfaceCleared
  BY <1>11, ClearedStep
<1>12. CASE RelaunchChat
  BY <1>12, RelaunchStep
<1> QED
  BY <1>1, <1>2, <1>3, <1>4, <1>5, <1>6, <1>7, <1>8, <1>9, <1>10, <1>11, <1>12 DEF ChatNext

LEMMA GapLemma == ChatInv => GapsExplained
<1> SUFFICES ASSUME ChatInv, NEW s \in MissingBefore, s < Offset, s - 1 \in got \ excused
             PROVE  FALSE
  BY DEF GapsExplained
<1>1. s - 1 \in Nat /\ s \in Nat
  <2>1. s \in {r.seq : r \in {x \in shown[Surface] : x.dir = "in"}} \cup controls
    BY DEF MissingBefore
  <2>2. shown[Surface] \subseteq Messages /\ controls \subseteq Numbers /\ got \subseteq Numbers
    BY PlacesLemma DEF ChatInv, ChatTyped, got
  <2>3. s \in Numbers /\ s - 1 \in Numbers
    BY <2>1, <2>2 DEF Messages
  <2> QED
    BY <2>3, PlacesLemma
<1>2. Visible(s - 1)
  BY <1>1, PlacesLemma DEF ChatInv, Accounted
<1>3. s - 1 \in {r.seq : r \in {x \in shown[Surface] : x.dir = "in"}} \cup controls
  BY <1>2 DEF Visible
<1> QED
  BY <1>3 DEF MissingBefore

(* No text of a shadow thread is ever shown in the surface chat. *)
THEOREM NoShadowOnSurfaceHolds == ChatSpec => []NoShadowOnSurface
<1>1. ChatInv => NoShadowOnSurface
  BY DEF ChatInv
<1> QED
  BY ChatInvInit, ChatInvStep, <1>1, PTL DEF ChatSpec

(* What the surface chat shows has its row in the store, and is as a       *)
(* relaunch will find it unless its number came from the peer repeatedly.  *)
THEOREM ShownIsStoredHolds == ChatSpec => []ShownIsStored
<1>1. ChatInv => ShownIsStored
  BY DEF ChatInv, Backed, Same, Repeated, ShownIsStored
<1> QED
  BY ChatInvInit, ChatInvStep, <1>1, PTL DEF ChatSpec

(* A gap is shown only before a message whose predecessor is really absent. *)
THEOREM GapsExplainedHolds == ChatSpec => []GapsExplained
<1> QED
  BY ChatInvInit, ChatInvStep, GapLemma, PTL DEF ChatSpec

(* The state of the conversation stays in its types.                       *)
THEOREM ChatTypeCorrect == ChatSpec => []ChatTypeOK
<1>1. ChatInv => ChatTypeOK
  BY DEF ChatInv, ChatTyped, ChatTypeOK, Messages
<1> QED
  BY ChatInvInit, ChatInvStep, <1>1, PTL DEF ChatSpec

----------------------------------------------------------------------------
(* Disappearing messages. *)

(* Every finite one has a greatest: the shortest sequence of numbers       *)
(* without a bound would have a shorter one without a bound.               *)
LEMMA GreatestLemma ==
  ASSUME NEW S \in SUBSET Nat, S # {}, IsFiniteSet(S)
  PROVE  Max(S) \in S /\ \A y \in S : y <= Max(S)
<1> DEFINE Bounded(n, f) == \E b \in Nat : \A i \in 1..n : f[i] <= b
           Long == {n \in Nat : \E f \in [1..n -> Nat] : ~Bounded(n, f)}
<1>1. Long = {}
  <2> SUFFICES ASSUME Long # {} PROVE FALSE
    OBVIOUS
  <2> DEFINE n == Min(Long)
  <2>1. n \in Long /\ \A m \in Long : n <= m
    BY LeastLemma
  <2> HIDE DEF n
  <2>2. PICK f \in [1..n -> Nat] : ~Bounded(n, f)
    BY <2>1
  <2>3. n \in Nat /\ n # 0
    <3>1. n \in Nat
      BY <2>1
    <3>2. n = 0 => \A i \in 1..n : f[i] <= 0
      OBVIOUS
    <3> QED
      BY <2>2, <3>1, <3>2
  <2> DEFINE g == [i \in 1..(n - 1) |-> f[i]]
  <2>4. /\ n - 1 \in Nat /\ ~(n <= n - 1) /\ 1..(n - 1) \subseteq 1..n
        /\ g \in [1..(n - 1) -> Nat]
    <3>1. /\ n - 1 \in Nat /\ ~(n <= n - 1) /\ 1..(n - 1) \subseteq 1..n
      BY <2>3
    <3>2. g \in [1..(n - 1) -> Nat]
      <4>1. \A i \in 1..(n - 1) : f[i] \in Nat
        BY <2>2, <3>1
      <4> QED
        BY <4>1
    <3> QED
      BY <3>1, <3>2
  <2> HIDE DEF g
  <2>5. Bounded(n - 1, g)
    <3>1. n - 1 \notin Long
      BY <2>1, <2>4
    <3> QED
      BY <2>4, <3>1
  <2>6. PICK top \in Nat : \A i \in 1..(n - 1) : g[i] <= top
    BY <2>5
  <2>7. PICK k \in Nat : k = f[n]
    BY <2>3
  <2> DEFINE c == IF top >= k THEN top ELSE k
  <2>8. c \in Nat /\ top <= c /\ k <= c
    OBVIOUS
  <2> HIDE DEF c
  <2>9. \A i \in 1..n : f[i] <= c
    <3> SUFFICES ASSUME NEW i \in 1..n PROVE f[i] <= c
      OBVIOUS
    <3>1. CASE i = n
      BY <2>7, <2>8, <3>1
    <3>2. CASE i # n
      <4>1. i \in 1..(n - 1)
        BY <2>3, <3>2
      <4>2. f[i] <= top /\ f[i] \in Nat
        BY <2>6, <4>1 DEF g
      <4> QED
        BY <2>8, <4>2
    <3> QED
      BY <3>1, <3>2
  <2> QED
    BY <2>2, <2>8, <2>9
<1>2. PICK q \in Seq(S) : \A x \in S : \E i \in 1..Len(q) : q[i] = x
  BY DEF IsFiniteSet
<1>3. Len(q) \in Nat /\ q \in [1..Len(q) -> Nat]
  <2>1. q \in [1..Len(q) -> S] /\ Len(q) \in Nat
    BY <1>2
  <2> QED
    BY <2>1
<1>4. PICK b \in Nat : \A i \in 1..Len(q) : q[i] <= b
  BY <1>1, <1>3
<1> DEFINE Bounds == {c \in Nat : \A x \in S : x <= c}
<1>5. b \in Bounds
  BY <1>2, <1>4
<1> DEFINE m == Min(Bounds)
<1>6. m \in Bounds /\ \A c \in Bounds : m <= c
  BY <1>5, LeastLemma
<1> HIDE DEF m
<1>7. m \in S
  <2> SUFFICES ASSUME m \notin S PROVE FALSE
    OBVIOUS
  <2>1. \A x \in S : x < m /\ x \in Nat
    BY <1>6
  <2>2. m \in Nat /\ m - 1 \in Nat
    <3>1. PICK x \in S : x < m /\ x \in Nat
      BY <2>1
    <3> QED
      BY <1>6, <3>1
  <2>3. \A x \in S : x <= m - 1
    BY <2>1, <2>2
  <2>4. m - 1 \in Bounds
    BY <2>2, <2>3
  <2> QED
    BY <1>6, <2>2, <2>4
<1>8. \A y \in S : m >= y
  BY <1>6
<1>9. Max(S) \in S /\ \A y \in S : Max(S) >= y
  BY <1>7, <1>8 DEF Max
<1> QED
  BY <1>9

LEMMA LargerLemma ==
  ASSUME NEW i \in Nat, NEW j \in Nat
  PROVE  Max({i, j}) = IF i >= j THEN i ELSE j
<1> DEFINE m == IF i >= j THEN i ELSE j
<1>1. m \in {i, j} /\ \A y \in {i, j} : m >= y
  OBVIOUS
<1> QED
  BY <1>1 DEF Max

LEMMA NeverLemma ==
  /\ EndOfTime \in Nat /\ Never \in Nat /\ EndOfTime < Never
  /\ \A life \in Lives \cup {0} : life \in Nat /\ EndOfTime + life < Never
<1>1. Lives \subseteq Nat /\ IsFiniteSet(Lives) /\ EndOfTime \in Nat
  BY VanishAssumption
<1>2. CASE Lives = {}
  BY <1>1, <1>2 DEF Never
<1>3. CASE Lives # {}
  <2>1. Max(Lives) \in Lives /\ \A life \in Lives : life <= Max(Lives)
    BY <1>1, <1>3, GreatestLemma
  <2> DEFINE m == Max(Lives)
  <2>2. Never = EndOfTime + m + 1
    BY <1>3 DEF Never
  <2>3. m \in Nat /\ \A life \in Lives : life <= m
    BY <1>1, <2>1
  <2> HIDE DEF m
  <2> QED
    BY <1>1, <2>2, <2>3
<1> QED
  BY <1>2, <1>3

(* The timeout for some rows is early enough for each of them. *)
LEMMA AlarmLemma ==
  ASSUME now \in 0..EndOfTime, due' \in [Rows -> 0..Never], NEW rows \in SUBSET Rows
  PROVE  /\ Alarm(rows) \in 0..Never
         /\ \A r \in rows : Alarm(rows) <= Max({due'[r], now})
<1>1. CASE rows = {}
  BY <1>1, NeverLemma DEF Alarm
<1>2. CASE rows # {}
  <2> DEFINE times == {due'[r] : r \in rows}
             m == Min(times)
  <2>1. times \in SUBSET Nat /\ times # {} /\ times \subseteq 0..Never
    BY <1>2, NeverLemma
  <2>2. m \in times /\ \A r \in rows : m <= due'[r]
    <3>1. m \in times /\ \A y \in times : m <= y
      BY <2>1, LeastLemma
    <3> QED
      BY <3>1
  <2>3. Alarm(rows) = Max({now, m})
    BY <1>2 DEF Alarm
  <2> HIDE DEF m
  <2>4. m \in Nat /\ m <= Never /\ now \in Nat /\ now <= Never
    BY <2>1, <2>2, NeverLemma
  <2>5. Alarm(rows) = IF now >= m THEN now ELSE m
    BY <2>3, <2>4, LargerLemma
  <2>6. ASSUME NEW r \in rows
        PROVE  Alarm(rows) <= Max({due'[r], now})
    <3>1. due'[r] \in Nat
      BY NeverLemma
    <3> QED
      BY <2>2, <2>4, <2>5, <3>1, LargerLemma
  <2> QED
    BY <2>4, <2>5, <2>6
<1> QED
  BY <1>1, <1>2

VanishInv == VanishTypeOK /\ DueIsWatched

LEMMA VanishInvInit == VanishInit => VanishInv
BY NeverLemma DEF VanishInit, VanishInv, VanishTypeOK, DueIsWatched

LEMMA AddRowStep == ASSUME VanishInv, NEW r \in Rows, AddRow(r) PROVE VanishInv'
<1>1. /\ VanishTypeOK /\ DueIsWatched
      /\ disk' = (disk \cup {r}) \ botched /\ botched' = {}
      /\ due' = [due EXCEPT ![r] = IF ttl > 0 THEN now + ttl ELSE Never]
      /\ unused' = unused \ {r}
      /\ UNCHANGED <<now, timer, ttl, purges, waking, priming>>
  BY DEF VanishInv, AddRow, Written
<1>2. due' \in [Rows -> 0..Never] /\ \A x \in Rows \ {r} : due'[x] = due[x]
  <2>1. (IF ttl > 0 THEN now + ttl ELSE Never) \in 0..Never
    BY <1>1, NeverLemma DEF VanishTypeOK
  <2> QED
    BY <1>1, <2>1 DEF VanishTypeOK
<1>3. CASE ttl > 0
  <2>1. watched' = watched \cup {r} /\ alarm' = Alarm(watched')
    BY <1>3 DEF AddRow
  <2>2. /\ alarm' \in 0..Never
        /\ \A x \in watched' : alarm' <= Max({due'[x], now})
    BY <1>1, <1>2, <2>1, AlarmLemma DEF VanishTypeOK
  <2>3. VanishTypeOK'
    BY <1>1, <1>2, <2>1, <2>2 DEF VanishTypeOK
  <2>4. DueIsWatched'
    BY <1>1, <1>2, <2>1, <2>2 DEF VanishTypeOK, DueIsWatched
  <2> QED
    BY <2>3, <2>4 DEF VanishInv
<1>4. CASE ~(ttl > 0)
  <2>1. UNCHANGED <<watched, alarm>> /\ due'[r] = Never
    BY <1>1, <1>4 DEF AddRow, VanishTypeOK
  <2>2. VanishTypeOK'
    BY <1>1, <1>2, <2>1 DEF VanishTypeOK
  <2>3. DueIsWatched'
    BY <1>1, <1>2, <2>1 DEF VanishTypeOK, DueIsWatched
  <2> QED
    BY <2>2, <2>3 DEF VanishInv
<1> QED
  BY <1>3, <1>4

(* A purge over rows that hold whatever is on disk and not being purged.   *)
LEMMA RunPurgeStep ==
  ASSUME VanishInv, NEW rows \in SUBSET Rows, NEW armed \in 0..Never, RunPurge(rows, armed),
         \A r \in disk \ botched : due[r] # Never =>
            waking' \/ r \in UNION purges \/ r \in rows,
         waking' \in BOOLEAN,
         UNCHANGED <<now, due, disk, timer, ttl, botched, priming, unused>>
  PROVE  VanishInv'
<1> DEFINE expired == {r \in rows : due[r] <= now}
<1>1. /\ watched' = rows \ expired /\ watched' \subseteq Rows
      /\ expired = {} => alarm' = Alarm(rows) /\ purges' = purges
      /\ expired # {} => alarm' = armed /\ purges' = purges \cup {expired}
  BY DEF RunPurge
<1>2. /\ Alarm(rows) \in 0..Never
      /\ \A r \in rows : Alarm(rows) <= Max({due'[r], now})
  <2>1. now \in 0..EndOfTime /\ due' \in [Rows -> 0..Never]
    BY DEF VanishInv, VanishTypeOK
  <2> QED
    BY <2>1, AlarmLemma
<1>3. expired \subseteq Rows
  OBVIOUS
<1> HIDE DEF expired
<1>4. VanishTypeOK'
  BY <1>1, <1>2, <1>3 DEF VanishInv, VanishTypeOK
<1>5. DueIsWatched'
  BY <1>1, <1>2 DEF VanishInv, VanishTypeOK, DueIsWatched
<1> QED
  BY <1>4, <1>5 DEF VanishInv

LEMMA PurgeEndsStep == ASSUME VanishInv, NEW rows \in purges, PurgeEnds(rows) PROVE VanishInv'
<1>1. /\ VanishTypeOK /\ DueIsWatched /\ rows \subseteq Rows
      /\ purges' = purges \ {rows} /\ alarm' = Alarm(watched)
      /\ disk' \subseteq disk /\ botched' \subseteq Rows
      /\ disk' \ botched' \subseteq (disk \ botched) \ rows
      /\ UNCHANGED <<now, due, timer, ttl, watched, waking, priming, unused>>
  BY DEF VanishInv, VanishTypeOK, PurgeEnds, Written
<1>2. /\ Alarm(watched) \in 0..Never
      /\ \A r \in watched : Alarm(watched) <= Max({due'[r], now})
  <2>1. now \in 0..EndOfTime /\ due' \in [Rows -> 0..Never] /\ watched \in SUBSET Rows
    BY <1>1 DEF VanishTypeOK
  <2> QED
    BY <2>1, AlarmLemma
<1>3. VanishTypeOK'
  BY <1>1, <1>2 DEF VanishTypeOK
<1>4. DueIsWatched'
  BY <1>1, <1>2 DEF VanishTypeOK, DueIsWatched
<1> QED
  BY <1>3, <1>4 DEF VanishInv

(* What leaves or keeps the rows of the disk, and touches no timeout. *)
LEMMA SameWatchStep ==
  ASSUME VanishInv, disk' \subseteq disk, disk' \ botched' \subseteq disk \ botched,
         botched' \in {{}, botched},
         timer' \in Lives \cup {0}, ttl' \in Lives \cup {0}, priming' \in BOOLEAN,
         UNCHANGED <<now, due, watched, alarm, purges, waking, unused>>
  PROVE  VanishInv'
BY DEF VanishInv, VanishTypeOK, DueIsWatched

LEMMA VanishInvStep == VanishInv /\ [VanishNext]_vanishVars => VanishInv'
<1> SUFFICES ASSUME VanishInv, [VanishNext]_vanishVars PROVE VanishInv'
  OBVIOUS
<1> USE DEF VanishInv
<1>1. ASSUME NEW r \in Rows, AddRow(r) PROVE VanishInv'
  BY <1>1, AddRowStep
<1>2. ASSUME NEW r \in Rows, EraseRow(r) PROVE VanishInv'
  BY <1>2, SameWatchStep DEF EraseRow, Written, VanishTypeOK
<1>3. ASSUME NEW life \in Lives \cup {0}, SetTimer(life) PROVE VanishInv'
  BY <1>3, SameWatchStep DEF SetTimer, Written, VanishTypeOK
<1>4. CASE AlarmRings
  <2>1. /\ RunPurge(watched, Never) /\ watched \in SUBSET Rows /\ Never \in 0..Never
        /\ waking' \in BOOLEAN
        /\ UNCHANGED <<now, due, disk, timer, ttl, botched, waking, priming, unused>>
    BY <1>4, NeverLemma DEF AlarmRings, VanishTypeOK
  <2>2. \A r \in disk \ botched : due[r] # Never =>
          waking' \/ r \in UNION purges \/ r \in watched
    BY <2>1 DEF DueIsWatched
  <2> QED
    BY <2>1, <2>2, RunPurgeStep
<1>5. CASE Awake
  <2> DEFINE rows == watched \cup {r \in InMemory : due[r] # Never}
  <2>1. /\ RunPurge(rows, alarm) /\ rows \in SUBSET Rows /\ alarm \in 0..Never
        /\ waking' \in BOOLEAN
        /\ UNCHANGED <<now, due, disk, timer, ttl, botched, priming, unused>>
    BY <1>5 DEF Awake, VanishTypeOK, InMemory
  <2>2. \A r \in disk \ botched : due[r] # Never =>
          waking' \/ r \in UNION purges \/ r \in rows
    BY DEF InMemory
  <2> HIDE DEF rows
  <2> QED
    BY <2>1, <2>2, RunPurgeStep
<1>6. CASE Primed
  BY <1>6, SameWatchStep DEF Primed, VanishTypeOK
<1>7. CASE RelaunchEngine
  BY <1>7, NeverLemma DEF RelaunchEngine, VanishTypeOK, DueIsWatched
<1>8. CASE Pass
  <2>1. /\ now' = now + 1 /\ now' \in 0..EndOfTime /\ now \in Nat
        /\ UNCHANGED <<due, disk, timer, ttl, watched, alarm, purges, botched, waking, priming, unused>>
    BY <1>8, NeverLemma DEF Pass, VanishTypeOK
  <2>2. VanishTypeOK'
    BY <2>1 DEF VanishTypeOK
  <2>3. \A r \in Rows : Max({due'[r], now'}) >= Max({due[r], now}) /\ Max({due[r], now}) \in Nat
                        /\ Max({due'[r], now'}) \in Nat
    <3> SUFFICES ASSUME NEW r \in Rows
                 PROVE  /\ Max({due'[r], now'}) >= Max({due[r], now}) /\ Max({due[r], now}) \in Nat
                        /\ Max({due'[r], now'}) \in Nat
      OBVIOUS
    <3>1. due[r] \in Nat /\ due'[r] = due[r] /\ now' \in Nat
      BY <2>1, NeverLemma DEF VanishTypeOK
    <3>2. Max({due[r], now}) = IF due[r] >= now THEN due[r] ELSE now
      BY <2>1, <3>1, LargerLemma
    <3>3. Max({due[r], now'}) = IF due[r] >= now' THEN due[r] ELSE now'
      BY <3>1, LargerLemma
    <3> QED
      BY <2>1, <3>1, <3>2, <3>3
  <2>4. alarm \in Nat
    BY NeverLemma DEF VanishTypeOK
  <2>5. DueIsWatched'
    <3> SUFFICES ASSUME NEW r \in disk \ botched, due[r] # Never, ~waking, r \notin UNION purges
                 PROVE  r \in watched /\ (alarm <= Max({due[r], now'}) \/ purges # {})
      BY <2>1, NeverLemma DEF DueIsWatched, Never
    <3>1. r \in watched /\ (alarm <= Max({due[r], now}) \/ purges # {}) /\ r \in Rows
      BY DEF DueIsWatched, VanishTypeOK
    <3>2. /\ Max({due[r], now'}) >= Max({due[r], now})
          /\ Max({due[r], now}) \in Nat /\ Max({due[r], now'}) \in Nat
      BY <2>1, <2>3, <3>1
    <3> QED
      BY <2>4, <3>1, <3>2
  <2> QED
    BY <2>2, <2>5
<1>9. ASSUME NEW rows \in purges, PurgeEnds(rows) PROVE VanishInv'
  BY <1>9, PurgeEndsStep
<1>10. ASSUME NEW b \in BOOLEAN, DropRows(b) PROVE VanishInv'
  BY <1>10, SameWatchStep DEF DropRows, Written, VanishTypeOK
<1>11. CASE UNCHANGED vanishVars
  BY <1>11 DEF vanishVars, VanishTypeOK, DueIsWatched
<1> QED
  BY <1>1, <1>2, <1>3, <1>4, <1>5, <1>6, <1>7, <1>8, <1>9, <1>10, <1>11 DEF VanishNext

(* The clock, the rows and the timeout are what their comments say. *)
THEOREM VanishTypeCorrect == VanishSpec => []VanishTypeOK
<1>1. VanishInv => VanishTypeOK
  BY DEF VanishInv
<1> QED
  BY VanishInvInit, VanishInvStep, <1>1, PTL DEF VanishSpec

(* No row that has a time outlives it unwatched. *)
THEOREM DueIsWatchedHolds == VanishSpec => []DueIsWatched
<1>1. VanishInv => DueIsWatched
  BY DEF VanishInv
<1> QED
  BY VanishInvInit, VanishInvStep, <1>1, PTL DEF VanishSpec

----------------------------------------------------------------------------
(* The encrypted store.  What mutate has resolved is in the blob because,  *)
(* as long as use is orderly, one document is in use, every image sealed   *)
(* is taken from it later than the one in the blob, and the key is         *)
(* replaced and the blob erased when nothing is under way.                 *)

(* Where a call is: waiting for a hydration that will make its change, or  *)
(* in a chain with its change made, at the head of it if it is persisting. *)
Placed(c) ==
  LET x == call[c] IN
  /\ x.stage = "opening" => x.load \in DOMAIN loads /\ c \in Range(loads[x.load].calls)
  /\ x.stage \in {"queued", "minting", "storing"} =>
       /\ x.load \in DOMAIN loads /\ loads[x.load].stage = "open" /\ c \in loads[x.load].doc
       /\ \E v \in Vaults : c \in Range(chain[v])
  /\ x.stage \in {"minting", "storing"} => \E v \in Vaults : AtHead(c, v)

Newest == Len(loads)
OnlyLast ==
  /\ \A c \in Updates : Working(c) => call[c].load = Newest
  /\ \A h \in DOMAIN loads : Loading(h) => h = Newest
  /\ \A v \in Vaults :
       /\ cached[v] \in {0, Newest} /\ hydrating[v] \in {0, Newest}
       /\ Newest = 0 \/ loads[Newest].vault # v =>
            chain[v] = << >> /\ cached[v] = 0 /\ hydrating[v] = 0
       /\ hydrating[v] # 0 /\ loads[Newest].stage = "open" => cached[v] # 0

(* What is written is no older than what is there, under the key there is. *)
Current ==
  /\ Newest # 0 /\ loads[Newest].stage = "open" => sealed.of \subseteq loads[Newest].doc
  /\ Newest # 0 /\ loads[Newest].stage = "mint" => sealed.key = 0
  /\ \A c \in Updates :
       /\ call[c].stage = "minting" => call[c].key # 0 /\ sealed.key = 0
       /\ call[c].stage = "storing" =>
            /\ call[c].key # 0 /\ call[c].key = secured
            /\ c \in call[c].image /\ sealed.of \subseteq call[c].image
            /\ call[c].image \subseteq loads[Newest].doc

(* A wipe waits for all that is under way, and erases when nothing is. *)
WipeAlone ==
  \A v \in Vaults :
    /\ wiping[v] # NoWipe => \A h \in DOMAIN loads : ~Loading(h)
    /\ wiping[v].stage = "waiting" =>
         \A c \in Updates : Working(c) => c \in wiping[v].for /\ call[c].stage # "opening"
    /\ Erasing(v) => sealed.key = 0 /\ \A c \in Updates : ~Working(c)

CachedOpen == \A v \in Vaults : cached[v] # 0 => loads[cached[v]].stage = "open"

VaultInv ==
  /\ VaultTypeOK
  /\ \A c \in Updates : Placed(c)
  /\ CachedOpen
  /\ orderly => OnlyLast /\ Current /\ WipeAlone
  /\ Kept

Loads == [vault : Vaults, stage : {"key", "mint", "blob", "open", "failed"},
          key : 0..MaxKeys, doc : SUBSET Updates, calls : Seq(Updates)]
Progress == {"new", "opening", "queued", "minting", "storing", "done", "failed", "lost", "erased"}
Calls == [stage : Progress, load : Nat, key : 0..MaxKeys, image : SUBSET Updates]
Wipes == [stage : {"none", "waiting", "erasing"}, for : SUBSET Updates]

(* The type invariant with its sets named. *)
LEMMA VaultTypes ==
  VaultTypeOK <=>
    /\ secured \in 0..MaxKeys /\ minted \in 0..MaxKeys
    /\ sealed \in [key : 0..MaxKeys, of : SUBSET Updates]
    /\ loads \in Seq(Loads)
    /\ cached \in [Vaults -> 0..Len(loads)] /\ hydrating \in [Vaults -> 0..Len(loads)]
    /\ chain \in [Vaults -> Seq(Updates)]
    /\ call \in [Updates -> Calls]
    /\ wiping \in [Vaults -> Wipes]
    /\ orderly \in BOOLEAN
BY Zenon DEF VaultTypeOK, Loads, Calls, Wipes, Progress

(* The hydrations, when one is replaced or one is added. *)
LEMMA LoadsLemma ==
  ASSUME loads \in Seq(Loads)
  PROVE  /\ Len(loads) \in Nat /\ DOMAIN loads = 1..Len(loads)
         /\ \A h \in DOMAIN loads : loads[h] \in Loads
         /\ \A h \in DOMAIN loads, x \in Loads :
              LET new == [loads EXCEPT ![h] = x] IN
              /\ new \in Seq(Loads) /\ Len(new) = Len(loads) /\ DOMAIN new = DOMAIN loads
              /\ new[h] = x /\ \A i \in DOMAIN loads \ {h} : new[i] = loads[i]
         /\ \A x \in Loads :
              LET new == Append(loads, x) IN
              /\ new \in Seq(Loads) /\ Len(new) = Len(loads) + 1
              /\ DOMAIN new = DOMAIN loads \cup {Len(loads) + 1}
              /\ new[Len(loads) + 1] = x /\ \A i \in DOMAIN loads : new[i] = loads[i]
<1>1. Len(loads) \in Nat /\ DOMAIN loads = 1..Len(loads)
  BY LenProperties
<1>2. \A h \in DOMAIN loads : loads[h] \in Loads
  BY ElementOfSeq, <1>1
<1>3. ASSUME NEW h \in DOMAIN loads, NEW x \in Loads
      PROVE  LET new == [loads EXCEPT ![h] = x] IN
             /\ new \in Seq(Loads) /\ Len(new) = Len(loads) /\ DOMAIN new = DOMAIN loads
             /\ new[h] = x /\ \A i \in DOMAIN loads \ {h} : new[i] = loads[i]
  BY <1>1, ExceptSeq
<1>4. ASSUME NEW x \in Loads
      PROVE  LET new == Append(loads, x) IN
             /\ new \in Seq(Loads) /\ Len(new) = Len(loads) + 1
             /\ DOMAIN new = DOMAIN loads \cup {Len(loads) + 1}
             /\ new[Len(loads) + 1] = x /\ \A i \in DOMAIN loads : new[i] = loads[i]
  BY <1>1, AppendProperties
<1> QED
  BY <1>1, <1>2, <1>3, <1>4

LEMMA VaultInvInit == VaultInit => VaultInv
<1> SUFFICES ASSUME VaultInit PROVE VaultInv
  OBVIOUS
<1> USE DEF VaultInit, AllIdle, Call, NoBlob, NoWipe
<1>1. Len(loads) = 0 /\ DOMAIN loads = {} /\ << >> \in Seq(Updates) /\ loads \in Seq(Loads)
  OBVIOUS
<1>2. VaultTypeOK
  BY <1>1, VaultAssumption, VaultTypes DEF Calls, Wipes, Progress
<1>3. OnlyLast /\ Current /\ WipeAlone
  BY <1>1 DEF OnlyLast, Current, WipeAlone, Newest, Working, Loading, Erasing
<1> QED
  BY <1>1, <1>2, <1>3 DEF VaultInv, Placed, CachedOpen, Kept


(* A hydration whose key is taken or kept: no document and no call is       *)
(* touched.                                                                *)
LEMMA KeyedStep ==
  ASSUME VaultInv, NEW h \in DOMAIN loads, Loading(h), NEW x \in Loads, x.stage \in {"mint", "blob"},
         x.vault = loads[h].vault, x.calls = loads[h].calls,
         loads' = [loads EXCEPT ![h] = x],
         x.stage = "mint" => (orderly => sealed.key = 0),
         secured' \in 0..MaxKeys, minted' \in 0..MaxKeys,
         secured' # secured => loads[h].stage = "mint",
         UNCHANGED <<sealed, cached, hydrating, chain, call, wiping, orderly>>
  PROVE  VaultInv'
<1>1. VaultTypeOK /\ CachedOpen /\ Kept /\ (orderly => OnlyLast /\ Current /\ WipeAlone)
      /\ \A c \in Updates : Placed(c)
  BY DEF VaultInv
<1>2. /\ loads \in Seq(Loads) /\ cached \in [Vaults -> 0..Len(loads)]
      /\ hydrating \in [Vaults -> 0..Len(loads)] /\ orderly \in BOOLEAN
  BY <1>1, VaultTypes
<1>3. /\ loads' \in Seq(Loads) /\ Len(loads') = Len(loads) /\ DOMAIN loads' = DOMAIN loads
      /\ loads'[h] = x /\ \A i \in DOMAIN loads \ {h} : loads'[i] = loads[i]
      /\ Len(loads) \in Nat /\ DOMAIN loads = 1..Len(loads)
  BY <1>2, LoadsLemma
<1>4. loads[h].stage # "open" /\ x.stage # "open"
  BY DEF Loading
<1>5. VaultTypeOK'
  BY <1>1, <1>3, VaultTypes DEF VaultTypeOK, Loads
<1>6. ASSUME NEW c \in Updates PROVE Placed(c)'
  BY <1>1, <1>3, <1>4 DEF Placed, AtHead
<1>7. CachedOpen'
  BY <1>1, <1>2, <1>3, <1>4 DEF CachedOpen
<1>8. ASSUME orderly PROVE (OnlyLast /\ Current /\ WipeAlone /\ Kept)'
  <2>1. OnlyLast /\ Current /\ WipeAlone /\ h = Newest
    BY <1>1, <1>8 DEF OnlyLast
  <2>2. \A i \in DOMAIN loads : Loading(i)' <=> Loading(i)
    BY <1>3 DEF Loading
  <2>3. OnlyLast'
    BY <2>1, <2>2, <1>2, <1>3, <1>4 DEF OnlyLast, Working, Newest
  <2>4. \A c \in Updates : call[c].stage \notin {"queued", "minting", "storing"}
    BY <1>1, <1>4, <2>1 DEF Placed, OnlyLast, Working
  <2>5. Current'
    BY <2>1, <2>4, <1>3, <1>4, <1>8 DEF Current, Newest
  <2>6. WipeAlone'
    BY <2>1, <2>2, <1>3 DEF WipeAlone, Working, Erasing
  <2>7. Kept'
    BY <1>1, <1>8, <2>1 DEF Kept, Current, Newest
  <2> QED
    BY <2>3, <2>5, <2>6, <2>7
<1> QED
  BY <1>1, <1>5, <1>6, <1>7, <1>8 DEF VaultInv, Kept

LEMMA TakeKeyStep == ASSUME VaultInv, NEW h \in DOMAIN loads, TakeKey(h) PROVE VaultInv'
<1>1. VaultTypeOK /\ loads[h].stage = "key" /\ loads[h] \in Loads /\ Kept
  BY LoadsLemma, VaultTypes DEF VaultInv, TakeKey
<1>2. CASE secured # 0
  <2> DEFINE x == [loads[h] EXCEPT !.stage = "blob", !.key = secured]
  <2>1. loads' = [loads EXCEPT ![h] = x] /\ minted' = minted
        /\ UNCHANGED <<secured, sealed, cached, hydrating, chain, call, wiping, orderly>>
    BY <1>2 DEF TakeKey
  <2>2. x \in Loads /\ x.stage = "blob" /\ x.vault = loads[h].vault /\ x.calls = loads[h].calls
    BY <1>1 DEF Loads, VaultTypeOK
  <2> HIDE DEF x
  <2> QED
    BY <1>1, <2>1, <2>2, KeyedStep DEF Loading, VaultTypeOK
<1>3. CASE ~(secured # 0)
  <2> DEFINE x == [loads[h] EXCEPT !.stage = "mint", !.key = minted + 1]
  <2>1. loads' = [loads EXCEPT ![h] = x] /\ minted < MaxKeys /\ minted' = minted + 1
        /\ UNCHANGED <<secured, sealed, cached, hydrating, chain, call, wiping, orderly>>
    BY <1>3 DEF TakeKey
  <2>2. /\ x \in Loads /\ x.stage = "mint" /\ x.vault = loads[h].vault /\ x.calls = loads[h].calls
        /\ minted + 1 \in 0..MaxKeys
    <3>1. minted + 1 \in 0..MaxKeys
      <4>1. MaxKeys \in Nat /\ minted \in Nat
        BY <1>1, VaultAssumption DEF VaultTypeOK
      <4> QED
        BY <2>1, <4>1
    <3> QED
      BY <1>1, <3>1 DEF Loads
  <2>3. orderly => sealed.key = 0
    BY <1>1, <1>3 DEF Kept
  <2> HIDE DEF x
  <2> QED
    BY <1>1, <2>1, <2>2, <2>3, KeyedStep DEF Loading, VaultTypeOK
<1> QED
  BY <1>2, <1>3

LEMMA KeepKeyStep == ASSUME VaultInv, NEW h \in DOMAIN loads, KeepKey(h) PROVE VaultInv'
<1>1. VaultTypeOK /\ loads[h].stage = "mint" /\ loads[h] \in Loads
  BY LoadsLemma, VaultTypes DEF VaultInv, KeepKey
<1> DEFINE x == [loads[h] EXCEPT !.stage = "blob"]
<1>2. loads' = [loads EXCEPT ![h] = x] /\ secured' = loads[h].key
      /\ UNCHANGED <<sealed, minted, cached, hydrating, chain, call, wiping, orderly>>
  BY DEF KeepKey
<1>3. /\ x \in Loads /\ x.stage = "blob" /\ x.vault = loads[h].vault /\ x.calls = loads[h].calls
      /\ loads[h].key \in 0..MaxKeys
  BY <1>1 DEF Loads
<1> HIDE DEF x
<1> QED
  BY <1>1, <1>2, <1>3, KeyedStep DEF Loading, VaultTypeOK

(* A hydration that has ended. *)
LEMMA EndedLemma ==
  ASSUME MaxKeys \in Nat, NEW v \in Vaults, NEW stage \in {"open", "failed"},
         NEW doc \in SUBSET Updates
  PROVE  /\ Ended(v, stage, doc) \in Loads /\ Ended(v, stage, doc).vault = v
         /\ Ended(v, stage, doc).stage = stage /\ Ended(v, stage, doc).doc = doc
BY EmptySeq DEF Ended, Loads

(* A call that waited for a hydration that is rejected, fails with it. *)
LEMMA RejectedStep ==
  ASSUME VaultInv, NEW h \in DOMAIN loads, Loading(h), Rejected(h),
         UNCHANGED <<secured, sealed, minted, hydrating, wiping, orderly>>
  PROVE  VaultInv'
<1> DEFINE x == Ended(loads[h].vault, "failed", {})
<1>1. /\ VaultTypeOK /\ CachedOpen /\ Kept /\ (orderly => OnlyLast /\ Current /\ WipeAlone)
      /\ \A c \in Updates : Placed(c)
  BY DEF VaultInv
<1>2. /\ loads \in Seq(Loads) /\ cached \in [Vaults -> 0..Len(loads)]
      /\ hydrating \in [Vaults -> 0..Len(loads)] /\ orderly \in BOOLEAN
      /\ call \in [Updates -> Calls] /\ MaxKeys \in Nat
  BY <1>1, VaultTypes, VaultAssumption
<1>3. x \in Loads /\ x.stage = "failed" /\ x.vault = loads[h].vault /\ loads[h] \in Loads
  <2>1. loads[h] \in Loads
    BY <1>2, LoadsLemma
  <2> QED
    BY <1>2, <2>1, EndedLemma DEF Loads
<1>4. loads' = [loads EXCEPT ![h] = x] /\ UNCHANGED <<cached, chain>>
      /\ call' = [c \in Updates |-> IF call[c].stage = "opening" /\ call[c].load = h
                                    THEN Call("failed") ELSE call[c]]
  BY DEF Rejected
<1> HIDE DEF x
<1>5. /\ loads' \in Seq(Loads) /\ Len(loads') = Len(loads) /\ DOMAIN loads' = DOMAIN loads
      /\ loads'[h] = x /\ \A i \in DOMAIN loads \ {h} : loads'[i] = loads[i]
      /\ Len(loads) \in Nat /\ DOMAIN loads = 1..Len(loads)
  BY <1>2, <1>3, <1>4, LoadsLemma
<1>6. loads[h].stage # "open"
  BY DEF Loading
<1>7. call' \in [Updates -> Calls] /\ \A c \in Updates :
        call'[c] = call[c] \/ (call'[c].stage = "failed" /\ call[c].stage = "opening")
  BY <1>2, <1>4 DEF Call, Calls, Progress
<1>8. VaultTypeOK'
  BY <1>1, <1>4, <1>5, <1>7, VaultTypes DEF VaultTypeOK, Loads, Calls, Progress
<1>9. ASSUME NEW c \in Updates PROVE Placed(c)'
  <2>1. CASE call'[c].stage = "failed"
    BY <2>1 DEF Placed
  <2>2. CASE call'[c] = call[c] /\ call[c].stage # "failed"
    <3>1. call[c].stage = "opening" => call[c].load # h
      BY <1>4, <2>2 DEF Call
    <3> QED
      BY <1>1, <1>4, <1>5, <1>6, <2>2, <3>1 DEF Placed, AtHead
  <2> QED
    BY <1>7, <2>1, <2>2
<1>10. CachedOpen'
  BY <1>1, <1>2, <1>4, <1>5, <1>6 DEF CachedOpen
<1>11. ASSUME orderly PROVE (OnlyLast /\ Current /\ WipeAlone)'
  <2>1. OnlyLast /\ Current /\ WipeAlone /\ h = Newest
    BY <1>1, <1>11 DEF OnlyLast
  <2>2. \A i \in DOMAIN loads : Loading(i)' => Loading(i)
    BY <1>3, <1>5 DEF Loading
  <2>3. \A c \in Updates : Working(c)' => Working(c) /\ call'[c] = call[c]
    BY <1>7 DEF Working
  <2>4. OnlyLast'
    BY <2>1, <2>2, <2>3, <1>2, <1>3, <1>4, <1>5, <1>6 DEF OnlyLast, Newest
  <2>5. \A c \in Updates : call[c].stage \notin {"queued", "minting", "storing"}
    BY <1>1, <1>6, <2>1 DEF Placed, OnlyLast, Working
  <2>6. Current'
    BY <2>1, <2>5, <1>3, <1>5, <1>6, <1>7 DEF Current, Newest
  <2>7. WipeAlone'
    BY <2>1, <2>2, <2>3, <1>5 DEF WipeAlone, Erasing
  <2> QED
    BY <2>4, <2>6, <2>7
<1>12. Kept'
  BY <1>1, <1>7 DEF Kept
<1> QED
  BY <1>8, <1>9, <1>10, <1>11, <1>12 DEF VaultInv

(* The blob is opened with the key it was sealed with. *)
LEMMA OpenBlobStep == ASSUME VaultInv, NEW h \in DOMAIN loads, OpenBlob(h) PROVE VaultInv'
<1> DEFINE v == loads[h].vault
           calls == loads[h].calls
           x == Ended(v, "open", sealed.of \cup {calls[i] : i \in DOMAIN calls})
<1>1. /\ VaultTypeOK /\ CachedOpen /\ Kept /\ (orderly => OnlyLast /\ Current /\ WipeAlone)
      /\ \A c \in Updates : Placed(c)
  BY DEF VaultInv
<1>2. /\ loads \in Seq(Loads) /\ cached \in [Vaults -> 0..Len(loads)]
      /\ hydrating \in [Vaults -> 0..Len(loads)] /\ orderly \in BOOLEAN
      /\ call \in [Updates -> Calls] /\ MaxKeys \in Nat /\ chain \in [Vaults -> Seq(Updates)]
      /\ sealed.of \subseteq Updates
  BY <1>1, VaultTypes, VaultAssumption
<1>3. loads[h].stage = "blob" /\ Loading(h) /\ loads[h] \in Loads
      /\ UNCHANGED <<secured, sealed, minted, hydrating, wiping, orderly>>
  BY <1>2, LoadsLemma DEF OpenBlob, Loading
<1>4. CASE ~(sealed.key \in {0, loads[h].key})
  BY <1>3, <1>4, RejectedStep DEF OpenBlob
<1>5. CASE sealed.key \in {0, loads[h].key}
  <2>1. v \in Vaults /\ calls \in Seq(Updates) /\ Range(calls) \subseteq Updates
        /\ Range(calls) = {calls[i] : i \in DOMAIN calls}
    BY <1>3, RangeLemma DEF Loads, Range
  <2>2. /\ loads' = [loads EXCEPT ![h] = x]
        /\ cached' = [cached EXCEPT ![v] = h]
        /\ chain' = [chain EXCEPT ![v] = @ \o calls]
        /\ call' = [c \in Updates |->
                      IF call[c].stage = "opening" /\ call[c].load = h
                      THEN [call[c] EXCEPT !.stage = "queued"] ELSE call[c]]
    BY <1>5 DEF OpenBlob
  <2>3. x \in Loads /\ x.stage = "open" /\ x.vault = v /\ x.doc = sealed.of \cup Range(calls)
    <3>1. sealed.of \cup Range(calls) \in SUBSET Updates
      BY <1>2, <2>1
    <3> QED
      BY <1>2, <2>1, <3>1, EndedLemma
  <2>4. chain[v] \in Seq(Updates) /\ chain'[v] = chain[v] \o calls
        /\ chain' \in [Vaults -> Seq(Updates)] /\ Range(chain'[v]) = Range(chain[v]) \cup Range(calls)
        /\ (chain[v] # << >> => chain'[v] # << >> /\ Head(chain'[v]) = Head(chain[v]))
        /\ \A w \in Vaults \ {v} : chain'[w] = chain[w]
    <3>1. chain[v] \in Seq(Updates) /\ chain'[v] = chain[v] \o calls
      BY <1>2, <2>1, <2>2
    <3>2. chain[v] \o calls \in Seq(Updates) /\ Range(chain[v] \o calls) = Range(chain[v]) \cup Range(calls)
      BY <2>1, <3>1, ConcatLemma
    <3>3. chain[v] # << >> => chain[v] \o calls # << >> /\ Head(chain[v] \o calls) = Head(chain[v])
      <4> HIDE DEF v, calls
      <4>1. chain[v] # << >> => Len(chain[v]) \in Nat \ {0}
        BY <3>1, EmptySeq, LenProperties
      <4> QED
        BY <2>1, <3>1, <4>1, ConcatProperties
    <3> QED
      BY <1>2, <2>1, <2>2, <3>1, <3>2, <3>3
  <2> HIDE DEF x, v, calls
  <2>5. /\ loads' \in Seq(Loads) /\ Len(loads') = Len(loads) /\ DOMAIN loads' = DOMAIN loads
        /\ loads'[h] = x /\ \A i \in DOMAIN loads \ {h} : loads'[i] = loads[i]
        /\ Len(loads) \in Nat /\ DOMAIN loads = 1..Len(loads)
    BY <1>2, <2>2, <2>3, LoadsLemma
  <2>6. loads[h].stage # "open"
    BY <1>3
  <2>7. call' \in [Updates -> Calls] /\ \A c \in Updates :
          \/ call'[c] = call[c] /\ (call[c].stage = "opening" => call[c].load # h)
          \/ call'[c] = [call[c] EXCEPT !.stage = "queued"] /\ call[c].stage = "opening" /\ call[c].load = h
    <3>1. ASSUME NEW z \in Calls PROVE [z EXCEPT !.stage = "queued"] \in Calls
      BY DEF Calls, Progress
    <3> QED
      BY <1>2, <2>2, <3>1
  <2>8. cached' \in [Vaults -> 0..Len(loads)]
    BY <1>2, <2>1, <2>2, <2>5
  <2>9. VaultTypeOK'
    BY <1>1, <1>3, <2>4, <2>5, <2>7, <2>8, VaultTypes DEF VaultTypeOK, Loads, Calls, Progress
  <2>10. ASSUME NEW c \in Updates PROVE Placed(c)'
    <3>1. CASE call'[c] = call[c] /\ (call[c].stage = "opening" => call[c].load # h)
      <4>1. \A w \in Vaults : Range(chain[w]) \subseteq Range(chain'[w]) /\ (AtHead(c, w) => AtHead(c, w)')
        BY <2>4 DEF AtHead
      <4> QED
        BY <1>1, <2>5, <2>6, <3>1, <4>1 DEF Placed
    <3>2. CASE call'[c] = [call[c] EXCEPT !.stage = "queued"] /\ call[c].stage = "opening" /\ call[c].load = h
      <4>1. c \in Range(calls)
        BY <1>1, <3>2 DEF Placed, calls
      <4>2. call'[c].stage = "queued" /\ call'[c].load = h
        BY <1>2, <3>2 DEF Calls
      <4> QED
        BY <2>1, <2>3, <2>4, <2>5, <4>1, <4>2 DEF Placed
    <3> QED
      BY <2>7, <3>1, <3>2
  <2>11. CachedOpen'
    BY <1>1, <1>2, <2>1, <2>2, <2>3, <2>5, <2>6 DEF CachedOpen
  <2>12. ASSUME orderly PROVE (OnlyLast /\ Current /\ WipeAlone)'
    <3>1. OnlyLast /\ Current /\ WipeAlone /\ h = Newest /\ Newest # 0
      BY <1>1, <1>3, <2>5, <2>12 DEF OnlyLast, Newest
    <3>2. \A i \in DOMAIN loads : ~Loading(i)'
      BY <2>3, <2>5, <3>1 DEF Loading, OnlyLast
    <3>3. \A c \in Updates : Working(c)' => Working(c) /\ call'[c].load = call[c].load
      BY <1>2, <2>7 DEF Working, Calls
    <3>4. OnlyLast'
      BY <3>1, <3>2, <3>3, <1>2, <1>3, <2>1, <2>2, <2>3, <2>4, <2>5 DEF OnlyLast, Newest, v
    <3>5. \A c \in Updates : call[c].stage \notin {"queued", "minting", "storing"}
      BY <1>1, <2>6, <3>1 DEF Placed, OnlyLast, Working
    <3>6. \A c \in Updates : call'[c].stage \notin {"minting", "storing"}
      BY <1>2, <2>7, <3>5 DEF Calls
    <3>7. Current'
      BY <1>3, <2>3, <2>5, <3>1, <3>6 DEF Current, Newest
    <3>8. \A w \in Vaults : wiping[w] = NoWipe
      BY <1>3, <3>1 DEF WipeAlone
    <3>9. WipeAlone'
      BY <1>3, <3>8 DEF WipeAlone, Erasing, NoWipe
    <3> QED
      BY <3>4, <3>7, <3>9
  <2>13. Kept'
    <3>1. \A c \in Updates : call'[c].stage = "done" => call[c].stage = "done"
      BY <1>2, <2>7 DEF Calls
    <3> QED
      BY <1>1, <1>3, <3>1 DEF Kept
  <2> QED
    BY <2>9, <2>10, <2>11, <2>12, <2>13, <1>3 DEF VaultInv
<1> QED
  BY <1>4, <1>5

(* A hydration begins, with the call that needed it or with none. *)
LEMMA HydrateStep ==
  ASSUME VaultInv, NEW v \in Vaults, Hydrate(v), NEW calls \in Seq(Updates),
         loads' = Append(loads, NewLoad(v, calls)),
         call' \in [Updates -> Calls],
         \A c \in Updates : \/ call'[c] = call[c]
                            \/ /\ call'[c].stage = "opening" /\ call'[c].load = Len(loads) + 1
                               /\ c \in Range(calls),
         UNCHANGED <<secured, sealed, minted, cached, chain, wiping>>
  PROVE  VaultInv'
<1>1. /\ VaultTypeOK /\ CachedOpen /\ Kept /\ (orderly => OnlyLast /\ Current /\ WipeAlone)
      /\ \A c \in Updates : Placed(c)
  BY DEF VaultInv
<1>2. /\ loads \in Seq(Loads) /\ cached \in [Vaults -> 0..Len(loads)]
      /\ hydrating \in [Vaults -> 0..Len(loads)] /\ orderly \in BOOLEAN
      /\ call \in [Updates -> Calls] /\ MaxKeys \in Nat /\ chain \in [Vaults -> Seq(Updates)]
  BY <1>1, VaultTypes, VaultAssumption
<1> DEFINE x == NewLoad(v, calls)
<1>3. x \in Loads /\ x.vault = v /\ x.stage = "key" /\ x.calls = calls
  BY <1>2 DEF NewLoad, Loads
<1> HIDE DEF x
<1>4. /\ loads' \in Seq(Loads) /\ Len(loads') = Len(loads) + 1
      /\ DOMAIN loads' = DOMAIN loads \cup {Len(loads) + 1}
      /\ loads'[Len(loads) + 1] = x /\ \A i \in DOMAIN loads : loads'[i] = loads[i]
      /\ Len(loads) \in Nat /\ DOMAIN loads = 1..Len(loads)
  BY <1>2, <1>3, LoadsLemma DEF x
<1>5. /\ cached[v] = 0 /\ hydrating[v] = 0
      /\ hydrating' = [hydrating EXCEPT ![v] = Len(loads) + 1]
      /\ orderly' = (orderly /\ Alone(v) /\ chain[v] = << >>)
  BY DEF Hydrate
<1>6. VaultTypeOK'
  <2>1. cached' \in [Vaults -> 0..Len(loads')] /\ hydrating' \in [Vaults -> 0..Len(loads')]
    BY <1>2, <1>4, <1>5
  <2>2. orderly' \in BOOLEAN
    BY <1>5
  <2> QED
    BY <1>1, <1>4, <2>1, <2>2, VaultTypes DEF VaultTypeOK, Loads, Calls, Progress
<1>7. ASSUME NEW c \in Updates PROVE Placed(c)'
  <2>1. CASE call'[c] = call[c]
    BY <1>1, <1>4, <2>1 DEF Placed, AtHead
  <2>2. CASE call'[c].stage = "opening" /\ call'[c].load = Len(loads) + 1 /\ c \in Range(calls)
    BY <1>3, <1>4, <2>2 DEF Placed
  <2> QED
    BY <2>1, <2>2
<1>8. CachedOpen'
  BY <1>1, <1>2, <1>4 DEF CachedOpen
<1>9. ASSUME orderly' PROVE (OnlyLast /\ Current /\ WipeAlone)' /\ orderly
  <2>1. orderly /\ Alone(v) /\ chain[v] = << >> /\ OnlyLast /\ Current /\ WipeAlone
    BY <1>1, <1>2, <1>5, <1>9
  <2>2. \A w \in Vaults : chain[w] = << >> /\ cached[w] = 0 /\ hydrating[w] = 0 /\ wiping[w] = NoWipe
    BY <1>5, <2>1 DEF Alone, NoWipes
  <2>3. \A c \in Updates : call[c].stage \notin {"opening", "queued", "minting", "storing"}
    BY <1>1, <2>1, <2>2, EmptyLemma DEF Placed, Alone
  <2>4. \A i \in DOMAIN loads : ~Loading(i)'
    BY <1>4, <2>1 DEF Alone, Loading
  <2>5. OnlyLast'
    BY <1>2, <1>3, <1>4, <1>5, <2>2, <2>3, <2>4 DEF OnlyLast, Newest, Working
  <2>6. Current'
    BY <1>3, <1>4, <2>3 DEF Current, Newest
  <2>7. WipeAlone'
    BY <2>2 DEF WipeAlone, Erasing, NoWipe
  <2> QED
    BY <2>1, <2>5, <2>6, <2>7
<1>10. Kept'
  BY <1>1, <1>9 DEF Kept
<1> QED
  BY <1>6, <1>7, <1>8, <1>9, <1>10 DEF VaultInv

LEMMA ReadStep == ASSUME VaultInv, NEW v \in Vaults, Read(v) PROVE VaultInv'
<1>1. call' = call /\ call \in [Updates -> Calls] /\ << >> \in Seq(Updates)
  BY VaultTypes, EmptySeq DEF VaultInv, Read
<1> QED
  BY <1>1, HydrateStep DEF Read

(* A call that has found where to wait. *)
LEMMA WaitingLemma ==
  ASSUME NEW x \in Calls, NEW stage \in {"opening", "queued"}, NEW h \in Nat
  PROVE  /\ [x EXCEPT !.stage = stage, !.load = h] \in Calls
         /\ [x EXCEPT !.stage = stage, !.load = h].stage = stage
         /\ [x EXCEPT !.stage = stage, !.load = h].load = h
BY DEF Calls, Progress

LEMMA MutateFirstStep ==
  ASSUME VaultInv, NEW c \in Updates, NEW v \in Vaults, MutateFirst(c, v) PROVE VaultInv'
<1>1. <<c>> \in Seq(Updates) /\ c \in Range(<<c>>)
  BY DEF Range
<1>2. call \in [Updates -> Calls] /\ Len(loads) + 1 \in Nat
  BY VaultTypes, LenProperties DEF VaultInv
<1>3. call' = [call EXCEPT ![c].stage = "opening", ![c].load = Len(loads) + 1]
  BY DEF MutateFirst
<1> DEFINE y == [call[c] EXCEPT !.stage = "opening", !.load = Len(loads) + 1]
<1>4. call' = [call EXCEPT ![c] = y]
  BY <1>3
<1>5. y \in Calls /\ y.stage = "opening" /\ y.load = Len(loads) + 1
  <2> DEFINE n == Len(loads) + 1
  <2>1. call[c] \in Calls /\ n \in Nat
    BY <1>2
  <2>2. \A k \in Nat :
          /\ [call[c] EXCEPT !.stage = "opening", !.load = k] \in Calls
          /\ [call[c] EXCEPT !.stage = "opening", !.load = k].stage = "opening"
          /\ [call[c] EXCEPT !.stage = "opening", !.load = k].load = k
    BY <2>1, WaitingLemma
  <2> HIDE DEF n
  <2>3. /\ [call[c] EXCEPT !.stage = "opening", !.load = n] \in Calls
        /\ [call[c] EXCEPT !.stage = "opening", !.load = n].stage = "opening"
        /\ [call[c] EXCEPT !.stage = "opening", !.load = n].load = n
    BY <2>1, <2>2
  <2> QED
    BY <2>3 DEF n
<1> HIDE DEF y
<1>6. /\ call' \in [Updates -> Calls]
      /\ \A d \in Updates : \/ call'[d] = call[d]
                            \/ /\ call'[d].stage = "opening" /\ call'[d].load = Len(loads) + 1
                               /\ d \in Range(<<c>>)
  BY <1>1, <1>2, <1>4, <1>5
<1> QED
  BY <1>1, <1>6, HydrateStep DEF MutateFirst

(* A call that finds the document in memory. *)
LEMMA MutateCachedStep ==
  ASSUME VaultInv, NEW c \in Updates, NEW v \in Vaults, MutateCached(c, v) PROVE VaultInv'
<1> DEFINE h == cached[v]
           x == [loads[h] EXCEPT !.doc = @ \cup {c}]
           y == [call[c] EXCEPT !.stage = "queued", !.load = h]
<1>1. /\ VaultTypeOK /\ CachedOpen /\ Kept /\ (orderly => OnlyLast /\ Current /\ WipeAlone)
      /\ \A d \in Updates : Placed(d)
  BY DEF VaultInv
<1>2. /\ loads \in Seq(Loads) /\ cached \in [Vaults -> 0..Len(loads)]
      /\ hydrating \in [Vaults -> 0..Len(loads)] /\ orderly \in BOOLEAN
      /\ call \in [Updates -> Calls] /\ MaxKeys \in Nat /\ chain \in [Vaults -> Seq(Updates)]
      /\ Len(loads) \in Nat /\ DOMAIN loads = 1..Len(loads)
  BY <1>1, VaultTypes, VaultAssumption, LoadsLemma
<1>3. /\ call[c].stage = "new" /\ h # 0
      /\ loads' = [loads EXCEPT ![h] = x] /\ chain' = [chain EXCEPT ![v] = Append(@, c)]
      /\ call' = [call EXCEPT ![c] = y] /\ orderly' = (orderly /\ NoWipes)
      /\ UNCHANGED <<secured, sealed, minted, cached, hydrating, wiping>>
  BY DEF MutateCached
<1>4. h \in DOMAIN loads /\ loads[h] \in Loads /\ loads[h].stage = "open"
  BY <1>1, <1>2, <1>3, LoadsLemma DEF CachedOpen
<1>5. x \in Loads /\ x.vault = loads[h].vault /\ x.stage = "open" /\ x.doc = loads[h].doc \cup {c}
      /\ x.calls = loads[h].calls
  BY <1>4 DEF Loads
<1>6. y \in Calls /\ y.stage = "queued" /\ y.load = h
  <2>1. call[c] \in Calls /\ h \in Nat
    BY <1>2, <1>4
  <2> HIDE DEF h
  <2> QED
    BY <2>1, WaitingLemma
<1> HIDE DEF x, y
<1>7. /\ loads' \in Seq(Loads) /\ Len(loads') = Len(loads) /\ DOMAIN loads' = DOMAIN loads
      /\ loads'[h] = x /\ \A i \in DOMAIN loads \ {h} : loads'[i] = loads[i]
  BY <1>2, <1>3, <1>4, <1>5, LoadsLemma
<1> HIDE DEF h
<1>8. call' \in [Updates -> Calls] /\ call'[c] = y /\ \A d \in Updates \ {c} : call'[d] = call[d]
  BY <1>2, <1>3, <1>6
<1>9. /\ chain' \in [Vaults -> Seq(Updates)] /\ Range(chain'[v]) = Range(chain[v]) \cup {c}
      /\ chain[v] # << >> => chain'[v] # << >> /\ Head(chain'[v]) = Head(chain[v])
      /\ \A w \in Vaults \ {v} : chain'[w] = chain[w]
  <2>1. chain[v] \in Seq(Updates) /\ chain'[v] = Append(chain[v], c)
    BY <1>2, <1>3
  <2>2. Append(chain[v], c) \in Seq(Updates) /\ Range(Append(chain[v], c)) = Range(chain[v]) \cup {c}
    BY <2>1, AppendLemma
  <2>3. chain[v] # << >> => Append(chain[v], c) # << >> /\ Head(Append(chain[v], c)) = Head(chain[v])
    <3>1. chain[v] # << >> => Len(chain[v]) \in Nat \ {0}
      BY <2>1, EmptySeq, LenProperties
    <3> QED
      BY <2>1, <3>1, AppendProperties
  <2> QED
    BY <1>2, <1>3, <2>1, <2>2, <2>3
<1>10. VaultTypeOK'
  BY <1>1, <1>2, <1>3, <1>7, <1>8, <1>9, VaultTypes DEF VaultTypeOK, Loads, Calls, Progress
<1>11. ASSUME NEW d \in Updates PROVE Placed(d)'
  <2>1. CASE d = c
    BY <1>4, <1>5, <1>6, <1>7, <1>8, <1>9, <2>1 DEF Placed
  <2>2. CASE d # c
    <3>1. \A w \in Vaults : Range(chain[w]) \subseteq Range(chain'[w]) /\ (AtHead(d, w) => AtHead(d, w)')
      BY <1>9 DEF AtHead
    <3>2. Placed(d) /\ call'[d] = call[d]
      BY <1>1, <1>8, <2>2
    <3>3. \A i \in DOMAIN loads : /\ loads'[i].calls = loads[i].calls /\ loads'[i].stage = loads[i].stage
                                 /\ loads[i].doc \subseteq loads'[i].doc
      BY <1>4, <1>5, <1>7
    <3> QED
      BY <1>7, <3>1, <3>2, <3>3 DEF Placed
  <2> QED
    BY <2>1, <2>2
<1>12. CachedOpen'
  BY <1>1, <1>2, <1>3, <1>5, <1>7 DEF CachedOpen
<1>13. ASSUME orderly' PROVE (OnlyLast /\ Current /\ WipeAlone)' /\ orderly
  <2>1. orderly /\ NoWipes /\ OnlyLast /\ Current /\ WipeAlone
    BY <1>1, <1>2, <1>3, <1>13
  <2>2. h = Newest
    BY <1>3, <2>1 DEF OnlyLast, h
  <2>3. \A i \in DOMAIN loads : Loading(i)' <=> Loading(i)
    BY <1>4, <1>5, <1>7 DEF Loading
  <2>4. \A d \in Updates : Working(d)' => call'[d].load = Newest
    BY <1>6, <1>8, <2>1, <2>2 DEF Working, OnlyLast
  <2>5. OnlyLast'
    <3>1. Newest' = Newest /\ (Newest # 0 => loads'[Newest].vault = loads[Newest].vault
                                        /\ loads'[Newest].stage = loads[Newest].stage) /\ Newest \in DOMAIN loads
      BY <1>4, <1>5, <1>7, <2>2 DEF Newest
    <3>2. Newest # 0 /\ loads[Newest].vault = v
      BY <1>3, <1>4, <2>1, <2>2, <1>2 DEF OnlyLast, h
    <3> QED
      BY <1>3, <1>7, <1>9, <2>1, <2>3, <2>4, <3>1, <3>2 DEF OnlyLast
  <2>6. Current'
    BY <1>3, <1>4, <1>5, <1>6, <1>7, <1>8, <2>1, <2>2 DEF Current, Newest
  <2>7. WipeAlone'
    BY <1>3, <2>1 DEF WipeAlone, NoWipes, NoWipe, Erasing
  <2> QED
    BY <2>1, <2>5, <2>6, <2>7
<1>14. Kept'
  BY <1>1, <1>3, <1>6, <1>8, <1>13 DEF Kept
<1> QED
  BY <1>10, <1>11, <1>12, <1>13, <1>14 DEF VaultInv

(* A call that finds a hydration under way, or one that has failed. *)
LEMMA MutateJoiningStep ==
  ASSUME VaultInv, NEW c \in Updates, NEW v \in Vaults, MutateJoining(c, v) PROVE VaultInv'
<1> DEFINE h == hydrating[v]
<1>1. /\ VaultTypeOK /\ CachedOpen /\ Kept /\ (orderly => OnlyLast /\ Current /\ WipeAlone)
      /\ \A d \in Updates : Placed(d)
  BY DEF VaultInv
<1>2. /\ loads \in Seq(Loads) /\ cached \in [Vaults -> 0..Len(loads)]
      /\ hydrating \in [Vaults -> 0..Len(loads)] /\ orderly \in BOOLEAN
      /\ call \in [Updates -> Calls] /\ MaxKeys \in Nat /\ chain \in [Vaults -> Seq(Updates)]
      /\ Len(loads) \in Nat /\ DOMAIN loads = 1..Len(loads)
  BY <1>1, VaultTypes, VaultAssumption, LoadsLemma
<1>3. /\ call[c].stage = "new" /\ cached[v] = 0 /\ h # 0
      /\ UNCHANGED <<secured, sealed, minted, cached, hydrating, chain, wiping, orderly>>
  BY DEF MutateJoining
<1>4. h \in DOMAIN loads /\ loads[h] \in Loads /\ h \in Nat
  BY <1>2, <1>3, LoadsLemma
<1>5. CASE loads[h].stage = "failed"
  <2>1. call' = [call EXCEPT ![c] = Call("failed")] /\ UNCHANGED loads
    BY <1>5 DEF MutateJoining
  <2>2. /\ call' \in [Updates -> Calls] /\ call'[c].stage = "failed"
        /\ \A d \in Updates \ {c} : call'[d] = call[d]
    BY <1>2, <2>1 DEF Call, Calls, Progress
  <2>3. VaultTypeOK'
    BY <1>1, <1>3, <2>1, <2>2, VaultTypes DEF VaultTypeOK, Calls, Progress
  <2>4. ASSUME NEW d \in Updates PROVE Placed(d)'
    BY <1>1, <1>3, <2>1, <2>2 DEF Placed, AtHead
  <2>5. CachedOpen'
    BY <1>1, <1>3, <2>1 DEF CachedOpen
  <2>6. ASSUME orderly PROVE (OnlyLast /\ Current /\ WipeAlone)'
    BY <1>1, <1>3, <2>1, <2>2, <2>6 DEF OnlyLast, Current, WipeAlone, Newest, Working, Loading, Erasing
  <2>7. Kept'
    BY <1>1, <1>3, <2>2 DEF Kept
  <2> QED
    BY <1>3, <2>3, <2>4, <2>5, <2>6, <2>7 DEF VaultInv
<1>6. CASE loads[h].stage # "failed"
  <2> DEFINE y == [call[c] EXCEPT !.stage = "opening", !.load = h]
             x == [loads[h] EXCEPT !.calls = Append(@, c)]
  <2>1. call' = [call EXCEPT ![c] = y] /\ loads' = [loads EXCEPT ![h] = x]
    BY <1>6 DEF MutateJoining
  <2>2. y \in Calls /\ y.stage = "opening" /\ y.load = h
    <3>1. call[c] \in Calls
      BY <1>2
    <3> HIDE DEF h
    <3> QED
      BY <1>4, <3>1, WaitingLemma
  <2>3. /\ x \in Loads /\ x.vault = loads[h].vault /\ x.stage = loads[h].stage /\ x.doc = loads[h].doc
        /\ Range(x.calls) = Range(loads[h].calls) \cup {c}
    <3>1. loads[h].calls \in Seq(Updates)
      BY <1>4 DEF Loads
    <3>2. /\ Append(loads[h].calls, c) \in Seq(Updates)
          /\ Range(Append(loads[h].calls, c)) = Range(loads[h].calls) \cup {c}
      BY <3>1, AppendLemma
    <3>3. x.calls = Append(loads[h].calls, c)
      BY <1>4 DEF Loads
    <3> QED
      BY <1>4, <3>2, <3>3 DEF Loads
  <2> HIDE DEF x, y
  <2>4. /\ loads' \in Seq(Loads) /\ Len(loads') = Len(loads) /\ DOMAIN loads' = DOMAIN loads
        /\ loads'[h] = x /\ \A i \in DOMAIN loads \ {h} : loads'[i] = loads[i]
    BY <1>2, <1>4, <2>1, <2>3, LoadsLemma
  <2> HIDE DEF h
  <2>5. call' \in [Updates -> Calls] /\ call'[c] = y /\ \A d \in Updates \ {c} : call'[d] = call[d]
    BY <1>2, <2>1, <2>2
  <2>6. \A i \in DOMAIN loads :
          /\ loads'[i].vault = loads[i].vault /\ loads'[i].stage = loads[i].stage
          /\ loads'[i].doc = loads[i].doc /\ Range(loads[i].calls) \subseteq Range(loads'[i].calls)
    BY <1>4, <2>3, <2>4
  <2>7. VaultTypeOK'
    BY <1>1, <1>3, <2>4, <2>5, VaultTypes DEF VaultTypeOK, Loads, Calls, Progress
  <2>8. ASSUME NEW d \in Updates PROVE Placed(d)'
    <3>1. CASE d = c
      BY <1>4, <2>2, <2>3, <2>4, <2>5, <3>1 DEF Placed
    <3>2. CASE d # c
      <4>1. Placed(d) /\ call'[d] = call[d]
        BY <1>1, <2>5, <3>2
      <4> QED
        BY <1>3, <2>4, <2>6, <4>1 DEF Placed, AtHead
    <3> QED
      BY <3>1, <3>2
  <2>9. CachedOpen'
    <3>1. ASSUME NEW w \in Vaults, cached[w] # 0
          PROVE  cached[w] \in DOMAIN loads /\ loads[cached[w]].stage = "open"
      BY <1>1, <1>2, <3>1 DEF CachedOpen
    <3> QED
      BY <1>3, <2>6, <3>1 DEF CachedOpen
  <2>10. ASSUME orderly PROVE (OnlyLast /\ Current /\ WipeAlone)'
    <3>1. OnlyLast /\ Current /\ WipeAlone /\ h = Newest /\ Newest # 0 /\ Newest' = Newest /\ Newest \in DOMAIN loads
      BY <1>1, <1>3, <1>4, <2>4, <2>10 DEF OnlyLast, h, Newest
    <3>2. \A i \in DOMAIN loads : Loading(i)' <=> Loading(i)
      BY <2>6 DEF Loading
    <3>3. Loading(h)
      <4>1. loads[h].stage # "open"
        BY <1>3, <3>1 DEF OnlyLast, h
      <4> QED
        BY <1>4, <1>6, <4>1 DEF Loading, Loads
    <3>4. \A d \in Updates : Working(d)' => call'[d].load = Newest
      BY <2>2, <2>5, <3>1 DEF Working, OnlyLast
    <3>5. OnlyLast'
      BY <1>3, <2>4, <2>6, <3>1, <3>2, <3>4 DEF OnlyLast
    <3>6. Current'
      BY <1>3, <2>2, <2>5, <2>6, <3>1 DEF Current
    <3>7. \A w \in Vaults : wiping[w] = NoWipe
      BY <1>4, <3>1, <3>3 DEF WipeAlone
    <3>8. WipeAlone'
      BY <1>3, <3>7 DEF WipeAlone, NoWipe, Erasing
    <3> QED
      BY <3>5, <3>6, <3>8
  <2>11. Kept'
    BY <1>1, <1>3, <2>2, <2>5 DEF Kept
  <2> QED
    BY <1>3, <2>7, <2>8, <2>9, <2>10, <2>11 DEF VaultInv
<1> QED
  BY <1>5, <1>6

LEMMA LoadFailsStep == ASSUME VaultInv, NEW h \in DOMAIN loads, LoadFails(h) PROVE VaultInv'
BY RejectedStep DEF LoadFails

(* What every step that leaves the documents alone is shown from. *)
LEMMA SameDocsLemma ==
  ASSUME VaultInv
  PROVE  /\ VaultTypeOK /\ CachedOpen /\ Kept /\ (orderly => OnlyLast /\ Current /\ WipeAlone)
         /\ \A c \in Updates : Placed(c)
         /\ loads \in Seq(Loads) /\ cached \in [Vaults -> 0..Len(loads)]
         /\ hydrating \in [Vaults -> 0..Len(loads)] /\ orderly \in BOOLEAN
         /\ call \in [Updates -> Calls] /\ MaxKeys \in Nat /\ chain \in [Vaults -> Seq(Updates)]
         /\ wiping \in [Vaults -> Wipes]
         /\ Len(loads) \in Nat /\ DOMAIN loads = 1..Len(loads)
         /\ secured \in 0..MaxKeys /\ minted \in 0..MaxKeys
         /\ sealed \in [key : 0..MaxKeys, of : SUBSET Updates]
         /\ \A h \in DOMAIN loads : loads[h] \in Loads
BY VaultTypes, VaultAssumption, LoadsLemma DEF VaultInv

(* The call at the head of a chain is the only one that can be persisting  *)
(* when one document is in use, and goes on or begins to.                  *)
LEMMA HeadStep ==
  ASSUME VaultInv, NEW c \in Updates, NEW v \in Vaults, AtHead(c, v), NEW y \in Calls,
         call[c].stage \in {"queued", "minting"}, y.stage \in {"minting", "storing"},
         y.load = call[c].load, call' = [call EXCEPT ![c] = y],
         secured' \in 0..MaxKeys, minted' \in 0..MaxKeys,
         y.stage = "minting" => secured' = secured /\ y.key # 0 /\ (orderly => sealed.key = 0),
         y.stage = "storing" => /\ (orderly => y.key # 0) /\ y.key = secured' /\ y.image = loads[y.load].doc
                                /\ secured' = secured \/ call[c].stage = "minting",
         UNCHANGED <<sealed, loads, cached, hydrating, chain, wiping, orderly>>
  PROVE  VaultInv'
<1> USE SameDocsLemma
<1>1. call' \in [Updates -> Calls] /\ call'[c] = y /\ \A d \in Updates \ {c} : call'[d] = call[d]
  OBVIOUS
<1>2. VaultTypeOK'
  BY <1>1, VaultTypes DEF VaultTypeOK, Calls, Progress
<1>3. c \in Range(chain[v])
  <2>1. chain[v] \in Seq(Updates) /\ chain[v] # << >> /\ Head(chain[v]) = c
    BY DEF AtHead
  <2> QED
    BY <2>1, TailLemma
<1>4. ASSUME NEW d \in Updates PROVE Placed(d)'
  <2>1. CASE d = c
    <3>1. call[c].load \in DOMAIN loads /\ loads[call[c].load].stage = "open" /\ c \in loads[call[c].load].doc
      BY DEF Placed
    <3>2. AtHead(c, v)'
      BY DEF AtHead
    <3> QED
      BY <1>1, <1>3, <2>1, <3>1, <3>2 DEF Placed
  <2>2. CASE d # c
    <3>1. Placed(d) /\ call'[d] = call[d]
      BY <1>1, <2>2
    <3> QED
      BY <3>1 DEF Placed, AtHead
  <2> QED
    BY <2>1, <2>2
<1>5. CachedOpen'
  BY DEF CachedOpen
<1>6. ASSUME orderly PROVE (OnlyLast /\ Current /\ WipeAlone /\ Kept)'
  <2>1. OnlyLast /\ Current /\ WipeAlone /\ Kept /\ Newest' = Newest
    BY <1>6 DEF Newest
  <2>2. Working(c) /\ \A d \in Updates : Working(d)' => Working(d) /\ call'[d].load = call[d].load
    BY <1>1 DEF Working
  <2>3. \A i \in DOMAIN loads : Loading(i)' <=> Loading(i)
    BY DEF Loading
  <2>4. OnlyLast'
    BY <2>1, <2>2, <2>3 DEF OnlyLast
  <2>5. /\ y.load = Newest /\ Newest # 0 /\ loads[Newest].stage = "open"
        /\ c \in loads[Newest].doc /\ Newest \in DOMAIN loads
    <3>1. call[c].load \in DOMAIN loads /\ loads[call[c].load].stage = "open" /\ c \in loads[call[c].load].doc
      BY DEF Placed
    <3>2. call[c].load = Newest
      BY <2>1, <2>2 DEF OnlyLast
    <3>3. Newest # 0
      BY <3>1, <3>2
    <3> QED
      BY <3>1, <3>2, <3>3
  <2>6. ASSUME NEW d \in Updates, d # c PROVE call[d].stage \notin {"minting", "storing"}
    <3> SUFFICES ASSUME call[d].stage \in {"minting", "storing"} PROVE FALSE
      BY <2>6
    <3>1. PICK w \in Vaults : AtHead(d, w)
      BY DEF Placed
    <3>2. w # v
      BY <2>6, <3>1 DEF AtHead
    <3> QED
      BY <2>1, <3>1, <3>2 DEF AtHead, OnlyLast
  <2>7. secured' # secured => sealed.key = 0
    BY <2>1 DEF Current
  <2>8. sealed.of \subseteq loads[Newest].doc
    BY <2>1, <2>5 DEF Current
  <2>9. Current'
    BY <1>1, <1>6, <2>1, <2>5, <2>6, <2>8 DEF Current
  <2>10. WipeAlone'
    BY <1>1, <2>1, <2>2, <2>3 DEF WipeAlone, Erasing
  <2>11. Kept'
    BY <1>1, <1>6, <2>1, <2>7 DEF Kept
  <2> QED
    BY <2>4, <2>9, <2>10, <2>11
<1> QED
  BY <1>2, <1>4, <1>5, <1>6 DEF VaultInv, Kept

LEMMA SealStep == ASSUME VaultInv, NEW c \in Updates, NEW v \in Vaults, Seal(c, v) PROVE VaultInv'
<1> DEFINE doc == loads[call[c].load].doc
           y == [call[c] EXCEPT !.stage = "storing", !.key = secured, !.image = doc]
<1>1. /\ AtHead(c, v) /\ call[c].stage = "queued" /\ secured # 0 /\ call' = [call EXCEPT ![c] = y]
      /\ UNCHANGED <<secured, sealed, minted, loads, cached, hydrating, chain, wiping, orderly>>
  BY DEF Seal
<1>2. call[c] \in Calls /\ doc \in SUBSET Updates /\ secured \in 0..MaxKeys /\ minted \in 0..MaxKeys
  BY <1>1, SameDocsLemma DEF Placed, Loads
<1> HIDE DEF doc
<1>3. y \in Calls /\ y.stage = "storing" /\ y.key = secured /\ y.image = doc /\ y.load = call[c].load
  BY <1>2 DEF Calls, Progress
<1> HIDE DEF y
<1> QED
  BY <1>1, <1>2, <1>3, HeadStep DEF doc

LEMMA MintAgainStep ==
  ASSUME VaultInv, NEW c \in Updates, NEW v \in Vaults, MintAgain(c, v) PROVE VaultInv'
<1> DEFINE n == minted + 1
           y == [call[c] EXCEPT !.stage = "minting", !.key = n]
<1>1. /\ AtHead(c, v) /\ call[c].stage = "queued" /\ secured = 0 /\ minted < MaxKeys /\ minted' = n
      /\ call' = [call EXCEPT ![c] = y]
      /\ UNCHANGED <<secured, sealed, loads, cached, hydrating, chain, wiping, orderly>>
  BY DEF MintAgain
<1>2. call[c] \in Calls /\ n \in 0..MaxKeys /\ n # 0 /\ secured \in 0..MaxKeys
  BY <1>1, SameDocsLemma
<1> HIDE DEF n
<1>3. y \in Calls /\ y.stage = "minting" /\ y.key = n /\ y.load = call[c].load
  BY <1>2 DEF Calls, Progress
<1>4. orderly => sealed.key = 0
  BY <1>1, SameDocsLemma DEF Kept
<1> HIDE DEF y
<1> QED
  BY <1>1, <1>2, <1>3, <1>4, HeadStep

LEMMA SealAnewStep ==
  ASSUME VaultInv, NEW c \in Updates, NEW v \in Vaults, SealAnew(c, v) PROVE VaultInv'
<1> DEFINE doc == loads[call[c].load].doc
           y == [call[c] EXCEPT !.stage = "storing", !.image = doc]
<1>1. /\ AtHead(c, v) /\ call[c].stage = "minting" /\ secured' = call[c].key
      /\ call' = [call EXCEPT ![c] = y]
      /\ UNCHANGED <<sealed, minted, loads, cached, hydrating, chain, wiping, orderly>>
  BY DEF SealAnew
<1>2. call[c] \in Calls /\ doc \in SUBSET Updates /\ minted \in 0..MaxKeys
  BY <1>1, SameDocsLemma DEF Placed, Loads
<1> HIDE DEF doc
<1>3. y \in Calls /\ y.stage = "storing" /\ y.key = call[c].key /\ y.image = doc /\ y.load = call[c].load
      /\ call[c].key \in 0..MaxKeys
  BY <1>2 DEF Calls, Progress
<1>4. orderly => call[c].key # 0
  BY SameDocsLemma, <1>1 DEF Current
<1> HIDE DEF y
<1> QED
  BY <1>1, <1>2, <1>3, <1>4, HeadStep DEF doc

(* The head of a chain is done, or has failed. *)
LEMMA NextInChainStep ==
  ASSUME VaultInv, NEW c \in Updates, NEW v \in Vaults, AtHead(c, v),
         NEW stage \in {"done", "failed"},
         call' = [call EXCEPT ![c] = Call(stage)],
         chain' = [chain EXCEPT ![v] = Tail(@)],
         sealed' \in [key : 0..MaxKeys, of : SUBSET Updates],
         sealed' # sealed \/ stage = "done" =>
            call[c].stage = "storing" /\ sealed' = [key |-> call[c].key, of |-> call[c].image],
         UNCHANGED <<secured, minted, loads, cached, hydrating, wiping, orderly>>
  PROVE  VaultInv'
<1> USE SameDocsLemma
<1>1. /\ call' \in [Updates -> Calls] /\ call'[c].stage = stage
      /\ \A d \in Updates \ {c} : call'[d] = call[d]
  <2>1. Call(stage) \in Calls /\ Call(stage).stage = stage
    BY DEF Call, Calls, Progress
  <2> QED
    BY <2>1
<1>2. /\ chain' \in [Vaults -> Seq(Updates)] /\ chain[v] # << >>
      /\ Range(chain[v]) = Range(chain'[v]) \cup {c}
      /\ \A w \in Vaults \ {v} : chain'[w] = chain[w]
  <2>1. chain[v] \in Seq(Updates) /\ chain[v] # << >> /\ Head(chain[v]) = c /\ chain'[v] = Tail(chain[v])
    BY DEF AtHead
  <2>2. Tail(chain[v]) \in Seq(Updates) /\ Range(chain[v]) = Range(Tail(chain[v])) \cup {Head(chain[v])}
    BY <2>1, TailLemma
  <2> QED
    BY <2>1, <2>2
<1>3. VaultTypeOK'
  BY <1>1, <1>2, VaultTypes DEF VaultTypeOK, Calls, Progress
<1>4. ASSUME NEW d \in Updates PROVE Placed(d)'
  <2>1. CASE d = c
    BY <1>1, <2>1 DEF Placed
  <2>2. CASE d # c
    <3>1. Placed(d) /\ call'[d] = call[d]
      BY <1>1, <2>2
    <3>2. \A w \in Vaults : (d \in Range(chain[w]) => d \in Range(chain'[w])) /\ (AtHead(d, w) => AtHead(d, w)')
      BY <1>2, <2>2 DEF AtHead
    <3> QED
      BY <3>1, <3>2 DEF Placed
  <2> QED
    BY <2>1, <2>2
<1>5. CachedOpen'
  BY DEF CachedOpen
<1>6. ASSUME orderly PROVE (OnlyLast /\ Current /\ WipeAlone /\ Kept)'
  <2>1. OnlyLast /\ Current /\ WipeAlone /\ Kept /\ Newest' = Newest
    BY <1>6 DEF Newest
  <2>2. \A d \in Updates : Working(d)' => Working(d) /\ call'[d] = call[d] /\ d # c
    BY <1>1 DEF Working
  <2>3. \A i \in DOMAIN loads : Loading(i)' <=> Loading(i)
    BY DEF Loading
  <2>4. OnlyLast'
    <3>1. Newest # 0 /\ loads[Newest].vault = v
      BY <1>2, <2>1 DEF OnlyLast
    <3>2. \A w \in Vaults : (Newest = 0 \/ loads[Newest].vault # w) => w # v
      BY <3>1
    <3> QED
      BY <1>2, <2>1, <2>2, <2>3, <3>2 DEF OnlyLast
  <2>5. CASE UNCHANGED sealed /\ stage = "failed"
    <3>1. Current'
      BY <1>6, <2>1, <2>2, <2>5 DEF Current, Working
    <3>2. WipeAlone'
      BY <2>1, <2>2, <2>3, <2>5 DEF WipeAlone, Erasing, Working
    <3>3. Kept'
      BY <1>1, <1>6, <2>1, <2>5 DEF Kept
    <3> QED
      BY <2>4, <3>1, <3>2, <3>3
  <2>6. CASE sealed' # sealed \/ stage = "done"
    <3>1. call[c].stage = "storing" /\ sealed' = [key |-> call[c].key, of |-> call[c].image]
      BY <2>6
    <3>2. /\ call[c].key # 0 /\ call[c].key = secured /\ c \in call[c].image
          /\ sealed.of \subseteq call[c].image /\ call[c].image \subseteq loads[Newest].doc
      BY <2>1, <3>1 DEF Current
    <3>3. sealed'.key = secured /\ sealed'.key # 0 /\ sealed'.of = call[c].image
      BY <3>1, <3>2
    <3>4. ASSUME NEW d \in Updates, d # c PROVE call[d].stage \notin {"minting", "storing"}
      <4> SUFFICES ASSUME call[d].stage \in {"minting", "storing"} PROVE FALSE
        BY <3>4
      <4>1. PICK w \in Vaults : AtHead(d, w)
        BY DEF Placed
      <4>2. w # v
        BY <3>4, <4>1 DEF AtHead
      <4> QED
        BY <2>1, <4>1, <4>2 DEF AtHead, OnlyLast
    <3>5. Newest # 0 /\ loads[Newest].stage = "open"
      <4>1. call[c].load = Newest
        BY <2>1, <3>1 DEF OnlyLast, Working
      <4>2. call[c].load \in DOMAIN loads /\ loads[call[c].load].stage = "open"
        BY <3>1 DEF Placed
      <4> QED
        BY <4>1, <4>2
    <3>6. Current'
      BY <1>1, <2>1, <3>2, <3>3, <3>4, <3>5 DEF Current
    <3>7. WipeAlone'
      BY <2>1, <2>2, <2>3, <3>1 DEF WipeAlone, Erasing, Working
    <3>8. Kept'
      BY <1>1, <1>6, <2>1, <3>2, <3>3 DEF Kept
    <3> QED
      BY <2>4, <3>6, <3>7, <3>8
  <2> QED
    BY <2>5, <2>6
<1> QED
  BY <1>3, <1>4, <1>5, <1>6 DEF VaultInv, Kept

LEMMA StoreStep == ASSUME VaultInv, NEW c \in Updates, NEW v \in Vaults, Store(c, v) PROVE VaultInv'
<1>1. call[c] \in Calls
  BY SameDocsLemma
<1>2. sealed' = [key |-> call[c].key, of |-> call[c].image] /\ sealed' \in [key : 0..MaxKeys, of : SUBSET Updates]
  BY <1>1 DEF Store, Calls
<1> QED
  BY <1>2, NextInChainStep DEF Store

LEMMA PersistFailsStep ==
  ASSUME VaultInv, NEW c \in Updates, NEW v \in Vaults, PersistFails(c, v) PROVE VaultInv'
BY SameDocsLemma, NextInChainStep DEF PersistFails

(* A vault that forgets its document. *)
LEMMA ForgottenLemma ==
  ASSUME VaultInv, NEW v \in Vaults,
         cached' = [cached EXCEPT ![v] = 0], hydrating' = [hydrating EXCEPT ![v] = 0],
         UNCHANGED <<loads, chain, call, orderly>>
  PROVE  /\ cached' \in [Vaults -> 0..Len(loads)] /\ hydrating' \in [Vaults -> 0..Len(loads)]
         /\ CachedOpen' /\ (orderly => OnlyLast') /\ \A c \in Updates : Placed(c)'
<1> USE SameDocsLemma
<1>1. cached' \in [Vaults -> 0..Len(loads)] /\ hydrating' \in [Vaults -> 0..Len(loads)]
  OBVIOUS
<1>2. \A w \in Vaults : /\ cached'[w] = IF w = v THEN 0 ELSE cached[w]
                        /\ hydrating'[w] = IF w = v THEN 0 ELSE hydrating[w]
  OBVIOUS
<1>3. CachedOpen'
  BY <1>2 DEF CachedOpen
<1>4. orderly => OnlyLast'
  BY <1>2 DEF OnlyLast, Newest, Working, Loading
<1>5. \A c \in Updates : Placed(c)'
  BY DEF Placed, AtHead
<1> QED
  BY <1>1, <1>3, <1>4, <1>5

LEMMA ReleaseStep == ASSUME VaultInv, NEW v \in Vaults, Release(v) PROVE VaultInv'
<1>1. /\ cached' = [cached EXCEPT ![v] = 0] /\ hydrating' = [hydrating EXCEPT ![v] = 0]
      /\ UNCHANGED <<secured, sealed, minted, loads, chain, call, wiping, orderly>>
  BY DEF Release
<1>2. /\ cached' \in [Vaults -> 0..Len(loads)] /\ hydrating' \in [Vaults -> 0..Len(loads)]
      /\ CachedOpen' /\ (orderly => OnlyLast') /\ \A c \in Updates : Placed(c)'
  BY <1>1, ForgottenLemma
<1>3. VaultTypeOK'
  BY <1>1, <1>2, SameDocsLemma, VaultTypes DEF VaultTypeOK, Calls, Progress
<1>4. (orderly => Current' /\ WipeAlone') /\ Kept'
  BY <1>1, SameDocsLemma DEF Current, WipeAlone, Kept, Newest, Working, Loading, Erasing
<1> QED
  BY <1>1, <1>2, <1>3, <1>4 DEF VaultInv

LEMMA WipeStep == ASSUME VaultInv, NEW v \in Vaults, Wipe(v) PROVE VaultInv'
<1> USE SameDocsLemma
<1> DEFINE all == {chain[v][i] : i \in DOMAIN chain[v]}
           y == [stage |-> "waiting", for |-> all]
<1>1. /\ wiping[v] = NoWipe /\ wiping' = [wiping EXCEPT ![v] = y] /\ orderly' = (orderly /\ Alone(v))
      /\ UNCHANGED <<secured, sealed, minted, loads, cached, hydrating, chain, call>>
  BY DEF Wipe
<1>2. all = Range(chain[v]) /\ all \subseteq Updates
  <2>1. chain[v] \in Seq(Updates)
    OBVIOUS
  <2> QED
    BY <2>1, RangeLemma DEF Range
<1>3. y \in Wipes /\ y.stage = "waiting" /\ y.for = Range(chain[v])
  BY <1>2 DEF Wipes
<1> HIDE DEF y
<1>4. wiping' \in [Vaults -> Wipes] /\ wiping'[v] = y /\ \A w \in Vaults \ {v} : wiping'[w] = wiping[w]
  BY <1>1, <1>3
<1>5. VaultTypeOK'
  BY <1>1, <1>4, VaultTypes DEF VaultTypeOK, Wipes
<1>6. CachedOpen' /\ \A c \in Updates : Placed(c)'
  BY <1>1 DEF CachedOpen, Placed, AtHead
<1>7. ASSUME orderly' PROVE (OnlyLast /\ Current /\ WipeAlone)' /\ orderly
  <2>1. orderly /\ Alone(v) /\ OnlyLast /\ Current
    BY <1>1, <1>7
  <2>2. OnlyLast' /\ Current'
    BY <1>1, <2>1 DEF OnlyLast, Current, Newest, Working, Loading
  <2>3. \A w \in Vaults \ {v} : wiping'[w] = NoWipe /\ chain[w] = << >>
    BY <1>4, <2>1 DEF Alone, NoWipes
  <2>4. \A c \in Updates : Working(c) => c \in Range(chain[v]) /\ call[c].stage # "opening"
    BY <2>1, <2>3, EmptyLemma DEF Placed, Working, Alone
  <2>5. WipeAlone'
    BY <1>1, <1>3, <1>4, <2>1, <2>3, <2>4 DEF WipeAlone, Erasing, Working, Loading, Alone, NoWipe
  <2> QED
    BY <2>1, <2>2, <2>5
<1>8. Kept'
  BY <1>1, <1>7 DEF Kept
<1> QED
  BY <1>5, <1>6, <1>7, <1>8 DEF VaultInv

LEMMA EraseBlobStep == ASSUME VaultInv, NEW v \in Vaults, EraseBlob(v) PROVE VaultInv'
<1> USE SameDocsLemma
<1> DEFINE y == [stage |-> "erasing", for |-> {}]
<1>1. /\ wiping[v].stage = "waiting" /\ \A c \in wiping[v].for : ~Working(c)
      /\ sealed' = NoBlob /\ wiping' = [wiping EXCEPT ![v] = y]
      /\ call' = [c \in Updates |-> IF call[c].stage = "done" THEN Call("erased") ELSE call[c]]
      /\ UNCHANGED <<secured, minted, loads, cached, hydrating, chain, orderly>>
  BY DEF EraseBlob
<1>2. y \in Wipes /\ y.stage = "erasing"
  BY DEF Wipes
<1> HIDE DEF y
<1>3. wiping' \in [Vaults -> Wipes] /\ wiping'[v] = y /\ \A w \in Vaults \ {v} : wiping'[w] = wiping[w]
  BY <1>1, <1>2
<1>4. sealed' \in [key : 0..MaxKeys, of : SUBSET Updates] /\ sealed'.key = 0 /\ sealed'.of = {}
  BY <1>1 DEF NoBlob
<1>5. /\ call' \in [Updates -> Calls]
      /\ \A c \in Updates : IF call[c].stage = "done" THEN call'[c].stage = "erased"
                                                      ELSE call'[c] = call[c]
  <2>1. Call("erased") \in Calls /\ Call("erased").stage = "erased"
    BY DEF Call, Calls, Progress
  <2> QED
    BY <1>1, <2>1
<1>6. VaultTypeOK'
  BY <1>1, <1>3, <1>4, <1>5, VaultTypes DEF VaultTypeOK, Calls, Progress, Wipes
<1>7. CachedOpen'
  BY <1>1 DEF CachedOpen
<1>8. ASSUME NEW c \in Updates PROVE Placed(c)'
  BY <1>1, <1>5 DEF Placed, AtHead
<1>9. ASSUME orderly PROVE (OnlyLast /\ Current /\ WipeAlone)'
  <2>1. OnlyLast /\ Current /\ WipeAlone
    BY <1>9
  <2>2. \A c \in Updates : ~Working(c) /\ ~Working(c)'
    BY <1>1, <1>5, <2>1 DEF WipeAlone, Working
  <2>3. \A i \in DOMAIN loads : ~Loading(i)
    <3>1. NoWipe.stage = "none"
      BY DEF NoWipe
    <3> QED
      BY <1>1, <2>1, <3>1 DEF WipeAlone
  <2>4. OnlyLast'
    BY <1>1, <2>1, <2>2 DEF OnlyLast, Newest, Loading
  <2>5. Current'
    BY <1>1, <1>4, <2>2 DEF Current, Working, Newest
  <2>6. WipeAlone'
    BY <1>1, <1>4, <2>2, <2>3 DEF WipeAlone, Erasing, Loading
  <2> QED
    BY <2>4, <2>5, <2>6
<1>10. Kept'
  BY <1>4, <1>5 DEF Kept
<1> QED
  BY <1>1, <1>6, <1>7, <1>8, <1>9, <1>10 DEF VaultInv

(* A wipe that is over. *)
LEMMA WipeOverLemma ==
  ASSUME VaultInv, NEW v \in Vaults, wiping' = [wiping EXCEPT ![v] = NoWipe]
  PROVE  /\ wiping' \in [Vaults -> Wipes] /\ wiping'[v].stage = "none" /\ wiping'[v] = NoWipe
         /\ \A w \in Vaults \ {v} : wiping'[w] = wiping[w]
<1>1. NoWipe \in Wipes /\ NoWipe.stage = "none"
  BY DEF NoWipe, Wipes
<1> QED
  BY <1>1, SameDocsLemma

LEMMA EraseKeyStep == ASSUME VaultInv, NEW v \in Vaults, EraseKey(v) PROVE VaultInv'
<1> USE SameDocsLemma
<1>1. /\ Erasing(v) /\ secured' = 0 /\ wiping' = [wiping EXCEPT ![v] = NoWipe]
      /\ cached' = [cached EXCEPT ![v] = 0] /\ hydrating' = [hydrating EXCEPT ![v] = 0]
      /\ UNCHANGED <<sealed, minted, loads, chain, call, orderly>>
  BY DEF EraseKey
<1>2. /\ cached' \in [Vaults -> 0..Len(loads)] /\ hydrating' \in [Vaults -> 0..Len(loads)]
      /\ CachedOpen' /\ (orderly => OnlyLast') /\ \A c \in Updates : Placed(c)'
  BY <1>1, ForgottenLemma
<1>3. /\ wiping' \in [Vaults -> Wipes] /\ wiping'[v].stage = "none" /\ wiping'[v] = NoWipe
      /\ \A w \in Vaults \ {v} : wiping'[w] = wiping[w]
  BY <1>1, WipeOverLemma
<1>4. VaultTypeOK'
  BY <1>1, <1>2, <1>3, VaultTypes DEF VaultTypeOK, Calls, Progress, Wipes
<1>5. ASSUME orderly PROVE (Current /\ WipeAlone /\ Kept)'
  <2>1. Current /\ WipeAlone /\ Kept /\ sealed.key = 0 /\ \A c \in Updates : ~Working(c)
    BY <1>1, <1>5 DEF WipeAlone
  <2>2. Current'
    BY <1>1, <2>1 DEF Current, Newest, Working
  <2>3. WipeAlone'
    BY <1>1, <1>3, <2>1 DEF WipeAlone, Erasing, Working, Loading
  <2>4. Kept'
    BY <1>1, <1>5, <2>1 DEF Kept
  <2> QED
    BY <2>2, <2>3, <2>4
<1> QED
  BY <1>1, <1>2, <1>4, <1>5 DEF VaultInv, Kept

LEMMA WipeFailsStep == ASSUME VaultInv, NEW v \in Vaults, WipeFails(v) PROVE VaultInv'
<1> USE SameDocsLemma
<1>1. /\ wiping' = [wiping EXCEPT ![v] = NoWipe]
      /\ UNCHANGED <<secured, sealed, minted, loads, cached, hydrating, chain, call, orderly>>
  BY DEF WipeFails
<1>2. /\ wiping' \in [Vaults -> Wipes] /\ wiping'[v].stage = "none" /\ wiping'[v] = NoWipe
      /\ \A w \in Vaults \ {v} : wiping'[w] = wiping[w]
  BY <1>1, WipeOverLemma
<1>3. VaultTypeOK'
  BY <1>1, <1>2, VaultTypes DEF VaultTypeOK, Wipes
<1>4. CachedOpen' /\ Kept' /\ (\A c \in Updates : Placed(c)')
  BY <1>1 DEF CachedOpen, Kept, Placed, AtHead
<1>5. ASSUME orderly PROVE (OnlyLast /\ Current /\ WipeAlone)'
  <2>1. OnlyLast' /\ Current'
    BY <1>1, <1>5 DEF OnlyLast, Current, Newest, Working, Loading
  <2>2. WipeAlone'
    BY <1>1, <1>2, <1>5 DEF WipeAlone, Erasing, Working, Loading
  <2> QED
    BY <2>1, <2>2
<1> QED
  BY <1>1, <1>3, <1>4, <1>5 DEF VaultInv

LEMMA DieStep == ASSUME VaultInv, Die PROVE VaultInv'
<1> USE SameDocsLemma
<1>1. /\ loads' = << >>
      /\ cached' = [v \in Vaults |-> 0] /\ hydrating' = [v \in Vaults |-> 0]
      /\ chain' = [v \in Vaults |-> << >>] /\ wiping' = [v \in Vaults |-> NoWipe]
      /\ call' = [c \in Updates |-> IF Working(c) THEN Call("lost") ELSE call[c]]
      /\ UNCHANGED <<secured, sealed, minted, orderly>>
  BY DEF Die
<1>2. loads' \in Seq(Loads) /\ Len(loads') = 0 /\ DOMAIN loads' = {} /\ << >> \in Seq(Updates)
  BY <1>1
<1>3. NoWipe \in Wipes
  BY DEF NoWipe, Wipes
<1>4. /\ call' \in [Updates -> Calls]
      /\ \A c \in Updates : /\ ~Working(c)'
                            /\ call'[c].stage = "done" => call[c].stage = "done"
  <2>1. Call("lost") \in Calls /\ Call("lost").stage = "lost"
    BY DEF Call, Calls, Progress
  <2> QED
    BY <1>1, <2>1 DEF Working
<1>5. VaultTypeOK'
  BY <1>1, <1>2, <1>3, <1>4, VaultTypes DEF VaultTypeOK, Loads, Calls, Progress, Wipes
<1>6. CachedOpen' /\ \A c \in Updates : Placed(c)'
  BY <1>1, <1>4 DEF CachedOpen, Placed, Working
<1>7. (OnlyLast /\ Current /\ WipeAlone)'
  BY <1>1, <1>2, <1>4 DEF OnlyLast, Current, WipeAlone, Newest, Working, Erasing, NoWipe
<1>8. Kept'
  BY <1>1, <1>4 DEF Kept
<1> QED
  BY <1>5, <1>6, <1>7, <1>8 DEF VaultInv

LEMMA VaultInvStep == VaultInv /\ [VaultNext]_vaultVars => VaultInv'
<1> SUFFICES ASSUME VaultInv, [VaultNext]_vaultVars PROVE VaultInv'
  OBVIOUS
<1>1. ASSUME NEW v \in Vaults,
             Read(v) \/ Release(v) \/ Wipe(v) \/ EraseBlob(v) \/ EraseKey(v) \/ WipeFails(v)
      PROVE  VaultInv'
  BY <1>1, ReadStep, ReleaseStep, WipeStep, EraseBlobStep, EraseKeyStep, WipeFailsStep
<1>2. ASSUME NEW c \in Updates, NEW v \in Vaults,
             MutateCached(c, v) \/ MutateFirst(c, v) \/ MutateJoining(c, v)
      PROVE  VaultInv'
  BY <1>2, MutateCachedStep, MutateFirstStep, MutateJoiningStep
<1>3. ASSUME NEW c \in Updates, NEW v \in Vaults,
             Seal(c, v) \/ MintAgain(c, v) \/ SealAnew(c, v) \/ Store(c, v) \/ PersistFails(c, v)
      PROVE  VaultInv'
  BY <1>3, SealStep, MintAgainStep, SealAnewStep, StoreStep, PersistFailsStep
<1>4. ASSUME NEW h \in DOMAIN loads, TakeKey(h) \/ KeepKey(h) \/ OpenBlob(h) \/ LoadFails(h)
      PROVE  VaultInv'
  BY <1>4, TakeKeyStep, KeepKeyStep, OpenBlobStep, LoadFailsStep
<1>5. CASE Die
  BY <1>5, DieStep
<1>6. CASE UNCHANGED vaultVars
  <2>1. UNCHANGED <<secured, sealed, minted, loads, cached, hydrating, chain, call, wiping, orderly>>
    BY <1>6 DEF vaultVars
  <2>2. VaultTypeOK' /\ CachedOpen' /\ Kept'
    BY <2>1, SameDocsLemma, VaultTypes DEF VaultTypeOK, Calls, Progress, CachedOpen, Kept
  <2>3. ASSUME NEW c \in Updates PROVE Placed(c)'
    BY <2>1, SameDocsLemma DEF Placed, AtHead
  <2>4. orderly => OnlyLast' /\ Current' /\ WipeAlone'
    <3>1. orderly => OnlyLast'
      BY <2>1, SameDocsLemma DEF OnlyLast, Newest, Working, Loading
    <3>2. orderly => Current'
      BY <2>1, SameDocsLemma DEF Current, Newest
    <3>3. orderly => WipeAlone'
      BY <2>1, SameDocsLemma DEF WipeAlone, Working, Loading, Erasing
    <3> QED
      BY <3>1, <3>2, <3>3
  <2> QED
    BY <2>1, <2>2, <2>3, <2>4 DEF VaultInv
<1> QED
  BY <1>1, <1>2, <1>3, <1>4, <1>5, <1>6 DEF VaultNext

(* The key, the blob, the documents and the calls are what their comments say. *)
THEOREM VaultTypeCorrect == VaultSpec => []VaultTypeOK
<1>1. VaultInv => VaultTypeOK
  BY DEF VaultInv
<1> QED
  BY VaultInvInit, VaultInvStep, <1>1, PTL DEF VaultSpec

(* What mutate has resolved is in the blob, and the blob can be opened. *)
THEOREM KeptHolds == VaultSpec => []Kept
<1>1. VaultInv => Kept
  BY DEF VaultInv
<1> QED
  BY VaultInvInit, VaultInvStep, <1>1, PTL DEF VaultSpec

----------------------------------------------------------------------------
(* How many guesses the window holds.  The failures of one age are finite, *)
(* and so are those of the window.                                         *)
Log == [Ages -> Nat]

LEMMA AgesLemma ==
  /\ Horizon \in Nat \ {0} /\ Window <= Horizon
  /\ 0 \in 0..(Window - 1) /\ 0..(Window - 1) \subseteq Ages \ {Horizon}
  /\ \A a \in 0..(Window - 1) : a # 0 => a - 1 \in 0..(Window - 1)
<1>1. Horizon \in Nat \ {0} /\ Window <= Horizon
  BY PolicyAssumption DEF Horizon
<1> QED
  BY <1>1, PolicyAssumption DEF Ages

LEMMA RecentLemma ==
  ASSUME NEW log \in Log
  PROVE  /\ IsFiniteSet(Recent(log)) /\ RecentFailures(log) \in Nat
         /\ \A a, i : <<a, i>> \in Recent(log) <=> a \in 0..(Window - 1) /\ i \in 1..log[a]
         /\ \A x \in Recent(log) : \E a \in 0..(Window - 1) : \E i \in 1..log[a] : x = <<a, i>>
<1>1. IsFiniteSet(0..(Window - 1))
  BY PolicyAssumption, FS_Interval
<1> DEFINE f == [a \in 0..(Window - 1) |-> log[a]]
<1>2. f \in [0..(Window - 1) -> Nat]
  BY AgesLemma DEF Log
<1>3. Recent(log) = UNION {{a} \X (1..f[a]) : a \in 0..(Window - 1)}
  BY DEF Recent
<1> HIDE DEF f
<1>4. IsFiniteSet(Recent(log))
  <2>1. IsFiniteSet(UNION {{a} \X (1..f[a]) : a \in 0..(Window - 1)})
    BY <1>1, <1>2, BinsLemma
  <2> QED
    BY <1>3, <2>1
<1>5. RecentFailures(log) \in Nat
  BY <1>4, FS_CardinalityType DEF RecentFailures
<1> QED
  BY <1>4, <1>5 DEF Recent

(* One more failure is one more in the window, since the window is not     *)
(* empty.                                                                  *)
LEMMA OneMoreLemma ==
  ASSUME NEW log \in Log
  PROVE  /\ OneMore(log) \in Log
         /\ RecentFailures(OneMore(log)) = RecentFailures(log) + 1
<1> DEFINE new == <<0, log[0] + 1>>
<1>1. 0 \in Ages /\ log[0] \in Nat
  BY AgesLemma DEF Log
<1>2. OneMore(log) \in Log
  BY <1>1 DEF OneMore, Log
<1>3. \A a \in Ages : OneMore(log)[a] = IF a = 0 THEN log[0] + 1 ELSE log[a]
  BY DEF OneMore, Log
<1>4. new \notin Recent(log)
  BY <1>1, RecentLemma
<1>5. Recent(OneMore(log)) = Recent(log) \cup {new}
  <2>1. ASSUME NEW x \in Recent(OneMore(log)) PROVE x \in Recent(log) \cup {new}
    <3>1. PICK a \in 0..(Window - 1) : \E i \in 1..OneMore(log)[a] : x = <<a, i>>
      BY <1>2, RecentLemma
    <3>2. a \in Ages
      BY AgesLemma
    <3>3. CASE a = 0
      BY <1>1, <1>3, <3>1, <3>2, <3>3, RecentLemma
    <3>4. CASE a # 0
      BY <1>3, <3>1, <3>2, <3>4, RecentLemma
    <3> QED
      BY <3>3, <3>4
  <2>2. ASSUME NEW x \in Recent(log) PROVE x \in Recent(OneMore(log))
    <3>0. PICK a \in 0..(Window - 1) : \E j \in 1..log[a] : x = <<a, j>>
      BY RecentLemma
    <3>1. PICK i \in 1..log[a] : x = <<a, i>>
      BY <3>0
    <3>2. a \in Ages /\ log[a] \in Nat
      BY AgesLemma DEF Log
    <3>3. i \in 1..OneMore(log)[a]
      BY <1>1, <1>3, <3>1, <3>2
    <3> QED
      BY <1>2, <3>1, <3>3, RecentLemma
  <2>3. new \in Recent(OneMore(log))
    <3>1. log[0] + 1 \in 1..OneMore(log)[0]
      BY <1>1, <1>3
    <3> QED
      BY <1>2, <3>1, AgesLemma, RecentLemma
  <2> QED
    BY <2>1, <2>2, <2>3
<1> HIDE DEF new
<1>6. Cardinality(Recent(log) \cup {new}) = Cardinality(Recent(log)) + 1
  BY <1>4, RecentLemma, FS_AddElement
<1> QED
  BY <1>2, <1>5, <1>6 DEF RecentFailures

(* What the window does not show makes no difference to the count.         *)
LEMMA SameWindowLemma ==
  ASSUME NEW log \in Log, NEW other \in Log, \A a \in 0..(Window - 1) : log[a] = other[a]
  PROVE  RecentFailures(log) = RecentFailures(other)
<1>1. Recent(log) = Recent(other)
  BY DEF Recent
<1> QED
  BY <1>1 DEF RecentFailures

(* Time adds nothing to the window: what is in it now was in it one age    *)
(* younger.                                                                *)
LEMMA AgedLemma ==
  ASSUME NEW log \in Log, NEW aged \in Log,
         \A a \in 0..(Window - 1) : aged[a] = IF a = 0 THEN 0 ELSE log[a - 1]
  PROVE  RecentFailures(aged) <= RecentFailures(log)
<1> DEFINE f == [x \in Recent(aged) |-> <<x[1] - 1, x[2]>>]
<1>1. ASSUME NEW x \in Recent(aged)
      PROVE  \E a \in 0..(Window - 1), i \in Nat :
               x = <<a, i>> /\ <<a - 1, i>> \in Recent(log)
  <2>0. PICK a \in 0..(Window - 1) : \E j \in 1..aged[a] : x = <<a, j>>
    BY RecentLemma
  <2>1. PICK i \in 1..aged[a] : x = <<a, i>>
    BY <2>0
  <2>2. a # 0 /\ i \in 1..log[a - 1]
    BY <2>1
  <2>3. a - 1 \in 0..(Window - 1)
    BY <2>2, AgesLemma
  <2> QED
    BY <2>1, <2>2, <2>3, RecentLemma
<1>2. f \in [Recent(aged) -> Recent(log)]
  <2> SUFFICES ASSUME NEW x \in Recent(aged) PROVE <<x[1] - 1, x[2]>> \in Recent(log)
    OBVIOUS
  <2>1. PICK a \in 0..(Window - 1), i \in Nat : x = <<a, i>> /\ <<a - 1, i>> \in Recent(log)
    BY <1>1
  <2> QED
    BY <2>1
<1>3. ASSUME NEW x \in Recent(aged), NEW y \in Recent(aged), f[x] = f[y] PROVE x = y
  <2>1. PICK a \in 0..(Window - 1), i \in Nat : x = <<a, i>>
    BY <1>1
  <2>2. PICK b \in 0..(Window - 1), j \in Nat : y = <<b, j>>
    BY <1>1
  <2>3. <<a - 1, i>> = <<b - 1, j>>
    BY <1>3, <2>1, <2>2
  <2>4. a = b
    BY <2>3
  <2> QED
    BY <2>1, <2>2, <2>3, <2>4
<1> HIDE DEF f
<1>4. f \in Injection(Recent(aged), Recent(log))
  BY <1>2, <1>3 DEF Injection, IsInjective
<1> QED
  BY <1>4, RecentLemma, FS_Injection DEF RecentFailures

(* The attempts that are being hashed. *)
Hashing == {i \in DOMAIN tries : tries[i].verdict = "hashing"}

(* Why the guesses are bounded: the log decides as if it were never        *)
(* pruned, and an attempt is only hashed if there was room for it.         *)
GuessInv ==
  /\ Len(tries) <= MaxTries
  /\ \A a \in 0..(Window - 1) : tally[a] = made[a]
  /\ RecentFailures(made) + Cardinality(Hashing) < MaxFailures + MaxTries

LEMMA HashingLemma ==
  ASSUME LockTypeOK
  PROVE  /\ IsFiniteSet(Hashing) /\ Cardinality(Hashing) \in 0..Len(tries)
         /\ Len(tries) \in Nat /\ DOMAIN tries = 1..Len(tries)
         /\ tally \in Log /\ made \in Log
<1>1. Len(tries) \in Nat /\ DOMAIN tries = 1..Len(tries)
  BY LenProperties DEF LockTypeOK
<1>2. IsFiniteSet(1..Len(tries)) /\ Cardinality(1..Len(tries)) = Len(tries)
  <2>1. /\ IsFiniteSet(1..Len(tries))
        /\ Cardinality(1..Len(tries)) = IF 1 > Len(tries) THEN 0 ELSE Len(tries) - 1 + 1
    <3>1. 1 \in Int /\ Len(tries) \in Int
      BY <1>1
    <3> HIDE <1>1
    <3> QED
      BY <3>1, FS_Interval
  <2> QED
    BY <1>1, <2>1
<1>3. Hashing \in SUBSET (1..Len(tries))
  BY <1>1 DEF Hashing
<1>4. IsFiniteSet(Hashing) /\ Cardinality(Hashing) <= Len(tries)
  BY <1>2, <1>3, FS_Subset
<1>5. Cardinality(Hashing) \in Nat
  BY <1>4, FS_CardinalityType
<1> QED
  BY <1>1, <1>4, <1>5 DEF LockTypeOK, Log

LEMMA NoFailuresLemma == NoFailures \in Log /\ RecentFailures(NoFailures) = 0
<1>1. NoFailures \in Log
  BY DEF NoFailures, Log
<1>2. ASSUME NEW x \in Recent(NoFailures) PROVE FALSE
  <2>1. PICK a \in 0..(Window - 1) : \E i \in 1..NoFailures[a] : x = <<a, i>>
    BY <1>1, <1>2, RecentLemma
  <2>2. NoFailures[a] = 0
    BY AgesLemma DEF NoFailures
  <2> QED
    BY <2>1, <2>2
<1>3. Recent(NoFailures) = {}
  BY <1>2
<1> QED
  BY <1>1, <1>3, FS_EmptySet DEF RecentFailures

(* An attempt is not refused only while the log has room for one failure:  *)
(* as the lockout outlasts the window, it holds whenever the window is     *)
(* full.                                                                   *)
LEMMA LockoutLemma ==
  ASSUME NEW log \in Log, ~(Lockout(log) > 0)
  PROVE  RecentFailures(log) < MaxFailures
<1> SUFFICES ASSUME ~(RecentFailures(log) < MaxFailures) PROVE FALSE
  OBVIOUS
<1> DEFINE recent == {a \in 0..(Window - 1) : log[a] > 0}
<1>1. recent # {}
  <2>1. RecentFailures(log) \in Nat /\ RecentFailures(log) # 0
    BY RecentLemma, PolicyAssumption
  <2>2. Recent(log) # {}
    BY <2>1, FS_EmptySet DEF RecentFailures
  <2>3. PICK a \in 0..(Window - 1) : \E i \in 1..log[a] : TRUE
    BY <2>2, RecentLemma
  <2>4. log[a] \in Nat
    BY AgesLemma DEF Log
  <2> QED
    BY <2>3, <2>4
<1>2. recent \subseteq Nat
  OBVIOUS
<1> HIDE DEF recent
<1>3. PICK least \in recent : \A b \in recent : least <= b
  BY <1>1, <1>2, LeastLemma
<1> DEFINE last == CHOOSE a \in recent : \A b \in recent : a <= b
<1>4. last \in recent
  BY <1>3
<1>5. last \in Nat /\ last < Window
  BY <1>4, PolicyAssumption DEF recent
<1>6. Lockout(log) = IF last < LockFor THEN LockFor - last ELSE 0
  BY DEF Lockout, recent
<1> HIDE DEF last
<1> QED
  BY <1>5, <1>6, LockCoversWindow, PolicyAssumption

LEMMA GuessInvInit == LockInit => GuessInv
<1> SUFFICES ASSUME LockInit PROVE GuessInv
  OBVIOUS
<1>1. Len(tries) = 0 /\ Hashing = {}
  BY DEF LockInit, Hashing
<1>2. RecentFailures(made) = 0 /\ Cardinality(Hashing) = 0
  BY <1>1, NoFailuresLemma, FS_EmptySet DEF LockInit
<1> QED
  BY <1>1, <1>2, PolicyAssumption, TriesAssumption DEF LockInit, GuessInv

(* A step that leaves the log alone and adds no attempt. *)
LEMMA SameLogStep ==
  ASSUME LockInv, GuessInv, UNCHANGED <<tally, made>>,
         UNCHANGED tries \/ tries' = << >>
  PROVE  GuessInv'
<1>1. CASE UNCHANGED tries
  BY <1>1 DEF GuessInv, Hashing
<1>2. CASE tries' = << >>
  <2>1. Len(tries') = 0 /\ Hashing' = {}
    BY <1>2 DEF Hashing
  <2>2. Cardinality(Hashing') = 0
    BY <2>1, FS_EmptySet
  <2>3. RecentFailures(made) \in Nat /\ Cardinality(Hashing) \in Nat
    BY HashingLemma, RecentLemma DEF LockInv
  <2>4. RecentFailures(made)' = RecentFailures(made)
    BY DEF RecentFailures, Recent
  <2> QED
    BY <2>1, <2>2, <2>3, <2>4, TriesAssumption, PolicyAssumption DEF GuessInv
<1> QED
  BY <1>1, <1>2

(* An attempt is begun: if it is to be hashed, the window has room for it. *)
LEMMA BeginStep ==
  ASSUME LockInv, GuessInv, NEW kind \in {"pin", "search"}, Begin(kind)
  PROVE  GuessInv'
<1> USE DEF LockInv
<1> DEFINE n == Len(tries)
<1>1. PICK verdict \in {"invalid", "locked", "hashing"} :
        /\ tries' = Append(tries, [kind |-> kind, verdict |-> verdict])
        /\ verdict = "hashing" => ~(Lockout(tally) > 0)
  BY DEF Begin
<1>2. /\ n \in Nat /\ n < MaxTries /\ DOMAIN tries = 1..n
      /\ Cardinality(Hashing) \in 0..n /\ IsFiniteSet(Hashing)
      /\ tally \in Log /\ made \in Log
  BY HashingLemma DEF Begin
<1>3. /\ Len(tries') = n + 1 /\ DOMAIN tries' = 1..(n + 1)
      /\ \A i \in 1..n : tries'[i] = tries[i]
      /\ tries'[n + 1] = [kind |-> kind, verdict |-> verdict]
  <2>1. tries \in Seq(Attempts) /\ [kind |-> kind, verdict |-> verdict] \in Attempts
    BY DEF LockTypeOK, Attempts, Verdicts
  <2>2. tries' \in Seq(Attempts) /\ Len(tries') = n + 1
    BY <1>1, <2>1, AppendProperties
  <2> QED
    BY <1>1, <2>1, <2>2, AppendProperties, LenProperties
<1>4. Hashing' = IF verdict = "hashing" THEN Hashing \cup {n + 1} ELSE Hashing
  BY <1>2, <1>3 DEF Hashing
<1>5. n + 1 \notin Hashing
  BY <1>2 DEF Hashing
<1>6. Cardinality(Hashing') = IF verdict = "hashing" THEN Cardinality(Hashing) + 1
                                                   ELSE Cardinality(Hashing)
  BY <1>2, <1>4, <1>5, FS_AddElement
<1>7. RecentFailures(made)' = RecentFailures(made) /\ RecentFailures(made) \in Nat
  <2>1. made' = made
    BY DEF Begin
  <2>2. RecentFailures(made)' = RecentFailures(made)
    BY <2>1 DEF RecentFailures, Recent
  <2> QED
    BY <1>2, <2>2, RecentLemma
<1>8. verdict = "hashing" => RecentFailures(made) < MaxFailures
  BY <1>1, <1>2, LockoutLemma, SameWindowLemma DEF GuessInv
<1>9. RecentFailures(made)' + Cardinality(Hashing') < MaxFailures + MaxTries
  BY <1>2, <1>6, <1>7, <1>8, PolicyAssumption, TriesAssumption DEF GuessInv
<1>10. \A a \in 0..(Window - 1) : tally'[a] = made'[a]
  BY DEF Begin, GuessInv
<1> QED
  BY <1>2, <1>3, <1>9, <1>10, TriesAssumption DEF GuessInv

(* A hash ends: the failure it makes was counted while it was hashed.      *)
LEMMA HashedStep ==
  ASSUME LockInv, GuessInv, NEW i \in DOMAIN tries, Hashed(i)
  PROVE  GuessInv'
<1> USE DEF LockInv
<1>1. PICK verdict \in Verdicts :
        /\ tries' = [tries EXCEPT ![i].verdict = verdict]
        /\ \/ tally' = Pruned(OneMore(tally)) /\ made' = Cut(OneMore(made))
           \/ tally' = NoFailures /\ made' = NoFailures
  BY DEF Hashed, ModeOf, Verdicts
<1>2. /\ Len(tries) \in Nat /\ DOMAIN tries = 1..Len(tries)
      /\ Cardinality(Hashing) \in 0..Len(tries) /\ IsFiniteSet(Hashing)
      /\ tally \in Log /\ made \in Log
  BY HashingLemma
<1>3. Hashing' = Hashing \ {i} /\ i \in Hashing
  <2>1. \A j \in DOMAIN tries : tries[j] \in Attempts
    <3>1. tries \in Seq(Attempts)
      BY DEF LockTypeOK, Attempts
    <3> QED
      BY <1>2, <3>1, ElementOfSeq
  <2>2. "hashing" \notin Verdicts
    BY DEF Verdicts
  <2>3. DOMAIN tries' = DOMAIN tries
    BY <1>1
  <2>4. \A j \in DOMAIN tries : tries'[j].verdict = IF j = i THEN verdict ELSE tries[j].verdict
    BY <1>1, <2>1 DEF Attempts
  <2> QED
    BY <2>2, <2>3, <2>4 DEF Hashing, Hashed
<1>4. Cardinality(Hashing') = Cardinality(Hashing) - 1
  BY <1>2, <1>3, FS_RemoveElement
<1>5. Len(tries') = Len(tries)
  BY <1>1, <1>2, ExceptSeq, LenProperties DEF LockTypeOK
<1>6. CASE tally' = NoFailures /\ made' = NoFailures
  <2>1. RecentFailures(made)' = 0
    BY <1>6, NoFailuresLemma DEF RecentFailures, Recent
  <2>2. RecentFailures(made) \in Nat
    BY <1>2, RecentLemma
  <2> QED
    BY <1>2, <1>4, <1>5, <1>6, <2>1, <2>2, PolicyAssumption, TriesAssumption DEF GuessInv
<1>7. CASE tally' = Pruned(OneMore(tally)) /\ made' = Cut(OneMore(made))
  <2>1. /\ OneMore(tally) \in Log /\ OneMore(made) \in Log
        /\ RecentFailures(OneMore(made)) = RecentFailures(made) + 1
    BY <1>2, OneMoreLemma
  <2>2. \A a \in 0..(Window - 1) : /\ tally'[a] = OneMore(tally)[a]
                                  /\ made'[a] = OneMore(made)[a]
    BY <1>7, AgesLemma DEF Pruned, Cut
  <2>3. made' \in Log
    BY <1>7, <2>1 DEF Log, Cut
  <2>4. RecentFailures(made)' = RecentFailures(made) + 1
    <3>1. RecentFailures(made') = RecentFailures(OneMore(made))
      BY <2>1, <2>2, <2>3, SameWindowLemma
    <3> QED
      BY <2>1, <3>1 DEF RecentFailures, Recent
  <2>5. \A a \in 0..(Window - 1) : tally'[a] = made'[a]
    <3>1. \A a \in 0..(Window - 1) : OneMore(tally)[a] = OneMore(made)[a]
      BY <1>2, AgesLemma DEF OneMore, Log, GuessInv
    <3> QED
      BY <2>2, <3>1
  <2>6. RecentFailures(made) \in Nat
    BY <1>2, RecentLemma
  <2> QED
    BY <1>2, <1>4, <1>5, <2>4, <2>5, <2>6 DEF GuessInv
<1> QED
  BY <1>1, <1>6, <1>7

(* An answer takes an attempt that was hashed. *)
LEMMA AnswerStep ==
  ASSUME LockInv, GuessInv, NEW i \in DOMAIN tries, Answer(i)
  PROVE  GuessInv'
<1> USE DEF LockInv
<1> DEFINE n == Len(tries)
           f == [j \in Hashing' |-> IF j < i THEN j ELSE j + 1]
<1>1. /\ n \in Nat /\ DOMAIN tries = 1..n /\ i \in 1..n
      /\ Cardinality(Hashing) \in 0..n /\ IsFiniteSet(Hashing)
      /\ tally \in Log /\ made \in Log
  BY HashingLemma
<1>2. /\ tries' \in Seq(Attempts) /\ Len(tries') = n - 1 /\ DOMAIN tries' = 1..(n - 1)
      /\ \A j \in 1..(n - 1) : tries'[j] = IF j < i THEN tries[j] ELSE tries[j + 1]
  <2> DEFINE p == SubSeq(tries, 1, i - 1)
             s == SubSeq(tries, i + 1, n)
  <2>0. tries \in Seq(Attempts) /\ tries' = p \o s
    BY DEF LockTypeOK, Attempts, Answer, RemoveAt
  <2>1. /\ p \in Seq(Attempts) /\ Len(p) = i - 1
        /\ \A j \in 1..(i - 1) : p[j] = tries[j]
    <3>1. i - 1 \in 0..Len(tries)
      BY <1>1
    <3> QED
      BY <2>0, <3>1, PrefixLemma
  <2>2. s \in Seq(Attempts) /\ Len(s) = n - i
    <3>1. i + 1 \in 1..(Len(tries) + 1) /\ n - (i + 1) + 1 = n - i
      BY <1>1
    <3> QED
      BY <2>0, <3>1, SuffixLemma
  <2>3. \A j \in 1..(n - i) : s[j] = tries[i + j]
    <3>1. \A j \in (i + 1)..n : tries[j] \in Attempts
      BY <1>1, <2>0, ElementOfSeq
    <3>2. i + 1 \in Int /\ n \in Int
      BY <1>1
    <3>3. \A j \in 1..(n - (i + 1) + 1) : s[j] = tries[i + 1 + j - 1]
      BY <3>1, <3>2, SubSeqProperties
    <3> QED
      BY <1>1, <3>3
  <2> HIDE DEF p, s
  <2>4. /\ tries' \in Seq(Attempts) /\ Len(tries') = Len(p) + Len(s)
        /\ \A j \in 1..(Len(p) + Len(s)) :
             tries'[j] = IF j <= Len(p) THEN p[j] ELSE s[j - Len(p)]
    BY <2>0, <2>1, <2>2, ConcatProperties
  <2>5. Len(p) + Len(s) = n - 1
    BY <1>1, <2>1, <2>2
  <2>6. ASSUME NEW j \in 1..(n - 1)
        PROVE  tries'[j] = IF j < i THEN tries[j] ELSE tries[j + 1]
    <3>1. CASE j < i
      BY <1>1, <2>1, <2>4, <2>5, <3>1
    <3>2. CASE ~(j < i)
      <4>1. j - (i - 1) \in 1..(n - i) /\ i + (j - (i - 1)) = j + 1 /\ ~(j <= i - 1)
        BY <1>1, <3>2
      <4> QED
        BY <2>1, <2>3, <2>4, <2>5, <3>2, <4>1
    <3> QED
      BY <3>1, <3>2
  <2> QED
    BY <2>4, <2>5, <2>6, LenProperties
<1>3. ASSUME NEW j \in Hashing'
      PROVE  j \in 1..(n - 1) /\ (IF j < i THEN j ELSE j + 1) \in Hashing
  <2>1. j \in 1..(n - 1) /\ tries'[j].verdict = "hashing"
    BY <1>2 DEF Hashing
  <2> QED
    BY <1>1, <1>2, <2>1 DEF Hashing
<1>4. f \in Injection(Hashing', Hashing)
  <2>1. f \in [Hashing' -> Hashing]
    BY <1>3
  <2>2. ASSUME NEW j \in Hashing', NEW k \in Hashing', f[j] = f[k] PROVE j = k
    BY <1>1, <1>3, <2>2
  <2> HIDE DEF f
  <2> QED
    BY <2>1, <2>2 DEF Injection, IsInjective
<1> HIDE DEF f
<1>5. IsFiniteSet(Hashing') /\ Cardinality(Hashing') <= Cardinality(Hashing)
  BY <1>1, <1>4, FS_Injection
<1>6. Cardinality(Hashing') \in Nat
  BY <1>5, FS_CardinalityType
<1>7. tally' = tally /\ made' = made
  BY DEF Answer
<1>8. RecentFailures(made)' = RecentFailures(made) /\ RecentFailures(made) \in Nat
  <2>1. RecentFailures(made)' = RecentFailures(made)
    BY <1>7 DEF RecentFailures, Recent
  <2> QED
    BY <1>1, <2>1, RecentLemma
<1>9. Len(tries') <= MaxTries /\ Cardinality(Hashing) \in Nat
  BY <1>1, <1>2, TriesAssumption DEF GuessInv
<1>10. RecentFailures(made)' + Cardinality(Hashing') < MaxFailures + MaxTries
  BY <1>5, <1>6, <1>8, <1>9, PolicyAssumption, TriesAssumption DEF GuessInv
<1> QED
  BY <1>7, <1>9, <1>10 DEF GuessInv

(* Time passes for the log and for what was made alike. *)
LEMMA TickStep == ASSUME LockInv, GuessInv, LockInv', Tick PROVE GuessInv'
<1> USE DEF LockInv
<1>1. tally \in Log /\ made \in Log /\ made' \in Log
  BY HashingLemma DEF LockTypeOK, Log
<1>2. ASSUME NEW a \in 0..(Window - 1)
      PROVE  /\ tally'[a] = IF a = 0 THEN 0 ELSE tally[a - 1]
             /\ made'[a] = IF a = 0 THEN 0 ELSE made[a - 1]
  <2>1. a \in Ages /\ a < Horizon /\ a \in Nat
    BY AgesLemma, PolicyAssumption
  <2> QED
    BY <2>1 DEF Tick, Cut
<1>3. RecentFailures(made') <= RecentFailures(made)
  BY <1>1, <1>2, AgedLemma
<1>4. \A a \in 0..(Window - 1) : tally'[a] = made'[a]
  BY <1>2, AgesLemma DEF GuessInv
<1>5. tries' = tries
  BY DEF Tick
<1>6. Hashing' = Hashing
  BY <1>5 DEF Hashing
<1>7. RecentFailures(made)' <= RecentFailures(made) /\ RecentFailures(made)' \in Nat
  <2>1. RecentFailures(made') \in Nat
    BY <1>1, RecentLemma
  <2> QED
    BY <1>3, <2>1 DEF RecentFailures, Recent
<1>8. RecentFailures(made) \in Nat /\ Cardinality(Hashing) \in Nat
  BY <1>1, HashingLemma, RecentLemma
<1> QED
  BY <1>4, <1>5, <1>6, <1>7, <1>8, PolicyAssumption, TriesAssumption DEF GuessInv

LEMMA GuessInvStep == LockInv /\ GuessInv /\ [LockNext]_lockVars => GuessInv'
<1> SUFFICES ASSUME LockInv, GuessInv, [LockNext]_lockVars PROVE GuessInv'
  OBVIOUS
<1>1. CASE Relaunch
  BY <1>1, SameLogStep DEF Relaunch
<1>2. CASE BindGate \/ SetupEnds \/ RetrySetup \/ HideOrUnhideChat
  BY <1>2, SameLogStep DEF BindGate, SetupEnds, RetrySetup, HideOrUnhideChat
<1>3. CASE Onboarded \/ CheckLock \/ Relock \/ SetAppPin
  BY <1>3, SameLogStep DEF Onboarded, CheckLock, Relock, SetAppPin
<1>4. CASE SignOutLock
  <2>1. tally' = NoFailures /\ made' = NoFailures /\ tries' = tries
    BY <1>4 DEF SignOutLock
  <2>2. RecentFailures(made)' = 0
    BY <2>1, NoFailuresLemma DEF RecentFailures, Recent
  <2>3. Hashing' = Hashing
    BY <2>1 DEF Hashing
  <2>4. RecentFailures(made) \in Nat /\ Cardinality(Hashing) \in Nat
    BY HashingLemma, RecentLemma DEF LockInv
  <2> QED
    BY <2>1, <2>2, <2>3, <2>4, PolicyAssumption, TriesAssumption DEF GuessInv
<1>5. CASE SubmitPin \/ SubmitSearch
  BY <1>5, BeginStep DEF SubmitPin, SubmitSearch
<1>6. ASSUME NEW i \in DOMAIN tries, Hashed(i) \/ Answer(i) PROVE GuessInv'
  BY <1>6, HashedStep, AnswerStep
<1>7. CASE Tick
  BY <1>7, TickStep, LockInvStep
<1>8. CASE UNCHANGED lockVars
  BY <1>8, SameLogStep DEF lockVars
<1> QED
  BY <1>1, <1>2, <1>3, <1>4, <1>5, <1>6, <1>7, <1>8 DEF LockNext

LEMMA GuessLemma == LockInv /\ GuessInv => GuessesBounded
<1> SUFFICES ASSUME LockInv, GuessInv PROVE GuessesBounded
  OBVIOUS
<1>1. RecentFailures(made) \in Nat /\ Cardinality(Hashing) \in Nat
  BY HashingLemma, RecentLemma DEF LockInv
<1> QED
  BY <1>1, PolicyAssumption, TriesAssumption DEF GuessInv, GuessesBounded

(* Whatever is tried at once, in the lock screen and in the search bar,    *)
(* the failures within a window never reach what trips the lockout plus    *)
(* what may be in flight (secure-gate.ts:68, lockout-policy.ts:52).        *)
THEOREM GuessesBoundedHolds == LockSpec => []GuessesBounded
BY LockInvInit, LockInvStep, GuessInvInit, GuessInvStep, GuessLemma, PTL DEF LockSpec

----------------------------------------------------------------------------
(* One phone: its parts beside each other. *)

(* A step of one part leaves the others' variables alone, so a behaviour   *)
(* of the phone is one of each part.                                       *)
LEMMA PhonePartsLemma ==
  PhoneSpec => LockSpec /\ ShellSpec /\ ChatSpec /\ VanishSpec /\ VaultSpec
<1>1. PhoneInit => LockInit /\ ShellInit /\ ChatInit /\ VanishInit /\ VaultInit
  BY DEF PhoneInit
<1>2. [PhoneNext]_phoneVars =>
        /\ [LockNext]_lockVars /\ [ShellNext]_shellVars /\ [ChatNext]_chatVars
        /\ [VanishNext]_vanishVars /\ [VaultNext]_vaultVars
  BY DEF PhoneNext, phoneVars
<1> QED
  BY <1>1, <1>2, PTL DEF PhoneSpec, LockSpec, ShellSpec, ChatSpec, VanishSpec, VaultSpec

LEMMA PhoneFocusLemma == PhoneSpec => [](focus \in {"lock", "shell", "chat", "vanish", "vault"})
<1> DEFINE FocusOK == focus \in {"lock", "shell", "chat", "vanish", "vault"}
<1>1. PhoneInit => FocusOK
  BY DEF PhoneInit
<1>2. FocusOK /\ [PhoneNext]_phoneVars => FocusOK'
  BY DEF PhoneNext, phoneVars
<1> QED
  BY <1>1, <1>2, PTL DEF PhoneSpec

(* Whichever part moves, the state of every part stays in its types.       *)
THEOREM PhoneTypeCorrect == PhoneSpec => []PhoneTypeOK
<1>1. /\ LockTypeOK /\ ShellTypeOK /\ ChatTypeOK /\ VanishTypeOK /\ VaultTypeOK
      /\ focus \in {"lock", "shell", "chat", "vanish", "vault"}
      => PhoneTypeOK
  BY DEF PhoneTypeOK
<1> QED
  BY <1>1, PhonePartsLemma, PhoneFocusLemma, LockTypeCorrect, ShellTypeCorrect, ChatTypeCorrect,
     VanishTypeCorrect, VaultTypeCorrect, PTL

(* And what each part promises on its own, it promises beside the others.  *)
THEOREM PhoneCorrect ==
  PhoneSpec =>
    /\ [](/\ GuessesBounded /\ InvitesFollowLock /\ ShadowNeverListed
          /\ NoShadowOnSurface /\ ShownIsStored /\ GapsExplained /\ DueIsWatched /\ Kept)
    /\ TargetFollowsOpen
BY PhonePartsLemma, GuessesBoundedHolds, InvitesFollowLockHolds, ShadowNeverListedHolds,
   NoShadowOnSurfaceHolds, ShownIsStoredHolds, GapsExplainedHolds, DueIsWatchedHolds, KeptHolds,
   TargetFollowsOpenHolds, PTL
=============================================================================
