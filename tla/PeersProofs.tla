----------------------------- MODULE PeersProofs -----------------------------
(***************************************************************************)
(* Proofs about what two phones and a server agree on: the invites to a    *)
(* shadow thread, the verification of a peer, the admission of its calls   *)
(* and the sessions their messages are encrypted in.                       *)
(***************************************************************************)
EXTENDS MCPeers, EnrolmentProofs, SequenceLemmas, FiniteSetTheorems

----------------------------------------------------------------------------
(* Shadow invites. *)

Calls == {"create", "accept", "purge", "forget", "tell", "pin"}
Kinds == {"invite", "accept", "decline", "revoke", "text"}
Mail(kind, i) == [kind |-> kind, on |-> i]
Posted == [kind : Kinds, on : Invites]
HasCall(p, call, i) == Call(call, i) \in doing[p]
HasPost(p, kind, i) == Mail(kind, i) \in Range(out[p])
Once(q, x) == \A j, k \in DOMAIN q : q[j] = x /\ q[k] = x => j = k
Asked(i) == Peer(From[i])

(* An invite whose message has not been handed over: nobody else has seen  *)
(* it, and only its alias may be there.                                    *)
Unborn(i) ==
  i \notin made \/ HasCall(From[i], "create", i) =>
    /\ i \notin handle[Asked(i)]
    /\ i \notin made => i \notin handle[From[i]] /\ ~HasCall(From[i], "create", i)
    /\ \A q \in Phones :
         /\ record[q][i] = "none" /\ i \notin inbound[q] /\ i \notin cards[q] /\ i \notin revokedBy[q]
         /\ \A kind \in Kinds : ~HasPost(q, kind, i)
         /\ \A call \in Calls : HasCall(q, call, i) => call = "create"

(* Who makes an invite is never asked, and who is asked makes none. *)
OneSided(i) ==
  /\ i \notin inbound[From[i]] /\ i \notin cards[From[i]]
  /\ ~HasCall(From[i], "accept", i) /\ ~HasCall(Asked(i), "create", i)
  /\ ~HasPost(From[i], "accept", i) /\ ~HasPost(From[i], "decline", i)
  /\ ~HasPost(Asked(i), "invite", i)

Consented(i) ==
  \A q \in Phones :
    record[q][i] = "active" \/ HasCall(q, "accept", i) \/ HasPost(q, "accept", i) => i \in accepted

(* Only a revoke has others told. *)
Disowned(i) ==
  \A q \in Phones :
    HasPost(q, "revoke", i) \/ HasCall(q, "purge", i) \/ HasCall(q, "tell", i) => i \in Revoked

(* While an invite is on its way its recipient has nothing of it; while it *)
(* waits there for an answer, no key is usable and no entry can be revoked. *)
Waiting(i) ==
  /\ Once(out[From[i]], Mail("invite", i))
  /\ HasPost(From[i], "invite", i) =>
       /\ i \notin inbound[Asked(i)] /\ i \notin handle[Asked(i)]
       /\ record[Asked(i)][i] = "none" /\ \A call \in Calls : ~HasCall(Asked(i), call, i)
  /\ i \in inbound[Asked(i)] =>
       /\ record[Asked(i)][i] # "active" /\ ~HasCall(Asked(i), "pin", i)
       /\ i \in handle[Asked(i)] => HasCall(Asked(i), "accept", i)
  /\ HasCall(Asked(i), "accept", i) => i \in inbound[Asked(i)]
  /\ i \in cards[Asked(i)] => i \in inbound[Asked(i)]

(* What a phone has revoked has no record, and nothing left to answer. *)
Final(i) ==
  /\ \A q \in Phones : i \in revokedBy[q] => record[q][i] = "none"
  /\ i \in revokedBy[Asked(i)] =>
       i \notin inbound[Asked(i)] /\ ~HasPost(From[i], "invite", i)

(* How the two records differ while the answer is on its way, and for good *)
(* if an acceptance was missed.                                            *)
Agreed(i) ==
  i \notin Revoked =>
    /\ record[From[i]][i] = "active" => record[Asked(i)][i] = "active"
    /\ record[Asked(i)][i] = "active" =>
         record[From[i]][i] = "active" \/ HasPost(Asked(i), "accept", i) \/ i \in missed
    /\ HasPost(Asked(i), "accept", i) \/ i \in inbound[Asked(i)] \/ HasPost(From[i], "invite", i) =>
         record[From[i]][i] # "none"
    /\ HasPost(Asked(i), "decline", i) =>
         /\ record[Asked(i)][i] # "active" /\ ~HasPost(Asked(i), "accept", i)
         /\ i \notin inbound[Asked(i)] /\ ~HasPost(From[i], "invite", i)
    /\ HasPost(Asked(i), "accept", i) => record[Asked(i)][i] = "active"

InvAt(i) ==
  /\ Unborn(i) /\ OneSided(i) /\ Consented(i) /\ Disowned(i)
  /\ Waiting(i) /\ Final(i) /\ Agreed(i)

InviteInv == InviteTypeOK /\ \A i \in Invites : InvAt(i)

(* Two phones, each the peer of the other. *)
LEMMA PeerLemma ==
  /\ \A p \in Phones : Peer(p) \in Phones /\ Peer(p) # p /\ Peer(Peer(p)) = p
  /\ \A p, q \in Phones : q = p \/ q = Peer(p)
  /\ \A i \in Invites : /\ From[i] \in Phones /\ Asked(i) \in Phones /\ Asked(i) # From[i]
                        /\ Peer(Asked(i)) = From[i] /\ Peer(From[i]) = Asked(i)
                        /\ \A q \in Phones : q = From[i] \/ q = Asked(i)
<1>1. PICK p, q \in Phones : p # q /\ Phones = {p, q}
  BY InvitesAssumption
<1>2. ASSUME NEW r \in Phones PROVE Peer(r) \in Phones /\ Peer(r) # r
  BY <1>1 DEF Peer
<1>3. \A r \in Phones : Peer(Peer(r)) = r
  BY <1>1, <1>2
<1>4. \A i \in Invites : From[i] \in Phones
  BY InvitesAssumption
<1> QED
  BY <1>1, <1>2, <1>3, <1>4 DEF Asked

(* Whether one element occurs at most once. *)
LEMMA OnceLemma ==
  ASSUME NEW S, NEW q \in Seq(S), NEW x
  PROVE  /\ \A y \in S : Once(q, x) /\ (y # x \/ x \notin Range(q)) => Once(Append(q, y), x)
         /\ q # << >> /\ Once(q, x) => Once(Tail(q), x) /\ (Head(q) = x => x \notin Range(Tail(q)))
         /\ \A n \in 0..Len(q) : Once(q, x) => Once(SubSeq(q, 1, n), x)
<1>1. DOMAIN q = 1..Len(q) /\ Len(q) \in Nat
  BY LenProperties
<1>2. ASSUME NEW y \in S, Once(q, x), y # x \/ x \notin Range(q) PROVE Once(Append(q, y), x)
  <2> DEFINE r == Append(q, y)
  <2>1. /\ DOMAIN r = 1..(Len(q) + 1)
        /\ \A j \in 1..Len(q) : r[j] = q[j] /\ r[Len(q) + 1] = y
    BY <1>1, AppendProperties, LenProperties
  <2>2. r[Len(q) + 1] = y
    BY AppendProperties
  <2> HIDE DEF r
  <2>3. ASSUME NEW j \in DOMAIN r, r[j] = x, y = x PROVE j = Len(q) + 1
    <3> SUFFICES ASSUME j # Len(q) + 1 PROVE FALSE
      OBVIOUS
    <3>1. j \in 1..Len(q)
      BY <1>1, <2>1
    <3> QED
      BY <1>1, <1>2, <2>1, <2>3, <3>1 DEF Range
  <2>4. ASSUME NEW j \in DOMAIN r, r[j] = x, y # x PROVE j \in DOMAIN q /\ q[j] = x
    BY <1>1, <2>1, <2>2, <2>4
  <2>5. Once(r, x)
    <3>1. CASE y = x
      BY <2>3, <3>1 DEF Once
    <3>2. CASE y # x
      BY <1>2, <2>4, <3>2 DEF Once
    <3> QED
      BY <3>1, <3>2
  <2> QED
    BY <2>5 DEF r
<1>3. ASSUME q # << >>, Once(q, x)
      PROVE  Once(Tail(q), x) /\ (Head(q) = x => x \notin Range(Tail(q)))
  <2> DEFINE r == Tail(q)
  <2>1. /\ Len(q) \in Nat \ {0} /\ DOMAIN r = 1..(Len(q) - 1) /\ Head(q) = q[1]
        /\ \A j \in 1..(Len(q) - 1) : r[j] = q[j + 1]
    BY <1>1, <1>3, HeadTailProperties, LenProperties, EmptySeq
  <2> HIDE DEF r
  <2>2. \A j \in DOMAIN r : j + 1 \in DOMAIN q /\ r[j] = q[j + 1] /\ j \in Nat /\ j + 1 # 1
    BY <1>1, <2>1
  <2>3. 1 \in DOMAIN q
    BY <1>1, <2>1
  <2>4. \A j, k \in DOMAIN r : r[j] = x /\ r[k] = x => j + 1 = k + 1
    BY <1>3, <2>2 DEF Once
  <2>5. Once(r, x)
    BY <2>2, <2>4 DEF Once
  <2>6. Head(q) = x => x \notin Range(r)
    BY <1>3, <2>1, <2>2, <2>3 DEF Once, Range
  <2> QED
    BY <2>5, <2>6 DEF r
<1>4. ASSUME NEW n \in 0..Len(q), Once(q, x) PROVE Once(SubSeq(q, 1, n), x)
  <2> DEFINE r == SubSeq(q, 1, n)
  <2>1. r \in Seq(S) /\ Len(r) = n /\ \A j \in 1..n : r[j] = q[j]
    BY PrefixLemma
  <2>2. DOMAIN r = 1..n
    BY <2>1, LenProperties
  <2> HIDE DEF r
  <2>3. Once(r, x)
    BY <1>1, <1>4, <2>1, <2>2 DEF Once
  <2> QED
    BY <2>3 DEF r
<1> QED
  BY <1>2, <1>3, <1>4

(* What a message that is sent, is taken or is lost changes. *)
LEMMA PostsLemma ==
  ASSUME InviteTypeOK, NEW p \in Phones, NEW kind \in Kinds, NEW i \in Invites, Posts(p, kind, i)
  PROVE  /\ out' \in [Phones -> Seq(Posted)]
         /\ \A q \in Phones, k \in Kinds, j \in Invites :
              HasPost(q, k, j)' <=> HasPost(q, k, j) \/ (q = p /\ k = kind /\ j = i)
         /\ \A q \in Phones, j \in Invites :
              Once(out[q], Mail("invite", j))
              /\ (q # p \/ kind # "invite" \/ j # i \/ ~HasPost(p, "invite", i))
              => Once(out'[q], Mail("invite", j))
<1>1. /\ out \in [Phones -> Seq(Posted)] /\ out' = [out EXCEPT ![p] = Append(@, Mail(kind, i))]
      /\ Mail(kind, i) \in Posted
  BY DEF InviteTypeOK, Posts, Posted, Kinds, Mail
<1>2. /\ Append(out[p], Mail(kind, i)) \in Seq(Posted)
      /\ Range(Append(out[p], Mail(kind, i))) = Range(out[p]) \cup {Mail(kind, i)}
  BY <1>1, AppendLemma
<1>3. \A k \in Kinds, j \in Invites : Mail(k, j) = Mail(kind, i) <=> k = kind /\ j = i
  BY DEF Mail
<1>4. /\ out' \in [Phones -> Seq(Posted)]
      /\ \A q \in Phones : out'[q] = IF q = p THEN Append(out[p], Mail(kind, i)) ELSE out[q]
  BY <1>1, <1>2
<1>5. ASSUME NEW q \in Phones, NEW k \in Kinds, NEW j \in Invites
      PROVE  HasPost(q, k, j)' <=> HasPost(q, k, j) \/ (q = p /\ k = kind /\ j = i)
  <2>1. CASE q = p
    BY <1>2, <1>3, <1>4, <2>1 DEF HasPost
  <2>2. CASE q # p
    BY <1>4, <2>2 DEF HasPost
  <2> QED
    BY <2>1, <2>2
<1>6. ASSUME NEW q \in Phones, NEW j \in Invites, Once(out[q], Mail("invite", j)),
             q # p \/ kind # "invite" \/ j # i \/ ~HasPost(p, "invite", i)
      PROVE  Once(out'[q], Mail("invite", j))
  <2>1. CASE q = p
    <3>1. Mail("invite", j) # Mail(kind, i) \/ Mail("invite", j) \notin Range(out[p])
      BY <1>6, <2>1 DEF HasPost, Mail
    <3> QED
      BY <1>1, <1>4, <1>6, <2>1, <3>1, OnceLemma
  <2>2. CASE q # p
    BY <1>4, <1>6, <2>2
  <2> QED
    BY <2>1, <2>2
<1> QED
  BY <1>4, <1>5, <1>6

(* A message that arrives leaves the queue it was at the head of. *)
LEMMA ArrivesLemma ==
  ASSUME InviteTypeOK, NEW p \in Phones, NEW kind \in Kinds, NEW i \in Invites, Arrives(p, kind, i)
  PROVE  /\ out' \in [Phones -> Seq(Posted)]
         /\ HasPost(Peer(p), kind, i)
         /\ \A q \in Phones, k \in Kinds, j \in Invites : HasPost(q, k, j)' => HasPost(q, k, j)
         /\ \A q \in Phones, k \in Kinds, j \in Invites :
              HasPost(q, k, j) => HasPost(q, k, j)' \/ (q = Peer(p) /\ k = kind /\ j = i)
         /\ \A q \in Phones, j \in Invites :
              Once(out[q], Mail("invite", j)) => Once(out'[q], Mail("invite", j))
         /\ Once(out[Peer(p)], Mail(kind, i)) => ~HasPost(Peer(p), kind, i)'
<1> DEFINE s == Peer(p)
           q0 == out[s]
<1>1. s \in Phones
  BY PeerLemma
<1>2. /\ out \in [Phones -> Seq(Posted)] /\ q0 \in Seq(Posted) /\ q0 # << >>
      /\ Head(q0) = Mail(kind, i) /\ out' = [out EXCEPT ![s] = Tail(@)]
  BY <1>1 DEF InviteTypeOK, Arrives, Posted, Kinds, Mail
<1>3. /\ Head(q0) \in Range(q0) /\ Tail(q0) \in Seq(Posted)
      /\ Range(q0) = Range(Tail(q0)) \cup {Head(q0)}
  BY <1>2, TailLemma
<1>4. /\ out' \in [Phones -> Seq(Posted)]
      /\ \A q \in Phones : out'[q] = IF q = s THEN Tail(q0) ELSE out[q]
  BY <1>1, <1>2, <1>3
<1> HIDE DEF s
<1>5. HasPost(s, kind, i)
  BY <1>2, <1>3 DEF HasPost
<1>6. ASSUME NEW q \in Phones, NEW k \in Kinds, NEW j \in Invites
      PROVE  /\ HasPost(q, k, j)' => HasPost(q, k, j)
             /\ HasPost(q, k, j) => HasPost(q, k, j)' \/ (q = s /\ k = kind /\ j = i)
  <2>1. Mail(k, j) = Mail(kind, i) => k = kind /\ j = i
    BY DEF Mail
  <2>2. CASE q = s
    BY <1>2, <1>3, <1>4, <2>1, <2>2 DEF HasPost
  <2>3. CASE q # s
    BY <1>4, <2>3 DEF HasPost
  <2> QED
    BY <2>2, <2>3
<1>7. ASSUME NEW q \in Phones, NEW j \in Invites, Once(out[q], Mail("invite", j))
      PROVE  Once(out'[q], Mail("invite", j))
  BY <1>2, <1>4, <1>7, OnceLemma
<1>8. Once(q0, Mail(kind, i)) => ~HasPost(s, kind, i)'
  BY <1>1, <1>2, <1>4, OnceLemma DEF HasPost
<1> QED
  BY <1>4, <1>5, <1>6, <1>7, <1>8 DEF s

(* What is left of a sequence of messages: some of its places, and the     *)
(* acceptances among the others are lost.                                  *)
LostAt(q0, a, lost) == q0[a].kind = "accept" => q0[a].on \in lost
Thinned(q0, r, place, lost) ==
  /\ place \in [1..Len(r) -> 1..Len(q0)]
  /\ \A j, k \in 1..Len(r) : place[j] = place[k] => j = k
  /\ \A j \in 1..Len(r) : r[j] = q0[place[j]]
  /\ \A a \in 1..Len(q0) : (\E j \in 1..Len(r) : a = place[j]) \/ LostAt(q0, a, lost)

(* No message comes of a loss, and no acceptance goes unnoticed. *)
Fewer(lost) ==
  /\ out' \in [Phones -> Seq(Posted)]
  /\ \A q \in Phones, k \in Kinds, j \in Invites : HasPost(q, k, j)' => HasPost(q, k, j)
  /\ \A q \in Phones, j \in Invites :
       HasPost(q, "accept", j) => HasPost(q, "accept", j)' \/ j \in lost
  /\ \A q \in Phones, j \in Invites :
       Once(out[q], Mail("invite", j)) => Once(out'[q], Mail("invite", j))

LEMMA LossLemma ==
  ASSUME InviteTypeOK, NEW p \in Phones, NEW r \in Seq(Posted),
         out' = [out EXCEPT ![p] = r],
         NEW place, NEW lost, Thinned(out[p], r, place, lost)
  PROVE  Fewer(lost)
<1> DEFINE q0 == out[p]
<1>1. out \in [Phones -> Seq(Posted)] /\ q0 \in Seq(Posted)
  BY DEF InviteTypeOK, Posted, Kinds
<1>2. /\ place \in [1..Len(r) -> 1..Len(q0)]
      /\ \A j, k \in 1..Len(r) : place[j] = place[k] => j = k
      /\ \A j \in 1..Len(r) : r[j] = q0[place[j]]
      /\ \A a \in 1..Len(q0) : (\E j \in 1..Len(r) : a = place[j]) \/ LostAt(q0, a, lost)
  BY DEF Thinned
<1>3. DOMAIN q0 = 1..Len(q0) /\ DOMAIN r = 1..Len(r)
  BY <1>1, LenProperties
<1>4. out' \in [Phones -> Seq(Posted)] /\ out'[p] = r /\ out[p] = q0
  BY <1>1
<1>5. ASSUME NEW q \in Phones, q # p PROVE out'[q] = out[q]
  BY <1>1, <1>5
<1> HIDE DEF q0
<1>6. ASSUME NEW x, x \in Range(r) PROVE x \in Range(q0)
  <2>1. PICK a \in 1..Len(r) : r[a] = x
    BY <1>3, <1>6 DEF Range
  <2>2. place[a] \in DOMAIN q0 /\ q0[place[a]] = x
    BY <1>2, <1>3, <2>1
  <2> QED
    BY <2>2 DEF Range
<1>7. ASSUME NEW j \in Invites, Mail("accept", j) \in Range(q0), j \notin lost
      PROVE  Mail("accept", j) \in Range(r)
  <2>1. PICK a \in 1..Len(q0) : q0[a] = Mail("accept", j)
    BY <1>3, <1>7 DEF Range
  <2>2. q0[a].kind = "accept" /\ q0[a].on = j
    BY <2>1 DEF Mail
  <2>3. ~LostAt(q0, a, lost)
    BY <1>7, <2>2 DEF LostAt
  <2>4. PICK b \in 1..Len(r) : a = place[b]
    BY <1>2, <2>3
  <2>5. r[b] = Mail("accept", j)
    BY <1>2, <2>1, <2>4
  <2> QED
    BY <1>3, <2>5 DEF Range
<1>8. ASSUME NEW x, Once(q0, x) PROVE Once(r, x)
  <2> SUFFICES ASSUME NEW j \in 1..Len(r), NEW k \in 1..Len(r), r[j] = x, r[k] = x PROVE j = k
    BY <1>3 DEF Once
  <2>1. /\ place[j] \in DOMAIN q0 /\ place[k] \in DOMAIN q0
        /\ q0[place[j]] = x /\ q0[place[k]] = x
    BY <1>2, <1>3
  <2>2. place[j] = place[k]
    BY <1>8, <2>1 DEF Once
  <2> QED
    BY <1>2, <2>2
<1>9. ASSUME NEW q \in Phones, NEW k \in Kinds, NEW j \in Invites, HasPost(q, k, j)'
      PROVE  HasPost(q, k, j)
  <2>1. Mail(k, j) \in Range(out'[q])
    BY <1>9 DEF HasPost, Mail
  <2> QED
    BY <1>4, <1>5, <1>6, <2>1 DEF HasPost
<1>10. ASSUME NEW q \in Phones, NEW j \in Invites, HasPost(q, "accept", j)
       PROVE  HasPost(q, "accept", j)' \/ j \in lost
  <2>1. Mail("accept", j) \in Range(out'[q]) \/ j \in lost
    BY <1>4, <1>5, <1>7, <1>10 DEF HasPost
  <2> QED
    BY <2>1 DEF HasPost, Mail
<1>11. ASSUME NEW q \in Phones, NEW j \in Invites, Once(out[q], Mail("invite", j))
       PROVE  Once(out'[q], Mail("invite", j))
  BY <1>4, <1>5, <1>8, <1>11
<1> QED
  BY <1>4, <1>9, <1>10, <1>11 DEF Fewer

(* A beginning of the sequence is left. *)
LEMMA PrefixThins ==
  ASSUME NEW q0 \in Seq(Posted), NEW n \in 0..Len(q0), NEW lost,
         \A a \in (n + 1)..Len(q0) : LostAt(q0, a, lost)
  PROVE  /\ SubSeq(q0, 1, n) \in Seq(Posted)
         /\ \E place : Thinned(q0, SubSeq(q0, 1, n), place, lost)
<1> DEFINE r == SubSeq(q0, 1, n)
           place == [j \in 1..n |-> j]
<1>1. Len(q0) \in Nat
  BY LenProperties
<1>2. r \in Seq(Posted) /\ Len(r) = n /\ \A k \in 1..n : r[k] = q0[k]
  BY <1>1, PrefixLemma
<1> HIDE DEF r
<1>3. place \in [1..n -> 1..Len(q0)] /\ \A j \in 1..n : place[j] = j
  BY <1>1
<1> HIDE DEF place
<1>4. ASSUME NEW a \in 1..Len(q0)
      PROVE  (\E j \in 1..n : a = place[j]) \/ LostAt(q0, a, lost)
  <2>1. CASE a <= n
    <3>1. a \in 1..n
      BY <1>1, <2>1
    <3> QED
      BY <1>3, <3>1
  <2>2. CASE a > n
    <3>1. a \in (n + 1)..Len(q0)
      BY <1>1, <2>2
    <3> QED
      BY <3>1
  <2> QED
    BY <1>1, <2>1, <2>2
<1>5. (\A j, k \in 1..n : place[j] = place[k] => j = k) /\ \A j \in 1..n : r[j] = q0[place[j]]
  BY <1>2, <1>3
<1>6. Thinned(q0, r, place, lost)
  BY <1>2, <1>3, <1>4, <1>5 DEF Thinned
<1> QED
  BY <1>2, <1>6 DEF r

(* One element is taken out of it. *)
LEMMA RemovalThins ==
  ASSUME NEW q0 \in Seq(Posted), NEW k \in 1..Len(q0), NEW lost, LostAt(q0, k, lost)
  PROVE  /\ RemoveAt(q0, k) \in Seq(Posted)
         /\ \E place : Thinned(q0, RemoveAt(q0, k), place, lost)
<1> DEFINE a == SubSeq(q0, 1, k - 1)
           b == SubSeq(q0, k + 1, Len(q0))
           r == RemoveAt(q0, k)
<1>1. q0 \in Seq(Posted) /\ Len(q0) \in Nat /\ k \in 1..Len(q0)
  BY LenProperties
<1>2. a \in Seq(Posted) /\ Len(a) = k - 1 /\ \A j \in 1..(k - 1) : a[j] = q0[j]
  <2>1. k - 1 \in 0..Len(q0)
    BY <1>1
  <2> QED
    BY <1>1, <2>1, PrefixLemma
<1>3. /\ b \in Seq(Posted) /\ Len(b) = Len(q0) - k
      /\ \A j \in 1..(Len(q0) - k) : b[j] = q0[k + j]
  <2>1. \A j \in 1..Len(q0) : q0[j] \in Posted
    BY <1>1, ElementOfSeq
  <2>2. k + 1 \in Int /\ Len(q0) \in Int /\ \A j \in (k + 1)..Len(q0) : q0[j] \in Posted
    BY <1>1, <2>1
  <2>3. /\ b \in Seq(Posted)
        /\ Len(b) = IF k + 1 <= Len(q0) THEN Len(q0) - (k + 1) + 1 ELSE 0
        /\ \A j \in 1..(Len(q0) - (k + 1) + 1) : b[j] = q0[k + 1 + j - 1]
    BY <2>2, SubSeqProperties
  <2> HIDE DEF b
  <2>4. Len(b) = Len(q0) - k
    BY <1>1, <2>3
  <2>5. \A j \in 1..(Len(q0) - k) : j \in 1..(Len(q0) - (k + 1) + 1) /\ k + 1 + j - 1 = k + j
    BY <1>1
  <2> QED
    BY <2>3, <2>4, <2>5
<1>4. r = a \o b
  BY DEF RemoveAt
<1> HIDE DEF a, b, r
<1>6. /\ r \in Seq(Posted) /\ Len(r) = Len(q0) - 1
      /\ \A j \in 1..Len(r) : r[j] = IF j < k THEN q0[j] ELSE q0[j + 1]
  <2>1. /\ r \in Seq(Posted) /\ Len(r) = Len(a) + Len(b)
        /\ \A j \in 1..(Len(a) + Len(b)) : r[j] = IF j <= Len(a) THEN a[j] ELSE b[j - Len(a)]
    BY <1>2, <1>3, <1>4, ConcatProperties
  <2>2. Len(r) = Len(q0) - 1
    BY <1>1, <1>2, <1>3, <2>1
  <2>3. ASSUME NEW j \in 1..Len(r) PROVE r[j] = IF j < k THEN q0[j] ELSE q0[j + 1]
    <3>1. CASE j < k
      BY <1>1, <1>2, <2>1, <3>1
    <3>2. CASE ~(j < k)
      <4>1. /\ j - Len(a) \in 1..(Len(q0) - k) /\ k + (j - Len(a)) = j + 1 /\ ~(j <= Len(a))
        BY <1>1, <1>2, <1>3, <2>1, <3>2
      <4> QED
        BY <1>3, <2>1, <3>2, <4>1
    <3> QED
      BY <3>1, <3>2
  <2> QED
    BY <2>1, <2>2, <2>3
<1> DEFINE place == [j \in 1..Len(r) |-> IF j < k THEN j ELSE j + 1]
<1>7. /\ place \in [1..Len(r) -> 1..Len(q0)]
      /\ \A j \in 1..Len(r) : place[j] = IF j < k THEN j ELSE j + 1
  BY <1>1, <1>6
<1> HIDE DEF place
<1>8. /\ \A i, j \in 1..Len(r) : place[i] = place[j] => i = j
      /\ \A j \in 1..Len(r) : r[j] = q0[place[j]]
  BY <1>1, <1>6, <1>7
<1>9. ASSUME NEW c \in 1..Len(q0), c # k PROVE \E j \in 1..Len(r) : c = place[j]
  <2>1. CASE c < k
    BY <1>1, <1>6, <1>7, <2>1
  <2>2. CASE c > k
    <3>1. c - 1 \in 1..Len(r) /\ ~(c - 1 < k) /\ (c - 1) + 1 = c
      BY <1>1, <1>6, <2>2
    <3> QED
      BY <1>7, <3>1
  <2> QED
    BY <1>1, <1>9, <2>1, <2>2
<1>11. \A c \in 1..Len(q0) : (\E j \in 1..Len(r) : c = place[j]) \/ LostAt(q0, c, lost)
  BY <1>9
<1>12. Thinned(q0, r, place, lost)
  BY <1>7, <1>8, <1>11 DEF Thinned
<1> QED
  BY <1>6, <1>12 DEF r

(* What a dying phone had not handed over is lost. *)
LEMMA DiesLemma ==
  ASSUME InviteTypeOK, NEW p \in Phones, NEW n \in 0..Len(out[p]),
         out' = [out EXCEPT ![p] = SubSeq(@, 1, n)],
         NEW lost, Acceptances({out[p][k] : k \in (n + 1)..Len(out[p])}) \subseteq lost
  PROVE  Fewer(lost)
<1>1. out[p] \in Seq(Posted)
  BY DEF InviteTypeOK, Posted, Kinds
<1>2. \A a \in (n + 1)..Len(out[p]) : LostAt(out[p], a, lost)
  BY DEF Acceptances, LostAt
<1>3. out' = [out EXCEPT ![p] = SubSeq(out[p], 1, n)]
  OBVIOUS
<1>4. SubSeq(out[p], 1, n) \in Seq(Posted)
  BY <1>1, <1>2, PrefixThins
<1>5. PICK place : Thinned(out[p], SubSeq(out[p], 1, n), place, lost)
  BY <1>1, <1>2, PrefixThins
<1> QED
  BY <1>3, <1>4, <1>5, LossLemma

(* One message never arrives. *)
LEMMA LoseLemma ==
  ASSUME InviteTypeOK, NEW p \in Phones, NEW k \in 1..Len(out[p]),
         out' = [out EXCEPT ![p] = RemoveAt(@, k)],
         NEW lost, Acceptances({out[p][k]}) \subseteq lost
  PROVE  Fewer(lost)
<1>1. out[p] \in Seq(Posted)
  BY DEF InviteTypeOK, Posted, Kinds
<1>2. LostAt(out[p], k, lost)
  BY DEF Acceptances, LostAt
<1>3. out' = [out EXCEPT ![p] = RemoveAt(out[p], k)]
  OBVIOUS
<1>4. RemoveAt(out[p], k) \in Seq(Posted)
  BY <1>1, <1>2, RemovalThins
<1>5. PICK place : Thinned(out[p], RemoveAt(out[p], k), place, lost)
  BY <1>1, <1>2, RemovalThins
<1> QED
  BY <1>3, <1>4, <1>5, LossLemma

(* What concerns one invite, and does not change in a step on another. *)
SameAt(i) ==
  /\ \A q \in Phones :
       /\ record'[q][i] = record[q][i]
       /\ i \in handle'[q] <=> i \in handle[q]
       /\ i \in inbound'[q] <=> i \in inbound[q]
       /\ i \in cards'[q] <=> i \in cards[q]
       /\ i \in revokedBy'[q] <=> i \in revokedBy[q]
       /\ \A call \in Calls : HasCall(q, call, i)' <=> HasCall(q, call, i)
       /\ \A kind \in Kinds : HasPost(q, kind, i)' <=> HasPost(q, kind, i)
  /\ i \in made' <=> i \in made
  /\ i \in accepted' <=> i \in accepted
  /\ missed \subseteq missed'
  /\ Once(out[From[i]], Mail("invite", i)) => Once(out'[From[i]], Mail("invite", i))

(* The names of messages and calls. *)
LEMMA WordsLemma ==
  /\ {"invite", "accept", "decline", "revoke", "text"} \subseteq Kinds
  /\ {"create", "accept", "purge", "forget", "tell", "pin"} \subseteq Calls
BY DEF Kinds, Calls

(* What it is for somebody to have revoked a thread. *)
LEMMA RevokedLemma == \A i : i \in Revoked <=> \E q \in Phones : i \in revokedBy[q]
BY DEF Revoked

(* A step on one invite leaves the invariant of another as it was. *)
LEMMA SameLemma ==
  ASSUME NEW i \in Invites, InvAt(i), SameAt(i)
  PROVE  InvAt(i)'
<1> USE PeerLemma, WordsLemma DEF InvAt, SameAt
<1>1. Unborn(i)'
  BY DEF Unborn
<1>2. OneSided(i)'
  BY DEF OneSided
<1>3. (i \in Revoked)' <=> i \in Revoked
  BY DEF Revoked
<1>4. Consented(i)' /\ Disowned(i)'
  BY <1>3 DEF Consented, Disowned
<1>5. Waiting(i)'
  BY DEF Waiting
<1>6. Final(i)'
  BY DEF Final
<1>7. Agreed(i)'
  BY <1>3 DEF Agreed
<1> QED
  BY <1>1, <1>2, <1>4, <1>5, <1>6, <1>7

(* Nothing has been invited yet. *)
LEMMA InviteInvInit == InviteInit => InviteInv
<1> SUFFICES ASSUME InviteInit PROVE InviteInv
  OBVIOUS
<1>1. out \in [Phones -> Seq(Posted)] /\ \A q \in Phones : Range(out[q]) = {} /\ out[q] = << >>
  BY EmptySeq, EmptyLemma DEF InviteInit
<1>2. InviteTypeOK
  BY <1>1 DEF InviteInit, InviteTypeOK, Posted, Kinds
<1>3. ASSUME NEW i \in Invites PROVE InvAt(i)
  <2>1. \A q \in Phones : /\ \A kind : ~HasPost(q, kind, i)
                          /\ \A call : ~HasCall(q, call, i)
    BY <1>1 DEF InviteInit, HasPost, HasCall
  <2>2. Once(out[From[i]], Mail("invite", i))
    BY <1>1, PeerLemma DEF Once
  <2> QED
    BY <2>1, <2>2, PeerLemma
    DEF InviteInit, InvAt, Unborn, OneSided, Consented, Disowned, Waiting, Final, Agreed, Revoked
<1> QED
  BY <1>2, <1>3 DEF InviteInv

(* What a step on an invite does to calls and messages. *)
PostsStay ==
  /\ \A r \in Phones, kind \in Kinds, i \in Invites : HasPost(r, kind, i)' <=> HasPost(r, kind, i)
  /\ \A r \in Phones, i \in Invites :
       Once(out[r], Mail("invite", i)) => Once(out'[r], Mail("invite", i))
CallsStay ==
  \A r \in Phones, call \in Calls, i \in Invites : HasCall(r, call, i)' <=> HasCall(r, call, i)
CallStarts(q, c, j) ==
  \A r \in Phones, call \in Calls, i \in Invites :
    HasCall(r, call, i)' <=> HasCall(r, call, i) \/ (r = q /\ call = c /\ i = j)
CallEnds(q, c, j) ==
  \A r \in Phones, call \in Calls, i \in Invites :
    HasCall(r, call, i)' <=> HasCall(r, call, i) /\ ~(r = q /\ call = c /\ i = j)
Idle(q, j) == \A call \in Calls : ~HasCall(q, call, j)

(* What a step that leaves a variable alone leaves alone. *)
LEMMA StayLemma ==
  /\ UNCHANGED out => PostsStay
  /\ UNCHANGED doing => CallsStay
  /\ UNCHANGED revokedBy => Revoked' = Revoked
BY DEF PostsStay, CallsStay, HasPost, HasCall, Revoked

(* A call begins. *)
LEMMA StartLemma ==
  ASSUME InviteTypeOK, NEW q \in Phones, NEW c \in Calls, NEW j \in Invites,
         doing' = [doing EXCEPT ![q] = @ \cup {Call(c, j)}]
  PROVE  CallStarts(q, c, j)
BY DEF InviteTypeOK, CallStarts, HasCall, Call

(* A call ends. *)
LEMMA EndLemma ==
  ASSUME InviteTypeOK, NEW q \in Phones, NEW c \in Calls, NEW j \in Invites,
         doing' = [doing EXCEPT ![q] = @ \ {Call(c, j)}]
  PROVE  CallEnds(q, c, j)
BY DEF InviteTypeOK, CallEnds, HasCall, Call

(* A phone that is not busy with an invite has no call on it. *)
LEMMA IdleLemma ==
  ASSUME NEW p \in Phones, NEW i \in Invites, ~Busy(p, i)
  PROVE  Idle(p, i)
BY DEF Busy, HasCall, Call, Idle

Binds(q, j, state) ==
  \A r \in Phones, i \in Invites :
    record'[r][i] = IF r = q /\ i = j THEN state ELSE record[r][i]
Sends(q, kind, j) ==
  /\ \A r \in Phones, k \in Kinds, i \in Invites :
       HasPost(r, k, i)' <=> HasPost(r, k, i) \/ (r = q /\ k = kind /\ i = j)
  /\ \A r \in Phones, i \in Invites :
       Once(out[r], Mail("invite", i))
       /\ (r # q \/ kind # "invite" \/ i # j \/ ~HasPost(q, "invite", j))
       => Once(out'[r], Mail("invite", i))
Takes(q, kind, j) ==
  /\ HasPost(Peer(q), kind, j)
  /\ \A r \in Phones, k \in Kinds, i \in Invites : HasPost(r, k, i)' => HasPost(r, k, i)
  /\ \A r \in Phones, k \in Kinds, i \in Invites :
       HasPost(r, k, i) => HasPost(r, k, i)' \/ (r = Peer(q) /\ k = kind /\ i = j)
  /\ \A r \in Phones, i \in Invites :
       Once(out[r], Mail("invite", i)) => Once(out'[r], Mail("invite", i))
  /\ Once(out[Peer(q)], Mail(kind, j)) => ~HasPost(Peer(q), kind, j)'

(* A new invite: the invariant of every invite is kept by CreateInvite. *)
LEMMA CreateInviteStep ==
  ASSUME InviteInv, NEW q \in Phones, NEW j \in Invites, CreateInvite(q, j), NEW i \in Invites
  PROVE  InvAt(i)'
<1>1. /\ From[j] = q /\ j \notin made /\ made' = made \cup {j}
      /\ CallStarts(q, "create", j) /\ PostsStay /\ Revoked' = Revoked
      /\ UNCHANGED <<record, handle, inbound, cards, accepted, revokedBy, missed>>
  BY StartLemma, StayLemma, WordsLemma DEF CreateInvite, InviteInv
<1>2. CASE i # j
  <2>1. SameAt(i)
    BY <1>1, <1>2, PeerLemma
    DEF SameAt, CallStarts, CallEnds, CallsStay, PostsStay, Binds, Sends, Takes, InviteInv, InviteTypeOK
  <2> QED
    BY <2>1, SameLemma DEF InviteInv
<1>3. CASE i = j
  <2> USE PeerLemma, WordsLemma
      DEF CallStarts, CallEnds, CallsStay, PostsStay, Binds, Sends, Takes, Idle, InviteTypeOK
  <2>0. InvAt(j) /\ InviteTypeOK
    BY DEF InviteInv
  <2>1. Unborn(j)'
    BY <1>1, <2>0 DEF InvAt, Unborn
  <2>2. OneSided(j)'
    BY <1>1, <2>0 DEF InvAt, OneSided, Unborn
  <2>3. Consented(j)'
    BY <1>1, <2>0 DEF InvAt, Consented
  <2>4. Disowned(j)'
    BY <1>1, <2>0 DEF InvAt, Disowned
  <2>5. Waiting(j)'
    BY <1>1, <2>0 DEF InvAt, Waiting, Unborn
  <2>6. Final(j)'
    BY <1>1, <2>0 DEF InvAt, Final
  <2>7. Agreed(j)'
    BY <1>1, <2>0 DEF InvAt, Agreed
  <2> QED
    BY <1>3, <2>1, <2>2, <2>3, <2>4, <2>5, <2>6, <2>7 DEF InvAt
<1> QED
  BY <1>2, <1>3

(* The invariant of an invite is kept by AcceptInvite. *)
LEMMA AcceptInviteStep ==
  ASSUME InviteInv, NEW q \in Phones, NEW j \in Invites, AcceptInvite(q, j), NEW i \in Invites
  PROVE  InvAt(i)'
<1>1. /\ j \in cards[q] /\ j \in inbound[q] /\ accepted' = accepted \cup {j} /\ Idle(q, j)
      /\ CallStarts(q, "accept", j) /\ PostsStay /\ Revoked' = Revoked
      /\ UNCHANGED <<record, handle, inbound, cards, made, revokedBy, missed>>
  BY StartLemma, StayLemma, IdleLemma, WordsLemma DEF AcceptInvite, InviteInv
<1>2. CASE i # j
  <2>1. SameAt(i)
    BY <1>1, <1>2, PeerLemma
    DEF SameAt, CallStarts, CallEnds, CallsStay, PostsStay, Binds, Sends, Takes, InviteInv, InviteTypeOK
  <2> QED
    BY <2>1, SameLemma DEF InviteInv
<1>3. CASE i = j
  <2> USE PeerLemma, WordsLemma
      DEF CallStarts, CallEnds, CallsStay, PostsStay, Binds, Sends, Takes, Idle, InviteTypeOK
  <2>0. InvAt(j) /\ InviteTypeOK
    BY DEF InviteInv
  <2>1. q = Asked(j)
    BY <1>1, <2>0 DEF InvAt, OneSided
  <2>2. j \in made /\ ~HasCall(From[j], "create", j)
    BY <1>1, <2>0, <2>1 DEF InvAt, Unborn
  <2>3. Unborn(j)'
    BY <1>1, <2>0, <2>1, <2>2 DEF InvAt, Unborn
  <2>4. OneSided(j)'
    BY <1>1, <2>0, <2>1, <2>2 DEF InvAt, OneSided
  <2>5. Consented(j)'
    BY <1>1, <2>0, <2>1, <2>2 DEF InvAt, Consented
  <2>6. Disowned(j)'
    BY <1>1, <2>0, <2>1, <2>2 DEF InvAt, Disowned
  <2>7. Waiting(j)'
    BY <1>1, <2>0, <2>1, <2>2 DEF InvAt, Waiting
  <2>8. Final(j)'
    BY <1>1, <2>0, <2>1, <2>2 DEF InvAt, Final
  <2>9. Agreed(j)'
    BY <1>1, <2>0, <2>1, <2>2 DEF InvAt, Agreed
  <2> QED
    BY <1>3, <2>3, <2>4, <2>5, <2>6, <2>7, <2>8, <2>9 DEF InvAt
<1> QED
  BY <1>2, <1>3

(* The invariant of an invite is kept by AliasSaved. *)
LEMMA AliasSavedStep ==
  ASSUME InviteInv, NEW q \in Phones, NEW j \in Invites, AliasSaved(q, j), NEW i \in Invites
  PROVE  InvAt(i)'
<1>1. /\ HasCall(q, "create", j) \/ HasCall(q, "accept", j)
      /\ handle' = [handle EXCEPT ![q] = @ \cup {j}] /\ CallsStay /\ PostsStay
      /\ Revoked' = Revoked
      /\ UNCHANGED <<record, inbound, cards, made, accepted, revokedBy, missed>>
  BY StayLemma DEF AliasSaved, HasCall
<1>2. CASE i # j
  <2>1. SameAt(i)
    BY <1>1, <1>2, PeerLemma
    DEF SameAt, CallStarts, CallEnds, CallsStay, PostsStay, Binds, Sends, Takes, InviteInv, InviteTypeOK
  <2> QED
    BY <2>1, SameLemma DEF InviteInv
<1>3. CASE i = j
  <2> USE PeerLemma, WordsLemma
      DEF CallStarts, CallEnds, CallsStay, PostsStay, Binds, Sends, Takes, Idle, InviteTypeOK
  <2>0. InvAt(j) /\ InviteTypeOK
    BY DEF InviteInv
  <2>1. Unborn(j)'
    BY <1>1, <2>0 DEF InvAt, Unborn, OneSided, Waiting
  <2>2. OneSided(j)'
    BY <1>1, <2>0 DEF InvAt, OneSided
  <2>3. Consented(j)'
    BY <1>1, <2>0 DEF InvAt, Consented
  <2>4. Disowned(j)'
    BY <1>1, <2>0 DEF InvAt, Disowned
  <2>5. Waiting(j)'
    BY <1>1, <2>0 DEF InvAt, Waiting, OneSided, Unborn
  <2>6. Final(j)'
    BY <1>1, <2>0 DEF InvAt, Final
  <2>7. Agreed(j)'
    BY <1>1, <2>0 DEF InvAt, Agreed
  <2> QED
    BY <1>3, <2>1, <2>2, <2>3, <2>4, <2>5, <2>6, <2>7 DEF InvAt
<1> QED
  BY <1>2, <1>3

(* Binding writes one record. *)
LEMMA BindsLemma ==
  ASSUME InviteTypeOK, NEW q \in Phones, NEW j \in Invites,
         NEW state \in {"none", "awaiting", "active"}, Bound(q, j, state)
  PROVE  Binds(q, j, state)
BY DEF InviteTypeOK, Bound, Binds

(* Sending adds one message. *)
LEMMA SendsLemma ==
  ASSUME InviteTypeOK, NEW q \in Phones, NEW kind \in Kinds, NEW j \in Invites, Posts(q, kind, j)
  PROVE  Sends(q, kind, j)
BY PostsLemma DEF Sends

(* What arrives has been sent by the peer. *)
LEMMA TakesLemma ==
  ASSUME InviteTypeOK, NEW q \in Phones, NEW kind \in Kinds, NEW j \in Invites, Arrives(q, kind, j)
  PROVE  Takes(q, kind, j)
BY ArrivesLemma DEF Takes

(* The invariant of an invite is kept by InviteMade. *)
LEMMA InviteMadeStep ==
  ASSUME InviteInv, NEW q \in Phones, NEW j \in Invites, InviteMade(q, j), NEW i \in Invites
  PROVE  InvAt(i)'
<1>1. /\ HasCall(q, "create", j) /\ CallEnds(q, "create", j) /\ Sends(q, "invite", j)
      /\ Binds(q, j, "awaiting") /\ Revoked' = Revoked
      /\ UNCHANGED <<handle, inbound, cards, made, accepted, revokedBy, missed>>
  BY EndLemma, SendsLemma, StayLemma, WordsLemma, BindsLemma DEF InviteMade, InviteInv, HasCall
<1>2. CASE i # j
  <2>1. SameAt(i)
    BY <1>1, <1>2, PeerLemma
    DEF SameAt, CallStarts, CallEnds, CallsStay, PostsStay, Binds, Sends, Takes, InviteInv, InviteTypeOK
  <2> QED
    BY <2>1, SameLemma DEF InviteInv
<1>3. CASE i = j
  <2> USE PeerLemma, WordsLemma
      DEF CallStarts, CallEnds, CallsStay, PostsStay, Binds, Sends, Takes, Idle, InviteTypeOK
  <2>0. InvAt(j) /\ InviteTypeOK
    BY DEF InviteInv
  <2>1. q = From[j]
    BY <1>1, <2>0 DEF InvAt, OneSided
  <2>2. /\ j \in made /\ \A r \in Phones : /\ record[r][j] = "none" /\ j \notin inbound[r] /\ j \notin cards[r]
                          /\ j \notin revokedBy[r] /\ \A kind \in Kinds : ~HasPost(r, kind, j)
        /\ \A call \in Calls : ~HasCall(Asked(j), call, j) /\ j \notin handle[Asked(j)]
    BY <1>1, <2>0, <2>1 DEF InvAt, Unborn, OneSided
  <2>3. Unborn(j)'
    BY <1>1, <2>0, <2>1, <2>2 DEF InvAt, Unborn
  <2>4. OneSided(j)'
    BY <1>1, <2>0, <2>1, <2>2 DEF InvAt, OneSided
  <2>5. Consented(j)'
    BY <1>1, <2>0, <2>1, <2>2 DEF InvAt, Consented
  <2>6. Disowned(j)'
    BY <1>1, <2>0, <2>1, <2>2 DEF InvAt, Disowned
  <2>7. Waiting(j)'
    BY <1>1, <2>0, <2>1, <2>2 DEF InvAt, Waiting
  <2>8. Final(j)'
    BY <1>1, <2>0, <2>1, <2>2 DEF InvAt, Final
  <2>9. Agreed(j)'
    BY <1>1, <2>0, <2>1, <2>2 DEF InvAt, Agreed
  <2> QED
    BY <1>3, <2>3, <2>4, <2>5, <2>6, <2>7, <2>8, <2>9 DEF InvAt
<1> QED
  BY <1>2, <1>3

(* The invariant of an invite is kept by InviteAccepted. *)
LEMMA InviteAcceptedStep ==
  ASSUME InviteInv, NEW q \in Phones, NEW j \in Invites, InviteAccepted(q, j), NEW i \in Invites
  PROVE  InvAt(i)'
<1>1. /\ HasCall(q, "accept", j) /\ CallEnds(q, "accept", j) /\ Sends(q, "accept", j)
      /\ Binds(q, j, "active") /\ Revoked' = Revoked
      /\ inbound' = [inbound EXCEPT ![q] = @ \ {j}] /\ cards' = [cards EXCEPT ![q] = @ \ {j}]
      /\ UNCHANGED <<handle, made, accepted, revokedBy, missed>>
  BY EndLemma, SendsLemma, StayLemma, WordsLemma, BindsLemma DEF InviteAccepted, InviteInv, HasCall
<1>2. CASE i # j
  <2>1. SameAt(i)
    BY <1>1, <1>2, PeerLemma
    DEF SameAt, CallStarts, CallEnds, CallsStay, PostsStay, Binds, Sends, Takes, InviteInv, InviteTypeOK
  <2> QED
    BY <2>1, SameLemma DEF InviteInv
<1>3. CASE i = j
  <2> USE PeerLemma, WordsLemma
      DEF CallStarts, CallEnds, CallsStay, PostsStay, Binds, Sends, Takes, Idle, InviteTypeOK
  <2>0. InvAt(j) /\ InviteTypeOK
    BY DEF InviteInv
  <2>1. q = Asked(j)
    BY <1>1, <2>0 DEF InvAt, OneSided
  <2>2. j \in made /\ ~HasCall(From[j], "create", j)
    BY <1>1, <2>0, <2>1 DEF InvAt, Unborn
  <2>3. j \in inbound[Asked(j)] /\ ~HasPost(From[j], "invite", j)
    BY <1>1, <2>0, <2>1, <2>2 DEF InvAt, Waiting
  <2>4. j \notin revokedBy[Asked(j)]
    BY <1>1, <2>0, <2>1, <2>2, <2>3 DEF InvAt, Final
  <2>5. \A r \in Phones : r # q => record'[r][j] = record[r][j]
    BY <1>1, <2>0, <2>1, <2>2, <2>3, <2>4
  <2>6. Unborn(j)'
    BY <1>1, <2>0, <2>1, <2>2, <2>3, <2>4, <2>5 DEF InvAt, Unborn
  <2>7. OneSided(j)'
    BY <1>1, <2>0, <2>1, <2>2, <2>3, <2>4, <2>5 DEF InvAt, OneSided
  <2>8. Consented(j)'
    BY <1>1, <2>0, <2>1, <2>2, <2>3, <2>4, <2>5 DEF InvAt, Consented
  <2>9. Disowned(j)'
    BY <1>1, <2>0, <2>1, <2>2, <2>3, <2>4, <2>5 DEF InvAt, Disowned
  <2>10. Waiting(j)'
    BY <1>1, <2>0, <2>1, <2>2, <2>3, <2>4, <2>5 DEF InvAt, Waiting
  <2>11. Final(j)'
    BY <1>1, <2>0, <2>1, <2>2, <2>3, <2>4, <2>5 DEF InvAt, Final
  <2>12. Agreed(j)'
    BY <1>1, <2>0, <2>1, <2>2, <2>3, <2>4, <2>5 DEF InvAt, Agreed
  <2> QED
    BY <1>3, <2>6, <2>7, <2>8, <2>9, <2>10, <2>11, <2>12 DEF InvAt
<1> QED
  BY <1>2, <1>3

(* The invariant of an invite is kept by DeclineInvite. *)
LEMMA DeclineInviteStep ==
  ASSUME InviteInv, NEW q \in Phones, NEW j \in Invites, DeclineInvite(q, j), NEW i \in Invites
  PROVE  InvAt(i)'
<1>1. /\ j \in cards[q] /\ Idle(q, j) /\ CallsStay /\ Revoked' = Revoked
      /\ cards' = [cards EXCEPT ![q] = @ \ {j}] /\ UNCHANGED <<made, accepted, revokedBy, missed>>
      /\ \/ /\ inbound' = [inbound EXCEPT ![q] = @ \ {j}] /\ Sends(q, "decline", j)
            /\ Binds(q, j, "none") /\ handle' = [handle EXCEPT ![q] = @ \ {j}]
         \/ UNCHANGED <<inbound, record, handle>> /\ PostsStay
  BY SendsLemma, StayLemma, IdleLemma, WordsLemma, BindsLemma DEF DeclineInvite, InviteInv
<1>2. CASE i # j
  <2>1. SameAt(i)
    BY <1>1, <1>2, PeerLemma
    DEF SameAt, CallStarts, CallEnds, CallsStay, PostsStay, Binds, Sends, Takes, InviteInv, InviteTypeOK
  <2> QED
    BY <2>1, SameLemma DEF InviteInv
<1>3. CASE i = j
  <2> USE PeerLemma, WordsLemma
      DEF CallStarts, CallEnds, CallsStay, PostsStay, Binds, Sends, Takes, Idle, InviteTypeOK
  <2>0. InvAt(j) /\ InviteTypeOK
    BY DEF InviteInv
  <2>1. q = Asked(j)
    BY <1>1, <2>0 DEF InvAt, OneSided
  <2>2. j \in made /\ ~HasCall(From[j], "create", j)
    BY <1>1, <2>0, <2>1 DEF InvAt, Unborn
  <2>3. j \in inbound[Asked(j)] /\ ~HasPost(From[j], "invite", j) /\ record[Asked(j)][j] # "active"
    BY <1>1, <2>0, <2>1, <2>2 DEF InvAt, Waiting
  <2>4. Unborn(j)'
    BY <1>1, <2>0, <2>1, <2>2, <2>3 DEF InvAt, Unborn
  <2>5. OneSided(j)'
    BY <1>1, <2>0, <2>1, <2>2, <2>3 DEF InvAt, OneSided
  <2>6. Consented(j)'
    BY <1>1, <2>0, <2>1, <2>2, <2>3 DEF InvAt, Consented
  <2>7. Disowned(j)'
    BY <1>1, <2>0, <2>1, <2>2, <2>3 DEF InvAt, Disowned
  <2>8. Waiting(j)'
    BY <1>1, <2>0, <2>1, <2>2, <2>3 DEF InvAt, Waiting
  <2>9. Final(j)'
    BY <1>1, <2>0, <2>1, <2>2, <2>3 DEF InvAt, Final
  <2>10. Agreed(j)'
    BY <1>1, <2>0, <2>1, <2>2, <2>3 DEF InvAt, Agreed
  <2> QED
    BY <1>3, <2>4, <2>5, <2>6, <2>7, <2>8, <2>9, <2>10 DEF InvAt
<1> QED
  BY <1>2, <1>3

(* The invariant of an invite is kept by RevokeThread. *)
LEMMA RevokeThreadStep ==
  ASSUME InviteInv, NEW q \in Phones, NEW j \in Invites, RevokeThread(q, j), NEW i \in Invites
  PROVE  InvAt(i)'
<1>1. /\ record[q][j] # "none" /\ (record[q][j] = "active" \/ j \in handle[q]) /\ Idle(q, j)
      /\ Binds(q, j, "none") /\ handle' = [handle EXCEPT ![q] = @ \ {j}]
      /\ revokedBy' = [revokedBy EXCEPT ![q] = @ \cup {j}] /\ PostsStay
      /\ CallStarts(q, "purge", j) \/ CallStarts(q, "tell", j)
      /\ UNCHANGED <<inbound, cards, made, accepted, missed>>
  BY StartLemma, StayLemma, IdleLemma, WordsLemma, BindsLemma DEF RevokeThread, InviteInv, Known
<1>2. CASE i # j
  <2>1. SameAt(i)
    BY <1>1, <1>2, PeerLemma
    DEF SameAt, CallStarts, CallEnds, CallsStay, PostsStay, Binds, Sends, Takes, InviteInv, InviteTypeOK
  <2> QED
    BY <2>1, SameLemma DEF InviteInv
<1>3. CASE i = j
  <2> USE PeerLemma, WordsLemma
      DEF CallStarts, CallEnds, CallsStay, PostsStay, Binds, Sends, Takes, Idle, InviteTypeOK
  <2>0. InvAt(j) /\ InviteTypeOK
    BY DEF InviteInv
  <2>1. j \in made /\ ~HasCall(From[j], "create", j)
    BY <1>1, <2>0 DEF InvAt, Unborn
  <2>2. \A r \in Phones : record'[r][j] = "active" => record[r][j] = "active"
    BY <1>1, <2>0, <2>1
  <2>3. j \in Revoked'
    BY <1>1, <2>0, <2>1, <2>2 DEF Revoked
  <2>4. j \notin inbound[q] /\ (q = Asked(j) => ~HasPost(From[j], "invite", j))
    BY <1>1, <2>0, <2>1, <2>2, <2>3 DEF InvAt, Waiting, OneSided
  <2>5. Unborn(j)'
    BY <1>1, <2>0, <2>1, <2>2, <2>3, <2>4 DEF InvAt, Unborn
  <2>6. OneSided(j)'
    BY <1>1, <2>0, <2>1, <2>2, <2>3, <2>4 DEF InvAt, OneSided
  <2>7. Consented(j)'
    BY <1>1, <2>0, <2>1, <2>2, <2>3, <2>4 DEF InvAt, Consented
  <2>8. Disowned(j)'
    BY <1>1, <2>0, <2>1, <2>2, <2>3, <2>4 DEF InvAt, Disowned
  <2>9. Waiting(j)'
    BY <1>1, <2>0, <2>1, <2>2, <2>3, <2>4 DEF InvAt, Waiting
  <2>10. Final(j)'
    BY <1>1, <2>0, <2>1, <2>2, <2>3, <2>4 DEF InvAt, Final
  <2>11. Agreed(j)'
    BY <1>1, <2>0, <2>1, <2>2, <2>3, <2>4 DEF InvAt, Agreed
  <2> QED
    BY <1>3, <2>5, <2>6, <2>7, <2>8, <2>9, <2>10, <2>11 DEF InvAt
<1> QED
  BY <1>2, <1>3

(* The invariant of an invite is kept by RowsPurged. *)
LEMMA RowsPurgedStep ==
  ASSUME InviteInv, NEW q \in Phones, NEW j \in Invites, RowsPurged(q, j), NEW i \in Invites
  PROVE  InvAt(i)'
<1>1. /\ \/ /\ HasCall(q, "purge", j)
            /\ \A r \in Phones, call \in Calls, k \in Invites :
                 HasCall(r, call, k)' <=> IF call = "tell" /\ r = q /\ k = j THEN TRUE
                                          ELSE HasCall(r, call, k) /\ ~(r = q /\ call = "purge" /\ k = j)
         \/ HasCall(q, "forget", j) /\ CallEnds(q, "forget", j)
      /\ PostsStay /\ Revoked' = Revoked
      /\ UNCHANGED <<record, handle, inbound, cards, made, accepted, revokedBy, missed>>
  BY StayLemma, WordsLemma DEF RowsPurged, InviteInv, InviteTypeOK, HasCall, Call, CallEnds
<1>2. CASE i # j
  <2>1. SameAt(i)
    BY <1>1, <1>2, PeerLemma
    DEF SameAt, CallStarts, CallEnds, CallsStay, PostsStay, Binds, Sends, Takes, InviteInv, InviteTypeOK
  <2> QED
    BY <2>1, SameLemma DEF InviteInv
<1>3. CASE i = j
  <2> USE PeerLemma, WordsLemma
      DEF CallStarts, CallEnds, CallsStay, PostsStay, Binds, Sends, Takes, Idle, InviteTypeOK
  <2>0. InvAt(j) /\ InviteTypeOK
    BY DEF InviteInv
  <2>1. j \in made /\ ~HasCall(From[j], "create", j)
    BY <1>1, <2>0 DEF InvAt, Unborn
  <2>2. Unborn(j)'
    BY <1>1, <2>0, <2>1 DEF InvAt, Unborn
  <2>3. OneSided(j)'
    BY <1>1, <2>0, <2>1 DEF InvAt, OneSided
  <2>4. Consented(j)'
    BY <1>1, <2>0, <2>1 DEF InvAt, Consented
  <2>5. Disowned(j)'
    BY <1>1, <2>0, <2>1 DEF InvAt, Disowned
  <2>6. Waiting(j)'
    BY <1>1, <2>0, <2>1 DEF InvAt, Waiting
  <2>7. Final(j)'
    BY <1>1, <2>0, <2>1 DEF InvAt, Final
  <2>8. Agreed(j)'
    BY <1>1, <2>0, <2>1 DEF InvAt, Agreed
  <2> QED
    BY <1>3, <2>2, <2>3, <2>4, <2>5, <2>6, <2>7, <2>8 DEF InvAt
<1> QED
  BY <1>2, <1>3

(* The invariant of an invite is kept by RevokeTold. *)
LEMMA RevokeToldStep ==
  ASSUME InviteInv, NEW q \in Phones, NEW j \in Invites, RevokeTold(q, j), NEW i \in Invites
  PROVE  InvAt(i)'
<1>1. /\ HasCall(q, "tell", j) /\ CallEnds(q, "tell", j) /\ Sends(q, "revoke", j)
      /\ Revoked' = Revoked
      /\ UNCHANGED <<record, handle, inbound, cards, made, accepted, revokedBy, missed>>
  BY EndLemma, SendsLemma, StayLemma, WordsLemma DEF RevokeTold, InviteInv, HasCall
<1>2. CASE i # j
  <2>1. SameAt(i)
    BY <1>1, <1>2, PeerLemma
    DEF SameAt, CallStarts, CallEnds, CallsStay, PostsStay, Binds, Sends, Takes, InviteInv, InviteTypeOK
  <2> QED
    BY <2>1, SameLemma DEF InviteInv
<1>3. CASE i = j
  <2> USE PeerLemma, WordsLemma
      DEF CallStarts, CallEnds, CallsStay, PostsStay, Binds, Sends, Takes, Idle, InviteTypeOK
  <2>0. InvAt(j) /\ InviteTypeOK
    BY DEF InviteInv
  <2>1. j \in made /\ ~HasCall(From[j], "create", j)
    BY <1>1, <2>0 DEF InvAt, Unborn
  <2>2. Unborn(j)'
    BY <1>1, <2>0, <2>1 DEF InvAt, Unborn
  <2>3. OneSided(j)'
    BY <1>1, <2>0, <2>1 DEF InvAt, OneSided
  <2>4. Consented(j)'
    BY <1>1, <2>0, <2>1 DEF InvAt, Consented
  <2>5. Disowned(j)'
    BY <1>1, <2>0, <2>1 DEF InvAt, Disowned
  <2>6. Waiting(j)'
    BY <1>1, <2>0, <2>1 DEF InvAt, Waiting
  <2>7. Final(j)'
    BY <1>1, <2>0, <2>1 DEF InvAt, Final
  <2>8. Agreed(j)'
    BY <1>1, <2>0, <2>1 DEF InvAt, Agreed
  <2> QED
    BY <1>3, <2>2, <2>3, <2>4, <2>5, <2>6, <2>7, <2>8 DEF InvAt
<1> QED
  BY <1>2, <1>3

(* The invariant of an invite is kept by ChangePin. *)
LEMMA ChangePinStep ==
  ASSUME InviteInv, NEW q \in Phones, NEW j \in Invites, ChangePin(q, j), NEW i \in Invites
  PROVE  InvAt(i)'
<1>1. /\ j \in handle[q] /\ Idle(q, j) /\ CallStarts(q, "pin", j) /\ PostsStay /\ Revoked' = Revoked
      /\ UNCHANGED <<record, handle, inbound, cards, made, accepted, revokedBy, missed>>
  BY StartLemma, StayLemma, IdleLemma, WordsLemma DEF ChangePin, InviteInv
<1>2. CASE i # j
  <2>1. SameAt(i)
    BY <1>1, <1>2, PeerLemma
    DEF SameAt, CallStarts, CallEnds, CallsStay, PostsStay, Binds, Sends, Takes, InviteInv, InviteTypeOK
  <2> QED
    BY <2>1, SameLemma DEF InviteInv
<1>3. CASE i = j
  <2> USE PeerLemma, WordsLemma
      DEF CallStarts, CallEnds, CallsStay, PostsStay, Binds, Sends, Takes, Idle, InviteTypeOK
  <2>0. InvAt(j) /\ InviteTypeOK
    BY DEF InviteInv
  <2>1. j \notin handle[Asked(j)] => q = From[j] \/ record[q][j] = "active"
    BY <1>1, <2>0
  <2>2. j \in made /\ ~HasCall(From[j], "create", j)
    BY <1>1, <2>0, <2>1 DEF InvAt, Unborn
  <2>3. Unborn(j)'
    BY <1>1, <2>0, <2>1, <2>2 DEF InvAt, Unborn
  <2>4. OneSided(j)'
    BY <1>1, <2>0, <2>1, <2>2 DEF InvAt, OneSided
  <2>5. Consented(j)'
    BY <1>1, <2>0, <2>1, <2>2 DEF InvAt, Consented
  <2>6. Disowned(j)'
    BY <1>1, <2>0, <2>1, <2>2 DEF InvAt, Disowned
  <2>7. Waiting(j)'
    BY <1>1, <2>0, <2>1, <2>2 DEF InvAt, Waiting
  <2>8. Final(j)'
    BY <1>1, <2>0, <2>1, <2>2 DEF InvAt, Final
  <2>9. Agreed(j)'
    BY <1>1, <2>0, <2>1, <2>2 DEF InvAt, Agreed
  <2> QED
    BY <1>3, <2>3, <2>4, <2>5, <2>6, <2>7, <2>8, <2>9 DEF InvAt
<1> QED
  BY <1>2, <1>3

(* The invariant of an invite is kept by PinChanged. *)
LEMMA PinChangedStep ==
  ASSUME InviteInv, NEW q \in Phones, NEW j \in Invites, PinChanged(q, j), NEW i \in Invites
  PROVE  InvAt(i)'
<1>1. /\ HasCall(q, "pin", j) /\ CallEnds(q, "pin", j) /\ PostsStay /\ Revoked' = Revoked
      /\ handle' = [handle EXCEPT ![q] = @ \cup {j}]
      /\ UNCHANGED <<record, inbound, cards, made, accepted, revokedBy, missed>>
  BY EndLemma, StayLemma, WordsLemma DEF PinChanged, InviteInv, HasCall
<1>2. CASE i # j
  <2>1. SameAt(i)
    BY <1>1, <1>2, PeerLemma
    DEF SameAt, CallStarts, CallEnds, CallsStay, PostsStay, Binds, Sends, Takes, InviteInv, InviteTypeOK
  <2> QED
    BY <2>1, SameLemma DEF InviteInv
<1>3. CASE i = j
  <2> USE PeerLemma, WordsLemma
      DEF CallStarts, CallEnds, CallsStay, PostsStay, Binds, Sends, Takes, Idle, InviteTypeOK
  <2>0. InvAt(j) /\ InviteTypeOK
    BY DEF InviteInv
  <2>1. j \in made /\ ~HasCall(From[j], "create", j)
    BY <1>1, <2>0 DEF InvAt, Unborn
  <2>2. Unborn(j)'
    BY <1>1, <2>0, <2>1 DEF InvAt, Unborn
  <2>3. OneSided(j)'
    BY <1>1, <2>0, <2>1 DEF InvAt, OneSided
  <2>4. Consented(j)'
    BY <1>1, <2>0, <2>1 DEF InvAt, Consented
  <2>5. Disowned(j)'
    BY <1>1, <2>0, <2>1 DEF InvAt, Disowned
  <2>6. Waiting(j)'
    BY <1>1, <2>0, <2>1 DEF InvAt, Waiting
  <2>7. Final(j)'
    BY <1>1, <2>0, <2>1 DEF InvAt, Final
  <2>8. Agreed(j)'
    BY <1>1, <2>0, <2>1 DEF InvAt, Agreed
  <2> QED
    BY <1>3, <2>2, <2>3, <2>4, <2>5, <2>6, <2>7, <2>8 DEF InvAt
<1> QED
  BY <1>2, <1>3

(* The invariant of an invite is kept by SendText. *)
LEMMA SendTextStep ==
  ASSUME InviteInv, NEW q \in Phones, NEW j \in Invites, SendText(q, j), NEW i \in Invites
  PROVE  InvAt(i)'
<1>1. /\ record[q][j] = "active" \/ j \in handle[q]
      /\ Idle(q, j) /\ Sends(q, "text", j) /\ CallsStay /\ Revoked' = Revoked
      /\ UNCHANGED <<record, handle, inbound, cards, made, accepted, revokedBy, missed>>
  BY SendsLemma, StayLemma, IdleLemma, WordsLemma DEF SendText, InviteInv, Known
<1>2. CASE i # j
  <2>1. SameAt(i)
    BY <1>1, <1>2, PeerLemma
    DEF SameAt, CallStarts, CallEnds, CallsStay, PostsStay, Binds, Sends, Takes, InviteInv, InviteTypeOK
  <2> QED
    BY <2>1, SameLemma DEF InviteInv
<1>3. CASE i = j
  <2> USE PeerLemma, WordsLemma
      DEF CallStarts, CallEnds, CallsStay, PostsStay, Binds, Sends, Takes, Idle, InviteTypeOK
  <2>0. InvAt(j) /\ InviteTypeOK
    BY DEF InviteInv
  <2>1. j \notin handle[Asked(j)] => q = From[j] \/ record[q][j] = "active"
    BY <1>1, <2>0
  <2>2. j \in made /\ ~HasCall(From[j], "create", j)
    BY <1>1, <2>0, <2>1 DEF InvAt, Unborn
  <2>3. Unborn(j)'
    BY <1>1, <2>0, <2>1, <2>2 DEF InvAt, Unborn
  <2>4. OneSided(j)'
    BY <1>1, <2>0, <2>1, <2>2 DEF InvAt, OneSided
  <2>5. Consented(j)'
    BY <1>1, <2>0, <2>1, <2>2 DEF InvAt, Consented
  <2>6. Disowned(j)'
    BY <1>1, <2>0, <2>1, <2>2 DEF InvAt, Disowned
  <2>7. Waiting(j)'
    BY <1>1, <2>0, <2>1, <2>2 DEF InvAt, Waiting
  <2>8. Final(j)'
    BY <1>1, <2>0, <2>1, <2>2 DEF InvAt, Final
  <2>9. Agreed(j)'
    BY <1>1, <2>0, <2>1, <2>2 DEF InvAt, Agreed
  <2> QED
    BY <1>3, <2>3, <2>4, <2>5, <2>6, <2>7, <2>8, <2>9 DEF InvAt
<1> QED
  BY <1>2, <1>3

(* The invariant of an invite is kept by TextArrives. *)
LEMMA TextArrivesStep ==
  ASSUME InviteInv, NEW q \in Phones, NEW j \in Invites, TextArrives(q, j), NEW i \in Invites
  PROVE  InvAt(i)'
<1>1. /\ Takes(q, "text", j) /\ CallsStay /\ Revoked' = Revoked
      /\ UNCHANGED <<record, handle, inbound, cards, made, accepted, revokedBy, missed>>
  BY TakesLemma, StayLemma, WordsLemma DEF TextArrives, InviteInv
<1>2. CASE i # j
  <2>1. SameAt(i)
    BY <1>1, <1>2, PeerLemma
    DEF SameAt, CallStarts, CallEnds, CallsStay, PostsStay, Binds, Sends, Takes, InviteInv, InviteTypeOK
  <2> QED
    BY <2>1, SameLemma DEF InviteInv
<1>3. CASE i = j
  <2> USE PeerLemma, WordsLemma
      DEF CallStarts, CallEnds, CallsStay, PostsStay, Binds, Sends, Takes, Idle, InviteTypeOK
  <2>0. InvAt(j) /\ InviteTypeOK
    BY DEF InviteInv
  <2>1. j \in made /\ ~HasCall(From[j], "create", j)
    BY <1>1, <2>0 DEF InvAt, Unborn
  <2>2. Unborn(j)'
    BY <1>1, <2>0, <2>1 DEF InvAt, Unborn
  <2>3. OneSided(j)'
    BY <1>1, <2>0, <2>1 DEF InvAt, OneSided
  <2>4. Consented(j)'
    BY <1>1, <2>0, <2>1 DEF InvAt, Consented
  <2>5. Disowned(j)'
    BY <1>1, <2>0, <2>1 DEF InvAt, Disowned
  <2>6. Waiting(j)'
    BY <1>1, <2>0, <2>1 DEF InvAt, Waiting
  <2>7. Final(j)'
    BY <1>1, <2>0, <2>1 DEF InvAt, Final
  <2>8. Agreed(j)'
    BY <1>1, <2>0, <2>1 DEF InvAt, Agreed
  <2> QED
    BY <1>3, <2>2, <2>3, <2>4, <2>5, <2>6, <2>7, <2>8 DEF InvAt
<1> QED
  BY <1>2, <1>3

(* The invariant of an invite is kept by ControlIgnored. *)
LEMMA ControlIgnoredStep ==
  ASSUME InviteInv, NEW q \in Phones, NEW j \in Invites, ControlIgnored(q, j), NEW i \in Invites
  PROVE  InvAt(i)'
<1>1. /\ \E kind \in {"invite", "accept", "decline", "revoke"} :
           Takes(q, kind, j) /\ missed' = missed \cup (IF kind = "accept" THEN {j} ELSE {})
      /\ CallsStay /\ Revoked' = Revoked
      /\ UNCHANGED <<record, handle, inbound, cards, made, accepted, revokedBy>>
  <2>1. PICK kind \in {"invite", "accept", "decline", "revoke"} : Arrives(q, kind, j)
    BY DEF ControlIgnored
  <2>2. Acceptances({Head(out[Peer(q)])}) = IF kind = "accept" THEN {j} ELSE {}
    BY <2>1 DEF Arrives, Acceptances
  <2> QED
    BY <2>1, <2>2, TakesLemma, StayLemma, WordsLemma DEF ControlIgnored, InviteInv
<1>2. CASE i # j
  <2>1. SameAt(i)
    BY <1>1, <1>2, PeerLemma
    DEF SameAt, CallStarts, CallEnds, CallsStay, PostsStay, Binds, Sends, Takes, InviteInv, InviteTypeOK
  <2> QED
    BY <2>1, SameLemma DEF InviteInv
<1>3. CASE i = j
  <2> USE PeerLemma, WordsLemma
      DEF CallStarts, CallEnds, CallsStay, PostsStay, Binds, Sends, Takes, Idle, InviteTypeOK
  <2>0. InvAt(j) /\ InviteTypeOK
    BY DEF InviteInv
  <2>1. j \in made /\ ~HasCall(From[j], "create", j)
    BY <1>1, <2>0 DEF InvAt, Unborn
  <2>2. Unborn(j)'
    BY <1>1, <2>0, <2>1 DEF InvAt, Unborn
  <2>3. OneSided(j)'
    BY <1>1, <2>0, <2>1 DEF InvAt, OneSided
  <2>4. Consented(j)'
    BY <1>1, <2>0, <2>1 DEF InvAt, Consented
  <2>5. Disowned(j)'
    BY <1>1, <2>0, <2>1 DEF InvAt, Disowned
  <2>6. Waiting(j)'
    BY <1>1, <2>0, <2>1 DEF InvAt, Waiting
  <2>7. Final(j)'
    BY <1>1, <2>0, <2>1 DEF InvAt, Final
  <2>8. Agreed(j)'
    BY <1>1, <2>0, <2>1 DEF InvAt, Agreed
  <2> QED
    BY <1>3, <2>2, <2>3, <2>4, <2>5, <2>6, <2>7, <2>8 DEF InvAt
<1> QED
  BY <1>2, <1>3

(* The invariant of an invite is kept by InviteArrives. *)
LEMMA InviteArrivesStep ==
  ASSUME InviteInv, NEW q \in Phones, NEW j \in Invites, InviteArrives(q, j), NEW i \in Invites
  PROVE  InvAt(i)'
<1>1. /\ Takes(q, "invite", j) /\ CallsStay /\ Revoked' = Revoked
      /\ inbound' = [inbound EXCEPT ![q] = @ \cup {j}] /\ cards' = [cards EXCEPT ![q] = @ \cup {j}]
      /\ Binds(q, j, "awaiting") \/ record' = record
      /\ UNCHANGED <<handle, made, accepted, revokedBy, missed>>
  BY TakesLemma, StayLemma, WordsLemma, BindsLemma DEF InviteArrives, InviteInv
<1>2. CASE i # j
  <2>1. SameAt(i)
    BY <1>1, <1>2, PeerLemma
    DEF SameAt, CallStarts, CallEnds, CallsStay, PostsStay, Binds, Sends, Takes, InviteInv, InviteTypeOK
  <2> QED
    BY <2>1, SameLemma DEF InviteInv
<1>3. CASE i = j
  <2> USE PeerLemma, WordsLemma
      DEF CallStarts, CallEnds, CallsStay, PostsStay, Binds, Sends, Takes, Idle, InviteTypeOK
  <2>0. InvAt(j) /\ InviteTypeOK
    BY DEF InviteInv
  <2>1. q = Asked(j)
    BY <1>1, <2>0 DEF InvAt, OneSided
  <2>2. j \in made /\ ~HasCall(From[j], "create", j)
    BY <1>1, <2>0, <2>1 DEF InvAt, Unborn
  <2>3. /\ ~HasPost(From[j], "invite", j)' /\ HasPost(From[j], "invite", j)
        /\ j \notin handle[q] /\ record[q][j] = "none" /\ \A call \in Calls : ~HasCall(q, call, j)
    BY <1>1, <2>0, <2>1, <2>2 DEF InvAt, Waiting
  <2>4. j \notin revokedBy[Asked(j)]
    BY <1>1, <2>0, <2>1, <2>2, <2>3 DEF InvAt, Final
  <2>5. \A r \in Phones : r # q => record'[r][j] = record[r][j]
    BY <1>1, <2>0, <2>1, <2>2, <2>3, <2>4
  <2>6. Unborn(j)'
    BY <1>1, <2>0, <2>1, <2>2, <2>3, <2>4, <2>5 DEF InvAt, Unborn
  <2>7. OneSided(j)'
    BY <1>1, <2>0, <2>1, <2>2, <2>3, <2>4, <2>5 DEF InvAt, OneSided
  <2>8. Consented(j)'
    BY <1>1, <2>0, <2>1, <2>2, <2>3, <2>4, <2>5 DEF InvAt, Consented
  <2>9. Disowned(j)'
    BY <1>1, <2>0, <2>1, <2>2, <2>3, <2>4, <2>5 DEF InvAt, Disowned
  <2>10. Waiting(j)'
    BY <1>1, <2>0, <2>1, <2>2, <2>3, <2>4, <2>5 DEF InvAt, Waiting
  <2>11. Final(j)'
    BY <1>1, <2>0, <2>1, <2>2, <2>3, <2>4, <2>5 DEF InvAt, Final
  <2>12. Agreed(j)'
    BY <1>1, <2>0, <2>1, <2>2, <2>3, <2>4, <2>5 DEF InvAt, Agreed
  <2> QED
    BY <1>3, <2>6, <2>7, <2>8, <2>9, <2>10, <2>11, <2>12 DEF InvAt
<1> QED
  BY <1>2, <1>3

(* The invariant of an invite is kept by AcceptArrives. *)
LEMMA AcceptArrivesStep ==
  ASSUME InviteInv, NEW q \in Phones, NEW j \in Invites, AcceptArrives(q, j), NEW i \in Invites
  PROVE  InvAt(i)'
<1>1. /\ Takes(q, "accept", j) /\ CallsStay /\ Revoked' = Revoked
      /\ IF record[q][j] = "none" THEN record' = record
                                   ELSE Binds(q, j, "active")
      /\ UNCHANGED <<handle, inbound, cards, made, accepted, revokedBy, missed>>
  BY TakesLemma, StayLemma, WordsLemma, BindsLemma DEF AcceptArrives, InviteInv
<1>2. CASE i # j
  <2>1. SameAt(i)
    BY <1>1, <1>2, PeerLemma
    DEF SameAt, CallStarts, CallEnds, CallsStay, PostsStay, Binds, Sends, Takes, InviteInv, InviteTypeOK
  <2> QED
    BY <2>1, SameLemma DEF InviteInv
<1>3. CASE i = j
  <2> USE PeerLemma, WordsLemma
      DEF CallStarts, CallEnds, CallsStay, PostsStay, Binds, Sends, Takes, Idle, InviteTypeOK
  <2>0. InvAt(j) /\ InviteTypeOK
    BY DEF InviteInv
  <2>1. q = From[j]
    BY <1>1, <2>0 DEF InvAt, OneSided
  <2>2. j \in made /\ ~HasCall(From[j], "create", j)
    BY <1>1, <2>0, <2>1 DEF InvAt, Unborn
  <2>3. \A r \in Phones : r # q => record'[r][j] = record[r][j]
    BY <1>1, <2>0, <2>1, <2>2
  <2>4. j \in revokedBy[q] => record'[q][j] = "none"
    BY <1>1, <2>0, <2>1, <2>2, <2>3 DEF InvAt, Final
  <2>5. Unborn(j)'
    BY <1>1, <2>0, <2>1, <2>2, <2>3, <2>4 DEF InvAt, Unborn
  <2>6. OneSided(j)'
    BY <1>1, <2>0, <2>1, <2>2, <2>3, <2>4 DEF InvAt, OneSided
  <2>7. Consented(j)'
    BY <1>1, <2>0, <2>1, <2>2, <2>3, <2>4 DEF InvAt, Consented
  <2>8. Disowned(j)'
    BY <1>1, <2>0, <2>1, <2>2, <2>3, <2>4 DEF InvAt, Disowned
  <2>9. Waiting(j)'
    BY <1>1, <2>0, <2>1, <2>2, <2>3, <2>4 DEF InvAt, Waiting
  <2>10. Final(j)'
    BY <1>1, <2>0, <2>1, <2>2, <2>3, <2>4 DEF InvAt, Final
  <2>11. Agreed(j)'
    BY <1>1, <2>0, <2>1, <2>2, <2>3, <2>4 DEF InvAt, Agreed
  <2> QED
    BY <1>3, <2>5, <2>6, <2>7, <2>8, <2>9, <2>10, <2>11 DEF InvAt
<1> QED
  BY <1>2, <1>3

(* The invariant of an invite is kept by DeclineArrives. *)
LEMMA DeclineArrivesStep ==
  ASSUME InviteInv, NEW q \in Phones, NEW j \in Invites, DeclineArrives(q, j), NEW i \in Invites
  PROVE  InvAt(i)'
<1>1. /\ Takes(q, "decline", j) /\ CallsStay /\ Revoked' = Revoked
      /\ Binds(q, j, "none")
      /\ handle' = handle \/ handle' = [handle EXCEPT ![q] = @ \ {j}]
      /\ UNCHANGED <<inbound, cards, made, accepted, revokedBy, missed>>
  BY TakesLemma, StayLemma, WordsLemma, BindsLemma DEF DeclineArrives, InviteInv, InviteTypeOK
<1>2. CASE i # j
  <2>1. \A r \in Phones : record'[r][i] = record[r][i] /\ (i \in handle'[r] <=> i \in handle[r])
    BY <1>1, <1>2 DEF Binds, InviteInv, InviteTypeOK
  <2>2. SameAt(i)
    BY <1>1, <1>2, <2>1, PeerLemma
    DEF SameAt, CallStarts, CallEnds, CallsStay, PostsStay, Binds, Sends, Takes, InviteInv, InviteTypeOK
  <2> QED
    BY <2>2, SameLemma DEF InviteInv
<1>3. CASE i = j
  <2> USE PeerLemma, WordsLemma
      DEF CallStarts, CallEnds, CallsStay, PostsStay, Binds, Sends, Takes, Idle, InviteTypeOK
  <2>0. InvAt(j) /\ InviteTypeOK
    BY DEF InviteInv
  <2>1. q = From[j]
    BY <1>1, <2>0 DEF InvAt, OneSided
  <2>2. j \in made /\ ~HasCall(From[j], "create", j)
    BY <1>1, <2>0, <2>1 DEF InvAt, Unborn
  <2>3. Unborn(j)'
    BY <1>1, <2>0, <2>1, <2>2 DEF InvAt, Unborn
  <2>4. OneSided(j)'
    BY <1>1, <2>0, <2>1, <2>2 DEF InvAt, OneSided
  <2>5. Consented(j)'
    BY <1>1, <2>0, <2>1, <2>2 DEF InvAt, Consented
  <2>6. Disowned(j)'
    BY <1>1, <2>0, <2>1, <2>2 DEF InvAt, Disowned
  <2>7. Waiting(j)'
    BY <1>1, <2>0, <2>1, <2>2 DEF InvAt, Waiting
  <2>8. Final(j)'
    BY <1>1, <2>0, <2>1, <2>2 DEF InvAt, Final
  <2>9. Agreed(j)'
    BY <1>1, <2>0, <2>1, <2>2 DEF InvAt, Agreed
  <2> QED
    BY <1>3, <2>3, <2>4, <2>5, <2>6, <2>7, <2>8, <2>9 DEF InvAt
<1> QED
  BY <1>2, <1>3

(* The invariant of an invite is kept by RevokeArrives. *)
LEMMA RevokeArrivesStep ==
  ASSUME InviteInv, NEW q \in Phones, NEW j \in Invites, RevokeArrives(q, j), NEW i \in Invites
  PROVE  InvAt(i)'
<1>1. /\ Takes(q, "revoke", j) /\ Revoked' = Revoked
      /\ \/ UNCHANGED <<record, handle>> /\ CallsStay
         \/ /\ record[q][j] # "none"
            /\ Binds(q, j, "none") /\ handle' = [handle EXCEPT ![q] = @ \ {j}]
            /\ CallStarts(q, "forget", j) \/ CallsStay
      /\ UNCHANGED <<inbound, cards, made, accepted, revokedBy, missed>>
  BY TakesLemma, StartLemma, StayLemma, WordsLemma, BindsLemma DEF RevokeArrives, InviteInv
<1>2. CASE i # j
  <2>1. \A r \in Phones : record'[r][i] = record[r][i] /\ (i \in handle'[r] <=> i \in handle[r])
    BY <1>1, <1>2 DEF Binds, InviteInv, InviteTypeOK
  <2>2. SameAt(i)
    BY <1>1, <1>2, <2>1, PeerLemma
    DEF SameAt, CallStarts, CallEnds, CallsStay, PostsStay, Binds, Sends, Takes, InviteInv, InviteTypeOK
  <2> QED
    BY <2>2, SameLemma DEF InviteInv
<1>3. CASE i = j
  <2> USE PeerLemma, WordsLemma
      DEF CallStarts, CallEnds, CallsStay, PostsStay, Binds, Sends, Takes, Idle, InviteTypeOK
  <2>0. InvAt(j) /\ InviteTypeOK
    BY DEF InviteInv
  <2>1. j \in made /\ ~HasCall(From[j], "create", j)
    BY <1>1, <2>0 DEF InvAt, Unborn
  <2>2. \A r \in Phones : record'[r][j] = "active" => record[r][j] = "active"
    BY <1>1, <2>0, <2>1
  <2>3. j \in Revoked
    BY <1>1, <2>0, <2>1, <2>2 DEF InvAt, Disowned
  <2>4. Unborn(j)'
    BY <1>1, <2>0, <2>1, <2>2, <2>3 DEF InvAt, Unborn
  <2>5. OneSided(j)'
    BY <1>1, <2>0, <2>1, <2>2, <2>3 DEF InvAt, OneSided
  <2>6. Consented(j)'
    BY <1>1, <2>0, <2>1, <2>2, <2>3 DEF InvAt, Consented
  <2>7. Disowned(j)'
    BY <1>1, <2>0, <2>1, <2>2, <2>3 DEF InvAt, Disowned
  <2>8. Waiting(j)'
    BY <1>1, <2>0, <2>1, <2>2, <2>3 DEF InvAt, Waiting
  <2>9. Final(j)'
    BY <1>1, <2>0, <2>1, <2>2, <2>3 DEF InvAt, Final
  <2>10. Agreed(j)'
    BY <1>1, <2>0, <2>1, <2>2, <2>3 DEF InvAt, Agreed
  <2> QED
    BY <1>3, <2>4, <2>5, <2>6, <2>7, <2>8, <2>9, <2>10 DEF InvAt
<1> QED
  BY <1>2, <1>3

(* A step on no invite in particular, and one that no record shows. *)
LEMMA StillStep ==
  ASSUME InviteInv, NEW q \in Phones, NEW i \in Invites,
         SwitchMode(q) \/ \E j \in Invites : ClearThread(q, j)
  PROVE  InvAt(i)'
<1>1. UNCHANGED <<record, handle, inbound, cards, doing, out, made, accepted, revokedBy, missed>>
  BY DEF SwitchMode, ClearThread
<1>2. SameAt(i)
  BY <1>1, StayLemma, PeerLemma DEF SameAt, CallsStay, PostsStay
<1> QED
  BY <1>2, SameLemma DEF InviteInv

(* The invariant of an invite is kept by PhoneDies. *)
LEMMA PhoneDiesStep ==
  ASSUME InviteInv, NEW q \in Phones, PhoneDies(q), NEW i \in Invites
  PROVE  InvAt(i)'
<1> DEFINE lost == missed'
<1>1. /\ \A r \in Phones, call \in Calls : HasCall(r, call, i)' <=> HasCall(r, call, i) /\ r # q
      /\ \A r \in Phones : /\ i \in inbound'[r] <=> i \in inbound[r] /\ r # q
                           /\ i \in cards'[r] <=> i \in cards[r] /\ r # q
      /\ missed \subseteq lost /\ Revoked' = Revoked
      /\ UNCHANGED <<record, handle, made, accepted, revokedBy>>
  BY StayLemma DEF PhoneDies, InviteInv, InviteTypeOK, HasCall
<1>2. PICK n \in 0..Len(out[q]) :
        /\ out' = [out EXCEPT ![q] = SubSeq(@, 1, n)]
        /\ Acceptances({out[q][k] : k \in (n + 1)..Len(out[q])}) \subseteq lost
  BY DEF PhoneDies
<1> HIDE DEF lost
<1>3. /\ \A r \in Phones, k \in Kinds : HasPost(r, k, i)' => HasPost(r, k, i)
      /\ \A r \in Phones : HasPost(r, "accept", i) => HasPost(r, "accept", i)' \/ i \in lost
      /\ \A r \in Phones : Once(out[r], Mail("invite", i)) => Once(out'[r], Mail("invite", i))
  BY <1>2, DiesLemma, WordsLemma DEF InviteInv, Fewer
<1> USE PeerLemma, WordsLemma
<1>4. InvAt(i)
  BY DEF InviteInv
<1>5. Unborn(i)'
  BY <1>1, <1>3, <1>4 DEF InvAt, Unborn
<1>6. OneSided(i)'
  BY <1>1, <1>3, <1>4 DEF InvAt, OneSided
<1>7. Consented(i)' /\ Disowned(i)'
  BY <1>1, <1>3, <1>4 DEF InvAt, Consented, Disowned
<1>8. Waiting(i)'
  BY <1>1, <1>3, <1>4 DEF InvAt, Waiting
<1>9. Final(i)'
  BY <1>1, <1>3, <1>4 DEF InvAt, Final
<1>10. Agreed(i)'
  BY <1>1, <1>3, <1>4 DEF InvAt, Agreed, lost
<1> QED
  BY <1>5, <1>6, <1>7, <1>8, <1>9, <1>10 DEF InvAt

(* The invariant of an invite is kept when a message is lost. *)
LEMMA LoseStep ==
  ASSUME InviteInv, NEW q \in Phones, Lose(q), NEW i \in Invites
  PROVE  InvAt(i)'
<1> DEFINE lost == missed'
<1>1. /\ CallsStay /\ missed \subseteq lost /\ Revoked' = Revoked
      /\ UNCHANGED <<record, handle, inbound, cards, made, accepted, revokedBy>>
  BY StayLemma DEF Lose, InviteInv
<1>2. PICK k \in 1..Len(out[q]) :
        /\ out' = [out EXCEPT ![q] = RemoveAt(@, k)]
        /\ Acceptances({out[q][k]}) \subseteq lost
  BY DEF Lose
<1> HIDE DEF lost
<1>3. /\ \A r \in Phones, kind \in Kinds : HasPost(r, kind, i)' => HasPost(r, kind, i)
      /\ \A r \in Phones : HasPost(r, "accept", i) => HasPost(r, "accept", i)' \/ i \in lost
      /\ \A r \in Phones : Once(out[r], Mail("invite", i)) => Once(out'[r], Mail("invite", i))
  BY <1>2, LoseLemma, WordsLemma DEF InviteInv, Fewer
<1> USE PeerLemma, WordsLemma DEF CallsStay
<1>4. InvAt(i)
  BY DEF InviteInv
<1>5. Unborn(i)'
  BY <1>1, <1>3, <1>4 DEF InvAt, Unborn
<1>6. OneSided(i)'
  BY <1>1, <1>3, <1>4 DEF InvAt, OneSided
<1>7. Consented(i)' /\ Disowned(i)'
  BY <1>1, <1>3, <1>4 DEF InvAt, Consented, Disowned
<1>8. Waiting(i)'
  BY <1>1, <1>3, <1>4 DEF InvAt, Waiting
<1>9. Final(i)'
  BY <1>1, <1>3, <1>4 DEF InvAt, Final
<1>10. Agreed(i)'
  BY <1>1, <1>3, <1>4 DEF InvAt, Agreed, lost
<1> QED
  BY <1>5, <1>6, <1>7, <1>8, <1>9, <1>10 DEF InvAt

(* The stores, the calls and the messages stay what they are. *)
LEMMA OutTypeLemma ==
  ASSUME InviteTypeOK, NEW q \in Phones, NEW j \in Invites
  PROVE  /\ \A kind \in Kinds : Posts(q, kind, j) \/ Arrives(q, kind, j) =>
              out' \in [Phones -> Seq([kind : {"invite", "accept", "decline", "revoke", "text"},
                                       on : Invites])]
BY PostsLemma, ArrivesLemma DEF Posted, Kinds

(* What one step does to a record, to the calls and to a set of threads. *)
LEMMA ThreadsTypeLemma ==
  ASSUME NEW f \in [Phones -> SUBSET Invites], NEW q \in Phones, NEW j \in Invites, NEW g,
         \/ g = f
         \/ g = [f EXCEPT ![q] = f[q] \cup {j}]
         \/ g = [f EXCEPT ![q] = f[q] \ {j}]
  PROVE  g \in [Phones -> SUBSET Invites]
<1>1. f[q] \cup {j} \in SUBSET Invites /\ f[q] \ {j} \in SUBSET Invites
  OBVIOUS
<1>2. \A B \in SUBSET Invites : [f EXCEPT ![q] = B] \in [Phones -> SUBSET Invites]
  OBVIOUS
<1> QED
  BY <1>1, <1>2

(* A record that is bound is in one of its states. *)
LEMMA RecordTypeLemma ==
  ASSUME InviteTypeOK, NEW q \in Phones, NEW j \in Invites,
         NEW state \in {"none", "awaiting", "active"}, Bound(q, j, state)
  PROVE  record' \in [Phones -> [Invites -> {"none", "awaiting", "active"}]]
BY DEF InviteTypeOK, Bound

CallSet == [call : {"create", "accept", "purge", "forget", "tell", "pin"}, on : Invites]

(* The calls that are made. *)
LEMMA CallTypeLemma ==
  \A call \in {"create", "accept", "purge", "forget", "tell", "pin"}, j \in Invites :
    Call(call, j) \in CallSet
BY DEF Call, CallSet

(* A step that changes the calls of one phone. *)
LEMMA DoingTypeLemma ==
  ASSUME InviteTypeOK, NEW q \in Phones, NEW D \in SUBSET CallSet,
         \/ doing' = [doing EXCEPT ![q] = D]
         \/ doing' = [doing EXCEPT ![q] = doing[q] \cup D]
         \/ doing' = [doing EXCEPT ![q] = doing[q] \ D]
  PROVE  doing' \in [Phones -> SUBSET CallSet]
<1>1. doing \in [Phones -> SUBSET CallSet]
  BY DEF InviteTypeOK, CallSet
<1>2. doing[q] \cup D \in SUBSET CallSet /\ doing[q] \ D \in SUBSET CallSet
  BY <1>1
<1>3. \A B \in SUBSET CallSet : [doing EXCEPT ![q] = B] \in [Phones -> SUBSET CallSet]
  BY <1>1
<1> QED
  BY <1>2, <1>3

InviteStep(q, j) ==
  \/ CreateInvite(q, j) \/ AcceptInvite(q, j) \/ AliasSaved(q, j) \/ InviteMade(q, j)
  \/ InviteAccepted(q, j) \/ DeclineInvite(q, j) \/ RevokeThread(q, j) \/ RowsPurged(q, j)
  \/ RevokeTold(q, j) \/ ClearThread(q, j) \/ ChangePin(q, j) \/ PinChanged(q, j)
  \/ SendText(q, j) \/ TextArrives(q, j) \/ ControlIgnored(q, j) \/ InviteArrives(q, j)
  \/ AcceptArrives(q, j) \/ DeclineArrives(q, j) \/ RevokeArrives(q, j)

(* The records keep their type. *)
LEMMA RecordStaysTyped ==
  ASSUME InviteTypeOK, NEW q \in Phones, NEW j \in Invites, InviteStep(q, j)
  PROVE  record' \in [Phones -> [Invites -> {"none", "awaiting", "active"}]]
<1>1. \/ UNCHANGED record \/ Bound(q, j, "none") \/ Bound(q, j, "awaiting") \/ Bound(q, j, "active")
  BY DEF InviteStep, CreateInvite, AcceptInvite, AliasSaved, InviteMade, InviteAccepted,
         DeclineInvite, RevokeThread, RowsPurged, RevokeTold, ClearThread, ChangePin, PinChanged,
         SendText, TextArrives, ControlIgnored, InviteArrives, AcceptArrives, DeclineArrives,
         RevokeArrives
<1> QED
  BY <1>1, RecordTypeLemma DEF InviteTypeOK

(* The calls keep their type. *)
LEMMA DoingStaysTyped ==
  ASSUME InviteTypeOK, NEW q \in Phones, NEW j \in Invites, InviteStep(q, j)
  PROVE  doing' \in [Phones -> SUBSET CallSet]
<1> USE CallTypeLemma
<1>1. CASE CreateInvite(q, j) \/ AcceptInvite(q, j) \/ ChangePin(q, j)
  <2>1. PICK c \in CallSet : doing' = [doing EXCEPT ![q] = doing[q] \cup {c}]
    BY <1>1 DEF CreateInvite, AcceptInvite, ChangePin
  <2>2. {c} \in SUBSET CallSet
    OBVIOUS
  <2> QED
    BY <2>1, <2>2, DoingTypeLemma
<1>2. CASE InviteMade(q, j) \/ InviteAccepted(q, j) \/ RevokeTold(q, j) \/ PinChanged(q, j)
  <2>1. PICK c \in CallSet : doing' = [doing EXCEPT ![q] = doing[q] \ {c}]
    BY <1>2 DEF InviteMade, InviteAccepted, RevokeTold, PinChanged
  <2>2. {c} \in SUBSET CallSet
    OBVIOUS
  <2> QED
    BY <2>1, <2>2, DoingTypeLemma
<1>3. CASE RevokeThread(q, j)
  <2>1. PICK c \in CallSet : doing' = [doing EXCEPT ![q] = doing[q] \cup {c}]
    <3>1. Call(IF j \in history[q] THEN "purge" ELSE "tell", j) \in CallSet
      OBVIOUS
    <3> QED
      BY <1>3, <3>1 DEF RevokeThread
  <2>2. {c} \in SUBSET CallSet
    OBVIOUS
  <2> QED
    BY <2>1, <2>2, DoingTypeLemma
<1>4. CASE RowsPurged(q, j)
  <2>1. PICK call \in {"purge", "forget"} :
          doing' = [doing EXCEPT ![q] = (@ \ {Call(call, j)}) \cup
                      (IF call = "purge" THEN {Call("tell", j)} ELSE {})]
    BY <1>4 DEF RowsPurged
  <2> DEFINE D == (doing[q] \ {Call(call, j)}) \cup
                  (IF call = "purge" THEN {Call("tell", j)} ELSE {})
  <2>2. doing[q] \in SUBSET CallSet /\ Call("tell", j) \in CallSet
    BY DEF InviteTypeOK, CallSet
  <2>3. D \in SUBSET CallSet
    BY <2>2
  <2>4. doing' = [doing EXCEPT ![q] = D]
    BY <2>1
  <2> HIDE DEF D
  <2> QED
    BY <2>3, <2>4, DoingTypeLemma
<1>5. CASE RevokeArrives(q, j)
  <2>1. UNCHANGED doing \/ doing' = [doing EXCEPT ![q] = @ \cup {Call("forget", j)}]
    BY <1>5 DEF RevokeArrives
  <2>2. {Call("forget", j)} \in SUBSET CallSet
    OBVIOUS
  <2> QED
    BY <2>1, <2>2, DoingTypeLemma DEF InviteTypeOK, CallSet
<1>6. CASE \/ AliasSaved(q, j) \/ DeclineInvite(q, j) \/ ClearThread(q, j) \/ SendText(q, j)
           \/ TextArrives(q, j) \/ ControlIgnored(q, j) \/ InviteArrives(q, j)
           \/ AcceptArrives(q, j) \/ DeclineArrives(q, j)
  <2>1. UNCHANGED doing
    BY <1>6 DEF AliasSaved, DeclineInvite, ClearThread, SendText, TextArrives, ControlIgnored,
                InviteArrives, AcceptArrives, DeclineArrives
  <2> QED
    BY <2>1 DEF InviteTypeOK, CallSet
<1> QED
  BY <1>1, <1>2, <1>3, <1>4, <1>5, <1>6 DEF InviteStep

(* The messages keep their type. *)
LEMMA OutStaysTyped ==
  ASSUME InviteTypeOK, NEW q \in Phones, NEW j \in Invites, InviteStep(q, j)
  PROVE  out' \in [Phones -> Seq([kind : {"invite", "accept", "decline", "revoke", "text"},
                                  on : Invites])]
<1>1. CASE \/ CreateInvite(q, j) \/ AcceptInvite(q, j) \/ AliasSaved(q, j) \/ ClearThread(q, j)
           \/ ChangePin(q, j) \/ PinChanged(q, j) \/ RowsPurged(q, j) \/ RevokeThread(q, j)
  <2>1. UNCHANGED out
    BY <1>1 DEF CreateInvite, AcceptInvite, AliasSaved, ClearThread, ChangePin, PinChanged,
                RowsPurged, RevokeThread
  <2> QED
    BY <2>1 DEF InviteTypeOK
<1>2. CASE InviteMade(q, j) \/ InviteAccepted(q, j) \/ RevokeTold(q, j) \/ SendText(q, j)
  BY <1>2, OutTypeLemma, WordsLemma DEF InviteMade, InviteAccepted, RevokeTold, SendText
<1>3. CASE DeclineInvite(q, j)
  BY <1>3, OutTypeLemma, WordsLemma DEF DeclineInvite, InviteTypeOK
<1>4. CASE \/ TextArrives(q, j) \/ ControlIgnored(q, j) \/ InviteArrives(q, j)
           \/ AcceptArrives(q, j) \/ DeclineArrives(q, j) \/ RevokeArrives(q, j)
  BY <1>4, OutTypeLemma, WordsLemma
  DEF TextArrives, ControlIgnored, InviteArrives, AcceptArrives, DeclineArrives, RevokeArrives
<1> QED
  BY <1>1, <1>2, <1>3, <1>4 DEF InviteStep

(* The sets of threads keep their type. *)
LEMMA SetsStayTyped ==
  ASSUME InviteTypeOK, NEW q \in Phones, NEW j \in Invites, InviteStep(q, j)
  PROVE  /\ handle' \in [Phones -> SUBSET Invites] /\ history' \in [Phones -> SUBSET Invites]
         /\ inbound' \in [Phones -> SUBSET Invites] /\ cards' \in [Phones -> SUBSET Invites]
         /\ revokedBy' \in [Phones -> SUBSET Invites] /\ UNCHANGED mode
         /\ made' \subseteq Invites /\ accepted' \subseteq Invites /\ missed' \subseteq Invites
<1>1. handle' \in [Phones -> SUBSET Invites]
  <2>1. \/ UNCHANGED handle \/ handle' = [handle EXCEPT ![q] = handle[q] \cup {j}]
        \/ handle' = [handle EXCEPT ![q] = handle[q] \ {j}]
    BY DEF InviteStep, CreateInvite, AcceptInvite, AliasSaved, InviteMade, InviteAccepted,
           DeclineInvite, RevokeThread, RowsPurged, RevokeTold, ClearThread, ChangePin, PinChanged,
           SendText, TextArrives, ControlIgnored, InviteArrives, AcceptArrives, DeclineArrives,
           RevokeArrives
  <2> QED
    BY <2>1, ThreadsTypeLemma DEF InviteTypeOK
<1>2. history' \in [Phones -> SUBSET Invites]
  <2>1. \/ UNCHANGED history \/ history' = [history EXCEPT ![q] = history[q] \cup {j}]
        \/ history' = [history EXCEPT ![q] = history[q] \ {j}]
    BY DEF InviteStep, CreateInvite, AcceptInvite, AliasSaved, InviteMade, InviteAccepted,
           DeclineInvite, RevokeThread, RowsPurged, RevokeTold, ClearThread, ChangePin, PinChanged,
           SendText, TextArrives, ControlIgnored, InviteArrives, AcceptArrives, DeclineArrives,
           RevokeArrives
  <2> QED
    BY <2>1, ThreadsTypeLemma DEF InviteTypeOK
<1>3. inbound' \in [Phones -> SUBSET Invites] /\ cards' \in [Phones -> SUBSET Invites]
  <2>1. /\ \/ UNCHANGED inbound \/ inbound' = [inbound EXCEPT ![q] = inbound[q] \cup {j}]
           \/ inbound' = [inbound EXCEPT ![q] = inbound[q] \ {j}]
        /\ \/ UNCHANGED cards \/ cards' = [cards EXCEPT ![q] = cards[q] \cup {j}]
           \/ cards' = [cards EXCEPT ![q] = cards[q] \ {j}]
    BY DEF InviteStep, CreateInvite, AcceptInvite, AliasSaved, InviteMade, InviteAccepted,
           DeclineInvite, RevokeThread, RowsPurged, RevokeTold, ClearThread, ChangePin, PinChanged,
           SendText, TextArrives, ControlIgnored, InviteArrives, AcceptArrives, DeclineArrives,
           RevokeArrives
  <2> QED
    BY <2>1, ThreadsTypeLemma DEF InviteTypeOK
<1>4. /\ revokedBy' \in [Phones -> SUBSET Invites] /\ UNCHANGED mode
      /\ made' \subseteq Invites /\ accepted' \subseteq Invites /\ missed' \subseteq Invites
  <2>1. /\ UNCHANGED revokedBy \/ revokedBy' = [revokedBy EXCEPT ![q] = revokedBy[q] \cup {j}]
        /\ UNCHANGED mode
        /\ made' \subseteq made \cup {j} /\ accepted' \subseteq accepted \cup {j}
        /\ missed' \subseteq missed \cup {j}
    BY DEF Arrives, Acceptances, InviteStep, CreateInvite, AcceptInvite, AliasSaved, InviteMade, InviteAccepted,
           DeclineInvite, RevokeThread, RowsPurged, RevokeTold, ClearThread, ChangePin, PinChanged,
           SendText, TextArrives, ControlIgnored, InviteArrives, AcceptArrives, DeclineArrives,
           RevokeArrives
  <2> QED
    BY <2>1, ThreadsTypeLemma DEF InviteTypeOK
<1> QED
  BY <1>1, <1>2, <1>3, <1>4

(* What is lost is about invites. *)
LEMMA LostTyped ==
  ASSUME InviteTypeOK, NEW q \in Phones, PhoneDies(q) \/ Lose(q)
  PROVE  InviteTypeOK'
<1>1. out[q] \in Seq(Posted) /\ Len(out[q]) \in Nat
  BY LenProperties DEF InviteTypeOK, Posted, Kinds
<1>2. \A k \in 1..Len(out[q]) : out[q][k].on \in Invites
  <2>1. \A k \in 1..Len(out[q]) : out[q][k] \in Posted
    BY <1>1, ElementOfSeq
  <2> QED
    BY <2>1 DEF Posted
<1>3. CASE PhoneDies(q)
  <2>1. PICK n \in 0..Len(out[q]) :
          /\ out' = [out EXCEPT ![q] = SubSeq(@, 1, n)]
          /\ missed' = missed \cup Acceptances({out[q][k] : k \in (n + 1)..Len(out[q])})
    BY <1>3 DEF PhoneDies
  <2>2. \A k \in (n + 1)..Len(out[q]) : k \in 1..Len(out[q])
    BY <1>1
  <2>3. missed' \subseteq Invites
    BY <1>2, <2>1, <2>2 DEF InviteTypeOK, Acceptances
  <2>4. out' \in [Phones -> Seq(Posted)]
    BY <2>1, DiesLemma DEF Fewer
  <2> QED
    BY <1>3, <2>3, <2>4 DEF PhoneDies, InviteTypeOK, Posted, Kinds
<1>4. CASE Lose(q)
  <2>1. PICK k \in 1..Len(out[q]) :
          /\ out' = [out EXCEPT ![q] = RemoveAt(@, k)]
          /\ missed' = missed \cup Acceptances({out[q][k]})
    BY <1>4 DEF Lose
  <2>2. missed' \subseteq Invites
    BY <1>2, <2>1 DEF InviteTypeOK, Acceptances
  <2>3. out' \in [Phones -> Seq(Posted)]
    BY <2>1, LoseLemma DEF Fewer
  <2> QED
    BY <1>4, <2>2, <2>3 DEF Lose, InviteTypeOK, Posted, Kinds
<1> QED
  BY <1>3, <1>4

(* Every step keeps the types. *)
LEMMA InviteTypeStep ==
  InviteTypeOK /\ [InviteNext]_inviteVars => InviteTypeOK'
<1> SUFFICES ASSUME InviteTypeOK, [InviteNext]_inviteVars PROVE InviteTypeOK'
  OBVIOUS
<1>1. ASSUME NEW q \in Phones, NEW j \in Invites, InviteStep(q, j) PROVE InviteTypeOK'
  <2>1. record' \in [Phones -> [Invites -> {"none", "awaiting", "active"}]]
    BY <1>1, RecordStaysTyped
  <2>2. doing' \in [Phones -> SUBSET CallSet]
    BY <1>1, DoingStaysTyped
  <2>3. out' \in [Phones -> Seq([kind : {"invite", "accept", "decline", "revoke", "text"},
                                 on : Invites])]
    BY <1>1, OutStaysTyped
  <2>4. /\ handle' \in [Phones -> SUBSET Invites] /\ history' \in [Phones -> SUBSET Invites]
        /\ inbound' \in [Phones -> SUBSET Invites] /\ cards' \in [Phones -> SUBSET Invites]
        /\ revokedBy' \in [Phones -> SUBSET Invites] /\ UNCHANGED mode
        /\ made' \subseteq Invites /\ accepted' \subseteq Invites /\ missed' \subseteq Invites
    BY <1>1, SetsStayTyped
  <2> QED
    BY <2>1, <2>2, <2>3, <2>4 DEF InviteTypeOK, CallSet
<1>2. ASSUME NEW q \in Phones, SwitchMode(q) PROVE InviteTypeOK'
  BY <1>2 DEF SwitchMode, InviteTypeOK
<1>3. ASSUME NEW q \in Phones, PhoneDies(q) \/ Lose(q) PROVE InviteTypeOK'
  BY <1>3, LostTyped
<1>4. CASE UNCHANGED inviteVars
  BY <1>4 DEF inviteVars, InviteTypeOK
<1> QED
  BY <1>1, <1>2, <1>3, <1>4 DEF InviteNext, InviteStep

(* Every step keeps the invariant. *)
LEMMA InviteInvStep == InviteInv /\ [InviteNext]_inviteVars => InviteInv'
<1> SUFFICES ASSUME InviteInv, [InviteNext]_inviteVars, NEW i \in Invites PROVE InvAt(i)'
  BY InviteTypeStep DEF InviteInv
<1>1. CASE UNCHANGED inviteVars
  <2>1. SameAt(i)
    BY <1>1, StayLemma, PeerLemma DEF inviteVars, SameAt, CallsStay, PostsStay
  <2> QED
    BY <2>1, SameLemma DEF InviteInv
<1>2. ASSUME NEW q \in Phones, SwitchMode(q) \/ PhoneDies(q) \/ Lose(q) PROVE InvAt(i)'
  BY <1>2, StillStep, PhoneDiesStep, LoseStep
<1>3. ASSUME NEW q \in Phones, NEW j \in Invites,
             \/ CreateInvite(q, j) \/ AcceptInvite(q, j) \/ AliasSaved(q, j) \/ InviteMade(q, j)
             \/ InviteAccepted(q, j) \/ DeclineInvite(q, j) \/ RevokeThread(q, j) \/ RowsPurged(q, j)
             \/ RevokeTold(q, j) \/ ClearThread(q, j)
      PROVE  InvAt(i)'
  BY <1>3, CreateInviteStep, AcceptInviteStep, AliasSavedStep, InviteMadeStep, InviteAcceptedStep,
     DeclineInviteStep, RevokeThreadStep, RowsPurgedStep, RevokeToldStep, StillStep
<1>4. ASSUME NEW q \in Phones, NEW j \in Invites,
             \/ ChangePin(q, j) \/ PinChanged(q, j) \/ SendText(q, j) \/ TextArrives(q, j)
             \/ ControlIgnored(q, j) \/ InviteArrives(q, j) \/ AcceptArrives(q, j)
             \/ DeclineArrives(q, j) \/ RevokeArrives(q, j)
      PROVE  InvAt(i)'
  BY <1>4, ChangePinStep, PinChangedStep, SendTextStep, TextArrivesStep, ControlIgnoredStep,
     InviteArrivesStep, AcceptArrivesStep, DeclineArrivesStep, RevokeArrivesStep
<1> QED
  BY <1>1, <1>2, <1>3, <1>4 DEF InviteNext

(* The stores, the calls and the messages are what their comments say. *)
THEOREM InviteTypeCorrect == InviteSpec => []InviteTypeOK
<1>1. InviteInv => InviteTypeOK
  BY DEF InviteInv
<1> QED
  BY InviteInvInit, InviteInvStep, <1>1, PTL DEF InviteSpec

(* No thread is usable at the inviter before the recipient has consented. *)
THEOREM ConsentHolds == InviteSpec => []Consent
<1>1. InviteInv => Consent
  BY PeerLemma DEF InviteInv, InvAt, Consented, Consent
<1> QED
  BY InviteInvInit, InviteInvStep, <1>1, PTL DEF InviteSpec

(* A thread stays deleted on the phone that revoked it. *)
THEOREM RevokeIsFinalHolds == InviteSpec => []RevokeIsFinal
<1>1. InviteInv => RevokeIsFinal
  BY DEF InviteInv, InviteTypeOK, InvAt, Final, RevokeIsFinal
<1> QED
  BY InviteInvInit, InviteInvStep, <1>1, PTL DEF InviteSpec

(* Unless somebody revoked it, a thread that is active at the inviter is   *)
(* active at the invited, and once nothing is on its way the converse holds *)
(* too but for an acceptance that was lost or came to a locked phone.      *)
THEOREM AgreeUnlessMissedHolds == InviteSpec => []AgreeUnlessMissed
<1>1. InviteInv => AgreeUnlessMissed
  <2> SUFFICES ASSUME InviteInv, NEW i \in Invites \ Revoked
               PROVE  /\ record[From[i]][i] = "active" => record[Asked(i)][i] = "active"
                      /\ Settled /\ record[Asked(i)][i] = "active" =>
                           record[From[i]][i] = "active" \/ i \in missed
    BY DEF AgreeUnlessMissed, Asked
  <2>1. Settled => ~HasPost(Asked(i), "accept", i)
    BY PeerLemma, EmptyLemma DEF Settled, HasPost
  <2> QED
    BY <2>1 DEF InviteInv, InvAt, Agreed
<1> QED
  BY InviteInvInit, InviteInvStep, <1>1, PTL DEF InviteSpec

----------------------------------------------------------------------------
(* Verification. *)

Codes == [seed : Nonces, step : 0..MaxTime]
Frames ==
  [kind : {"verify-request"}, seed : Nonces]
    \cup [kind : {"verify-response"}, code : Codes]
    \cup [kind : {"verify-result"}, ok : BOOLEAN]
    \cup [kind : {"bioverify-enroll"}]
    \cup [kind : {"bioverify-request"}, challenge : Nonces]
    \cup [kind : {"bioverify-response"}, challenge : Nonces, issuedAt : 0..MaxTime, signed : BOOLEAN]

(* A frame on its way to p says only what its sender, or p, has done. *)
Backed(p, f) ==
  /\ f.kind = "verify-response" => \E a \in answers : a.by = Other(p) /\ a.code = f.code
  /\ f.kind = "verify-result" /\ f.ok => \E a \in answers : a.by = p
  /\ f.kind = "bioverify-response" /\ f.signed =>
       \E q \in proofs : q.by = Other(p) /\ q.challenge = f.challenge /\ f.issuedAt <= q.at

Lines == [Pair -> Seq(Frames)]
VerifyInv ==
  /\ VerifyTypeOK /\ line \in Lines
  /\ \A p \in Pair : \A f \in Range(line[p]) : Backed(p, f)
  /\ \A p \in Pair : \A q \in prompt[p] : q.issuedAt <= minute

(* One of two phones is the other of the other. *)
LEMMA OtherLemma ==
  ASSUME NEW p \in Pair
  PROVE  Other(p) \in Pair /\ Other(p) # p /\ Other(Other(p)) = p
<1>1. \E q \in Pair : q # p
  BY VerificationAssumption
<1>2. Other(p) \in Pair /\ Other(p) # p
  BY <1>1 DEF Other
<1>3. Other(Other(p)) \in Pair /\ Other(Other(p)) # Other(p)
  BY <1>2 DEF Other
<1> QED
  BY <1>2, <1>3, VerificationAssumption

(* How far the counters go. *)
LEMMA BoundsLemma ==
  /\ MaxTime \in Nat /\ MaxNonces \in Nat /\ MaxLine \in Nat /\ Skew \in Nat /\ Fresh \in Nat
  /\ 0 \in Nonces
BY VerificationAssumption DEF Nonces

(* The frame that is handled, and the frames that stay. *)
LEMMA HandledLemma ==
  ASSUME line \in Lines, NEW p \in Pair, line[p] # << >>
  PROVE  /\ Head(line[p]) \in Range(line[p]) /\ Head(line[p]) \in Frames
         /\ Handled(p) \in Lines
         /\ \A q \in Pair : /\ Range(Handled(p)[q]) \subseteq Range(line[q])
                            /\ Len(Handled(p)[q]) <= Len(line[q])
<1>1. line[p] \in Seq(Frames)
  BY DEF Lines
<1>2. /\ Head(line[p]) \in Frames /\ Head(line[p]) \in Range(line[p])
      /\ Tail(line[p]) \in Seq(Frames) /\ Range(Tail(line[p])) \subseteq Range(line[p])
  BY <1>1, TailLemma
<1>3. Len(Tail(line[p])) <= Len(line[p])
  BY <1>1, HeadTailProperties, LenProperties
<1>4. \A q \in Pair : Len(line[q]) <= Len(line[q])
  BY LenProperties DEF Lines
<1> QED
  BY <1>2, <1>3, <1>4 DEF Handled, Lines

(* What a send adds. *)
LEMMA SentLemma ==
  ASSUME NEW lines \in Lines, NEW p \in Pair, NEW f \in Frames, NEW after \in Sent(lines, p, f)
  PROVE  /\ after \in Lines
         /\ \A q \in Pair : \A g \in Range(after[q]) :
              g \in Range(lines[q]) \/ (q = Other(p) /\ g = f)
         /\ \A q \in Pair : \/ Len(after[q]) <= Len(lines[q])
                            \/ q = Other(p) /\ Len(after[q]) = Len(lines[q]) + 1
<1>1. Other(p) \in Pair /\ \A q \in Pair : lines[q] \in Seq(Frames) /\ Len(lines[q]) \in Nat
  BY OtherLemma, LenProperties DEF Lines
<1>2. CASE after = lines
  <2>1. \A q \in Pair : Len(after[q]) <= Len(lines[q])
    BY <1>1, <1>2
  <2>2. \A q \in Pair : Range(after[q]) = Range(lines[q])
    BY <1>2
  <2> QED
    BY <1>2, <2>1, <2>2
<1>3. CASE after = [lines EXCEPT ![Other(p)] = Append(lines[Other(p)], f)]
  <2>1. /\ Append(lines[Other(p)], f) \in Seq(Frames)
        /\ Len(Append(lines[Other(p)], f)) = Len(lines[Other(p)]) + 1
        /\ Range(Append(lines[Other(p)], f)) = Range(lines[Other(p)]) \cup {f}
    BY <1>1, AppendLemma
  <2>2. \A q \in Pair : after[q] = IF q = Other(p) THEN Append(lines[Other(p)], f) ELSE lines[q]
    BY <1>1, <1>3 DEF Lines
  <2>3. after \in Lines
    BY <1>1, <1>3, <2>1 DEF Lines
  <2>4. ASSUME NEW q \in Pair, q # Other(p)
        PROVE  Len(after[q]) <= Len(lines[q])
    BY <1>1, <2>2, <2>4
  <2>5. ASSUME NEW q \in Pair, NEW g \in Range(after[q])
        PROVE  g \in Range(lines[q]) \/ (q = Other(p) /\ g = f)
    <3>1. CASE q = Other(p)
      BY <2>1, <2>2, <2>5, <3>1
    <3>2. CASE q # Other(p)
      BY <2>2, <2>5, <3>2
    <3> QED
      BY <3>1, <3>2
  <2>6. \A q \in Pair : q = Other(p) => Len(after[q]) = Len(lines[q]) + 1
    BY <1>1, <2>1, <2>2
  <2> QED
    BY <2>3, <2>4, <2>5, <2>6
<1> QED
  BY <1>2, <1>3 DEF Sent

(* What a phone sends is backed; nothing that backs a frame goes away. *)
LEMMA SendStep ==
  ASSUME VerifyInv, NEW lines \in Lines, NEW p \in Pair, NEW f \in Frames,
         line' \in Sent(lines, p, f), CanSend(p),
         \A q \in Pair : Range(lines[q]) \subseteq Range(line[q]) /\ Len(lines[q]) <= Len(line[q]),
         answers \subseteq answers', proofs \subseteq proofs', Backed(Other(p), f)'
  PROVE  /\ line' \in Lines /\ \A q \in Pair : Len(line'[q]) <= MaxLine
         /\ \A q \in Pair : \A g \in Range(line'[q]) : Backed(q, g)'
<1>1. /\ line' \in Lines
      /\ \A q \in Pair : \A g \in Range(line'[q]) :
           g \in Range(line[q]) \/ (q = Other(p) /\ g = f)
      /\ \A q \in Pair : \/ Len(line'[q]) <= Len(lines[q])
                         \/ q = Other(p) /\ Len(line'[q]) = Len(lines[q]) + 1
  <2>1. /\ line' \in Lines
        /\ \A q \in Pair : \A g \in Range(line'[q]) :
             g \in Range(lines[q]) \/ (q = Other(p) /\ g = f)
        /\ \A q \in Pair : \/ Len(line'[q]) <= Len(lines[q])
                           \/ q = Other(p) /\ Len(line'[q]) = Len(lines[q]) + 1
    BY SentLemma
  <2>2. ASSUME NEW q \in Pair, NEW g \in Range(line'[q])
        PROVE  g \in Range(line[q]) \/ (q = Other(p) /\ g = f)
    <3>1. g \in Range(lines[q]) \/ (q = Other(p) /\ g = f)
      BY <2>1
    <3>2. Range(lines[q]) \subseteq Range(line[q])
      OBVIOUS
    <3> QED
      BY <3>1, <3>2
  <2> QED
    BY <2>1, <2>2
<1>2. ASSUME NEW q \in Pair PROVE Len(line'[q]) <= MaxLine
  <2>1. /\ Len(line[q]) \in Nat /\ Len(lines[q]) \in Nat /\ Len(line'[q]) \in Nat
        /\ Len(line[q]) <= MaxLine
    BY <1>1, LenProperties DEF VerifyInv, VerifyTypeOK, Lines
  <2>2. q = Other(p) => Len(line[q]) < MaxLine
    BY DEF CanSend
  <2>3. \/ Len(line'[q]) <= Len(lines[q])
        \/ q = Other(p) /\ Len(line'[q]) = Len(lines[q]) + 1
    BY <1>1
  <2>4. Len(lines[q]) <= Len(line[q])
    OBVIOUS
  <2> QED
    BY <2>1, <2>2, <2>3, <2>4, BoundsLemma
<1>3. ASSUME NEW q \in Pair, NEW g \in Range(line[q]) PROVE Backed(q, g)'
  <2>1. Backed(q, g)
    BY DEF VerifyInv
  <2> QED
    BY <2>1 DEF Backed
<1> QED
  BY <1>1, <1>2, <1>3

(* The handling of a frame that answers nothing. *)
LEMMA TakeStep ==
  ASSUME VerifyInv, NEW p \in Pair, line[p] # << >>, line' = Handled(p),
         UNCHANGED <<answers, proofs>>
  PROVE  /\ line' \in Lines /\ \A q \in Pair : Len(line'[q]) <= MaxLine
         /\ \A q \in Pair : \A g \in Range(line'[q]) : Backed(q, g)'
<1>1. /\ line' \in Lines
      /\ \A q \in Pair : Range(line'[q]) \subseteq Range(line[q]) /\ Len(line'[q]) <= Len(line[q])
  BY HandledLemma DEF VerifyInv
<1>2. ASSUME NEW q \in Pair PROVE Len(line'[q]) <= MaxLine
  <2>1. Len(line[q]) \in Nat /\ Len(line'[q]) \in Nat /\ Len(line[q]) <= MaxLine
    BY <1>1, LenProperties DEF VerifyInv, VerifyTypeOK, Lines
  <2> QED
    BY <1>1, <2>1, BoundsLemma
<1>3. ASSUME NEW q \in Pair, NEW g \in Range(line[q]) PROVE Backed(q, g)'
  BY DEF VerifyInv, Backed
<1> QED
  BY <1>1, <1>2, <1>3

(* Nobody has been asked yet. *)
LEMMA VerifyInvInit == VerifyInit => VerifyInv
<1> SUFFICES ASSUME VerifyInit PROVE VerifyInv
  OBVIOUS
<1>1. line \in Lines /\ \A p \in Pair : Len(line[p]) = 0 /\ Range(line[p]) = {}
  BY EmptySeq, EmptyLemma DEF VerifyInit, Lines
<1>2. \A p \in Pair : Cardinality(prompt[p]) <= 1 /\ prompt[p] = {}
  BY FS_EmptySet DEF VerifyInit
<1> QED
  BY <1>1, <1>2, BoundsLemma DEF VerifyInit, VerifyInv, VerifyTypeOK, Nonces

(* A frame's kind tells its fields. *)
LEMMA FrameLemma ==
  ASSUME NEW f \in Frames
  PROVE  /\ f.kind = "verify-request" => f.seed \in Nonces
         /\ f.kind = "verify-response" => f.code \in Codes
         /\ f.kind = "verify-result" => f.ok \in BOOLEAN
         /\ f.kind = "bioverify-request" => f.challenge \in Nonces
         /\ f.kind = "bioverify-response" =>
              f.challenge \in Nonces /\ f.issuedAt \in 0..MaxTime /\ f.signed \in BOOLEAN
<1>1. CASE f \in [kind : {"verify-request"}, seed : Nonces]
  BY <1>1
<1>2. CASE f \in [kind : {"verify-response"}, code : Codes]
  BY <1>2
<1>3. CASE f \in [kind : {"verify-result"}, ok : BOOLEAN]
  BY <1>3
<1>4. CASE f \in [kind : {"bioverify-enroll"}]
  BY <1>4
<1>5. CASE f \in [kind : {"bioverify-request"}, challenge : Nonces]
  BY <1>5
<1>6. CASE f \in [kind : {"bioverify-response"}, challenge : Nonces, issuedAt : 0..MaxTime,
                  signed : BOOLEAN]
  BY <1>6
<1> QED
  BY <1>1, <1>2, <1>3, <1>4, <1>5, <1>6 DEF Frames

(* What is handled is a frame of its kind, and says only what was done. *)
LEMMA ArrivalLemma ==
  ASSUME VerifyInv, NEW p \in Pair, NEW kind, FrameArrives(p, kind)
  PROVE  /\ line[p] # << >> /\ Head(line[p]).kind = kind
         /\ Head(line[p]) \in Frames /\ Backed(p, Head(line[p]))
<1>1. line[p] # << >> /\ Head(line[p]).kind = kind
  BY DEF FrameArrives
<1> QED
  BY <1>1, HandledLemma DEF VerifyInv

(* What is sent that is no challenge and no answer. *)
LEMMA PlainSendStep ==
  ASSUME VerifyInv, NEW p \in Pair, NEW f \in Frames, line' \in Sent(line, p, f), CanSend(p),
         answers \subseteq answers', proofs \subseteq proofs', Backed(Other(p), f)'
  PROVE  /\ line' \in Lines /\ \A q \in Pair : Len(line'[q]) <= MaxLine
         /\ \A q \in Pair : \A g \in Range(line'[q]) : Backed(q, g)'
<1>1. \A q \in Pair : Len(line[q]) <= Len(line[q])
  BY LenProperties DEF VerifyInv, Lines
<1> QED
  BY <1>1, SendStep DEF VerifyInv

(* Every step keeps the invariant. *)
LEMMA VerifyInvStep == VerifyInv /\ [VerifyNext]_verifyVars => VerifyInv'
<1> SUFFICES ASSUME VerifyInv, [VerifyNext]_verifyVars PROVE VerifyInv'
  OBVIOUS
<1>1. CASE Minute
  <2>1. /\ minute' = minute + 1 /\ minute' \in 0..MaxTime /\ minute \in Nat
        /\ UNCHANGED <<nonces, seed, badge, asked, presence, peerKey, prompt, line, answers, proofs>>
    BY <1>1, BoundsLemma DEF Minute, VerifyInv, VerifyTypeOK
  <2>2. \A p \in Pair : \A q \in prompt[p] : q.issuedAt <= minute'
    <3> SUFFICES ASSUME NEW p \in Pair, NEW q \in prompt[p] PROVE q.issuedAt <= minute'
      OBVIOUS
    <3>1. q.issuedAt \in Nat /\ q.issuedAt <= minute
      BY BoundsLemma DEF VerifyInv, VerifyTypeOK
    <3> QED
      BY <2>1, <3>1
  <2> QED
    BY <2>1, <2>2 DEF VerifyInv, VerifyTypeOK, Backed
<1>2. ASSUME NEW p \in Pair, RequestVerification(p) PROVE VerifyInv'
  <2>1. nonces + 1 \in Nonces
    BY <1>2, BoundsLemma DEF RequestVerification, VerifyInv, VerifyTypeOK, Nonces
  <2>2. PICK f \in Frames : f = [kind |-> "verify-request", seed |-> nonces + 1]
    BY <2>1 DEF Frames
  <2>3. Backed(Other(p), f)'
    BY <2>2 DEF Backed
  <2>4. line' \in Sent(line, p, f) /\ CanSend(p) /\ UNCHANGED <<answers, proofs>>
    BY <1>2, <2>2 DEF RequestVerification
  <2>5. /\ line' \in Lines /\ \A q \in Pair : Len(line'[q]) <= MaxLine
        /\ \A q \in Pair : \A g \in Range(line'[q]) : Backed(q, g)'
    BY <2>2, <2>3, <2>4, PlainSendStep
  <2> QED
    BY <1>2, <2>1, <2>5 DEF RequestVerification, VerifyInv, VerifyTypeOK
<1>3. ASSUME NEW p \in Pair, RequestArrives(p) PROVE VerifyInv'
  <2>1. line[p] # << >> /\ Head(line[p]).seed \in Nonces
    BY <1>3, ArrivalLemma, FrameLemma DEF RequestArrives
  <2>2. line' = Handled(p) /\ UNCHANGED <<answers, proofs>>
    BY <1>3 DEF RequestArrives
  <2>3. /\ line' \in Lines /\ \A q \in Pair : Len(line'[q]) <= MaxLine
        /\ \A q \in Pair : \A g \in Range(line'[q]) : Backed(q, g)'
    BY <2>1, <2>2, TakeStep
  <2> QED
    BY <1>3, <2>1, <2>3 DEF RequestArrives, VerifyInv, VerifyTypeOK
<1>4. ASSUME NEW p \in Pair, RespondVerification(p) PROVE VerifyInv'
  <2>0. PICK code \in Codes : code = [seed |-> seed[p], step |-> minute]
    BY DEF Codes, VerifyInv, VerifyTypeOK
  <2> DEFINE f == [kind |-> "verify-response", code |-> code]
             a == [by |-> p, code |-> code]
  <2>1. /\ line' \in Sent(line, p, f) /\ answers' = answers \cup {a} /\ CanSend(p)
        /\ UNCHANGED <<minute, nonces, seed, badge, asked, presence, peerKey, prompt, proofs>>
    BY <1>4, <2>0 DEF RespondVerification
  <2>3. f \in Frames /\ f.kind = "verify-response" /\ f.code = code
    BY DEF Frames
  <2>4. a.by = p /\ a.code = code /\ a.code.seed \in Nonces
    BY DEF Codes
  <2> HIDE DEF f, a
  <2>5. Backed(Other(p), f)'
    BY <2>1, <2>3, <2>4, OtherLemma DEF Backed
  <2>6. /\ line' \in Lines /\ \A q \in Pair : Len(line'[q]) <= MaxLine
        /\ \A q \in Pair : \A g \in Range(line'[q]) : Backed(q, g)'
    BY <2>1, <2>3, <2>5, PlainSendStep
  <2> QED
    BY <2>1, <2>4, <2>6 DEF VerifyInv, VerifyTypeOK
<1>5. ASSUME NEW p \in Pair, ResponseArrives(p) PROVE VerifyInv'
  <2> DEFINE ok == Passes(p, Head(line[p]).code)
  <2>0. PICK f \in Frames : f = [kind |-> "verify-result", ok |-> ok]
    <3>1. ok \in BOOLEAN
      BY DEF Passes
    <3> QED
      BY <3>1 DEF Frames
  <2>1. /\ line[p] # << >> /\ Head(line[p]).kind = "verify-response"
        /\ Backed(p, Head(line[p]))
    BY <1>5, ArrivalLemma DEF ResponseArrives
  <2>2. /\ line' \in Sent(Handled(p), p, f) /\ CanSend(p)
        /\ badge' = [badge EXCEPT ![p] = IF ok THEN "verified" ELSE "unverified"]
        /\ UNCHANGED <<minute, nonces, seed, asked, presence, peerKey, prompt, answers, proofs>>
    BY <1>5, <2>0 DEF ResponseArrives
  <2>3. /\ Handled(p) \in Lines
        /\ \A q \in Pair : Range(Handled(p)[q]) \subseteq Range(line[q])
                           /\ Len(Handled(p)[q]) <= Len(line[q])
    BY <2>1, HandledLemma DEF VerifyInv
  <2>4. f.kind = "verify-result"
    BY <2>0
  <2>5. \E a \in answers : a.by = Other(p)
    BY <2>1 DEF Backed
  <2>6. Backed(Other(p), f)'
    BY <2>2, <2>4, <2>5, OtherLemma DEF Backed
  <2>7. /\ line' \in Lines /\ \A q \in Pair : Len(line'[q]) <= MaxLine
        /\ \A q \in Pair : \A g \in Range(line'[q]) : Backed(q, g)'
    BY <2>2, <2>3, <2>4, <2>6, SendStep
  <2> QED
    BY <2>2, <2>7 DEF VerifyInv, VerifyTypeOK
<1>6. ASSUME NEW p \in Pair,
             ResultArrives(p) \/ EnrollArrives(p) \/ PresenceArrives(p)
      PROVE  VerifyInv'
  <2>1. line[p] # << >> /\ line' = Handled(p) /\ UNCHANGED <<answers, proofs, prompt, minute>>
    BY <1>6, ArrivalLemma DEF ResultArrives, EnrollArrives, PresenceArrives
  <2>2. /\ line' \in Lines /\ \A q \in Pair : Len(line'[q]) <= MaxLine
        /\ \A q \in Pair : \A g \in Range(line'[q]) : Backed(q, g)'
    BY <2>1, TakeStep
  <2>3. CASE ResultArrives(p)
    BY <2>1, <2>2, <2>3 DEF ResultArrives, VerifyInv, VerifyTypeOK
  <2>4. CASE EnrollArrives(p)
    BY <2>1, <2>2, <2>4 DEF EnrollArrives, VerifyInv, VerifyTypeOK
  <2>5. CASE PresenceArrives(p)
    <3>1. VerifyAttestation(p, Head(line[p])) \in {"unavailable", "failed", "verified"}
      BY DEF VerifyAttestation
    <3> QED
      BY <2>1, <2>2, <2>5, <3>1, BoundsLemma DEF PresenceArrives, VerifyInv, VerifyTypeOK
  <2> QED
    BY <1>6, <2>3, <2>4, <2>5
<1>7. ASSUME NEW p \in Pair, EnrollBiometric(p) PROVE VerifyInv'
  <2> DEFINE f == [kind |-> "bioverify-enroll"]
  <2>1. f \in Frames /\ f.kind = "bioverify-enroll"
    BY DEF Frames
  <2>2. /\ line' \in Sent(line, p, f) /\ CanSend(p)
        /\ UNCHANGED <<minute, nonces, seed, badge, asked, presence, peerKey, prompt, answers, proofs>>
    BY <1>7 DEF EnrollBiometric
  <2> HIDE DEF f
  <2>3. Backed(Other(p), f)'
    BY <2>1 DEF Backed
  <2>4. /\ line' \in Lines /\ \A q \in Pair : Len(line'[q]) <= MaxLine
        /\ \A q \in Pair : \A g \in Range(line'[q]) : Backed(q, g)'
    BY <2>1, <2>2, <2>3, PlainSendStep
  <2> QED
    BY <2>2, <2>4 DEF VerifyInv, VerifyTypeOK
<1>8. ASSUME NEW p \in Pair, RequestPresence(p) PROVE VerifyInv'
  <2>1. nonces + 1 \in Nonces
    BY <1>8, BoundsLemma DEF RequestPresence, VerifyInv, VerifyTypeOK, Nonces
  <2>2. PICK f \in Frames : f = [kind |-> "bioverify-request", challenge |-> nonces + 1]
    BY <2>1 DEF Frames
  <2>3. line' \in Sent(line, p, f) /\ CanSend(p) /\ UNCHANGED <<answers, proofs>>
    BY <1>8, <2>2 DEF RequestPresence
  <2>4. Backed(Other(p), f)'
    BY <2>2 DEF Backed
  <2>5. /\ line' \in Lines /\ \A q \in Pair : Len(line'[q]) <= MaxLine
        /\ \A q \in Pair : \A g \in Range(line'[q]) : Backed(q, g)'
    BY <2>2, <2>3, <2>4, PlainSendStep
  <2> QED
    BY <1>8, <2>1, <2>5 DEF RequestPresence, VerifyInv, VerifyTypeOK
<1>9. ASSUME NEW p \in Pair, ChallengeArrives(p) PROVE VerifyInv'
  <2> DEFINE q0 == [challenge |-> Head(line[p]).challenge, issuedAt |-> minute]
  <2>1. line[p] # << >> /\ Head(line[p]).challenge \in Nonces
    BY <1>9, ArrivalLemma, FrameLemma DEF ChallengeArrives
  <2>2. /\ line' = Handled(p) /\ prompt' = [prompt EXCEPT ![p] = {q0}]
        /\ presence' = [presence EXCEPT ![p] = "incoming"]
        /\ UNCHANGED <<minute, nonces, seed, badge, asked, peerKey, answers, proofs>>
    BY <1>9 DEF ChallengeArrives
  <2>3. /\ line' \in Lines /\ \A q \in Pair : Len(line'[q]) <= MaxLine
        /\ \A q \in Pair : \A g \in Range(line'[q]) : Backed(q, g)'
    BY <2>1, <2>2, TakeStep
  <2>4. /\ q0 \in [challenge : Nonces, issuedAt : 0..MaxTime] /\ q0.issuedAt <= minute
        /\ minute \in Nat
    BY <2>1, BoundsLemma DEF VerifyInv, VerifyTypeOK
  <2> HIDE DEF q0
  <2>5. Cardinality({q0}) = 1
    BY FS_Singleton
  <2>6. \A q \in Pair : /\ prompt'[q] \subseteq [challenge : Nonces, issuedAt : 0..MaxTime]
                        /\ Cardinality(prompt'[q]) <= 1
                        /\ \A x \in prompt'[q] : x.issuedAt <= minute
    BY <2>2, <2>4, <2>5 DEF VerifyInv, VerifyTypeOK
  <2> QED
    BY <2>2, <2>3, <2>6 DEF VerifyInv, VerifyTypeOK
<1>10. ASSUME NEW p \in Pair, NEW b \in BOOLEAN, PromptEnds(p, b) PROVE VerifyInv'
  <2>1. PICK q \in prompt[p] :
          /\ line' \in Sent(line, p, [kind |-> "bioverify-response", challenge |-> q.challenge,
                                      issuedAt |-> q.issuedAt, signed |-> b])
          /\ proofs' = IF b THEN proofs \cup {[by |-> p, challenge |-> q.challenge, at |-> minute]}
                       ELSE proofs
    BY <1>10 DEF PromptEnds
  <2> DEFINE f == [kind |-> "bioverify-response", challenge |-> q.challenge,
                   issuedAt |-> q.issuedAt, signed |-> b]
             given == [by |-> p, challenge |-> q.challenge, at |-> minute]
  <2>2. /\ q.challenge \in Nonces /\ q.issuedAt \in 0..MaxTime /\ q.issuedAt <= minute
        /\ minute \in 0..MaxTime
    BY DEF VerifyInv, VerifyTypeOK
  <2>3. /\ f \in Frames /\ f.kind = "bioverify-response" /\ f.signed = b
        /\ f.challenge = q.challenge /\ f.issuedAt = q.issuedAt
    BY <2>2 DEF Frames
  <2>4. /\ given \in [by : Pair, challenge : Nonces, at : 0..MaxTime]
        /\ given.by = p /\ given.challenge = q.challenge /\ given.at = minute
    BY <2>2
  <2>5. line' \in Sent(line, p, f) /\ proofs' = IF b THEN proofs \cup {given} ELSE proofs
    BY <2>1
  <2>6. /\ CanSend(p) /\ prompt' = [prompt EXCEPT ![p] = {}]
        /\ UNCHANGED <<minute, nonces, seed, badge, asked, presence, peerKey, answers>>
    BY <1>10 DEF PromptEnds
  <2> HIDE DEF f, given
  <2>7. Backed(Other(p), f)'
    BY <2>2, <2>3, <2>4, <2>5, OtherLemma DEF Backed
  <2>8. /\ line' \in Lines /\ \A r \in Pair : Len(line'[r]) <= MaxLine
        /\ \A r \in Pair : \A g \in Range(line'[r]) : Backed(r, g)'
    BY <2>3, <2>5, <2>6, <2>7, PlainSendStep
  <2>9. \A r \in Pair : /\ prompt'[r] \subseteq [challenge : Nonces, issuedAt : 0..MaxTime]
                        /\ Cardinality(prompt'[r]) <= 1
                        /\ \A x \in prompt'[r] : x.issuedAt <= minute
    BY <2>6, FS_EmptySet DEF VerifyInv, VerifyTypeOK
  <2>10. proofs' \subseteq [by : Pair, challenge : Nonces, at : 0..MaxTime]
    BY <2>4, <2>5 DEF VerifyInv, VerifyTypeOK
  <2> QED
    BY <2>6, <2>8, <2>9, <2>10 DEF VerifyInv, VerifyTypeOK
<1>11. ASSUME NEW p \in Pair, NEW b \in BOOLEAN, SessionEnds(p, b) PROVE VerifyInv'
  <2>1. \A r \in Pair : /\ prompt'[r] \subseteq [challenge : Nonces, issuedAt : 0..MaxTime]
                        /\ Cardinality(prompt'[r]) <= 1
                        /\ \A x \in prompt'[r] : x.issuedAt <= minute
    BY <1>11, FS_EmptySet DEF SessionEnds, VerifyInv, VerifyTypeOK
  <2>2. UNCHANGED <<minute, nonces, line, answers, proofs>>
    BY <1>11 DEF SessionEnds
  <2>3. VerifyTypeOK'
    BY <1>11, <2>1, <2>2, BoundsLemma DEF SessionEnds, VerifyInv, VerifyTypeOK
  <2> QED
    BY <2>1, <2>2, <2>3 DEF VerifyInv, Backed
<1>12. CASE UNCHANGED verifyVars
  BY <1>12 DEF verifyVars, VerifyInv, VerifyTypeOK, Backed
<1> QED
  BY <1>1, <1>2, <1>3, <1>4, <1>5, <1>6, <1>7, <1>8, <1>9, <1>10, <1>11, <1>12 DEF VerifyNext

(* The codes, the proofs and the badges are what their comments say. *)
THEOREM VerifyTypeCorrect == VerifySpec => []VerifyTypeOK
<1>1. VerifyInv => VerifyTypeOK
  BY DEF VerifyInv
<1> QED
  BY VerifyInvInit, VerifyInvStep, <1>1, PTL DEF VerifySpec

(* A peer is shown as verified only on an answer: its user's, with a code   *)
(* in the window, or this phone's own user's.                              *)
THEOREM VerifiedByAnswerHolds == VerifySpec => VerifiedByAnswer
<1> DEFINE Answered == \A p \in Pair : badge'[p] = "verified" /\ badge[p] # "verified" =>
       \/ \E a \in answers : a.by = Other(p) /\ a.code.seed = seed[p] /\ InWindow(a.code, minute)
       \/ \E a \in answers : a.by = p
<1>1. VerifyInv /\ [VerifyNext]_verifyVars => [Answered]_verifyVars
  <2> SUFFICES ASSUME VerifyInv, VerifyNext, NEW p \in Pair,
                      badge'[p] = "verified", badge[p] # "verified"
               PROVE  \/ \E a \in answers : a.by = Other(p) /\ a.code.seed = seed[p]
                                            /\ InWindow(a.code, minute)
                      \/ \E a \in answers : a.by = p
    OBVIOUS
  <2>1. ResponseArrives(p) \/ ResultArrives(p)
    <3>1. badge' # badge /\ badge \in [Pair -> {"none", "requested", "incoming", "verified", "unverified"}]
      BY DEF VerifyInv, VerifyTypeOK
    <3>2. \E q \in Pair : \/ RequestVerification(q) \/ RequestArrives(q) \/ ResponseArrives(q)
                          \/ ResultArrives(q) \/ \E b \in BOOLEAN : SessionEnds(q, b)
      BY <3>1 DEF VerifyNext, Minute, RespondVerification, EnrollBiometric, EnrollArrives,
                  RequestPresence, ChallengeArrives, PromptEnds, PresenceArrives
    <3> QED
      BY <3>1, <3>2 DEF RequestVerification, RequestArrives, ResponseArrives, ResultArrives, SessionEnds
  <2>2. CASE ResponseArrives(p)
    <3>1. Head(line[p]).kind = "verify-response" /\ Backed(p, Head(line[p]))
      BY <2>2, ArrivalLemma DEF ResponseArrives
    <3>2. Passes(p, Head(line[p]).code)
      BY <2>2 DEF ResponseArrives, VerifyInv, VerifyTypeOK
    <3> QED
      BY <3>1, <3>2 DEF Backed, Passes
  <2>3. CASE ResultArrives(p)
    <3>1. Head(line[p]).kind = "verify-result" /\ Backed(p, Head(line[p]))
      BY <2>3, ArrivalLemma DEF ResultArrives
    <3>2. Head(line[p]).ok
      BY <2>3 DEF ResultArrives, VerifyInv, VerifyTypeOK
    <3> QED
      BY <3>1, <3>2 DEF Backed
  <2> QED
    BY <2>1, <2>2, <2>3
<1> QED
  BY VerifyInvInit, VerifyInvStep, <1>1, PTL DEF VerifySpec, VerifiedByAnswer

(* Presence is shown only on a fresh proof of this phone's latest challenge. *)
THEOREM PresenceIsLiveHolds == VerifySpec => PresenceIsLive
<1> DEFINE Lively == \A p \in Pair : presence'[p] = "verified" /\ presence[p] # "verified" =>
       \E q \in proofs : /\ q.by = Other(p) /\ q.challenge = asked[p]
                         /\ minute - q.at <= Fresh
<1>1. VerifyInv /\ [VerifyNext]_verifyVars => [Lively]_verifyVars
  <2> SUFFICES ASSUME VerifyInv, VerifyNext, NEW p \in Pair,
                      presence'[p] = "verified", presence[p] # "verified"
               PROVE  \E q \in proofs : /\ q.by = Other(p) /\ q.challenge = asked[p]
                                        /\ minute - q.at <= Fresh
    OBVIOUS
  <2>1. PresenceArrives(p)
    BY DEF VerifyNext, VerifyInv, VerifyTypeOK, Minute, RequestVerification, RequestArrives,
           RespondVerification, ResponseArrives, ResultArrives, EnrollBiometric, EnrollArrives,
           RequestPresence, ChallengeArrives, PromptEnds, PresenceArrives, SessionEnds
  <2> DEFINE f == Head(line[p])
  <2>2. f.kind = "bioverify-response" /\ Backed(p, f) /\ f \in Frames
    BY <2>1, ArrivalLemma DEF PresenceArrives
  <2>3. VerifyAttestation(p, f) = "verified"
    BY <2>1 DEF PresenceArrives, VerifyInv, VerifyTypeOK
  <2>4. f.issuedAt \in 0..MaxTime
    BY <2>2, FrameLemma
  <2> HIDE DEF f
  <2>5. f.signed /\ f.challenge = asked[p] /\ ~(minute - f.issuedAt > Fresh)
    BY <2>3 DEF VerifyAttestation
  <2>6. PICK q \in proofs : q.by = Other(p) /\ q.challenge = f.challenge /\ f.issuedAt <= q.at
    BY <2>2, <2>5 DEF Backed
  <2>7. /\ q.at \in Nat /\ minute \in Nat /\ f.issuedAt \in Nat /\ Fresh \in Nat
    BY <2>4, BoundsLemma DEF VerifyInv, VerifyTypeOK
  <2> QED
    BY <2>5, <2>6, <2>7
<1> QED
  BY VerifyInvInit, VerifyInvStep, <1>1, PTL DEF VerifySpec, PresenceIsLive

----------------------------------------------------------------------------
(* Admission. *)

CallRecords == [token : Tokens, stage : {"read", "firebase", "write", "limit"}]

(* The tokens and their lives. *)
LEMMA TokensLemma ==
  /\ \A t \in Tokens : Expiry[t] \in Nat
  /\ Lag \in Nat /\ LastTime \in Nat /\ Limit \in Nat \ {0} /\ Span \in Nat \ {0}
BY AdmissionAssumption

(* A request that goes on, and one that ends. *)
LEMMA CallsLemma ==
  ASSUME NEW i, calls \in Seq(CallRecords),
         NEW stage \in {"read", "firebase", "write", "limit"}, i \in DOMAIN calls
  PROVE  /\ calls[i] \in CallRecords
         /\ Goes(i, stage) => calls' \in Seq(CallRecords)
         /\ Ends(i) => calls' \in Seq(CallRecords)
<1>1. /\ DOMAIN calls = 1..Len(calls) /\ Len(calls) \in Nat
      /\ \A k \in 1..Len(calls) : calls[k] \in CallRecords
  BY LenProperties, ElementOfSeq
<1>2. ASSUME Goes(i, stage) PROVE calls' \in Seq(CallRecords)
  <2>1. [calls[i] EXCEPT !.stage = stage] \in CallRecords
    BY <1>1 DEF CallRecords
  <2>2. calls' = [calls EXCEPT ![i] = [calls[i] EXCEPT !.stage = stage]]
    BY <1>2 DEF Goes
  <2> QED
    BY <1>1, <2>1, <2>2, ExceptSeq
<1>3. ASSUME Ends(i) PROVE calls' \in Seq(CallRecords)
  <2>1. Len(calls) - 1 \in Nat
    BY <1>1
  <2>2. calls' \in [1..(Len(calls) - 1) -> CallRecords]
    <3>1. \A k \in 1..(Len(calls) - 1) : k \in 1..Len(calls) /\ k + 1 \in 1..Len(calls)
      BY <1>1
    <3>2. \A k \in 1..(Len(calls) - 1) :
            (IF k < i THEN calls[k] ELSE calls[k + 1]) \in CallRecords
      BY <1>1, <3>1
    <3> QED
      BY <1>3, <3>2 DEF Ends
  <2> QED
    BY <2>1, <2>2
<1> QED
  BY <1>1, <1>2, <1>3

(* A write that is not yet executed was issued with what was then left of  *)
(* its token's life, and no longer ago than Redis may be late.             *)
Timely == \A w \in setting :
            /\ w.token \in Tokens /\ w.ttl \in Nat \ {0} /\ w.since \in 1..time
            /\ w.since + w.ttl = Expiry[w.token] /\ time <= w.since + Lag

AdmissionInv == AdmissionTypeOK /\ Timely /\ OutlivesByLagOnly

(* The server starts with an empty cache. *)
LEMMA AdmissionInvInit == AdmissionInit => AdmissionInv
<1> SUFFICES ASSUME AdmissionInit PROVE AdmissionInv
  OBVIOUS
<1>1. calls \in Seq(CallRecords)
  BY EmptySeq DEF AdmissionInit
<1>2. time \in 1..LastTime
  BY AdmissionAssumption DEF AdmissionInit
<1> QED
  BY <1>1, <1>2, TokensLemma
  DEF AdmissionInit, AdmissionInv, AdmissionTypeOK, Timely, OutlivesByLagOnly, CallRecords

(* Every step keeps the invariant. *)
LEMMA AdmissionInvStep == AdmissionInv /\ [AdmissionNext]_admissionVars => AdmissionInv'
<1> SUFFICES ASSUME AdmissionInv, [AdmissionNext]_admissionVars PROVE AdmissionInv'
  OBVIOUS
<1> USE DEF AdmissionInv
<1>0. calls \in Seq(CallRecords) /\ time \in 1..LastTime /\ time \in Nat
  BY TokensLemma DEF AdmissionTypeOK, CallRecords
<1>1. ASSUME NEW t \in Tokens, Request(t) PROVE AdmissionInv'
  <2>1. [token |-> t, stage |-> "read"] \in CallRecords
    BY DEF CallRecords
  <2>2. calls' \in Seq(CallRecords) /\ UNCHANGED <<time, revoked, cache, setting, counter, passed>>
    BY <1>0, <1>1, <2>1, AppendLemma DEF Request
  <2> QED
    BY <2>2 DEF AdmissionTypeOK, Timely, OutlivesByLagOnly, CallRecords
<1>2. ASSUME NEW t \in Tokens, Revoke(t) PROVE AdmissionInv'
  BY <1>2 DEF Revoke, AdmissionTypeOK, Timely, OutlivesByLagOnly
<1>3. ASSUME NEW i \in DOMAIN calls, ReadCache(i) \/ VerifyWithFirebase(i) PROVE AdmissionInv'
  <2>1. calls' \in Seq(CallRecords) /\ UNCHANGED <<time, revoked, cache, setting, counter, passed>>
    BY <1>0, <1>3, CallsLemma DEF ReadCache, VerifyWithFirebase
  <2> QED
    BY <2>1 DEF AdmissionTypeOK, Timely, OutlivesByLagOnly, CallRecords
<1>4. ASSUME NEW i \in DOMAIN calls, WriteCache(i) PROVE AdmissionInv'
  <2> DEFINE t == calls[i].token
             w == [token |-> t, ttl |-> Expiry[t] - time, since |-> time]
  <2>1. calls' \in Seq(CallRecords) /\ UNCHANGED <<time, revoked, cache, counter, passed>>
    BY <1>0, <1>4, CallsLemma DEF WriteCache
  <2>2. t \in Tokens /\ Expiry[t] \in Nat
    BY <1>0, CallsLemma, TokensLemma DEF CallRecords
  <2>3. setting' = setting \/ (Expiry[t] > time /\ setting' = setting \cup {w})
    BY <1>4 DEF WriteCache
  <2>4. Expiry[t] > time =>
          /\ w.token \in Tokens /\ w.ttl \in Nat \ {0} /\ w.since \in 1..time
          /\ w.since + w.ttl = Expiry[w.token] /\ time <= w.since + Lag
    BY <1>0, <2>2, TokensLemma
  <2> HIDE DEF w, t
  <2> QED
    BY <2>1, <2>3, <2>4 DEF AdmissionTypeOK, Timely, OutlivesByLagOnly, CallRecords
<1>5. ASSUME NEW i \in DOMAIN calls, Hit(i) \/ FailsOpen(i) PROVE AdmissionInv'
  <2> DEFINE count == IF counter.until > time THEN counter.n ELSE 0
             hit == [n |-> count + 1, until |-> IF count = 0 THEN time + Span ELSE counter.until]
  <2>1. calls' \in Seq(CallRecords) /\ UNCHANGED <<time, revoked, cache, setting>>
    BY <1>0, <1>5, CallsLemma DEF Hit, FailsOpen
  <2>2. /\ counter' = counter \/ (count < Limit /\ counter' = hit)
        /\ \/ passed' = passed
           \/ count < Limit /\ counter' = hit /\
              passed' = passed \cup {[at |-> time, n |-> count + 1, until |-> hit.until]}
    <3>1. count \in Nat
      BY DEF AdmissionTypeOK
    <3>2. ~(count >= Limit) <=> count < Limit
      BY <3>1, TokensLemma
    <3> QED
      BY <1>5, <3>2 DEF Hit, FailsOpen
  <2>3. count < Limit => hit \in [n : 0..Limit, until : Nat]
    BY <1>0, TokensLemma DEF AdmissionTypeOK
  <2>4. passed' \subseteq [at : 1..LastTime, n : 1..Limit, until : Nat]
    <3>1. count \in Nat
      BY DEF AdmissionTypeOK
    <3>2. count < Limit =>
            [at |-> time, n |-> count + 1, until |-> hit.until]
              \in [at : 1..LastTime, n : 1..Limit, until : Nat]
      BY <1>0, <2>3, <3>1, TokensLemma
    <3> HIDE DEF hit, count
    <3> QED
      BY <2>2, <3>2 DEF AdmissionTypeOK
  <2> HIDE DEF hit, count
  <2> QED
    BY <2>1, <2>2, <2>3, <2>4 DEF AdmissionTypeOK, Timely, OutlivesByLagOnly, CallRecords
<1>6. ASSUME NEW w \in setting, EntrySet(w) PROVE AdmissionInv'
  <2>1. /\ setting' \subseteq setting /\ UNCHANGED <<time, revoked, counter, calls, passed>>
        /\ cache' = cache \/ cache' = [cache EXCEPT ![w.token] = time + w.ttl]
    BY <1>6 DEF EntrySet
  <2>2. /\ w.token \in Tokens /\ Expiry[w.token] \in Nat
        /\ time + w.ttl \in Nat /\ time + w.ttl <= Expiry[w.token] + Lag
    BY <1>0, TokensLemma DEF Timely
  <2>3. cache' \in [Tokens -> Nat] /\ OutlivesByLagOnly'
    BY <2>1, <2>2 DEF AdmissionTypeOK, OutlivesByLagOnly
  <2> QED
    BY <2>1, <2>3 DEF AdmissionTypeOK, Timely
<1>7. CASE Second
  <2>1. /\ time' = time + 1 /\ time' \in 1..LastTime /\ 1..time \subseteq 1..time'
        /\ \A w \in setting : time < w.since + Lag
        /\ UNCHANGED <<revoked, cache, setting, counter, calls, passed>>
    BY <1>0, <1>7, TokensLemma DEF Second
  <2>2. AdmissionTypeOK' /\ OutlivesByLagOnly'
    BY <2>1 DEF AdmissionTypeOK, OutlivesByLagOnly
  <2>3. Timely'
    <3> SUFFICES ASSUME NEW w \in setting
                 PROVE  /\ w.token \in Tokens /\ w.ttl \in Nat \ {0} /\ w.since \in 1..time'
                        /\ w.since + w.ttl = Expiry[w.token] /\ time' <= w.since + Lag
      BY <2>1 DEF Timely
    <3>1. /\ w.token \in Tokens /\ w.ttl \in Nat \ {0} /\ w.since \in 1..time
          /\ w.since + w.ttl = Expiry[w.token]
      BY DEF Timely
    <3> QED
      BY <1>0, <2>1, <3>1, TokensLemma
  <2> QED
    BY <2>2, <2>3
<1>8. CASE UNCHANGED admissionVars
  BY <1>8 DEF admissionVars, AdmissionTypeOK, Timely, OutlivesByLagOnly
<1> QED
  BY <1>1, <1>2, <1>3, <1>4, <1>5, <1>6, <1>7, <1>8 DEF AdmissionNext

(* The clock, the cache and the counter are what their comments say. *)
THEOREM AdmissionTypeCorrect == AdmissionSpec => []AdmissionTypeOK
<1>1. AdmissionInv => AdmissionTypeOK
  BY DEF AdmissionInv
<1> QED
  BY AdmissionInvInit, AdmissionInvStep, <1>1, PTL DEF AdmissionSpec

(* A cached verdict outlives its token by no more than its write was late. *)
THEOREM OutlivesByLagOnlyHolds == AdmissionSpec => []OutlivesByLagOnly
<1>1. AdmissionInv => OutlivesByLagOnly
  BY DEF AdmissionInv
<1> QED
  BY AdmissionInvInit, AdmissionInvStep, <1>1, PTL DEF AdmissionSpec

(* What let a request through: the windows are Span long and do not        *)
(* overlap, and each numbers the requests it lets through.                 *)
Windows ==
  /\ counter.until <= time + Span
  /\ counter.until > time => counter.n >= 1
  /\ \A h \in passed :
       /\ h.at < h.until /\ h.until <= h.at + Span
       /\ h.n = 1 => h.until = h.at + Span
       /\ h.until <= counter.until
       /\ h.until = counter.until => h.n <= counter.n
       /\ h.until < counter.until => h.until + Span <= counter.until
  /\ \A h, g \in passed :
       /\ h.until = g.until /\ h.n = g.n => h = g
       /\ h.until < g.until => h.until + Span <= g.until

RateInv == AdmissionInv /\ Windows

(* The counter has not been used yet. *)
LEMMA RateInvInit == AdmissionInit => RateInv
BY AdmissionInvInit, TokensLemma DEF AdmissionInit, RateInv, Windows

(* The limiter's script keeps the windows apart, heard or not. *)
LEMMA WindowsStep ==
  ASSUME RateInv, NEW i \in DOMAIN calls, Hit(i) \/ FailsOpen(i)
  PROVE  Windows'
<1> DEFINE count == IF counter.until > time THEN counter.n ELSE 0
           until == IF count = 0 THEN time + Span ELSE counter.until
           new == [at |-> time, n |-> count + 1, until |-> until]
<1>1. /\ time \in Nat /\ counter.n \in Nat /\ counter.until \in Nat /\ Span \in Nat \ {0}
      /\ \A h \in passed : h.at \in Nat /\ h.n \in Nat \ {0} /\ h.until \in Nat
  BY TokensLemma DEF RateInv, AdmissionInv, AdmissionTypeOK
<1>2. /\ UNCHANGED time
      /\ \/ UNCHANGED <<counter, passed>>
         \/ /\ counter' = [n |-> count + 1, until |-> until]
            /\ passed' = passed \/ passed' = passed \cup {new}
  BY DEF Hit, FailsOpen
<1>3. CASE UNCHANGED <<counter, passed>>
  BY <1>2, <1>3 DEF RateInv, Windows
<1>4. CASE /\ counter' = [n |-> count + 1, until |-> until]
           /\ passed' = passed \/ passed' = passed \cup {new}
  <2>1. count \in Nat /\ until \in Nat
    BY <1>1
  <2>2. time < until /\ until <= time + Span /\ (count = 0 => until = time + Span)
    BY <1>1 DEF RateInv, Windows
  <2>3. ASSUME NEW h \in passed
        PROVE  /\ h.until <= until
               /\ h.until = until => h.n <= count
               /\ h.until < until => h.until + Span <= until
    <3>1. CASE count = 0
      <4>1. counter.until <= time
        BY <1>1, <3>1 DEF RateInv, Windows
      <4>2. h.until <= time
        BY <1>1, <4>1 DEF RateInv, Windows
      <4> QED
        BY <1>1, <3>1, <4>2
    <3>2. CASE count # 0
      BY <1>1, <3>2 DEF RateInv, Windows
    <3> QED
      BY <3>1, <3>2
  <2>4. /\ new.at = time /\ new.n = count + 1 /\ new.until = until
        /\ counter'.n = count + 1 /\ counter'.until = until
    BY <1>4
  <2> HIDE DEF new, until, count
  <2>5. counter'.until <= time' + Span /\ (counter'.until > time' => counter'.n >= 1)
    BY <1>2, <2>1, <2>2, <2>4
  <2>6. ASSUME NEW h \in passed'
        PROVE  /\ h.at < h.until /\ h.until <= h.at + Span
               /\ h.n = 1 => h.until = h.at + Span
               /\ h.until <= counter'.until
               /\ h.until = counter'.until => h.n <= counter'.n
               /\ h.until < counter'.until => h.until + Span <= counter'.until
    <3>1. CASE h \in passed
      BY <1>1, <2>1, <2>3, <2>4, <3>1 DEF RateInv, Windows
    <3>2. CASE h = new
      BY <1>1, <2>1, <2>2, <2>4, <3>2
    <3> QED
      BY <1>4, <2>6, <3>1, <3>2
  <2>7. ASSUME NEW h \in passed', NEW g \in passed'
        PROVE  /\ h.until = g.until /\ h.n = g.n => h = g
               /\ h.until < g.until => h.until + Span <= g.until
    <3>1. CASE h \in passed /\ g \in passed
      BY <3>1 DEF RateInv, Windows
    <3>2. CASE h \in passed /\ g = new
      BY <1>1, <2>1, <2>3, <2>4, <3>2
    <3>3. CASE h = new /\ g \in passed
      BY <1>1, <2>1, <2>3, <2>4, <3>3
    <3>4. CASE h = new /\ g = new
      BY <2>1, <2>4, <3>4
    <3> QED
      BY <1>4, <2>7, <3>1, <3>2, <3>3, <3>4
  <2> QED
    BY <2>5, <2>6, <2>7 DEF Windows
<1> HIDE DEF new, until, count
<1> QED
  BY <1>2, <1>3, <1>4

(* Every step keeps the windows apart. *)
LEMMA RateInvStep == RateInv /\ [AdmissionNext]_admissionVars => RateInv'
<1> SUFFICES ASSUME RateInv, [AdmissionNext]_admissionVars PROVE Windows'
  BY AdmissionInvStep DEF RateInv
<1>1. CASE \E i \in DOMAIN calls : Hit(i) \/ FailsOpen(i)
  BY <1>1, WindowsStep
<1>2. CASE Second
  <2>1. /\ time \in Nat /\ counter.until \in Nat /\ Span \in Nat
    BY TokensLemma DEF RateInv, AdmissionInv, AdmissionTypeOK
  <2>2. UNCHANGED <<counter, passed>> /\ time' = time + 1
    BY <1>2 DEF Second
  <2> QED
    BY <2>1, <2>2 DEF RateInv, Windows
<1>3. CASE UNCHANGED <<time, counter, passed>>
  BY <1>3 DEF RateInv, Windows
<1> QED
  BY <1>1, <1>2, <1>3
  DEF AdmissionNext, admissionVars, Request, Revoke, ReadCache, VerifyWithFirebase, WriteCache,
      EntrySet

(* The requests of Span steps come from two windows at most, and the first *)
(* of two gave its first number away before.                               *)
LEMMA TwoWindows ==
  ASSUME RateInv, NEW s \in 1..LastTime
  PROVE  Cardinality({h \in passed : h.at \in s..(s + Span - 1)}) < 2 * Limit
<1> DEFINE W == {h \in passed : h.at \in s..(s + Span - 1)}
<1>1. /\ Span \in Nat \ {0} /\ Limit \in Nat \ {0} /\ s \in Nat \ {0}
      /\ \A h \in passed : h.at \in Nat /\ h.n \in 1..Limit /\ h.until \in Nat
  BY TokensLemma DEF RateInv, AdmissionInv, AdmissionTypeOK
<1>2. \A h \in W : h \in passed /\ s < h.until /\ h.until < s + 2 * Span
  BY <1>1 DEF RateInv, Windows
<1>3. \A h, g \in W : /\ h.until = g.until /\ h.n = g.n => h = g
                      /\ h.until < g.until => h.until + Span <= g.until /\ h.n # 1
  <2> SUFFICES ASSUME NEW h \in W, NEW g \in W
               PROVE  /\ h.until = g.until /\ h.n = g.n => h = g
                      /\ h.until < g.until => h.until + Span <= g.until /\ h.n # 1
    OBVIOUS
  <2>1. /\ h.until = g.until /\ h.n = g.n => h = g
        /\ h.until < g.until => h.until + Span <= g.until
    BY DEF RateInv, Windows
  <2>2. ASSUME h.until < g.until, h.n = 1 PROVE FALSE
    <3>1. h.until = h.at + Span /\ h.at \in s..(s + Span - 1) /\ h.at \in Nat /\ h.until \in Nat
      BY <1>1, <2>2 DEF RateInv, Windows
    <3>2. g.until \in Nat /\ g.until < s + 2 * Span
      BY <1>1, <1>2
    <3> QED
      BY <1>1, <2>1, <2>2, <3>1, <3>2
  <2> QED
    BY <2>1, <2>2
<1> HIDE DEF W
<1>4. \E f : f \in [W -> 1..(2 * Limit - 1)] /\ \A h, g \in W : f[h] = f[g] => h = g
  <2>1. CASE \A h, g \in W : h.until = g.until
    <3> DEFINE f == [h \in W |-> h.n]
    <3>1. \A h \in W : h.n \in 1..(2 * Limit - 1)
      BY <1>1, <1>2
    <3>2. \A h, g \in W : f[h] = f[g] => h = g
      BY <1>3, <2>1
    <3>3. f \in [W -> 1..(2 * Limit - 1)]
      BY <3>1
    <3> QED
      BY <3>2, <3>3
  <2>2. ASSUME NEW x \in W, NEW y \in W, x.until < y.until
        PROVE  \E f : f \in [W -> 1..(2 * Limit - 1)] /\ \A h, g \in W : f[h] = f[g] => h = g
    <3>1. /\ x.until \in Nat /\ y.until \in Nat /\ s < x.until /\ y.until < s + 2 * Span
          /\ x.until + Span <= y.until
      BY <1>1, <1>2, <1>3, <2>2
    <3>2. ASSUME NEW h \in W
          PROVE  /\ h.until = x.until \/ h.until = y.until
                 /\ h.until = x.until => h.n - 1 \in 1..(Limit - 1)
                 /\ h.until # x.until => Limit - 1 + h.n \in Limit..(2 * Limit - 1)
      <4>1. h.until \in Nat /\ h.n \in 1..Limit /\ s < h.until /\ h.until < s + 2 * Span
        BY <1>1, <1>2
      <4>2. /\ h.until < x.until => h.until + Span <= x.until
            /\ x.until < h.until => x.until + Span <= h.until
            /\ h.until < y.until => h.until + Span <= y.until /\ h.n # 1
            /\ y.until < h.until => y.until + Span <= h.until
        BY <1>3
      <4> QED
        BY <1>1, <2>2, <3>1, <4>1, <4>2
    <3> DEFINE f == [h \in W |-> IF h.until = x.until THEN h.n - 1 ELSE Limit - 1 + h.n]
    <3>3. f \in [W -> 1..(2 * Limit - 1)]
      <4>1. \A h \in W : (IF h.until = x.until THEN h.n - 1 ELSE Limit - 1 + h.n)
                           \in 1..(2 * Limit - 1)
        BY <1>1, <3>2
      <4> QED
        BY <4>1
    <3>4. ASSUME NEW h \in W, NEW g \in W, f[h] = f[g] PROVE h = g
      <4>1. h.n \in Nat /\ g.n \in Nat
        BY <1>1, <1>2
      <4>2. h.until = g.until /\ h.n = g.n
        BY <1>1, <3>2, <3>4, <4>1
      <4> QED
        BY <1>3, <4>2
    <3> QED
      BY <3>3, <3>4
  <2>3. ASSUME NEW x \in W, NEW y \in W, x.until # y.until
        PROVE  \E h, g \in W : h.until < g.until
    <3>1. x.until \in Nat /\ y.until \in Nat
      BY <1>1, <1>2
    <3>2. x.until < y.until \/ y.until < x.until
      BY <2>3, <3>1
    <3> QED
      BY <3>2
  <2> QED
    BY <2>1, <2>2, <2>3
<1>5. IsFiniteSet(1..(2 * Limit - 1)) /\ Cardinality(1..(2 * Limit - 1)) = 2 * Limit - 1
  <2>1. 2 * Limit - 1 \in Int /\ 1 \in Int /\ ~(1 > 2 * Limit - 1) /\ 2 * Limit - 1 - 1 + 1 = 2 * Limit - 1
    BY <1>1
  <2> QED
    BY <2>1, FS_Interval
<1>6. PICK f : f \in [W -> 1..(2 * Limit - 1)] /\ \A h, g \in W : f[h] = f[g] => h = g
  BY <1>4
<1>7. f \in Injection(W, 1..(2 * Limit - 1))
  BY <1>6 DEF Injection, IsInjective
<1>8. IsFiniteSet(W) /\ Cardinality(W) <= 2 * Limit - 1
  BY <1>5, <1>7, FS_Injection
<1>9. Cardinality(W) \in Nat
  BY <1>8, FS_CardinalityType
<1>10. Cardinality(W) < 2 * Limit
  BY <1>1, <1>8, <1>9
<1> QED
  BY <1>10 DEF W

(* No Span steps in a row let through as many requests as two full windows. *)
THEOREM RateBoundedHolds == AdmissionSpec => []RateBounded
<1>1. RateInv => RateBounded
  BY TwoWindows DEF RateBounded
<1> QED
  BY RateInvInit, RateInvStep, <1>1, PTL DEF AdmissionSpec

----------------------------------------------------------------------------
(* Sessions. *)

KeptSessions == [id : 1..sent, with : Installs, key : KeyIds \cup {0}, fresh : BOOLEAN]
Holding(s) == s.stage \in {"bundle", "establish"}

(* Whether q has the session a frame of p's install d belongs to, or can   *)
(* start it.                                                               *)
Holds(q, p, d, id) == \E y \in Of(q, p, d).kept : y.id = id
Startable(q, p, d, x) == Holds(q, p, d, x.id) \/ (x.fresh /\ x.key \in preKeys[q] \cup {0})

(* A prekey of q's install d that somebody has is not offered again. *)
Claimed(q, d, k) ==
  /\ d <= install[q]
  /\ k # 0 => d <= enrolled[q] /\ (d = enrolled[q] => k \notin offered[q])

InstallsSound ==
  \A p \in People :
    /\ enrolled[p] <= install[p] /\ install[p] <= stops + 1
    /\ enrolled[p] = install[p] => offered[p] \subseteq preKeys[p]
    /\ enrolled[p] # install[p] => preKeys[p] = KeyIds

(* The identity saved for an address is its own. *)
IdentitiesSound == \A p, q \in People : \A d \in Installs : identities[p][<<q, d>>] \in {0, d}

SendsSound ==
  \A s \in sends :
    /\ s.stage \in {"load", "establish", "encrypt"} => knownDevices[s.by][s.to] # 0
    /\ s.stage # "claim" => s.device # 0
    /\ Holding(s) => Claimed(s.to, s.device, s.key)
    /\ Holding(s) /\ s.device = install[s.to] => s.key \in preKeys[s.to] \cup {0}

(* A session with the install somebody has now has its other end there, or *)
(* can be started there.                                                   *)
KeptSound ==
  \A p, q \in People : \A d \in Installs : \A x \in Of(p, q, d).kept :
    /\ x.with = d /\ Claimed(q, d, x.key)
    /\ d = install[q] => Startable(q, p, install[p], x)

FramesSound ==
  \A f \in frames :
    /\ f.device <= install[f.from] /\ Claimed(f.to, f.with, f.key)
    /\ f.with = install[f.to] => Startable(f.to, f.from, f.device, f)
    /\ f.device = install[f.from] => Holds(f.from, f.to, f.with, f.id)

(* One claim of a prekey becomes one session of one sender. *)
OneHolder ==
  \A s, t \in sends :
    Holding(s) /\ Holding(t) /\ s.to = t.to /\ s.device = t.device /\ s.key = t.key /\ s.key # 0
      => s = t
HeldIsUnused ==
  \A s \in sends :
    Holding(s) /\ s.key # 0 =>
      /\ \A p \in People : \A x \in Of(p, s.to, s.device).kept : x.key # s.key
      /\ \A f \in frames : f.to = s.to /\ f.with = s.device => f.key # s.key
OneSession ==
  \A p, r, q \in People : \A d \in Installs :
    \A x \in Of(p, q, d).kept, y \in Of(r, q, d).kept :
      x.key = y.key /\ x.key # 0 => p = r /\ x.id = y.id
FrameOfSession ==
  \A p \in People : \A f \in frames : \A x \in Of(p, f.to, f.with).kept :
    x.key = f.key /\ f.key # 0 => p = f.from /\ install[p] = f.device /\ x.id = f.id
FramesOfOne ==
  \A f, g \in frames :
    f.to = g.to /\ f.with = g.with /\ f.key = g.key /\ f.key # 0
      => f.from = g.from /\ f.device = g.device /\ f.id = g.id

SessionsInv ==
  /\ SessionsTypeOK /\ InstallsSound /\ IdentitiesSound /\ SendsSound /\ KeptSound /\ FramesSound
  /\ OneHolder /\ HeldIsUnused /\ OneSession /\ FrameOfSession /\ FramesOfOne

LEMMA SessionsInvInit == SessionsInit => SessionsInv
<1> SUFFICES ASSUME SessionsInit PROVE SessionsInv
  OBVIOUS
<1> USE SessionsAssumption
<1>1. 1 \in Installs /\ \A p, q \in People : \A d \in Installs :
        <<q, d>> \in Addresses /\ Of(p, q, d) = NoSessions
  BY DEF SessionsInit, Installs, Addresses, Of, AddressKey
<1>2. SessionsTypeOK
  BY <1>1 DEF SessionsInit, SessionsTypeOK, NoSessions
<1>3. InstallsSound /\ IdentitiesSound
  BY <1>1 DEF SessionsInit, InstallsSound, IdentitiesSound
<1>4. KeptSound /\ OneSession
  <2>1. NoSessions.kept = {}
    BY DEF NoSessions
  <2>2. \A p, q \in People : \A d \in Installs : Of(p, q, d).kept = {}
    BY <1>1, <2>1
  <2> QED
    BY <2>2 DEF KeptSound, OneSession
<1>5. SendsSound /\ FramesSound /\ OneHolder /\ HeldIsUnused /\ FrameOfSession /\ FramesOfOne
  BY DEF SessionsInit, SendsSound, FramesSound, OneHolder, HeldIsUnused, FrameOfSession, FramesOfOne
<1> QED
  BY <1>2, <1>3, <1>4, <1>5 DEF SessionsInv

LEMMA ReadableLemma == SessionsInv => Readable
<1> SUFFICES ASSUME SessionsInv, NEW f \in frames, f.with = install[f.to] PROVE CanDecrypt(f)
  BY DEF Readable
<1>1. f.to \in People /\ f.from \in People /\ f.device \in Installs
  BY DEF SessionsInv, SessionsTypeOK
<1>2. Trusted(f.to, f.from, f.device)
  BY <1>1 DEF SessionsInv, IdentitiesSound, Trusted, AddressKey
<1> QED
  BY <1>2 DEF SessionsInv, FramesSound, Startable, Holds, CanDecrypt, HasSessionOf

LEMMA AddressLemma ==
  ASSUME SessionsTypeOK
  PROVE  /\ \A p, q \in People : \A d \in Installs :
              /\ <<q, d>> \in Addresses /\ Of(p, q, d) = sessions[p][<<q, d>>]
              /\ Of(p, q, d)' = sessions'[p][<<q, d>>] /\ Of(p, q, d).kept \subseteq KeptSessions
         /\ Installs \subseteq Nat \ {0} /\ \A a : AddressKey(a) = a
         /\ KeyIds \subseteq Nat \ {0} /\ stops \in Nat /\ sent \in Nat
<1>1. \A p, q \in People : \A d \in Installs :
        /\ <<q, d>> \in Addresses /\ Of(p, q, d) = sessions[p][<<q, d>>]
        /\ Of(p, q, d)' = sessions'[p][<<q, d>>]
  BY DEF Addresses, Of, AddressKey
<1>2. \A p, q \in People : \A d \in Installs : Of(p, q, d).kept \subseteq KeptSessions
  <2> SUFFICES ASSUME NEW p \in People, NEW q \in People, NEW d \in Installs
               PROVE  sessions[p][<<q, d>>].kept \subseteq KeptSessions
    BY <1>1
  <2>1. sessions[p] \in [Addresses -> [open : 0..sent, kept : SUBSET KeptSessions]]
    BY DEF SessionsTypeOK, KeptSessions
  <2>2. sessions[p][<<q, d>>] \in [open : 0..sent, kept : SUBSET KeptSessions]
    BY <1>1, <2>1
  <2> QED
    BY <2>2
<1> QED
  BY <1>1, <1>2, SessionsAssumption DEF Installs, AddressKey, SessionsTypeOK

(* A frame that carries the same on the same way. *)
Like(g, f) ==
  /\ g.from = f.from /\ g.device = f.device /\ g.to = f.to /\ g.with = f.with
  /\ g.id = f.id /\ g.key = f.key /\ g.fresh = f.fresh

(* Nothing happens to what is stored, and no new frame appears. *)
LEMMA SameVaultLemma ==
  ASSUME SessionsInv, UNCHANGED <<install, enrolled, offered, preKeys, sessions>>,
         stops' \in {stops, stops + 1}, \A g \in frames' : \E f \in frames : Like(g, f)
  PROVE  /\ InstallsSound' /\ KeptSound' /\ FramesSound' /\ OneSession' /\ FrameOfSession'
         /\ FramesOfOne'
<1>1. \A p, q, d : Of(p, q, d)' = Of(p, q, d)
  BY DEF Of
<1>2. \A q, d, k : Claimed(q, d, k)' = Claimed(q, d, k)
  BY DEF Claimed
<1>3. \A q, p, d, x : Startable(q, p, d, x)' = Startable(q, p, d, x)
  BY <1>1 DEF Startable, Holds
<1>4. \A q, p, d, id : Holds(q, p, d, id)' = Holds(q, p, d, id)
  BY <1>1 DEF Holds
<1>5. InstallsSound'
  <2>1. \A p \in People : install[p] \in Nat
    BY AddressLemma DEF SessionsInv, SessionsTypeOK
  <2>2. stops \in Nat
    BY AddressLemma DEF SessionsInv
  <2> QED
    BY <2>1, <2>2 DEF SessionsInv, InstallsSound
<1>6. KeptSound' /\ OneSession'
  BY <1>1, <1>2, <1>3 DEF SessionsInv, KeptSound, OneSession
<1>7. FramesSound'
  <2> SUFFICES ASSUME NEW g \in frames'
               PROVE  /\ g.device <= install[g.from] /\ Claimed(g.to, g.with, g.key)
                      /\ g.with = install[g.to] => Startable(g.to, g.from, g.device, g)
                      /\ g.device = install[g.from] => Holds(g.from, g.to, g.with, g.id)
    BY <1>2, <1>3, <1>4 DEF FramesSound
  <2>1. PICK f \in frames : Like(g, f)
    OBVIOUS
  <2> QED
    BY <2>1 DEF SessionsInv, FramesSound, Like, Startable
<1>8. FrameOfSession' /\ FramesOfOne'
  BY <1>1 DEF SessionsInv, FrameOfSession, FramesOfOne, Like
<1> QED
  BY <1>5, <1>6, <1>7, <1>8

(* Nobody gets a prekey. *)
LEMMA SendersLemma ==
  ASSUME SessionsInv, UNCHANGED sessions, \A g \in frames' : \E f \in frames : Like(g, f),
         \A t \in sends' : t \in sends \/ ~Holding(t)
  PROVE  OneHolder' /\ HeldIsUnused'
<1>1. \A p, q, d : Of(p, q, d)' = Of(p, q, d)
  BY DEF Of
<1>2. \A t : Holding(t)' = Holding(t)
  BY DEF Holding
<1>3. OneHolder'
  BY <1>2 DEF SessionsInv, OneHolder
<1>4. HeldIsUnused'
  <2> SUFFICES ASSUME NEW t \in sends', Holding(t), t.key # 0
               PROVE  /\ \A p \in People : \A x \in Of(p, t.to, t.device).kept : x.key # t.key
                      /\ \A g \in frames' : g.to = t.to /\ g.with = t.device => g.key # t.key
    BY <1>1, <1>2 DEF HeldIsUnused
  <2>1. t \in sends
    OBVIOUS
  <2> QED
    BY <2>1 DEF SessionsInv, HeldIsUnused, Like
<1> QED
  BY <1>3, <1>4

LEMMA BeginSendStep ==
  ASSUME SessionsInv, NEW p \in People, NEW q \in People, BeginSend(p, q)
  PROVE  SessionsInv'
<1> USE DEF SessionsInv
<1> DEFINE s == [n |-> sent + 1, by |-> p, to |-> q, device |-> knownDevices[p][q], key |-> 0,
                 stage |-> IF knownDevices[p][q] = 0 THEN "claim" ELSE "load"]
<1>1. sends' = sends \cup {s} /\ sent' = sent + 1 /\ sent < MaxSends
  BY DEF BeginSend
<1>2. UNCHANGED <<install, enrolled, offered, preKeys, sessions, identities, knownDevices, frames,
                  stops>>
  BY DEF BeginSend, vault
<1>3. SessionsTypeOK'
  <2>1. s \in [n : 1..sent', by : People, to : People, device : {0} \cup Installs,
               key : KeyIds \cup {0}, stage : {"load", "claim", "bundle", "establish", "encrypt"}]
    BY <1>1, AddressLemma DEF SessionsTypeOK
  <2>2. 1..sent \subseteq 1..sent' /\ 0..sent \subseteq 0..sent' /\ sent' \in 0..MaxSends
    BY <1>1, AddressLemma, SessionsAssumption DEF SessionsTypeOK
  <2> QED
    BY <1>1, <1>2, <2>1, <2>2 DEF SessionsTypeOK
<1>4. IdentitiesSound'
  BY <1>2 DEF IdentitiesSound
<1>5. ~Holding(s)
  BY DEF Holding
<1>6. SendsSound'
  BY <1>1, <1>2, <1>5 DEF SendsSound, Holding, Claimed
<1> HIDE DEF s
<1>7. /\ InstallsSound' /\ KeptSound' /\ FramesSound' /\ OneSession' /\ FrameOfSession'
      /\ FramesOfOne' /\ OneHolder' /\ HeldIsUnused'
  <2>1. \A g \in frames' : \E f \in frames : Like(g, f)
    BY <1>2 DEF Like
  <2>2. \A t \in sends' : t \in sends \/ ~Holding(t)
    BY <1>1, <1>5
  <2> QED
    BY <1>2, <2>1, <2>2, SameVaultLemma, SendersLemma
<1> QED
  BY <1>3, <1>4, <1>6, <1>7

LEMMA SessionLoadedStep ==
  ASSUME SessionsInv, NEW s \in sends, SessionLoaded(s)
  PROVE  SessionsInv'
<1> USE DEF SessionsInv
<1>1. UNCHANGED <<install, enrolled, offered, preKeys, sessions, identities, knownDevices, frames,
                  stops, sent>>
  BY DEF SessionLoaded, vault
<1>2. s.stage = "load" /\ s.by \in People /\ s.to \in People
  BY DEF SessionLoaded, SessionsTypeOK
<1>3. PICK t : /\ sends' = (sends \ {s}) \cup {t}
               /\ \/ t = [s EXCEPT !.stage = "claim"]
                  \/ t = [s EXCEPT !.stage = "encrypt", !.device = knownDevices[s.by][s.to]]
  BY DEF SessionLoaded, Turns
<1>4. /\ t \in [n : 1..sent, by : People, to : People, device : {0} \cup Installs,
                key : KeyIds \cup {0}, stage : {"load", "claim", "bundle", "establish", "encrypt"}]
      /\ t.by = s.by /\ t.to = s.to /\ t.stage \in {"claim", "encrypt"}
      /\ t.stage = "encrypt" => t.device = knownDevices[s.by][s.to]
  <2>1. /\ s \in [n : 1..sent, by : People, to : People, device : {0} \cup Installs,
                   key : KeyIds \cup {0}, stage : {"load", "claim", "bundle", "establish", "encrypt"}]
        /\ knownDevices[s.by][s.to] \in {0} \cup Installs
    BY <1>2 DEF SessionsTypeOK
  <2>2. CASE t = [s EXCEPT !.stage = "claim"]
    BY <2>1, <2>2
  <2>3. CASE t = [s EXCEPT !.stage = "encrypt", !.device = knownDevices[s.by][s.to]]
    <3> DEFINE known == knownDevices[s.by][s.to]
    <3>1. t = [n |-> s.n, by |-> s.by, to |-> s.to, device |-> known, key |-> s.key, stage |-> "encrypt"]
      BY <2>1, <2>3
    <3>2. known \in {0} \cup Installs
      BY <2>1
    <3> HIDE DEF known
    <3>3. t.by = s.by /\ t.to = s.to /\ t.stage = "encrypt" /\ t.device = known
      BY <3>1
    <3> QED
      BY <2>1, <3>1, <3>2, <3>3 DEF known
  <2> QED
    BY <1>3, <2>2, <2>3
<1>5. SessionsTypeOK' /\ IdentitiesSound'
  BY <1>1, <1>3, <1>4 DEF SessionsTypeOK, IdentitiesSound
<1>6. ~Holding(t)
  BY <1>4 DEF Holding
<1>7. SendsSound'
  BY <1>1, <1>2, <1>3, <1>4 DEF SendsSound, Holding, Claimed
<1>8. /\ InstallsSound' /\ KeptSound' /\ FramesSound' /\ OneSession' /\ FrameOfSession'
      /\ FramesOfOne' /\ OneHolder' /\ HeldIsUnused'
  <2>1. \A g \in frames' : \E f \in frames : Like(g, f)
    BY <1>1 DEF Like
  <2>2. \A u \in sends' : u \in sends \/ ~Holding(u)
    BY <1>3, <1>6
  <2> QED
    BY <1>1, <2>1, <2>2, SameVaultLemma, SendersLemma
<1> QED
  BY <1>5, <1>7, <1>8

LEMMA ClaimFailsStep ==
  ASSUME SessionsInv, NEW s \in sends, ClaimFails(s)
  PROVE  SessionsInv'
<1> USE DEF SessionsInv
<1>1. /\ UNCHANGED <<install, enrolled, offered, preKeys, sessions, identities, knownDevices, frames,
                     stops, sent>>
      /\ sends' \subseteq sends
  BY DEF ClaimFails, Fails, vault
<1>2. SessionsTypeOK' /\ IdentitiesSound' /\ SendsSound'
  BY <1>1 DEF SessionsTypeOK, IdentitiesSound, SendsSound, Holding, Claimed
<1>3. /\ InstallsSound' /\ KeptSound' /\ FramesSound' /\ OneSession' /\ FrameOfSession'
      /\ FramesOfOne' /\ OneHolder' /\ HeldIsUnused'
  <2>1. \A g \in frames' : \E f \in frames : Like(g, f)
    BY <1>1 DEF Like
  <2> QED
    BY <1>1, <2>1, SameVaultLemma, SendersLemma
<1> QED
  BY <1>2, <1>3

LEMMA EstablishSessionStep ==
  ASSUME SessionsInv, NEW s \in sends, EstablishSession(s)
  PROVE  SessionsInv'
<1> USE DEF SessionsInv
<1> DEFINE t == [s EXCEPT !.stage = "establish"]
<1>1. /\ UNCHANGED <<install, enrolled, offered, preKeys, sessions, identities, frames, stops, sent>>
      /\ sends' = (sends \ {s}) \cup {t} /\ s.stage = "bundle"
      /\ knownDevices' = [knownDevices EXCEPT ![s.by][s.to] = s.device]
  BY DEF EstablishSession, Turns, vault
<1>2. s \in [n : 1..sent, by : People, to : People, device : {0} \cup Installs,
             key : KeyIds \cup {0}, stage : {"load", "claim", "bundle", "establish", "encrypt"}]
  BY DEF SessionsTypeOK
<1>3. /\ t \in [n : 1..sent, by : People, to : People, device : {0} \cup Installs,
                key : KeyIds \cup {0}, stage : {"load", "claim", "bundle", "establish", "encrypt"}]
      /\ t.by = s.by /\ t.to = s.to /\ t.device = s.device /\ t.key = s.key
      /\ t.stage = "establish" /\ s.device # 0
  BY <1>1, <1>2 DEF SendsSound
<1>4. /\ \A p, q \in People : knownDevices'[p][q] = knownDevices[p][q] \/ knownDevices'[p][q] # 0
      /\ knownDevices'[s.by][s.to] # 0
      /\ knownDevices' \in [People -> [People -> {0} \cup Installs]]
  BY <1>1, <1>2, <1>3 DEF SessionsTypeOK
<1> HIDE DEF t
<1>5. SessionsTypeOK' /\ IdentitiesSound'
  BY <1>1, <1>3, <1>4 DEF SessionsTypeOK, IdentitiesSound
<1>6. SendsSound'
  <2> SUFFICES ASSUME NEW u \in sends'
               PROVE  /\ u.stage \in {"load", "establish", "encrypt"} => knownDevices'[u.by][u.to] # 0
                      /\ u.stage # "claim" => u.device # 0
                      /\ Holding(u) => Claimed(u.to, u.device, u.key)
                      /\ Holding(u) /\ u.device = install[u.to] => u.key \in preKeys[u.to] \cup {0}
    BY <1>1 DEF SendsSound, Holding, Claimed
  <2>1. CASE u = t
    BY <2>1, <1>1, <1>3, <1>4 DEF SendsSound, Holding
  <2>2. CASE u \in sends
    <3>1. u.by \in People /\ u.to \in People
      BY <2>2 DEF SessionsTypeOK
    <3> QED
      BY <2>2, <3>1, <1>4 DEF SendsSound
  <2> QED
    BY <2>1, <2>2, <1>1
<1>7. OneHolder' /\ HeldIsUnused'
  <2>1. Holding(s)
    BY <1>1 DEF Holding
  <2>2. \A p, q, d : Of(p, q, d)' = Of(p, q, d)
    BY <1>1 DEF Of
  <2>3. \A u : Holding(u)' = Holding(u)
    BY DEF Holding
  <2>4. OneHolder'
    BY <1>1, <1>3, <2>1, <2>3 DEF OneHolder
  <2>5. HeldIsUnused'
    <3> SUFFICES ASSUME NEW u \in sends', Holding(u), u.key # 0
                 PROVE  /\ \A p \in People : \A x \in Of(p, u.to, u.device).kept : x.key # u.key
                        /\ \A g \in frames : g.to = u.to /\ g.with = u.device => g.key # u.key
      BY <1>1, <2>2, <2>3 DEF HeldIsUnused
    <3>1. PICK v \in sends : Holding(v) /\ v.to = u.to /\ v.device = u.device /\ v.key = u.key
      BY <1>1, <1>3, <2>1
    <3>2. /\ \A p \in People : \A x \in Of(p, v.to, v.device).kept : x.key # v.key
          /\ \A g \in frames : g.to = v.to /\ g.with = v.device => g.key # v.key
      BY <3>1 DEF HeldIsUnused
    <3> QED
      BY <3>1, <3>2
  <2> QED
    BY <2>4, <2>5
<1>8. /\ InstallsSound' /\ KeptSound' /\ FramesSound' /\ OneSession' /\ FrameOfSession'
      /\ FramesOfOne'
  <2>1. \A g \in frames' : \E f \in frames : Like(g, f)
    BY <1>1 DEF Like
  <2> QED
    BY <1>1, <2>1, SameVaultLemma
<1> QED
  BY <1>5, <1>6, <1>7, <1>8

LEMMA EnvelopeArrivesStep ==
  ASSUME SessionsInv, NEW f \in frames, EnvelopeArrives(f)
  PROVE  SessionsInv'
<1> USE DEF SessionsInv
<1> DEFINE h == [f EXCEPT !.read = TRUE]
<1>1. /\ UNCHANGED <<install, enrolled, offered, preKeys, sessions, identities, sends, stops, sent>>
      /\ frames' = (frames \ {f}) \cup {h}
      /\ knownDevices' = [knownDevices EXCEPT ![f.to][f.from] = f.device]
  BY DEF EnvelopeArrives, vault
<1>2. f \in [n : 1..sent, from : People, device : Installs, to : People, with : Installs,
             id : 1..sent, key : KeyIds \cup {0}, fresh : BOOLEAN, read : BOOLEAN]
  BY DEF SessionsTypeOK
<1>3. /\ h \in [n : 1..sent, from : People, device : Installs, to : People, with : Installs,
                id : 1..sent, key : KeyIds \cup {0}, fresh : BOOLEAN, read : BOOLEAN]
      /\ Like(h, f)
  BY <1>2 DEF Like
<1>4. /\ \A p, q \in People : knownDevices'[p][q] = knownDevices[p][q] \/ knownDevices'[p][q] # 0
      /\ knownDevices' \in [People -> [People -> {0} \cup Installs]]
  BY <1>1, <1>2, AddressLemma DEF SessionsTypeOK
<1> HIDE DEF h
<1>5. SessionsTypeOK' /\ IdentitiesSound'
  BY <1>1, <1>3, <1>4 DEF SessionsTypeOK, IdentitiesSound
<1>6. SendsSound'
  <2> SUFFICES ASSUME NEW u \in sends
               PROVE  u.stage \in {"load", "establish", "encrypt"} => knownDevices'[u.by][u.to] # 0
    BY <1>1 DEF SendsSound, Holding, Claimed
  <2>1. u.by \in People /\ u.to \in People
    BY DEF SessionsTypeOK
  <2> QED
    BY <2>1, <1>4 DEF SendsSound
<1>7. /\ InstallsSound' /\ KeptSound' /\ FramesSound' /\ OneSession' /\ FrameOfSession'
      /\ FramesOfOne' /\ OneHolder' /\ HeldIsUnused'
  <2>1. \A g \in frames' : \E k \in frames : Like(g, k)
    BY <1>1, <1>3 DEF Like
  <2> QED
    BY <1>1, <2>1, SameVaultLemma, SendersLemma
<1> QED
  BY <1>5, <1>6, <1>7

(* Saving the identity of an address. *)
LEMMA IdentityLemma ==
  ASSUME SessionsTypeOK, IdentitiesSound, NEW p \in People, NEW q \in People, NEW d \in Installs,
         identities' = [identities EXCEPT ![p][<<q, d>>] = d]
  PROVE  identities' \in [People -> [Addresses -> {0} \cup Installs]] /\ IdentitiesSound'
<1>1. <<q, d>> \in Addresses
  BY AddressLemma
<1>2. /\ identities[p] \in [Addresses -> {0} \cup Installs]
      /\ identities \in [People -> [Addresses -> {0} \cup Installs]]
  BY DEF SessionsTypeOK
<1> DEFINE saved == [identities[p] EXCEPT ![<<q, d>>] = d]
<1>3. identities' = [identities EXCEPT ![p] = saved]
  OBVIOUS
<1>4. saved \in [Addresses -> {0} \cup Installs] /\ saved[<<q, d>>] = d
  BY <1>1, <1>2
<1>5. \A a \in Addresses : saved[a] = identities[p][a] \/ (a = <<q, d>> /\ saved[a] = d)
  BY <1>1, <1>2
<1> HIDE DEF saved
<1>6. identities' \in [People -> [Addresses -> {0} \cup Installs]]
  BY <1>2, <1>3, <1>4
<1>7. \A x \in People : identities'[x] = IF x = p THEN saved ELSE identities[x]
  BY <1>2, <1>3
<1>8. ASSUME NEW x \in People, NEW y \in People, NEW e \in Installs
      PROVE  identities'[x][<<y, e>>] \in {0, e}
  <2>1. <<y, e>> \in Addresses /\ (<<y, e>> = <<q, d>> => e = d)
    BY AddressLemma
  <2>2. saved[<<y, e>>] = identities[p][<<y, e>>] \/ saved[<<y, e>>] = e
    BY <2>1, <1>5
  <2> QED
    BY <2>2, <1>7 DEF IdentitiesSound
<1> QED
  BY <1>6, <1>8 DEF IdentitiesSound

LEMMA DecryptFailsStep ==
  ASSUME SessionsInv, NEW f \in frames, DecryptFails(f)
  PROVE  SessionsInv'
<1> USE DEF SessionsInv
<1>1. /\ UNCHANGED <<install, enrolled, offered, preKeys, sessions, knownDevices, sends, stops, sent>>
      /\ frames' \subseteq frames
      /\ \/ identities' = identities
         \/ identities' = [identities EXCEPT ![f.to][<<f.from, f.device>>] = f.device]
  BY AddressLemma DEF DecryptFails
<1>2. f.from \in People /\ f.to \in People /\ f.device \in Installs
  BY DEF SessionsTypeOK
<1>3. SessionsTypeOK' /\ IdentitiesSound'
  <2>1. identities' \in [People -> [Addresses -> {0} \cup Installs]] /\ IdentitiesSound'
    <3>1. CASE identities' = identities
      BY <3>1 DEF SessionsTypeOK, IdentitiesSound
    <3>2. CASE identities' = [identities EXCEPT ![f.to][<<f.from, f.device>>] = f.device]
      BY <1>2, <3>2, IdentityLemma
    <3> QED
      BY <1>1, <3>1, <3>2
  <2> QED
    BY <1>1, <2>1 DEF SessionsTypeOK
<1>4. SendsSound'
  BY <1>1 DEF SendsSound, Holding, Claimed
<1>5. /\ InstallsSound' /\ KeptSound' /\ FramesSound' /\ OneSession' /\ FrameOfSession'
      /\ FramesOfOne' /\ OneHolder' /\ HeldIsUnused'
  <2>1. \A g \in frames' : \E k \in frames : Like(g, k)
    BY <1>1 DEF Like
  <2> QED
    BY <1>1, <2>1, SameVaultLemma, SendersLemma
<1> QED
  BY <1>3, <1>4, <1>5

LEMMA RelaunchStep ==
  ASSUME SessionsInv, NEW p \in People, Relaunch(p)
  PROVE  SessionsInv'
<1> USE DEF SessionsInv
<1>1. /\ UNCHANGED <<install, enrolled, offered, preKeys, sessions, identities, sent>>
      /\ frames' \subseteq frames /\ sends' = {s \in sends : s.by # p}
      /\ stops < MaxStops /\ stops' = stops + 1
      /\ knownDevices' = [knownDevices EXCEPT ![p] = [q \in People |-> 0]]
  BY DEF Relaunch, Stops, vault
<1>2. SessionsTypeOK' /\ IdentitiesSound'
  <2>1. stops' \in 0..MaxStops
    BY <1>1, SessionsAssumption DEF SessionsTypeOK
  <2>2. knownDevices' \in [People -> [People -> {0} \cup Installs]]
    BY <1>1 DEF SessionsTypeOK
  <2> QED
    BY <1>1, <2>1, <2>2 DEF SessionsTypeOK, IdentitiesSound
<1>3. SendsSound'
  <2>1. \A s \in sends' : s \in sends /\ knownDevices'[s.by] = knownDevices[s.by]
    BY <1>1 DEF SessionsTypeOK
  <2> QED
    BY <1>1, <2>1 DEF SendsSound, Holding, Claimed
<1>4. /\ InstallsSound' /\ KeptSound' /\ FramesSound' /\ OneSession' /\ FrameOfSession'
      /\ FramesOfOne' /\ OneHolder' /\ HeldIsUnused'
  <2>1. \A g \in frames' : \E k \in frames : Like(g, k)
    BY <1>1 DEF Like
  <2> QED
    BY <1>1, <2>1, SameVaultLemma, SendersLemma
<1> QED
  BY <1>2, <1>3, <1>4

LEMMA BundleLemma ==
  ASSUME SessionsTypeOK, NEW s \in sends, NEW d, NEW k
  PROVE  [s EXCEPT !.stage = "bundle", !.device = d, !.key = k] =
           [n |-> s.n, by |-> s.by, to |-> s.to, device |-> d, key |-> k, stage |-> "bundle"]
<1> DEFINE u == [s EXCEPT !.stage = "bundle"]
           v == [u EXCEPT !.device = d]
           w == [v EXCEPT !.key = k]
<1>0. s \in [n : 1..sent, by : People, to : People, device : {0} \cup Installs,
             key : KeyIds \cup {0}, stage : {"load", "claim", "bundle", "establish", "encrypt"}]
  BY DEF SessionsTypeOK
<1>1. [s EXCEPT !.stage = "bundle", !.device = d, !.key = k] = w
  BY <1>0
<1>2. u = [n |-> s.n, by |-> s.by, to |-> s.to, device |-> s.device, key |-> s.key, stage |-> "bundle"]
  BY <1>0
<1> HIDE DEF u
<1>3. v = [n |-> s.n, by |-> s.by, to |-> s.to, device |-> d, key |-> s.key, stage |-> "bundle"]
  BY <1>2
<1> HIDE DEF v
<1>4. w = [n |-> s.n, by |-> s.by, to |-> s.to, device |-> d, key |-> k, stage |-> "bundle"]
  BY <1>3
<1> HIDE DEF w
<1> QED
  BY <1>1, <1>4

LEMMA ClaimServedStep ==
  ASSUME SessionsInv, NEW s \in sends, NEW k \in KeyIds \cup {0}, ClaimServed(s, k)
  PROVE  SessionsInv'
<1> USE DEF SessionsInv
<1> DEFINE t == [s EXCEPT !.stage = "bundle", !.device = enrolled[s.to], !.key = k]
           SendType == [n : 1..sent, by : People, to : People, device : {0} \cup Installs,
                        key : KeyIds \cup {0},
                        stage : {"load", "claim", "bundle", "establish", "encrypt"}]
<1>1. /\ UNCHANGED <<install, enrolled, preKeys, sessions, identities, knownDevices, frames,
                     stops, sent>>
      /\ offered' = [offered EXCEPT ![s.to] = offered[s.to] \ {k}]
      /\ k # 0 => k \in offered[s.to]
      /\ sends' = (sends \ {s}) \cup {t} \/ sends' = sends \ {s}
  BY AddressLemma DEF ClaimServed, Turns, Fails, vault
<1>2. s \in SendType /\ s.to \in People /\ enrolled[s.to] \in Installs
  BY DEF SessionsTypeOK
<1>3. /\ t \in SendType /\ t.by = s.by /\ t.to = s.to /\ t.key = k
      /\ t.stage = "bundle" /\ t.device = enrolled[s.to]
  <2> DEFINE newest == enrolled[s.to]
  <2>1. t = [n |-> s.n, by |-> s.by, to |-> s.to, device |-> newest, key |-> k, stage |-> "bundle"]
    BY BundleLemma DEF newest, t
  <2>2. newest \in Installs
    BY <1>2
  <2> HIDE DEF newest, t
  <2>3. t \in SendType /\ t.by = s.by /\ t.to = s.to /\ t.key = k /\ t.stage = "bundle" /\ t.device = newest
    BY <1>2, <2>1, <2>2
  <2> QED
    BY <2>3 DEF newest
<1> HIDE DEF t
<1>4. \A q \in People : offered'[q] \subseteq offered[q] /\ k \notin offered'[s.to]
  BY <1>1, <1>2 DEF SessionsTypeOK
<1>5. SessionsTypeOK' /\ IdentitiesSound' /\ InstallsSound'
  <2>1. offered' \in [People -> SUBSET KeyIds]
    BY <1>1, <1>2 DEF SessionsTypeOK
  <2> QED
    BY <1>1, <1>3, <1>4, <2>1 DEF SessionsTypeOK, IdentitiesSound, InstallsSound
<1>6. \A q \in People : \A d, x : Claimed(q, d, x) => Claimed(q, d, x)'
  BY <1>1, <1>4 DEF Claimed
<1>7. /\ \A p, q, d : Of(p, q, d)' = Of(p, q, d)
      /\ \A q, p, d, x : Startable(q, p, d, x)' = Startable(q, p, d, x)
      /\ \A q, p, d, id : Holds(q, p, d, id)' = Holds(q, p, d, id)
      /\ \A u : Holding(u)' = Holding(u)
  BY <1>1 DEF Of, Startable, Holds, Holding
<1>8. KeptSound' /\ OneSession' /\ FrameOfSession' /\ FramesOfOne'
  BY <1>1, <1>6, <1>7 DEF KeptSound, OneSession, FrameOfSession, FramesOfOne
<1>9. FramesSound'
  BY <1>1, <1>6, <1>7 DEF FramesSound, SessionsTypeOK
<1>10. SendsSound'
  <2> SUFFICES ASSUME NEW u \in sends'
               PROVE  /\ u.stage \in {"load", "establish", "encrypt"} => knownDevices[u.by][u.to] # 0
                      /\ u.stage # "claim" => u.device # 0
                      /\ Holding(u) => Claimed(u.to, u.device, u.key)'
                      /\ Holding(u) /\ u.device = install[u.to] => u.key \in preKeys[u.to] \cup {0}
    BY <1>1, <1>7 DEF SendsSound
  <2>1. CASE u = t
    <3>1. enrolled[s.to] <= install[s.to] /\ enrolled[s.to] \in Nat \ {0}
      BY <1>2, AddressLemma DEF InstallsSound
    <3>2. Claimed(u.to, u.device, u.key)'
      BY <1>1, <1>3, <1>4, <2>1, <3>1 DEF Claimed
    <3>3. u.device = install[u.to] => u.key \in preKeys[u.to] \cup {0}
      BY <1>1, <1>2, <1>3, <2>1 DEF InstallsSound
    <3> QED
      BY <1>3, <2>1, <3>1, <3>2, <3>3
  <2>2. CASE u \in sends
    BY <1>6, <2>2 DEF SendsSound, SessionsTypeOK
  <2> QED
    BY <1>1, <2>1, <2>2
<1>11. ASSUME k # 0
       PROVE  /\ \A u \in sends : ~(Holding(u) /\ u.to = t.to /\ u.device = t.device /\ u.key = k)
              /\ \A p \in People : \A x \in Of(p, t.to, t.device).kept : x.key # k
              /\ \A g \in frames : g.to = t.to /\ g.with = t.device => g.key # k
  <2>1. ~Claimed(t.to, t.device, k)
    BY <1>1, <1>3, <1>11 DEF Claimed
  <2> QED
    BY <2>1, <1>2, <1>3 DEF SendsSound, KeptSound, FramesSound
<1>12. OneHolder'
  BY <1>1, <1>3, <1>7, <1>11 DEF OneHolder
<1>13. HeldIsUnused'
  <2> SUFFICES ASSUME NEW u \in sends', Holding(u), u.key # 0
               PROVE  /\ \A p \in People : \A x \in Of(p, u.to, u.device).kept : x.key # u.key
                      /\ \A g \in frames : g.to = u.to /\ g.with = u.device => g.key # u.key
    BY <1>1, <1>7 DEF HeldIsUnused
  <2>1. CASE u = t
    BY <1>3, <1>11, <2>1
  <2>2. CASE u \in sends
    BY <2>2 DEF HeldIsUnused
  <2> QED
    BY <1>1, <2>1, <2>2
<1> QED
  BY <1>5, <1>8, <1>9, <1>10, <1>12, <1>13

(* What is kept for one address changes. *)
LEMMA SessionsLemma ==
  ASSUME SessionsTypeOK, NEW p \in People, NEW q \in People, NEW d \in Installs,
         NEW r \in [open : 0..sent, kept : SUBSET KeptSessions],
         sessions' = [sessions EXCEPT ![p][<<q, d>>] = r]
  PROVE  /\ sessions' \in [People -> [Addresses -> [open : 0..sent, kept : SUBSET KeptSessions]]]
         /\ \A x \in People : \A a \in Addresses :
              sessions'[x][a] = IF x = p /\ a = <<q, d>> THEN r ELSE sessions[x][a]
<1>1. <<q, d>> \in Addresses
  BY AddressLemma
<1>2. /\ sessions \in [People -> [Addresses -> [open : 0..sent, kept : SUBSET KeptSessions]]]
      /\ sessions[p] \in [Addresses -> [open : 0..sent, kept : SUBSET KeptSessions]]
  BY DEF SessionsTypeOK, KeptSessions
<1> DEFINE mine == [sessions[p] EXCEPT ![<<q, d>>] = r]
<1>3. sessions' = [sessions EXCEPT ![p] = mine]
  OBVIOUS
<1>4. mine \in [Addresses -> [open : 0..sent, kept : SUBSET KeptSessions]] /\ mine[<<q, d>>] = r
  BY <1>1, <1>2
<1>5. \A a \in Addresses : a # <<q, d>> => mine[a] = sessions[p][a]
  BY <1>1, <1>2
<1> HIDE DEF mine
<1>6. sessions' \in [People -> [Addresses -> [open : 0..sent, kept : SUBSET KeptSessions]]]
  BY <1>2, <1>3, <1>4
<1>7. \A x \in People : sessions'[x] = IF x = p THEN mine ELSE sessions[x]
  BY <1>2, <1>3
<1>8. \A x \in People : \A a \in Addresses :
        sessions'[x][a] = IF x = p /\ a = <<q, d>> THEN r ELSE sessions[x][a]
  BY <1>4, <1>5, <1>7
<1> QED
  BY <1>6, <1>8

LEMMA ProcessPreKeyBundleStep ==
  ASSUME SessionsInv, NEW s \in sends, ProcessPreKeyBundle(s)
  PROVE  SessionsInv'
<1> USE DEF SessionsInv
<1>p. PICK p, q, d : p = s.by /\ q = s.to /\ d = s.device
  OBVIOUS
<1>x. PICK x0 : x0 = [id |-> s.n, with |-> d, key |-> s.key, fresh |-> TRUE]
  OBVIOUS
<1>r. PICK r : r = [open |-> s.n, kept |-> Of(p, q, d).kept \cup {x0}]
  OBVIOUS
<1>t. PICK t : t = [s EXCEPT !.stage = "encrypt", !.device = knownDevices[p][q]]
  OBVIOUS
<1> DEFINE SendType == [n : 1..sent, by : People, to : People, device : {0} \cup Installs,
                        key : KeyIds \cup {0},
                        stage : {"load", "claim", "bundle", "establish", "encrypt"}]
<1>1. /\ s \in SendType /\ s.stage = "establish" /\ Holding(s)
      /\ p \in People /\ q \in People /\ d \in Installs
      /\ knownDevices[p][q] # 0 /\ knownDevices[p][q] \in Installs
  BY <1>p DEF SessionsTypeOK, ProcessPreKeyBundle, Holding, SendsSound
<1>2. Trusted(p, q, d)
  BY <1>1 DEF IdentitiesSound, Trusted, AddressKey
<1>3. /\ UNCHANGED <<install, enrolled, offered, preKeys, knownDevices, frames, stops, sent>>
      /\ identities' = [identities EXCEPT ![p][<<q, d>>] = d]
      /\ sessions' = [sessions EXCEPT ![p][<<q, d>>] = r]
      /\ sends' = (sends \ {s}) \cup {t}
  BY <1>2, <1>p, <1>x, <1>r, <1>t DEF ProcessPreKeyBundle, Turns, AddressKey, Of
<1>4. t \in SendType /\ t.by = p /\ t.to = q /\ t.stage = "encrypt" /\ t.device # 0
  <2> DEFINE known == knownDevices[p][q]
  <2>1. t = [n |-> s.n, by |-> s.by, to |-> s.to, device |-> known, key |-> s.key, stage |-> "encrypt"]
    <3> DEFINE u == [s EXCEPT !.stage = "encrypt"]
    <3>1. t = [u EXCEPT !.device = known]
      BY <1>1, <1>t
    <3>2. u = [n |-> s.n, by |-> s.by, to |-> s.to, device |-> s.device, key |-> s.key, stage |-> "encrypt"]
      BY <1>1
    <3> HIDE DEF u
    <3> QED
      BY <3>1, <3>2
  <2>2. known \in Installs /\ known # 0
    BY <1>1
  <2> HIDE DEF known
  <2> QED
    BY <1>1, <1>p, <2>1, <2>2
<1>5. x0 \in KeptSessions /\ r \in [open : 0..sent, kept : SUBSET KeptSessions]
  <2>1. x0 \in KeptSessions
    BY <1>1, <1>x DEF KeptSessions
  <2>2. s.n \in 0..sent
    BY <1>1, AddressLemma
  <2>3. Of(p, q, d).kept \subseteq KeptSessions
    BY <1>1, AddressLemma
  <2> QED
    BY <1>r, <2>1, <2>2, <2>3
<1>6. x0.id = s.n /\ x0.with = d /\ x0.key = s.key /\ x0.fresh = TRUE
  BY <1>x
<1>7. r.kept = Of(p, q, d).kept \cup {x0}
  BY <1>r
<1>8. /\ sessions' \in [People -> [Addresses -> [open : 0..sent, kept : SUBSET KeptSessions]]]
      /\ Of(p, q, d)' = r
      /\ \A a, b \in People : \A e \in Installs :
           (a = p /\ b = q /\ e = d) \/ Of(a, b, e)' = Of(a, b, e)
  <2>1. p \in People /\ q \in People /\ d \in Installs
    BY <1>1
  <2>2. r \in [open : 0..sent, kept : SUBSET KeptSessions] /\ sessions' = [sessions EXCEPT ![p][<<q, d>>] = r]
    BY <1>3, <1>5
  <2>3. /\ sessions' \in [People -> [Addresses -> [open : 0..sent, kept : SUBSET KeptSessions]]]
        /\ \A x \in People : \A a \in Addresses :
             sessions'[x][a] = IF x = p /\ a = <<q, d>> THEN r ELSE sessions[x][a]
    BY <2>1, <2>2, SessionsLemma
  <2>4. Of(p, q, d)' = r
    BY <2>1, <2>3, AddressLemma
  <2>5. ASSUME NEW a \in People, NEW b \in People, NEW e \in Installs, ~(a = p /\ b = q /\ e = d)
        PROVE  Of(a, b, e)' = Of(a, b, e)
    <3>1. <<b, e>> \in Addresses /\ (a = p => <<b, e>> # <<q, d>>)
      BY <2>5, AddressLemma
    <3>2. sessions'[a][<<b, e>>] = sessions[a][<<b, e>>]
      BY <2>3, <3>1
    <3> QED
      BY <3>2, AddressLemma
  <2> QED
    BY <2>3, <2>4, <2>5
<1>9. SessionsTypeOK' /\ IdentitiesSound' /\ InstallsSound'
  <2>1. identities' \in [People -> [Addresses -> {0} \cup Installs]] /\ IdentitiesSound'
    BY <1>1, <1>3, IdentityLemma
  <2> QED
    BY <1>1, <1>3, <1>4, <1>8, <2>1 DEF SessionsTypeOK, InstallsSound, KeptSessions
<1>10. \A a, b \in People : \A e \in Installs :
         /\ \A x \in Of(a, b, e).kept : x \in Of(a, b, e)'.kept
         /\ \A x \in Of(a, b, e)'.kept : x \in Of(a, b, e).kept \/ (x = x0 /\ a = p /\ b = q /\ e = d)
  BY <1>7, <1>8
<1>11. \A a, b \in People : \A e \in Installs :
         /\ \A id : Holds(a, b, e, id) => Holds(a, b, e, id)'
         /\ \A x : Startable(a, b, e, x) => Startable(a, b, e, x)'
  BY <1>3, <1>10 DEF Holds, Startable
<1>12. \A a, e, k : Claimed(a, e, k)' = Claimed(a, e, k)
  BY <1>3 DEF Claimed
<1>13. \A u : Holding(u)' = Holding(u)
  BY DEF Holding
<1>14. SendsSound'
  BY <1>1, <1>p, <1>3, <1>4, <1>12, <1>13 DEF SendsSound, Holding
<1>15. KeptSound'
  <2> SUFFICES ASSUME NEW a \in People, NEW b \in People, NEW e \in Installs, NEW x \in Of(a, b, e)'.kept
               PROVE  /\ x.with = e /\ Claimed(b, e, x.key)
                      /\ e = install[b] => Startable(b, a, install[a], x)'
    BY <1>3, <1>12 DEF KeptSound
  <2>1. CASE x \in Of(a, b, e).kept
    <3>1. install[a] \in Installs
      BY DEF SessionsTypeOK
    <3>2. x.with = e /\ Claimed(b, e, x.key) /\ (e = install[b] => Startable(b, a, install[a], x))
      BY <2>1 DEF KeptSound
    <3> QED
      BY <3>1, <3>2, <1>3, <1>11
  <2>2. CASE x = x0 /\ a = p /\ b = q /\ e = d
    <3>1. Claimed(q, d, s.key) /\ (d = install[q] => s.key \in preKeys[q] \cup {0})
      BY <1>1, <1>p DEF SendsSound
    <3> QED
      BY <2>2, <3>1, <1>3, <1>6 DEF Startable
  <2> QED
    BY <2>1, <2>2, <1>10
<1>16. FramesSound'
  <2> SUFFICES ASSUME NEW f \in frames
               PROVE  /\ f.device <= install[f.from] /\ Claimed(f.to, f.with, f.key)
                      /\ f.with = install[f.to] => Startable(f.to, f.from, f.device, f)'
                      /\ f.device = install[f.from] => Holds(f.from, f.to, f.with, f.id)'
    BY <1>3, <1>12 DEF FramesSound
  <2>1. f.to \in People /\ f.from \in People /\ f.device \in Installs /\ f.with \in Installs
    BY DEF SessionsTypeOK
  <2> QED
    BY <2>1, <1>11 DEF FramesSound
<1>17. ASSUME s.key # 0
       PROVE  /\ \A a \in People : \A x \in Of(a, q, d).kept : x.key # s.key
              /\ \A f \in frames : f.to = q /\ f.with = d => f.key # s.key
              /\ \A u \in sends : Holding(u) /\ u.to = q /\ u.device = d /\ u.key = s.key => u = s
  BY <1>1, <1>p, <1>17 DEF HeldIsUnused, OneHolder
<1>18. OneHolder'
  BY <1>3, <1>4, <1>13 DEF OneHolder, Holding
<1>19. HeldIsUnused'
  <2> SUFFICES ASSUME NEW u \in sends, u # s, Holding(u), u.key # 0
               PROVE  /\ \A a \in People : \A x \in Of(a, u.to, u.device)'.kept : x.key # u.key
                      /\ \A f \in frames : f.to = u.to /\ f.with = u.device => f.key # u.key
    BY <1>3, <1>4, <1>13 DEF HeldIsUnused, Holding
  <2>1. u.to \in People /\ u.device \in Installs
    BY DEF SessionsTypeOK, SendsSound, Holding
  <2>2. \A a \in People : \A x \in Of(a, u.to, u.device).kept : x.key # u.key
    BY DEF HeldIsUnused
  <2>3. ~(u.to = q /\ u.device = d /\ u.key = s.key)
    BY <1>17
  <2> QED
    BY <2>1, <2>2, <2>3, <1>6, <1>10 DEF HeldIsUnused
<1>20. OneSession'
  <2> SUFFICES ASSUME NEW a \in People, NEW b \in People, NEW c \in People, NEW e \in Installs,
                      NEW x \in Of(a, c, e)'.kept, NEW y \in Of(b, c, e)'.kept,
                      x.key = y.key, x.key # 0
               PROVE  a = b /\ x.id = y.id
    BY DEF OneSession
  <2>1. /\ x \in Of(a, c, e).kept \/ (x = x0 /\ a = p /\ c = q /\ e = d)
        /\ y \in Of(b, c, e).kept \/ (y = x0 /\ b = p /\ c = q /\ e = d)
    BY <1>10
  <2> QED
    BY <2>1, <1>6, <1>17 DEF OneSession
<1>21. FrameOfSession'
  <2> SUFFICES ASSUME NEW a \in People, NEW f \in frames, NEW x \in Of(a, f.to, f.with)'.kept,
                      x.key = f.key, f.key # 0
               PROVE  a = f.from /\ install[a] = f.device /\ x.id = f.id
    BY <1>3 DEF FrameOfSession
  <2>1. f.to \in People /\ f.with \in Installs
    BY DEF SessionsTypeOK
  <2>2. x \in Of(a, f.to, f.with).kept
    BY <2>1, <1>6, <1>10, <1>17
  <2> QED
    BY <2>2 DEF FrameOfSession
<1>22. FramesOfOne'
  BY <1>3 DEF FramesOfOne
<1> QED
  BY <1>9, <1>14, <1>15, <1>16, <1>18, <1>19, <1>20, <1>21, <1>22

LEMMA EncryptStep ==
  ASSUME SessionsInv, NEW s \in sends, Encrypt(s)
  PROVE  SessionsInv'
<1> USE DEF SessionsInv
<1>p. PICK p, q, d : p = s.by /\ q = s.to /\ d = s.device
  OBVIOUS
<1>1. p \in People /\ q \in People /\ d \in Installs /\ s.n \in 1..sent
  BY <1>p DEF Encrypt, SessionsTypeOK, SendsSound
<1>2. /\ UNCHANGED <<install, enrolled, offered, preKeys, sessions, identities, knownDevices, stops, sent>>
      /\ sends' = sends \ {s}
  BY DEF Encrypt, Fails, vault
<1>3. \A g \in frames' :
        \/ g \in frames
        \/ \E x \in Of(p, q, d).kept :
             g = [n |-> s.n, from |-> p, device |-> install[p], to |-> q, with |-> x.with,
                  id |-> x.id, key |-> x.key, fresh |-> x.fresh, read |-> FALSE]
  BY <1>p DEF Encrypt
<1>4. ASSUME NEW g \in frames'
      PROVE  \/ g \in frames
             \/ /\ g \in [n : 1..sent, from : People, device : Installs, to : People,
                          with : Installs, id : 1..sent, key : KeyIds \cup {0},
                          fresh : BOOLEAN, read : BOOLEAN]
                /\ g.from = p /\ g.device = install[p] /\ g.to = q /\ g.with = d
                /\ \E x \in Of(p, q, d).kept : g.id = x.id /\ g.key = x.key /\ g.fresh = x.fresh
  <2> SUFFICES ASSUME g \notin frames
               PROVE  /\ g \in [n : 1..sent, from : People, device : Installs, to : People,
                                with : Installs, id : 1..sent, key : KeyIds \cup {0},
                                fresh : BOOLEAN, read : BOOLEAN]
                      /\ g.from = p /\ g.device = install[p] /\ g.to = q /\ g.with = d
                      /\ \E x \in Of(p, q, d).kept : g.id = x.id /\ g.key = x.key /\ g.fresh = x.fresh
    OBVIOUS
  <2>1. PICK x \in Of(p, q, d).kept :
          g = [n |-> s.n, from |-> p, device |-> install[p], to |-> q, with |-> x.with,
               id |-> x.id, key |-> x.key, fresh |-> x.fresh, read |-> FALSE]
    BY <1>3
  <2>2. x \in KeptSessions /\ x.with = d
    <3>1. x \in KeptSessions
      BY <1>1, AddressLemma
    <3>2. x.with = d
      BY <1>1 DEF KeptSound
    <3> QED
      BY <3>1, <3>2
  <2>3. install[p] \in Installs
    BY <1>1 DEF SessionsTypeOK
  <2> QED
    BY <1>1, <2>1, <2>2, <2>3 DEF KeptSessions
<1>5. SessionsTypeOK' /\ IdentitiesSound' /\ InstallsSound'
  BY <1>2, <1>4 DEF SessionsTypeOK, IdentitiesSound, InstallsSound
<1>6. SendsSound'
  BY <1>2 DEF SendsSound, Holding, Claimed
<1>7. /\ \A a, b, e : Of(a, b, e)' = Of(a, b, e)
      /\ \A a, e, k : Claimed(a, e, k)' = Claimed(a, e, k)
      /\ \A a, b, e, x : Startable(a, b, e, x)' = Startable(a, b, e, x)
      /\ \A a, b, e, id : Holds(a, b, e, id)' = Holds(a, b, e, id)
      /\ \A u : Holding(u)' = Holding(u)
  BY <1>2 DEF Of, Claimed, Startable, Holds, Holding
<1>8. KeptSound' /\ OneSession' /\ OneHolder'
  BY <1>2, <1>7 DEF KeptSound, OneSession, OneHolder
<1>9. FramesSound'
  <2> SUFFICES ASSUME NEW g \in frames', g \notin frames
               PROVE  /\ g.device <= install[g.from] /\ Claimed(g.to, g.with, g.key)
                      /\ g.with = install[g.to] => Startable(g.to, g.from, g.device, g)
                      /\ g.device = install[g.from] => Holds(g.from, g.to, g.with, g.id)
    BY <1>2, <1>7 DEF FramesSound
  <2>1. PICK x \in Of(p, q, d).kept : g.id = x.id /\ g.key = x.key /\ g.fresh = x.fresh
    BY <1>4
  <2>2. g.from = p /\ g.device = install[p] /\ g.to = q /\ g.with = d
    BY <1>4
  <2>3. Claimed(q, d, x.key) /\ (d = install[q] => Startable(q, p, install[p], x))
    BY <1>1 DEF KeptSound
  <2>4. d = install[q] => Startable(q, p, install[p], g)
    BY <2>1, <2>3 DEF Startable
  <2>5. install[p] <= install[p]
    BY <1>1, AddressLemma DEF SessionsTypeOK
  <2> QED
    BY <2>1, <2>2, <2>3, <2>4, <2>5 DEF Holds
<1>10. HeldIsUnused'
  <2> SUFFICES ASSUME NEW u \in sends, Holding(u), u.key # 0
               PROVE  /\ \A a \in People : \A x \in Of(a, u.to, u.device).kept : x.key # u.key
                      /\ \A g \in frames' : g.to = u.to /\ g.with = u.device => g.key # u.key
    BY <1>2, <1>7 DEF HeldIsUnused
  <2> QED
    BY <1>1, <1>4 DEF HeldIsUnused
<1>11. FrameOfSession'
  <2> SUFFICES ASSUME NEW a \in People, NEW g \in frames', NEW x \in Of(a, g.to, g.with).kept,
                      x.key = g.key, g.key # 0
               PROVE  a = g.from /\ install[a] = g.device /\ x.id = g.id
    BY <1>2, <1>7 DEF FrameOfSession
  <2> QED
    BY <1>1, <1>4 DEF FrameOfSession, OneSession
<1>12. FramesOfOne'
  <2> SUFFICES ASSUME NEW f \in frames', NEW g \in frames',
                      f.to = g.to, f.with = g.with, f.key = g.key, f.key # 0
               PROVE  f.from = g.from /\ f.device = g.device /\ f.id = g.id
    BY DEF FramesOfOne
  <2>1. CASE f \in frames /\ g \in frames
    BY <2>1 DEF FramesOfOne
  <2>2. CASE f \in frames /\ g \notin frames
    BY <1>1, <1>4, <2>2 DEF FrameOfSession
  <2>3. CASE f \notin frames /\ g \in frames
    BY <1>1, <1>4, <2>3 DEF FrameOfSession
  <2>4. CASE f \notin frames /\ g \notin frames
    BY <1>1, <1>4, <2>4 DEF OneSession
  <2> QED
    BY <2>1, <2>2, <2>3, <2>4
<1> QED
  BY <1>5, <1>6, <1>8, <1>9, <1>10, <1>11, <1>12

LEMMA EnrolStep ==
  ASSUME SessionsInv, NEW p \in People, Enrol(p)
  PROVE  SessionsInv'
<1> USE DEF SessionsInv
<1>1. /\ UNCHANGED <<install, preKeys, sessions, identities, knownDevices, sends, frames, stops, sent>>
      /\ enrolled' = [enrolled EXCEPT ![p] = install[p]] /\ enrolled[p] # install[p]
      /\ offered' = [offered EXCEPT ![p] = KeyIds]
  BY DEF Enrol, vault
<1>2. \A q \in People : install[q] \in Nat /\ enrolled[q] \in Nat /\ install[q] \in Installs
  BY AddressLemma DEF SessionsTypeOK
<1>3. \A q \in People : /\ enrolled'[q] = IF q = p THEN install[q] ELSE enrolled[q]
                        /\ offered'[q] = IF q = p THEN KeyIds ELSE offered[q]
  BY <1>1 DEF SessionsTypeOK
<1>4. SessionsTypeOK' /\ IdentitiesSound'
  <2>1. enrolled' \in [People -> Installs] /\ offered' \in [People -> SUBSET KeyIds]
    BY <1>1, <1>2 DEF SessionsTypeOK
  <2> QED
    BY <1>1, <2>1 DEF SessionsTypeOK, IdentitiesSound
<1>5. InstallsSound'
  BY <1>1, <1>2, <1>3 DEF InstallsSound
<1>6. \A q \in People : \A d \in Nat : \A k : Claimed(q, d, k) => Claimed(q, d, k)'
  BY <1>1, <1>2, <1>3 DEF Claimed, InstallsSound
<1>7. /\ \A a, b, e : Of(a, b, e)' = Of(a, b, e)
      /\ \A a, b, e, x : Startable(a, b, e, x)' = Startable(a, b, e, x)
      /\ \A a, b, e, id : Holds(a, b, e, id)' = Holds(a, b, e, id)
      /\ \A u : Holding(u)' = Holding(u)
  BY <1>1 DEF Of, Startable, Holds, Holding
<1>8. SendsSound'
  <2> SUFFICES ASSUME NEW u \in sends, Holding(u) PROVE Claimed(u.to, u.device, u.key)'
    BY <1>1, <1>7 DEF SendsSound
  <2>1. u.to \in People /\ u.device \in Nat
    BY AddressLemma DEF SessionsTypeOK
  <2> QED
    BY <1>6, <2>1 DEF SendsSound
<1>9. KeptSound'
  <2> SUFFICES ASSUME NEW a \in People, NEW b \in People, NEW e \in Installs, NEW x \in Of(a, b, e).kept
               PROVE  Claimed(b, e, x.key)'
    BY <1>1, <1>7 DEF KeptSound
  <2> QED
    BY <1>6, AddressLemma DEF KeptSound
<1>10. FramesSound'
  <2> SUFFICES ASSUME NEW f \in frames PROVE Claimed(f.to, f.with, f.key)'
    BY <1>1, <1>7 DEF FramesSound
  <2>1. f.to \in People /\ f.with \in Nat
    BY AddressLemma DEF SessionsTypeOK
  <2> QED
    BY <1>6, <2>1 DEF FramesSound
<1>11. OneHolder' /\ HeldIsUnused' /\ OneSession' /\ FrameOfSession' /\ FramesOfOne'
  BY <1>1, <1>7 DEF OneHolder, HeldIsUnused, OneSession, FrameOfSession, FramesOfOne
<1> QED
  BY <1>4, <1>5, <1>8, <1>9, <1>10, <1>11

LEMMA DecryptKnownStep ==
  ASSUME SessionsInv, NEW f \in frames, DecryptKnown(f)
  PROVE  SessionsInv'
<1> USE DEF SessionsInv
<1>p. PICK p, q, d : p = f.to /\ q = f.from /\ d = f.device
  OBVIOUS
<1>k. PICK k : k = {IF x.id = f.id THEN [x EXCEPT !.fresh = FALSE] ELSE x : x \in Of(p, q, d).kept}
  OBVIOUS
<1>r. PICK r : r = [open |-> IF f.fresh THEN Of(p, q, d).open ELSE f.id, kept |-> k]
  OBVIOUS
<1>1. /\ p \in People /\ q \in People /\ d \in Installs /\ f.id \in 1..sent /\ f.with \in Installs
      /\ f.with = install[p]
  BY <1>p DEF SessionsTypeOK, DecryptKnown, CanDecrypt
<1>2. /\ UNCHANGED <<install, enrolled, offered, preKeys, identities, knownDevices, sends, stops, sent>>
      /\ frames' = frames \ {f}
      /\ sessions' = [sessions EXCEPT ![p][<<q, d>>] = r]
  BY <1>p, <1>k, <1>r DEF DecryptKnown, AddressKey, Of
<1>3. /\ \A y \in k : /\ y \in KeptSessions
                      /\ \E x \in Of(p, q, d).kept :
                           /\ y.id = x.id /\ y.with = x.with /\ y.key = x.key
                           /\ y.fresh = x.fresh \/ x.id = f.id
      /\ \A x \in Of(p, q, d).kept : \E y \in k : y.id = x.id
  <2>1. ASSUME NEW x \in KeptSessions
        PROVE  LET y == [x EXCEPT !.fresh = FALSE]
               IN  y \in KeptSessions /\ y.id = x.id /\ y.with = x.with /\ y.key = x.key
    BY DEF KeptSessions
  <2>2. Of(p, q, d).kept \subseteq KeptSessions
    BY <1>1, AddressLemma
  <2>3. ASSUME NEW y \in k
        PROVE  /\ y \in KeptSessions
               /\ \E x \in Of(p, q, d).kept :
                    /\ y.id = x.id /\ y.with = x.with /\ y.key = x.key
                    /\ y.fresh = x.fresh \/ x.id = f.id
    <3>1. PICK x \in Of(p, q, d).kept : y = IF x.id = f.id THEN [x EXCEPT !.fresh = FALSE] ELSE x
      BY <1>k
    <3> QED
      BY <2>1, <2>2, <3>1
  <2>4. ASSUME NEW x \in Of(p, q, d).kept PROVE \E y \in k : y.id = x.id
    <3>1. (IF x.id = f.id THEN [x EXCEPT !.fresh = FALSE] ELSE x) \in k
      BY <1>k
    <3> QED
      BY <2>1, <2>2, <3>1
  <2> QED
    BY <2>3, <2>4
<1>4. r \in [open : 0..sent, kept : SUBSET KeptSessions] /\ r.kept = k
  <2>1. Of(p, q, d).open \in 0..sent
    <3>1. sessions[p] \in [Addresses -> [open : 0..sent, kept : SUBSET KeptSessions]]
      BY <1>1 DEF SessionsTypeOK, KeptSessions
    <3>2. sessions[p][<<q, d>>] \in [open : 0..sent, kept : SUBSET KeptSessions]
      BY <1>1, <3>1, AddressLemma
    <3> QED
      BY <1>1, <3>2, AddressLemma
  <2>2. f.id \in 0..sent
    BY <1>1, AddressLemma
  <2>3. k \subseteq KeptSessions
    BY <1>3
  <2> QED
    BY <1>r, <2>1, <2>2, <2>3
<1>5. /\ sessions' \in [People -> [Addresses -> [open : 0..sent, kept : SUBSET KeptSessions]]]
      /\ \A x \in People : \A a \in Addresses :
           sessions'[x][a] = IF x = p /\ a = <<q, d>> THEN r ELSE sessions[x][a]
  BY <1>1, <1>2, <1>4, SessionsLemma
<1>6. Of(p, q, d)' = r
  BY <1>1, <1>5, AddressLemma
<1>7. ASSUME NEW a \in People, NEW b \in People, NEW e \in Installs, ~(a = p /\ b = q /\ e = d)
      PROVE  Of(a, b, e)' = Of(a, b, e)
  <2>1. <<b, e>> \in Addresses /\ (a = p => <<b, e>> # <<q, d>>)
    BY <1>7, AddressLemma
  <2>2. sessions'[a][<<b, e>>] = sessions[a][<<b, e>>]
    BY <1>5, <2>1
  <2> QED
    BY <2>2, AddressLemma
<1>8. ASSUME NEW a \in People, NEW b \in People, NEW e \in Installs
      PROVE  /\ \A y \in Of(a, b, e)'.kept : \E x \in Of(a, b, e).kept :
                  /\ y.id = x.id /\ y.with = x.with /\ y.key = x.key
                  /\ y.fresh = x.fresh \/ (a = p /\ b = q /\ e = d /\ x.id = f.id)
             /\ \A x \in Of(a, b, e).kept : \E y \in Of(a, b, e)'.kept : y.id = x.id
  <2>1. CASE a = p /\ b = q /\ e = d
    BY <1>3, <1>4, <1>6, <2>1
  <2>2. CASE ~(a = p /\ b = q /\ e = d)
    BY <1>7, <2>2
  <2> QED
    BY <2>1, <2>2
<1>9. \A a, b \in People : \A e \in Installs :
        /\ \A id : Holds(a, b, e, id) => Holds(a, b, e, id)'
        /\ \A x : Startable(a, b, e, x) => Startable(a, b, e, x)'
  BY <1>2, <1>8 DEF Holds, Startable
<1>10. /\ \A a, e, c : Claimed(a, e, c)' = Claimed(a, e, c)
       /\ \A u : Holding(u)' = Holding(u)
  BY <1>2 DEF Claimed, Holding
<1>11. SessionsTypeOK' /\ IdentitiesSound' /\ InstallsSound' /\ SendsSound'
  BY <1>2, <1>5, <1>10 DEF SessionsTypeOK, IdentitiesSound, InstallsSound, SendsSound, KeptSessions
<1>12. KeptSound'
  <2> SUFFICES ASSUME NEW a \in People, NEW b \in People, NEW e \in Installs, NEW y \in Of(a, b, e)'.kept
               PROVE  /\ y.with = e /\ Claimed(b, e, y.key)
                      /\ e = install[b] => Startable(b, a, install[a], y)'
    BY <1>2, <1>10 DEF KeptSound
  <2>1. PICK x \in Of(a, b, e).kept :
          /\ y.id = x.id /\ y.with = x.with /\ y.key = x.key
          /\ y.fresh = x.fresh \/ (a = p /\ b = q /\ e = d /\ x.id = f.id)
    BY <1>8
  <2>2. /\ x.with = e /\ Claimed(b, e, x.key)
        /\ e = install[b] => Startable(b, a, install[a], x)
    BY DEF KeptSound
  <2>3. install[a] \in Installs
    BY DEF SessionsTypeOK
  <2>4. CASE y.fresh = x.fresh
    <3>1. e = install[b] => Startable(b, a, install[a], x)'
      BY <1>2, <1>9, <2>2, <2>3
    <3>2. e = install[b] => Startable(b, a, install[a], y)'
      BY <2>1, <2>4, <3>1 DEF Startable
    <3> QED
      BY <2>1, <2>2, <3>2
  <2>5. CASE a = p /\ b = q /\ e = d /\ x.id = f.id
    <3>1. d = install[q] => Holds(q, p, install[p], f.id)
      BY <1>1, <1>p DEF FramesSound
    <3>2. d = install[q] => Holds(q, p, install[p], f.id)'
      BY <1>1, <1>2, <1>9, <2>3, <2>5, <3>1
    <3>3. e = install[b] => Startable(b, a, install[a], y)'
      BY <2>1, <2>5, <3>2 DEF Startable
    <3> QED
      BY <2>1, <2>2, <3>3
  <2> QED
    BY <2>1, <2>4, <2>5
<1>13. FramesSound'
  <2> SUFFICES ASSUME NEW g \in frames
               PROVE  /\ g.device <= install[g.from] /\ Claimed(g.to, g.with, g.key)
                      /\ g.with = install[g.to] => Startable(g.to, g.from, g.device, g)'
                      /\ g.device = install[g.from] => Holds(g.from, g.to, g.with, g.id)'
    BY <1>2, <1>10 DEF FramesSound
  <2>1. g.to \in People /\ g.from \in People /\ g.device \in Installs /\ g.with \in Installs
    BY DEF SessionsTypeOK
  <2> QED
    BY <2>1, <1>9 DEF FramesSound
<1>14. HeldIsUnused'
  <2> SUFFICES ASSUME NEW u \in sends, Holding(u), u.key # 0
               PROVE  /\ \A a \in People : \A x \in Of(a, u.to, u.device)'.kept : x.key # u.key
                      /\ \A g \in frames : g.to = u.to /\ g.with = u.device => g.key # u.key
    BY <1>2, <1>10 DEF HeldIsUnused
  <2>1. u.to \in People /\ u.device \in Installs
    BY DEF SessionsTypeOK, SendsSound, Holding
  <2> QED
    BY <2>1, <1>8 DEF HeldIsUnused
<1>15. OneSession'
  <2> SUFFICES ASSUME NEW a \in People, NEW b \in People, NEW c \in People, NEW e \in Installs,
                      NEW x \in Of(a, c, e)'.kept, NEW y \in Of(b, c, e)'.kept,
                      x.key = y.key, x.key # 0
               PROVE  a = b /\ x.id = y.id
    BY DEF OneSession
  <2>1. PICK v \in Of(a, c, e).kept : x.id = v.id /\ x.key = v.key
    BY <1>8
  <2>2. PICK w \in Of(b, c, e).kept : y.id = w.id /\ y.key = w.key
    BY <1>8
  <2>3. v.key = w.key /\ v.key # 0
    BY <2>1, <2>2
  <2>4. a = b /\ v.id = w.id
    BY <2>3 DEF OneSession
  <2> QED
    BY <2>1, <2>2, <2>4
<1>16. FrameOfSession'
  <2> SUFFICES ASSUME NEW a \in People, NEW g \in frames, NEW x \in Of(a, g.to, g.with)'.kept,
                      x.key = g.key, g.key # 0
               PROVE  a = g.from /\ install[a] = g.device /\ x.id = g.id
    BY <1>2 DEF FrameOfSession
  <2>1. g.to \in People /\ g.with \in Installs
    BY DEF SessionsTypeOK
  <2>2. PICK v \in Of(a, g.to, g.with).kept : x.id = v.id /\ x.key = v.key
    BY <2>1, <1>8
  <2> QED
    BY <2>2 DEF FrameOfSession
<1>17. OneHolder' /\ FramesOfOne'
  BY <1>2, <1>10 DEF OneHolder, FramesOfOne
<1> QED
  BY <1>11, <1>12, <1>13, <1>14, <1>15, <1>16, <1>17

LEMMA DecryptPreKeyStep ==
  ASSUME SessionsInv, NEW f \in frames, DecryptPreKey(f)
  PROVE  SessionsInv'
<1> USE DEF SessionsInv
<1>p. PICK p, q, d : p = f.to /\ q = f.from /\ d = f.device
  OBVIOUS
<1>x. PICK x0 : x0 = [id |-> f.id, with |-> d, key |-> 0, fresh |-> FALSE]
  OBVIOUS
<1>r. PICK r : r = [open |-> f.id, kept |-> Of(p, q, d).kept \cup {x0}]
  OBVIOUS
<1>1. /\ p \in People /\ q \in People /\ d \in Installs /\ f.id \in 1..sent /\ f.with \in Installs
      /\ f.key \in KeyIds \cup {0} /\ f.with = install[p] /\ f.key \in preKeys[p] \cup {0}
  BY <1>p DEF SessionsTypeOK, DecryptPreKey, CanDecrypt
<1>2. /\ UNCHANGED <<install, enrolled, offered, knownDevices, sends, stops, sent>>
      /\ frames' = frames \ {f}
      /\ identities' = [identities EXCEPT ![p][<<q, d>>] = d]
      /\ sessions' = [sessions EXCEPT ![p][<<q, d>>] = r]
      /\ preKeys' = [preKeys EXCEPT ![p] = preKeys[p] \ {f.key}]
  BY <1>p, <1>x, <1>r DEF DecryptPreKey, AddressKey, Of
<1>3. x0 \in KeptSessions /\ x0.id = f.id /\ x0.with = d /\ x0.key = 0
  BY <1>1, <1>x DEF KeptSessions
<1>4. r \in [open : 0..sent, kept : SUBSET KeptSessions] /\ r.kept = Of(p, q, d).kept \cup {x0}
  <2>1. f.id \in 0..sent
    BY <1>1, AddressLemma
  <2>2. Of(p, q, d).kept \subseteq KeptSessions
    BY <1>1, AddressLemma
  <2> QED
    BY <1>3, <1>r, <2>1, <2>2
<1>5. /\ sessions' \in [People -> [Addresses -> [open : 0..sent, kept : SUBSET KeptSessions]]]
      /\ \A x \in People : \A a \in Addresses :
           sessions'[x][a] = IF x = p /\ a = <<q, d>> THEN r ELSE sessions[x][a]
  BY <1>1, <1>2, <1>4, SessionsLemma
<1>6. Of(p, q, d)' = r
  BY <1>1, <1>5, AddressLemma
<1>7. ASSUME NEW a \in People, NEW b \in People, NEW e \in Installs, ~(a = p /\ b = q /\ e = d)
      PROVE  Of(a, b, e)' = Of(a, b, e)
  <2>1. <<b, e>> \in Addresses /\ (a = p => <<b, e>> # <<q, d>>)
    BY <1>7, AddressLemma
  <2>2. sessions'[a][<<b, e>>] = sessions[a][<<b, e>>]
    BY <1>5, <2>1
  <2> QED
    BY <2>2, AddressLemma
<1>8. \A a, b \in People : \A e \in Installs :
        /\ \A x \in Of(a, b, e).kept : x \in Of(a, b, e)'.kept
        /\ \A x \in Of(a, b, e)'.kept : x \in Of(a, b, e).kept \/ (x = x0 /\ a = p /\ b = q /\ e = d)
  BY <1>4, <1>6, <1>7
<1>9. \A a, b \in People : \A e \in Installs : \A id : Holds(a, b, e, id) => Holds(a, b, e, id)'
  BY <1>8 DEF Holds
<1>10. Holds(p, q, d, f.id)'
  BY <1>3, <1>4, <1>6 DEF Holds
<1>11. /\ \A a, e, c : Claimed(a, e, c)' = Claimed(a, e, c)
       /\ \A u : Holding(u)' = Holding(u)
  BY <1>2 DEF Claimed, Holding
<1>12. \A a \in People : preKeys'[a] = IF a = p THEN preKeys[a] \ {f.key} ELSE preKeys[a]
  BY <1>2 DEF SessionsTypeOK
<1>13. /\ f.key # 0 => install[p] <= enrolled[p] /\ (install[p] = enrolled[p] => f.key \notin offered[p])
       /\ d <= install[q]
       /\ d = install[q] => Holds(q, p, install[p], f.id)
  BY <1>1, <1>p DEF FramesSound, Claimed
<1>14. SessionsTypeOK' /\ IdentitiesSound'
  <2>1. identities' \in [People -> [Addresses -> {0} \cup Installs]] /\ IdentitiesSound'
    BY <1>1, <1>2, IdentityLemma
  <2>2. preKeys' \in [People -> SUBSET KeyIds]
    BY <1>2 DEF SessionsTypeOK
  <2> QED
    BY <1>2, <1>5, <2>1, <2>2 DEF SessionsTypeOK, KeptSessions
<1>15. InstallsSound'
  <2>1. 0 \notin KeyIds /\ \A a \in People : install[a] \in Nat /\ enrolled[a] \in Nat /\ preKeys[a] \subseteq KeyIds
    BY AddressLemma DEF SessionsTypeOK
  <2> QED
    BY <1>1, <1>2, <1>12, <1>13, <2>1 DEF InstallsSound
<1>16. SendsSound'
  <2> SUFFICES ASSUME NEW u \in sends, Holding(u), u.device = install[u.to]
               PROVE  u.key \in preKeys'[u.to] \cup {0}
    BY <1>2, <1>11 DEF SendsSound
  <2>1. u.to \in People /\ u.key \in preKeys[u.to] \cup {0}
    BY DEF SessionsTypeOK, SendsSound
  <2>2. u.to = p /\ u.key # 0 => u.key # f.key
    BY <1>1, <1>p DEF HeldIsUnused
  <2> QED
    BY <1>12, <2>1, <2>2
<1>17. ASSUME NEW a \in People, NEW b \in People, NEW e \in Installs, NEW x, Startable(a, b, e, x),
              a = p /\ x.key = f.key /\ f.key # 0 => b = q /\ e = d /\ x.id = f.id
       PROVE  Startable(a, b, e, x)'
  BY <1>9, <1>10, <1>12, <1>17 DEF Startable
<1>18. KeptSound'
  <2> SUFFICES ASSUME NEW a \in People, NEW b \in People, NEW e \in Installs, NEW x \in Of(a, b, e)'.kept
               PROVE  /\ x.with = e /\ Claimed(b, e, x.key)
                      /\ e = install[b] => Startable(b, a, install[a], x)'
    BY <1>2, <1>11 DEF KeptSound
  <2>1. install[a] \in Installs
    BY DEF SessionsTypeOK
  <2>2. CASE x \in Of(a, b, e).kept
    <3>1. /\ x.with = e /\ Claimed(b, e, x.key)
          /\ e = install[b] => Startable(b, a, install[a], x)
      BY <2>2 DEF KeptSound
    <3>2. b = p /\ e = install[b] /\ x.key = f.key /\ f.key # 0 => a = q /\ install[a] = d /\ x.id = f.id
      BY <1>1, <1>p, <2>2 DEF FrameOfSession
    <3>3. e = install[b] => Startable(b, a, install[a], x)'
      BY <1>2, <1>17, <2>1, <3>1, <3>2
    <3> QED
      BY <3>1, <3>3
  <2>3. CASE x = x0 /\ a = p /\ b = q /\ e = d
    <3>1. Claimed(q, d, 0)
      BY <1>13 DEF Claimed
    <3>2. d = install[q] => Holds(q, p, install[p], f.id)'
      BY <1>1, <1>2, <1>9, <1>13
    <3>3. e = install[b] => Startable(b, a, install[a], x)'
      BY <1>3, <2>3, <3>2 DEF Startable
    <3> QED
      BY <1>3, <2>3, <3>1, <3>3
  <2> QED
    BY <1>8, <2>2, <2>3
<1>19. FramesSound'
  <2> SUFFICES ASSUME NEW g \in frames
               PROVE  /\ g.device <= install[g.from] /\ Claimed(g.to, g.with, g.key)
                      /\ g.with = install[g.to] => Startable(g.to, g.from, g.device, g)'
                      /\ g.device = install[g.from] => Holds(g.from, g.to, g.with, g.id)'
    BY <1>2, <1>11 DEF FramesSound
  <2>1. g.to \in People /\ g.from \in People /\ g.device \in Installs /\ g.with \in Installs
    BY DEF SessionsTypeOK
  <2>2. g.to = p /\ g.with = install[p] /\ g.key = f.key /\ f.key # 0 => g.from = q /\ g.device = d /\ g.id = f.id
    BY <1>1, <1>p DEF FramesOfOne
  <2>3. g.with = install[g.to] => Startable(g.to, g.from, g.device, g)'
    BY <1>17, <2>1, <2>2 DEF FramesSound
  <2> QED
    BY <1>9, <2>1, <2>3 DEF FramesSound
<1>20. HeldIsUnused'
  <2> SUFFICES ASSUME NEW u \in sends, Holding(u), u.key # 0
               PROVE  /\ \A a \in People : \A x \in Of(a, u.to, u.device)'.kept : x.key # u.key
                      /\ \A g \in frames : g.to = u.to /\ g.with = u.device => g.key # u.key
    BY <1>2, <1>11 DEF HeldIsUnused
  <2>1. u.to \in People /\ u.device \in Installs
    BY DEF SessionsTypeOK, SendsSound, Holding
  <2> QED
    BY <2>1, <1>3, <1>8 DEF HeldIsUnused
<1>21. OneSession'
  <2> SUFFICES ASSUME NEW a \in People, NEW b \in People, NEW c \in People, NEW e \in Installs,
                      NEW x \in Of(a, c, e)'.kept, NEW y \in Of(b, c, e)'.kept,
                      x.key = y.key, x.key # 0
               PROVE  a = b /\ x.id = y.id
    BY DEF OneSession
  <2>1. x \in Of(a, c, e).kept /\ y \in Of(b, c, e).kept
    BY <1>3, <1>8
  <2> QED
    BY <2>1 DEF OneSession
<1>22. FrameOfSession'
  <2> SUFFICES ASSUME NEW a \in People, NEW g \in frames, NEW x \in Of(a, g.to, g.with)'.kept,
                      x.key = g.key, g.key # 0
               PROVE  a = g.from /\ install[a] = g.device /\ x.id = g.id
    BY <1>2 DEF FrameOfSession
  <2>1. g.to \in People /\ g.with \in Installs
    BY DEF SessionsTypeOK
  <2>2. x \in Of(a, g.to, g.with).kept
    BY <1>3, <1>8, <2>1
  <2> QED
    BY <2>2 DEF FrameOfSession
<1>23. OneHolder' /\ FramesOfOne'
  BY <1>2, <1>11 DEF OneHolder, FramesOfOne
<1> QED
  BY <1>14, <1>15, <1>16, <1>18, <1>19, <1>20, <1>21, <1>22, <1>23

LEMMA ReinstallStep ==
  ASSUME SessionsInv, NEW p \in People, Reinstall(p)
  PROVE  SessionsInv'
<1> USE DEF SessionsInv
<1>1. /\ UNCHANGED <<enrolled, offered, sent>>
      /\ enrolled[p] = install[p] /\ install' = [install EXCEPT ![p] = install[p] + 1]
      /\ stops < MaxStops /\ stops' = stops + 1
      /\ preKeys' = [preKeys EXCEPT ![p] = KeyIds]
      /\ sessions' = [sessions EXCEPT ![p] = [a \in Addresses |-> NoSessions]]
      /\ identities' = [identities EXCEPT ![p] = [a \in Addresses |-> 0]]
      /\ knownDevices' = [knownDevices EXCEPT ![p] = [q \in People |-> 0]]
      /\ sends' = {s \in sends : s.by # p} /\ frames' \subseteq frames
  BY DEF Reinstall, Stops
<1>2. \A q \in People : /\ install[q] \in Nat \ {0} /\ enrolled[q] \in Nat /\ install[q] \in Installs
                        /\ install'[q] = IF q = p THEN install[q] + 1 ELSE install[q]
                        /\ preKeys'[q] = IF q = p THEN KeyIds ELSE preKeys[q]
  BY <1>1, AddressLemma DEF SessionsTypeOK
<1>3. SessionsTypeOK'
  <2>1. install[p] + 1 \in Installs /\ stops' \in 0..MaxStops
    BY <1>1, <1>2, AddressLemma, SessionsAssumption DEF InstallsSound, Installs
  <2>2. install' \in [People -> Installs] /\ preKeys' \in [People -> SUBSET KeyIds]
    BY <1>1, <2>1 DEF SessionsTypeOK
  <2>3. /\ knownDevices' \in [People -> [People -> {0} \cup Installs]]
        /\ identities' \in [People -> [Addresses -> {0} \cup Installs]]
    BY <1>1 DEF SessionsTypeOK
  <2>4. sessions' \in [People -> [Addresses -> [open : 0..sent, kept : SUBSET KeptSessions]]]
    <3>1. NoSessions \in [open : 0..sent, kept : SUBSET KeptSessions]
      BY AddressLemma DEF NoSessions
    <3> QED
      BY <1>1, <3>1 DEF SessionsTypeOK, KeptSessions
  <2> QED
    BY <1>1, <2>1, <2>2, <2>3, <2>4 DEF SessionsTypeOK, KeptSessions
<1>4. IdentitiesSound'
  <2> SUFFICES ASSUME NEW a \in People, NEW b \in People, NEW e \in Installs
               PROVE  identities'[a][<<b, e>>] \in {0, e}
    BY DEF IdentitiesSound
  <2>1. <<b, e>> \in Addresses
    BY AddressLemma
  <2>2. identities'[a] = IF a = p THEN [x \in Addresses |-> 0] ELSE identities[a]
    BY <1>1 DEF SessionsTypeOK
  <2> QED
    BY <2>1, <2>2 DEF IdentitiesSound
<1>5. InstallsSound'
  <2>1. stops \in Nat
    BY AddressLemma
  <2> QED
    BY <1>1, <1>2, <2>1 DEF InstallsSound
<1>6. ASSUME NEW a \in People, NEW b \in People, NEW e \in Installs
      PROVE  /\ a # p => Of(a, b, e)' = Of(a, b, e)
             /\ a = p => Of(a, b, e)'.kept = {}
  <2>1. <<b, e>> \in Addresses
    BY AddressLemma
  <2>2. sessions'[a] = IF a = p THEN [x \in Addresses |-> NoSessions] ELSE sessions[a]
    BY <1>1 DEF SessionsTypeOK
  <2>3. NoSessions.kept = {}
    BY DEF NoSessions
  <2>4. Of(a, b, e)' = sessions'[a][<<b, e>>] /\ Of(a, b, e) = sessions[a][<<b, e>>]
    BY AddressLemma
  <2> QED
    BY <2>1, <2>2, <2>3, <2>4
<1>7. /\ \A q \in People : \A d \in Nat : \A k : Claimed(q, d, k) => Claimed(q, d, k)'
      /\ \A u : Holding(u)' = Holding(u)
  BY <1>1, <1>2 DEF Claimed, Holding
<1>8. ASSUME NEW a \in People, NEW b \in People, NEW e \in Installs, a # p
      PROVE  /\ \A id : Holds(a, b, e, id)' = Holds(a, b, e, id)
             /\ \A x : Startable(a, b, e, x)' = Startable(a, b, e, x)
  BY <1>2, <1>6, <1>8 DEF Holds, Startable
<1>9. \A b \in People : \A d \in Nat : d <= install[b] /\ d = install'[b] => b # p /\ d = install[b]
  BY <1>2
<1>10. SendsSound'
  <2> SUFFICES ASSUME NEW u \in sends, u.by # p
               PROVE  /\ u.stage \in {"load", "establish", "encrypt"} => knownDevices'[u.by][u.to] # 0
                      /\ u.stage # "claim" => u.device # 0
                      /\ Holding(u) => Claimed(u.to, u.device, u.key)'
                      /\ Holding(u) /\ u.device = install'[u.to] => u.key \in preKeys'[u.to] \cup {0}
    BY <1>1, <1>7 DEF SendsSound
  <2>1. u.by \in People /\ u.to \in People /\ u.device \in Nat
    BY AddressLemma DEF SessionsTypeOK
  <2>2. knownDevices'[u.by] = knownDevices[u.by]
    BY <1>1, <2>1 DEF SessionsTypeOK
  <2>3. Holding(u) => Claimed(u.to, u.device, u.key)'
    BY <1>7, <2>1 DEF SendsSound
  <2>4. Holding(u) /\ u.device = install'[u.to] => u.key \in preKeys'[u.to] \cup {0}
    BY <1>2, <1>9, <2>1 DEF SendsSound, Claimed
  <2> QED
    BY <2>2, <2>3, <2>4 DEF SendsSound
<1>11. KeptSound'
  <2> SUFFICES ASSUME NEW a \in People, NEW b \in People, NEW e \in Installs, NEW x \in Of(a, b, e)'.kept
               PROVE  /\ x.with = e /\ Claimed(b, e, x.key)'
                      /\ e = install'[b] => Startable(b, a, install[a], x)'
    BY DEF KeptSound
  <2>1. a # p /\ x \in Of(a, b, e).kept /\ e \in Nat /\ install[a] \in Installs /\ install'[a] = install[a]
    BY <1>2, <1>6, AddressLemma
  <2>2. x.with = e /\ Claimed(b, e, x.key) /\ (e = install[b] => Startable(b, a, install[a], x))
    BY <2>1 DEF KeptSound
  <2>3. e = install'[b] => b # p /\ e = install[b]
    BY <1>9, <2>1, <2>2 DEF Claimed
  <2>4. e = install'[b] => Startable(b, a, install[a], x)'
    <3> SUFFICES ASSUME e = install'[b] PROVE Startable(b, a, install[a], x)'
      OBVIOUS
    <3>1. Startable(b, a, install[a], x) /\ b # p
      BY <2>2, <2>3
    <3>2. \A d \in Installs : Startable(b, a, d, x) => Startable(b, a, d, x)'
      BY <1>8, <3>1
    <3> QED
      BY <2>1, <3>1, <3>2 DEF Startable, Holds
  <2> QED
    BY <1>7, <2>1, <2>2, <2>4
<1>12. FramesSound'
  <2> SUFFICES ASSUME NEW g \in frames
               PROVE  /\ g.device <= install'[g.from] /\ Claimed(g.to, g.with, g.key)'
                      /\ g.with = install'[g.to] => Startable(g.to, g.from, g.device, g)'
                      /\ g.device = install'[g.from] => Holds(g.from, g.to, g.with, g.id)'
    BY <1>1 DEF FramesSound
  <2>1. /\ g.to \in People /\ g.from \in People /\ g.device \in Installs /\ g.with \in Installs
        /\ g.device \in Nat /\ g.with \in Nat
    BY AddressLemma DEF SessionsTypeOK
  <2>2. /\ g.device <= install[g.from] /\ Claimed(g.to, g.with, g.key)
        /\ g.with = install[g.to] => Startable(g.to, g.from, g.device, g)
        /\ g.device = install[g.from] => Holds(g.from, g.to, g.with, g.id)
    BY DEF FramesSound
  <2>3. g.with <= install[g.to]
    BY <2>2 DEF Claimed
  <2>4. g.with = install'[g.to] => Startable(g.to, g.from, g.device, g)'
    BY <1>8, <1>9, <2>1, <2>2, <2>3
  <2>5. g.device = install'[g.from] => Holds(g.from, g.to, g.with, g.id)'
    BY <1>8, <1>9, <2>1, <2>2
  <2>6. g.device <= install'[g.from]
    BY <1>2, <2>1, <2>2
  <2> QED
    BY <1>7, <2>1, <2>2, <2>4, <2>5, <2>6
<1>13. \A a, b \in People : \A e \in Installs : \A x \in Of(a, b, e)'.kept : a # p /\ x \in Of(a, b, e).kept
  BY <1>6
<1>14. HeldIsUnused'
  <2> SUFFICES ASSUME NEW u \in sends, Holding(u), u.key # 0
               PROVE  /\ \A a \in People : \A x \in Of(a, u.to, u.device)'.kept : x.key # u.key
                      /\ \A g \in frames : g.to = u.to /\ g.with = u.device => g.key # u.key
    BY <1>1, <1>7 DEF HeldIsUnused
  <2>1. u.to \in People /\ u.device \in Installs
    BY DEF SessionsTypeOK, SendsSound, Holding
  <2> QED
    BY <2>1, <1>13 DEF HeldIsUnused
<1>15. OneSession'
  BY <1>13 DEF OneSession
<1>16. FrameOfSession'
  <2> SUFFICES ASSUME NEW a \in People, NEW g \in frames, NEW x \in Of(a, g.to, g.with)'.kept,
                      x.key = g.key, g.key # 0
               PROVE  a = g.from /\ install'[a] = g.device /\ x.id = g.id
    BY <1>1 DEF FrameOfSession
  <2>1. g.to \in People /\ g.with \in Installs
    BY DEF SessionsTypeOK
  <2>2. a # p /\ x \in Of(a, g.to, g.with).kept
    BY <1>13, <2>1
  <2> QED
    BY <1>2, <2>2 DEF FrameOfSession
<1>17. OneHolder' /\ FramesOfOne'
  BY <1>1, <1>7 DEF OneHolder, FramesOfOne
<1> QED
  BY <1>3, <1>4, <1>5, <1>10, <1>11, <1>12, <1>14, <1>15, <1>16, <1>17

LEMMA SessionsInvStep == SessionsInv /\ [SessionsNext]_sessionVars => SessionsInv'
<1> SUFFICES ASSUME SessionsInv, [SessionsNext]_sessionVars PROVE SessionsInv'
  OBVIOUS
<1>1. CASE UNCHANGED sessionVars
  <2>1. UNCHANGED <<install, enrolled, offered, preKeys, knownDevices, sessions, identities, sends,
                    sent, frames, stops>>
    BY <1>1 DEF sessionVars
  <2>2. SessionsTypeOK' /\ IdentitiesSound'
    BY <2>1 DEF SessionsInv, SessionsTypeOK, IdentitiesSound
  <2>3. SendsSound'
    BY <2>1 DEF SessionsInv, SendsSound, Holding, Claimed
  <2>4. \A g \in frames' : \E f \in frames : Like(g, f)
    BY <2>1 DEF Like
  <2> QED
    BY <2>1, <2>2, <2>3, <2>4, SameVaultLemma, SendersLemma DEF SessionsInv
<1>2. ASSUME NEW p \in People, NEW q \in People, BeginSend(p, q) PROVE SessionsInv'
  BY <1>2, BeginSendStep
<1>3. ASSUME NEW s \in sends,
             \/ SessionLoaded(s) \/ ClaimFails(s) \/ EstablishSession(s)
             \/ ProcessPreKeyBundle(s) \/ Encrypt(s)
             \/ \E k \in KeyIds \cup {0} : ClaimServed(s, k)
      PROVE  SessionsInv'
  BY <1>3, SessionLoadedStep, ClaimFailsStep, EstablishSessionStep, ProcessPreKeyBundleStep,
     EncryptStep, ClaimServedStep
<1>4. ASSUME NEW f \in frames,
             EnvelopeArrives(f) \/ DecryptKnown(f) \/ DecryptPreKey(f) \/ DecryptFails(f)
      PROVE  SessionsInv'
  BY <1>4, EnvelopeArrivesStep, DecryptKnownStep, DecryptPreKeyStep, DecryptFailsStep
<1>5. ASSUME NEW p \in People, Relaunch(p) \/ Reinstall(p) \/ Enrol(p) PROVE SessionsInv'
  BY <1>5, RelaunchStep, ReinstallStep, EnrolStep
<1> QED
  BY <1>1, <1>2, <1>3, <1>4, <1>5 DEF SessionsNext

(* Sessions, prekeys, sends and frames keep their shape.                   *)
THEOREM SessionsTypeCorrect == SessionsSpec => []SessionsTypeOK
<1>1. SessionsInv => SessionsTypeOK
  BY DEF SessionsInv
<1> QED
  BY SessionsInvInit, SessionsInvStep, <1>1, PTL DEF SessionsSpec

(* A frame encrypted to the install its recipient has now can be decrypted *)
(* there.                                                                  *)
THEOREM ReadableHolds == SessionsSpec => []Readable
<1> QED
  BY SessionsInvInit, SessionsInvStep, ReadableLemma, PTL DEF SessionsSpec

----------------------------------------------------------------------------
(* All of it: the parts beside each other. *)

(* A step of one part leaves the others' variables alone, so a behaviour   *)
(* of all is one of each.                                                  *)
LEMMA PeersPartsLemma ==
  PeersSpec => Spec /\ InviteSpec /\ VerifySpec /\ AdmissionSpec /\ SessionsSpec
<1>1. PeersInit => Init /\ InviteInit /\ VerifyInit /\ AdmissionInit /\ SessionsInit
  BY DEF PeersInit
<1>2. [PeersNext]_peersVars =>
        /\ [Next]_vars /\ [InviteNext]_inviteVars /\ [VerifyNext]_verifyVars
        /\ [AdmissionNext]_admissionVars /\ [SessionsNext]_sessionVars
  BY DEF PeersNext, peersVars
<1> QED
  BY <1>1, <1>2, PTL DEF PeersSpec, Spec, InviteSpec, VerifySpec, AdmissionSpec, SessionsSpec

LEMMA PeersFocusLemma ==
  PeersSpec => [](focus \in {"claims", "invites", "verification", "admission", "sessions"})
<1> DEFINE FocusOK == focus \in {"claims", "invites", "verification", "admission", "sessions"}
<1>1. PeersInit => FocusOK
  BY DEF PeersInit
<1>2. FocusOK /\ [PeersNext]_peersVars => FocusOK'
  BY DEF PeersNext, peersVars
<1> QED
  BY <1>1, <1>2, PTL DEF PeersSpec

(* Whichever part moves, the state of every part stays in its types.       *)
THEOREM PeersTypeCorrect == PeersSpec => []PeersTypeOK
<1>1. /\ TypeOK /\ InviteTypeOK /\ VerifyTypeOK /\ AdmissionTypeOK /\ SessionsTypeOK
      /\ focus \in {"claims", "invites", "verification", "admission", "sessions"}
      => PeersTypeOK
  BY DEF PeersTypeOK
<1> QED
  BY <1>1, PeersPartsLemma, PeersFocusLemma, TypeCorrect, InviteTypeCorrect, VerifyTypeCorrect,
     AdmissionTypeCorrect, SessionsTypeCorrect, PTL

(* And what each part promises on its own, it promises beside the others.  *)
THEOREM PeersCorrect ==
  PeersSpec =>
    /\ [](/\ RowGrantedOnce /\ Consent /\ AgreeUnlessMissed /\ RevokeIsFinal
          /\ RateBounded /\ OutlivesByLagOnly /\ Readable)
    /\ VerifiedByAnswer /\ PresenceIsLive
BY PeersPartsLemma, RowGrantedOnceHolds, ConsentHolds, AgreeUnlessMissedHolds, RevokeIsFinalHolds,
   RateBoundedHolds, OutlivesByLagOnlyHolds, ReadableHolds, VerifiedByAnswerHolds,
   PresenceIsLiveHolds, PTL
=============================================================================
