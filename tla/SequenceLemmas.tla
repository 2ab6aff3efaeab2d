-------------------------- MODULE SequenceLemmas --------------------------
(***************************************************************************)
(* What the sequence operators of the models do to the set of elements of  *)
(* a sequence and to the absence of repetitions.                           *)
(***************************************************************************)
EXTENDS Sequences, Integers, Functions, SequenceTheorems, TLAPS

(* q holds nothing twice. *)
Distinct(q) == \A i, j \in DOMAIN q : q[i] = q[j] => i = j

(* Appending adds one element, and repeats nothing if it is a new one. *)
LEMMA AppendLemma ==
  ASSUME NEW S, NEW q \in Seq(S), NEW x \in S
  PROVE  /\ Append(q, x) \in Seq(S)
         /\ Len(Append(q, x)) = Len(q) + 1
         /\ Range(Append(q, x)) = Range(q) \cup {x}
         /\ Distinct(q) /\ x \notin Range(q) => Distinct(Append(q, x))
<1> DEFINE r == Append(q, x)
<1>1. /\ r \in Seq(S) /\ Len(r) = Len(q) + 1
      /\ \A i \in 1..Len(q) : r[i] = q[i]
      /\ r[Len(q) + 1] = x
  BY AppendProperties
<1>2. /\ Len(q) \in Nat
      /\ DOMAIN q = 1..Len(q)
      /\ DOMAIN r = 1..(Len(q) + 1)
  BY <1>1, LenProperties
<1> HIDE DEF r
<1>3. Range(r) = Range(q) \cup {x}
  <2>1. ASSUME NEW y \in Range(r) PROVE y \in Range(q) \cup {x}
    <3>1. PICK i \in 1..(Len(q) + 1) : r[i] = y
      BY <1>2 DEF Range
    <3>2. CASE i = Len(q) + 1
      BY <1>1, <3>1, <3>2
    <3>3. CASE i \in 1..Len(q)
      BY <1>1, <1>2, <3>1, <3>3 DEF Range
    <3> QED
      BY <1>2, <3>1, <3>2, <3>3
  <2>2. ASSUME NEW y \in Range(q) PROVE y \in Range(r)
    <3>1. PICK i \in 1..Len(q) : q[i] = y
      BY <1>2 DEF Range
    <3> QED
      BY <1>1, <1>2, <3>1 DEF Range
  <2>3. x \in Range(r)
    BY <1>1, <1>2 DEF Range
  <2> QED
    BY <2>1, <2>2, <2>3
<1>4. ASSUME Distinct(q), x \notin Range(q) PROVE Distinct(r)
  BY <1>1, <1>2, <1>4 DEF Distinct, Range
<1> QED
  BY <1>1, <1>3, <1>4 DEF r

(* The head is the only element that Tail removes, if none is repeated. *)
LEMMA TailLemma ==
  ASSUME NEW S, NEW q \in Seq(S), q # << >>
  PROVE  /\ Head(q) \in S /\ Head(q) \in Range(q)
         /\ Tail(q) \in Seq(S)
         /\ Range(q) = Range(Tail(q)) \cup {Head(q)}
         /\ Distinct(q) => Distinct(Tail(q)) /\ Head(q) \notin Range(Tail(q))
<1> DEFINE r == Tail(q)
<1>1. /\ Len(q) \in Nat \ {0} /\ DOMAIN q = 1..Len(q)
      /\ Head(q) \in S /\ r \in Seq(S) /\ Len(r) = Len(q) - 1
      /\ \A i \in 1..Len(r) : r[i] = q[i + 1]
  BY HeadTailProperties, LenProperties, EmptySeq
<1>2. DOMAIN r = 1..(Len(q) - 1)
  BY <1>1, LenProperties
<1>3. Head(q) = q[1]
  OBVIOUS
<1> HIDE DEF r
<1>4. Head(q) \in Range(q)
  BY <1>1, <1>3 DEF Range
<1>5. Range(q) = Range(r) \cup {Head(q)}
  <2>1. ASSUME NEW y \in Range(q) PROVE y \in Range(r) \cup {Head(q)}
    <3>1. PICK i \in 1..Len(q) : q[i] = y
      BY <1>1 DEF Range
    <3>2. CASE i = 1
      BY <1>3, <3>1, <3>2
    <3>3. CASE i # 1
      <4>1. i - 1 \in 1..(Len(q) - 1) /\ (i - 1) + 1 = i
        BY <1>1, <3>1, <3>3
      <4> QED
        BY <1>1, <1>2, <3>1, <4>1 DEF Range
    <3> QED
      BY <3>2, <3>3
  <2>2. ASSUME NEW y \in Range(r) PROVE y \in Range(q)
    <3>1. PICK i \in 1..(Len(q) - 1) : r[i] = y
      BY <1>2 DEF Range
    <3>2. i + 1 \in 1..Len(q)
      BY <1>1
    <3> QED
      BY <1>1, <3>1, <3>2 DEF Range
  <2> QED
    BY <1>4, <2>1, <2>2
<1>6. ASSUME Distinct(q) PROVE Distinct(r) /\ Head(q) \notin Range(r)
  <2>1. Distinct(r)
    <3> SUFFICES ASSUME NEW i \in 1..(Len(q) - 1), NEW j \in 1..(Len(q) - 1), r[i] = r[j]
                 PROVE  i = j
      BY <1>2 DEF Distinct
    <3>1. i + 1 \in 1..Len(q) /\ j + 1 \in 1..Len(q) /\ q[i + 1] = q[j + 1]
      BY <1>1
    <3>2. i + 1 = j + 1
      BY <1>1, <1>6, <3>1 DEF Distinct
    <3> QED
      BY <3>2
  <2>2. ASSUME Head(q) \in Range(r) PROVE FALSE
    <3>1. PICK i \in 1..(Len(q) - 1) : r[i] = q[1]
      BY <1>2, <1>3, <2>2 DEF Range
    <3>2. i + 1 \in 1..Len(q) /\ 1 \in 1..Len(q) /\ q[i + 1] = q[1]
      BY <1>1, <3>1
    <3>3. i + 1 = 1
      BY <1>1, <1>6, <3>2 DEF Distinct
    <3> QED
      BY <3>1, <3>3
  <2> QED
    BY <2>1, <2>2
<1> QED
  BY <1>1, <1>4, <1>5, <1>6 DEF r

(* Concatenation joins the elements, and repeats none if they are apart. *)
LEMMA ConcatLemma ==
  ASSUME NEW S, NEW p \in Seq(S), NEW q \in Seq(S)
  PROVE  /\ p \o q \in Seq(S)
         /\ Range(p \o q) = Range(p) \cup Range(q)
         /\ Distinct(p) /\ Distinct(q) /\ Range(p) \cap Range(q) = {} => Distinct(p \o q)
<1> DEFINE r == p \o q
<1>1. /\ r \in Seq(S) /\ Len(r) = Len(p) + Len(q)
      /\ \A i \in 1..(Len(p) + Len(q)) : r[i] = IF i <= Len(p) THEN p[i] ELSE q[i - Len(p)]
  BY ConcatProperties
<1>2. /\ Len(p) \in Nat /\ Len(q) \in Nat
      /\ DOMAIN p = 1..Len(p) /\ DOMAIN q = 1..Len(q)
      /\ DOMAIN r = 1..(Len(p) + Len(q))
  BY <1>1, LenProperties
<1>3. Range(r) = Range(p) \cup Range(q)
  BY RangeConcatenation
<1> HIDE DEF r
<1>4. ASSUME Distinct(p), Distinct(q), Range(p) \cap Range(q) = {}
      PROVE  Distinct(r)
  <2> SUFFICES ASSUME NEW i \in 1..(Len(p) + Len(q)), NEW j \in 1..(Len(p) + Len(q)), r[i] = r[j]
               PROVE  i = j
    BY <1>2 DEF Distinct
  <2>1. CASE i <= Len(p) /\ j <= Len(p)
    <3>1. i \in DOMAIN p /\ j \in DOMAIN p /\ p[i] = p[j]
      BY <1>1, <1>2, <2>1
    <3> QED
      BY <1>4, <3>1 DEF Distinct
  <2>2. CASE ~(i <= Len(p)) /\ ~(j <= Len(p))
    <3>1. i - Len(p) \in DOMAIN q /\ j - Len(p) \in DOMAIN q /\ q[i - Len(p)] = q[j - Len(p)]
      BY <1>1, <1>2, <2>2
    <3>2. i - Len(p) = j - Len(p)
      BY <1>4, <3>1 DEF Distinct
    <3> QED
      BY <1>2, <3>2
  <2>3. CASE i <= Len(p) /\ ~(j <= Len(p))
    <3>1. i \in DOMAIN p /\ j - Len(p) \in DOMAIN q /\ p[i] = q[j - Len(p)]
      BY <1>1, <1>2, <2>3
    <3>2. p[i] \in Range(p) /\ q[j - Len(p)] \in Range(q)
      BY <3>1 DEF Range
    <3> QED
      BY <1>4, <3>1, <3>2
  <2>4. CASE ~(i <= Len(p)) /\ j <= Len(p)
    <3>1. j \in DOMAIN p /\ i - Len(p) \in DOMAIN q /\ p[j] = q[i - Len(p)]
      BY <1>1, <1>2, <2>4
    <3>2. p[j] \in Range(p) /\ q[i - Len(p)] \in Range(q)
      BY <3>1 DEF Range
    <3> QED
      BY <1>4, <3>1, <3>2
  <2> QED
    BY <2>1, <2>2, <2>3, <2>4
<1> QED
  BY <1>1, <1>3, <1>4 DEF r

(* A suffix holds elements of the sequence only, and repeats none anew. *)
LEMMA SuffixLemma ==
  ASSUME NEW S, NEW q \in Seq(S), NEW k \in 1..(Len(q) + 1)
  PROVE  /\ SubSeq(q, k, Len(q)) \in Seq(S)
         /\ Len(SubSeq(q, k, Len(q))) = Len(q) - k + 1
         /\ Range(SubSeq(q, k, Len(q))) \subseteq Range(q)
         /\ Distinct(q) => Distinct(SubSeq(q, k, Len(q)))
<1> DEFINE r == SubSeq(q, k, Len(q))
<1>1. Len(q) \in Nat /\ DOMAIN q = 1..Len(q) /\ \A i \in 1..Len(q) : q[i] \in S
  BY LenProperties, ElementOfSeq
<1>2. \A i \in k..Len(q) : q[i] \in S
  BY <1>1
<1>3. /\ r \in Seq(S)
      /\ Len(r) = IF k <= Len(q) THEN Len(q) - k + 1 ELSE 0
      /\ \A i \in 1..(Len(q) - k + 1) : r[i] = q[k + i - 1]
  <2>1. k \in Int /\ Len(q) \in Int
    BY <1>1
  <2> QED
    BY <1>2, <2>1, SubSeqProperties
<1>4. Len(r) = Len(q) - k + 1
  BY <1>1, <1>3
<1>5. DOMAIN r = 1..(Len(q) - k + 1)
  BY <1>3, <1>4, LenProperties
<1> HIDE DEF r
<1>6. ASSUME NEW i \in 1..(Len(q) - k + 1)
      PROVE  k + i - 1 \in DOMAIN q /\ r[i] = q[k + i - 1]
  BY <1>1, <1>3
<1>7. Range(r) \subseteq Range(q)
  BY <1>5, <1>6 DEF Range
<1>8. ASSUME Distinct(q) PROVE Distinct(r)
  <2> SUFFICES ASSUME NEW i \in 1..(Len(q) - k + 1), NEW j \in 1..(Len(q) - k + 1), r[i] = r[j]
               PROVE  i = j
    BY <1>5 DEF Distinct
  <2>1. k + i - 1 = k + j - 1
    BY <1>6, <1>8 DEF Distinct
  <2> QED
    BY <1>1, <2>1
<1> QED
  BY <1>3, <1>4, <1>7, <1>8 DEF r

(* A prefix holds elements of the sequence only. *)
LEMMA PrefixLemma ==
  ASSUME NEW S, NEW q \in Seq(S), NEW k \in 0..Len(q)
  PROVE  /\ SubSeq(q, 1, k) \in Seq(S)
         /\ Len(SubSeq(q, 1, k)) = k
         /\ Range(SubSeq(q, 1, k)) \subseteq Range(q)
         /\ \A i \in 1..k : SubSeq(q, 1, k)[i] = q[i]
<1> DEFINE r == SubSeq(q, 1, k)
<1>1. Len(q) \in Nat /\ DOMAIN q = 1..Len(q) /\ \A i \in 1..Len(q) : q[i] \in S
  BY LenProperties, ElementOfSeq
<1>2. \A i \in 1..k : q[i] \in S
  BY <1>1
<1>3. /\ r \in Seq(S)
      /\ Len(r) = IF 1 <= k THEN k - 1 + 1 ELSE 0
      /\ \A i \in 1..(k - 1 + 1) : r[i] = q[1 + i - 1]
  <2>1. k \in Int /\ 1 \in Int
    BY <1>1
  <2> QED
    BY <1>2, <2>1, SubSeqProperties
<1>4. Len(r) = k /\ \A i \in 1..k : r[i] = q[i]
  BY <1>1, <1>3
<1>5. DOMAIN r = 1..k
  BY <1>3, <1>4, LenProperties
<1> HIDE DEF r
<1>6. Range(r) \subseteq Range(q)
  BY <1>1, <1>4, <1>5 DEF Range
<1> QED
  BY <1>3, <1>4, <1>6 DEF r

(* The empty sequence has no elements. *)
LEMMA EmptyLemma == Range(<< >>) = {} /\ Distinct(<< >>) /\ Len(<< >>) = 0
BY DEF Range, Distinct

(* The elements of a sequence over S are in S. *)
LEMMA RangeLemma ==
  ASSUME NEW S, NEW q \in Seq(S)
  PROVE  Range(q) \subseteq S
BY RangeOfSeq
============================================================================
