-------------------------- MODULE EntryListProofs --------------------------
(***************************************************************************)
(* What inserting and removing do to a list of entries.                    *)
(***************************************************************************)
EXTENDS EntryList, SequenceTheorems, WellFoundedInduction, TLAPS

\* CIRCLEQ_INSERT_BEFORE and _TAIL: the entries after the insertion point move
\* up by one.
LEMMA InsertAtIs ==
  ASSUME NEW S, NEW s \in Seq(S), NEW e \in S, NEW k \in 1..(Len(s) + 1)
  PROVE  /\ InsertAt(s, k, e) \in Seq(S)
         /\ Len(InsertAt(s, k, e)) = Len(s) + 1
         /\ \A j \in 1..(Len(s) + 1) :
              InsertAt(s, k, e)[j] =
                IF j < k THEN s[j] ELSE IF j = k THEN e ELSE s[j - 1]
<1>0. Len(s) \in Nat /\ \A j \in 1..Len(s) : s[j] \in S
  BY LenProperties, ElementOfSeq
<1> DEFINE a == SubSeq(s, 1, k - 1)
           c == SubSeq(s, k, Len(s))
<1>1. /\ a \in Seq(S)
      /\ Len(a) = k - 1
      /\ \A j \in 1..(k - 1) : a[j] = s[j]
  <2>1. \A j \in 1..(k - 1) : s[j] \in S
    BY <1>0
  <2>2. /\ a \in Seq(S)
        /\ Len(a) = IF 1 <= k - 1 THEN k - 1 - 1 + 1 ELSE 0
        /\ \A j \in 1..(k - 1 - 1 + 1) : a[j] = s[1 + j - 1]
    BY <1>0, <2>1, SubSeqProperties
  <2> QED BY <1>0, <2>2
<1>2. /\ c \in Seq(S)
      /\ Len(c) = Len(s) - k + 1
      /\ \A j \in 1..(Len(s) - k + 1) : c[j] = s[k + j - 1]
  <2>1. \A j \in k..Len(s) : s[j] \in S
    BY <1>0
  <2>2. /\ c \in Seq(S)
        /\ Len(c) = IF k <= Len(s) THEN Len(s) - k + 1 ELSE 0
        /\ \A j \in 1..(Len(s) - k + 1) : c[j] = s[k + j - 1]
    BY <1>0, <2>1, SubSeqProperties
  <2> QED BY <1>0, <2>2
<1>3. <<e>> \in Seq(S) /\ Len(<<e>>) = 1 /\ <<e>>[1] = e
  OBVIOUS
<1> HIDE DEF a, c
<1> DEFINE b == <<e>>
<1> HIDE DEF b
<1>4. /\ a \o b \in Seq(S)
      /\ Len(a \o b) = k
      /\ \A j \in 1..k : (a \o b)[j] = IF j < k THEN s[j] ELSE e
  <2>1. /\ a \o b \in Seq(S)
        /\ Len(a \o b) = Len(a) + Len(b)
        /\ \A j \in 1..(Len(a) + Len(b)) :
             (a \o b)[j] = IF j <= Len(a) THEN a[j] ELSE b[j - Len(a)]
    BY <1>1, <1>3, ConcatProperties DEF b
  <2> QED BY <1>0, <1>1, <1>3, <2>1 DEF b
<1> DEFINE d == a \o b
           r == d \o c
<1>6. InsertAt(s, k, e) = r
  BY DEF InsertAt, a, b, c
<1>7. /\ d \in Seq(S)
      /\ Len(d) = k
      /\ \A j \in 1..k : d[j] = IF j < k THEN s[j] ELSE e
  BY <1>4
<1> HIDE DEF d
<1>5. /\ r \in Seq(S)
      /\ Len(r) = Len(d) + Len(c)
      /\ \A j \in 1..(Len(d) + Len(c)) :
           r[j] = IF j <= Len(d) THEN d[j] ELSE c[j - Len(d)]
  BY <1>7, <1>2, ConcatProperties
<1> HIDE DEF r
<1> QED
  <2>1. Len(d) + Len(c) = Len(s) + 1
    BY <1>0, <1>2, <1>7
  <2>2. ASSUME NEW j \in 1..(Len(s) + 1)
        PROVE  r[j] =
                 IF j < k THEN s[j] ELSE IF j = k THEN e ELSE s[j - 1]
    <3>1. CASE j <= k
      BY <1>0, <1>5, <1>7, <2>1, <3>1
    <3>2. CASE j > k
      <4>1. r[j] = c[j - k]
        BY <1>0, <1>5, <1>7, <2>1, <3>2
      <4>2. c[j - k] = s[k + (j - k) - 1]
        BY <1>0, <1>2, <3>2
      <4>3. k + (j - k) - 1 = j - 1
        BY <1>0
      <4> QED BY <1>0, <4>1, <4>2, <4>3, <3>2
    <3>3. j \in Int /\ k \in Int
      BY <1>0
    <3> QED BY <3>1, <3>2, <3>3
  <2> QED BY <1>5, <1>6, <2>1, <2>2

\* CIRCLEQ_REMOVE: the entries after the removed one move down by one.
LEMMA RemoveAtIs ==
  ASSUME NEW S, NEW s \in Seq(S), NEW k \in 1..Len(s)
  PROVE  /\ RemoveAt(s, k) \in Seq(S)
         /\ Len(RemoveAt(s, k)) = Len(s) - 1
         /\ \A j \in 1..(Len(s) - 1) :
              RemoveAt(s, k)[j] = IF j < k THEN s[j] ELSE s[j + 1]
<1>0. Len(s) \in Nat /\ \A j \in 1..Len(s) : s[j] \in S
  BY LenProperties, ElementOfSeq
<1> DEFINE a == SubSeq(s, 1, k - 1)
           c == SubSeq(s, k + 1, Len(s))
<1>1. /\ a \in Seq(S)
      /\ Len(a) = k - 1
      /\ \A j \in 1..(k - 1) : a[j] = s[j]
  <2>1. \A j \in 1..(k - 1) : s[j] \in S
    BY <1>0
  <2>2. /\ a \in Seq(S)
        /\ Len(a) = IF 1 <= k - 1 THEN k - 1 - 1 + 1 ELSE 0
        /\ \A j \in 1..(k - 1 - 1 + 1) : a[j] = s[1 + j - 1]
    BY <1>0, <2>1, SubSeqProperties
  <2> QED BY <1>0, <2>2
<1>2. /\ c \in Seq(S)
      /\ Len(c) = Len(s) - k
      /\ \A j \in 1..(Len(s) - k) : c[j] = s[k + j]
  <2>1. \A j \in (k + 1)..Len(s) : s[j] \in S
    BY <1>0
  <2>2. /\ c \in Seq(S)
        /\ Len(c) = IF k + 1 <= Len(s) THEN Len(s) - (k + 1) + 1 ELSE 0
        /\ \A j \in 1..(Len(s) - (k + 1) + 1) : c[j] = s[(k + 1) + j - 1]
    BY <1>0, <2>1, SubSeqProperties
  <2> QED BY <1>0, <2>2
<1> HIDE DEF a, c
<1> DEFINE r == a \o c
<1>3. /\ r \in Seq(S)
      /\ Len(r) = Len(a) + Len(c)
      /\ \A j \in 1..(Len(a) + Len(c)) :
           r[j] = IF j <= Len(a) THEN a[j] ELSE c[j - Len(a)]
  BY <1>1, <1>2, ConcatProperties
<1>4. RemoveAt(s, k) = r
  BY DEF RemoveAt, a, c
<1> HIDE DEF r
<1> QED
  <2>1. Len(a) + Len(c) = Len(s) - 1
    BY <1>0, <1>1, <1>2
  <2>2. ASSUME NEW j \in 1..(Len(s) - 1)
        PROVE  r[j] = IF j < k THEN s[j] ELSE s[j + 1]
    <3>1. CASE j < k
      BY <1>0, <1>1, <1>3, <2>1, <3>1
    <3>2. CASE j >= k
      <4>1. r[j] = c[j - (k - 1)]
        BY <1>0, <1>1, <1>3, <2>1, <3>2
      <4>2. c[j - (k - 1)] = s[k + (j - (k - 1))]
        BY <1>0, <1>2, <3>2
      <4>3. k + (j - (k - 1)) = j + 1
        BY <1>0
      <4> QED BY <1>0, <4>1, <4>2, <4>3, <3>2
    <3>3. j \in Int /\ k \in Int
      BY <1>0
    <3> QED BY <3>1, <3>2, <3>3
  <2> QED BY <1>3, <1>4, <2>1, <2>2

\* Inserting between entries of lesser and of greater index keeps the order.
LEMMA SortedInsert ==
  ASSUME NEW S, \A x \in S : x.idx \in Int,
         NEW s \in Seq(S), Sorted(s),
         NEW e \in S, NEW k \in 1..(Len(s) + 1),
         \A j \in 1..(k - 1) : s[j].idx <= e.idx,
         k <= Len(s) => e.idx <= s[k].idx
  PROVE  Sorted(InsertAt(s, k, e))
<1> DEFINE r == InsertAt(s, k, e)
<1>1. /\ r \in Seq(S) /\ Len(r) = Len(s) + 1
      /\ \A j \in 1..(Len(s) + 1) :
           r[j] = IF j < k THEN s[j] ELSE IF j = k THEN e ELSE s[j - 1]
  BY InsertAtIs
<1>2. /\ Len(s) \in Nat /\ DOMAIN s = 1..Len(s) /\ DOMAIN r = 1..(Len(s) + 1)
      /\ \A j \in 1..Len(s) : s[j] \in S
  BY <1>1, LenProperties, ElementOfSeq
<1>3. \A i, j \in 1..Len(s) : i <= j => s[i].idx <= s[j].idx
  BY <1>2 DEF Sorted
<1>4. \A j \in 1..Len(s) : j >= k => e.idx <= s[j].idx
  <2> TAKE j \in 1..Len(s)
  <2> HAVE j >= k
  <2>1. k \in 1..Len(s) /\ s[k].idx <= s[j].idx
    BY <1>2, <1>3
  <2> QED BY <2>1, <1>2
<1> HIDE DEF r
<1>5. ASSUME NEW i \in 1..(Len(s) + 1), NEW j \in 1..(Len(s) + 1), i < j
      PROVE  r[i].idx <= r[j].idx
  <2>1. CASE j < k
    <3>1. r[i] = s[i] /\ r[j] = s[j] /\ i \in 1..Len(s) /\ j \in 1..Len(s)
      BY <1>1, <1>2, <1>5, <2>1
    <3> QED BY <3>1, <1>3, <1>5
  <2>2. CASE j = k
    <3>1. r[i] = s[i] /\ r[j] = e /\ i \in 1..(k - 1)
      BY <1>1, <1>2, <1>5, <2>2
    <3> QED BY <3>1
  <2>3. CASE j > k
    <3>1. r[j] = s[j - 1] /\ j - 1 \in 1..Len(s) /\ j - 1 >= k
      BY <1>1, <1>2, <1>5, <2>3
    <3>2. CASE i < k
      <4>1. r[i] = s[i] /\ i \in 1..Len(s) /\ i <= j - 1
        BY <1>1, <1>2, <1>5, <2>3, <3>2
      <4> QED BY <4>1, <3>1, <1>3
    <3>3. CASE i = k
      <4>1. r[i] = e
        BY <1>1, <1>2, <3>3
      <4> QED BY <4>1, <3>1, <1>4
    <3>4. CASE i > k
      <4>1. r[i] = s[i - 1] /\ i - 1 \in 1..Len(s) /\ i - 1 <= j - 1
        BY <1>1, <1>2, <1>5, <3>4
      <4> QED BY <4>1, <3>1, <1>3
    <3> QED BY <3>2, <3>3, <3>4
  <2> QED BY <2>1, <2>2, <2>3
<1>6. Sorted(r)
  BY <1>2, <1>5 DEF Sorted
<1> QED BY <1>6 DEF r

\* Removing an entry keeps the order.
LEMMA SortedRemove ==
  ASSUME NEW S, NEW s \in Seq(S), Sorted(s), NEW k \in 1..Len(s)
  PROVE  Sorted(RemoveAt(s, k))
<1> DEFINE r == RemoveAt(s, k)
<1>1. /\ r \in Seq(S) /\ Len(r) = Len(s) - 1
      /\ \A j \in 1..(Len(s) - 1) : r[j] = IF j < k THEN s[j] ELSE s[j + 1]
  BY RemoveAtIs
<1>2. /\ Len(s) \in Nat /\ DOMAIN s = 1..Len(s) /\ DOMAIN r = 1..(Len(s) - 1)
  BY <1>1, LenProperties
<1> HIDE DEF r
<1>3. \A i, j \in 1..Len(s) : i < j => s[i].idx <= s[j].idx
  BY <1>2 DEF Sorted
<1>4. ASSUME NEW i \in 1..(Len(s) - 1), NEW j \in 1..(Len(s) - 1), i < j
      PROVE  r[i].idx <= r[j].idx
  <2> DEFINE f(n) == IF n < k THEN n ELSE n + 1
  <2>1. /\ f(i) \in 1..Len(s) /\ f(j) \in 1..Len(s) /\ f(i) < f(j)
    BY <1>2, <1>4
  <2>2. r[i] = s[f(i)] /\ r[j] = s[f(j)]
    BY <1>1, <1>2
  <2> QED BY <1>3, <2>1, <2>2
<1>5. Sorted(r)
  BY <1>2, <1>4 DEF Sorted
<1> QED BY <1>5 DEF r

\* Where do_fork stops, the index it takes is above all before and below all
\* after: it keeps the order and no instance of the list has it.
LEMMA ForkPosition ==
  ASSUME NEW S, \A x \in S : x.idx \in Nat,
         NEW s \in Seq(S), Sorted(s),
         NEW k \in 1..(Len(s) + 1), ForkStopsAt(s, k)
  PROVE  /\ SlotIndex(s, k) \in Nat
         /\ \A j \in 1..(k - 1) : s[j].idx < SlotIndex(s, k)
         /\ \A j \in k..Len(s) : s[j].idx > SlotIndex(s, k)
<1>1. /\ Len(s) \in Nat /\ DOMAIN s = 1..Len(s)
      /\ \A j \in 1..Len(s) : s[j].idx \in Nat
  BY LenProperties, ElementOfSeq
<1>2. \A i, j \in 1..Len(s) : i <= j => s[i].idx <= s[j].idx
  BY <1>1 DEF Sorted
<1>3. SlotIndex(s, k) \in Nat
  BY <1>1 DEF SlotIndex
<1>4. ASSUME NEW j \in 1..(k - 1)
      PROVE  s[j].idx < SlotIndex(s, k)
  <2>1. k # 1 /\ k - 1 \in 1..Len(s) /\ j \in 1..Len(s) /\ j <= k - 1
    BY <1>1
  <2>2. s[j].idx <= s[k - 1].idx
    BY <1>2, <2>1
  <2>3. SlotIndex(s, k) = s[k - 1].idx + 1
    BY <2>1 DEF SlotIndex
  <2> QED BY <1>1, <2>1, <2>2, <2>3
<1>5. ASSUME NEW j \in k..Len(s)
      PROVE  s[j].idx > SlotIndex(s, k)
  <2>1. k \in 1..Len(s) /\ j \in 1..Len(s) /\ k <= j
    BY <1>1
  <2>2. s[k].idx > SlotIndex(s, k)
    BY <1>1, <2>1 DEF ForkStopsAt
  <2>3. s[k].idx <= s[j].idx
    BY <1>2, <2>1
  <2> QED BY <1>1, <1>3, <2>1, <2>2, <2>3
<1> QED BY <1>3, <1>4, <1>5

-----------------------------------------------------------------------------
\* The least-element principle, from the well-founded order of the naturals.
LEMMA LeastElement ==
  ASSUME NEW T, T \subseteq Nat, T # {}
  PROVE  \E x \in T : \A y \in T : x <= y
<1> DEFINE R == OpToRel(<, Nat)
<1>1. IsWellFoundedOn(R, Nat)
  BY NatLessThanWellFounded
<1>2. ASSUME NEW x \in Nat, NEW y \in Nat, y < x
      PROVE  <<y, x>> \in R
  BY <1>2 DEF OpToRel
<1> HIDE DEF R
<1>3. PICK x \in T : \A y \in T : ~ (<<y, x>> \in R)
  BY <1>1, WFMin
<1>4. ASSUME NEW y \in T PROVE x <= y
  <2>1. x \in Nat /\ y \in Nat
    OBVIOUS
  <2>2. ~ (<<y, x>> \in R)
    BY <1>3
  <2>3. ~ (y < x)
    BY <2>1, <2>2, <1>2
  <2> QED BY <2>1, <2>3
<1> QED BY <1>4

\* do_fork leaves no gap: every index below the one it takes is in use before
\* its place in the list.
LEMMA ForkDense ==
  ASSUME NEW S, \A x \in S : x.idx \in Nat,
         NEW s \in Seq(S), NEW k \in 1..(Len(s) + 1), ForkStopsAt(s, k),
         NEW v \in 0..(SlotIndex(s, k) - 1)
  PROVE  \E j \in 1..(k - 1) : s[j].idx = v
<1> DEFINE T == {j \in 1..(k - 1) : s[j].idx >= v}
<1>1. /\ Len(s) \in Nat /\ \A j \in 1..Len(s) : s[j].idx \in Nat
  BY LenProperties, ElementOfSeq
<1>2. k - 1 \in T /\ T \subseteq Nat
  BY <1>1 DEF SlotIndex
<1>3. PICK j \in T : \A i \in T : j <= i
  <2> HIDE DEF T
  <2> QED BY <1>2, LeastElement
<1>4. /\ j \in 1..(k - 1) /\ s[j].idx \in Nat /\ s[j].idx >= v
      /\ s[j].idx <= SlotIndex(s, j)
  BY <1>1 DEF ForkStopsAt
<1>5. s[j].idx <= v
  <2>1. CASE j = 1
    BY <1>1, <1>4, <2>1 DEF SlotIndex
  <2>2. CASE j # 1
    <3>1. j - 1 \in 1..(k - 1) /\ j - 1 \notin T /\ s[j - 1].idx \in Nat
      BY <1>1, <1>3, <1>4, <2>2
    <3>2. s[j - 1].idx < v
      BY <3>1
    <3> QED BY <1>4, <2>2, <3>1, <3>2 DEF SlotIndex
  <2> QED BY <2>1, <2>2
<1> QED BY <1>4, <1>5
=============================================================================
