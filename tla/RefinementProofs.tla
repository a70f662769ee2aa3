-------------------------- MODULE RefinementProofs --------------------------
(***************************************************************************)
(* How the process table implements Instances: the lists are the slots,    *)
(* what the children were told is what was given, and a fork, a death and  *)
(* a replacement are a Start, an End and a Replace.                        *)
(***************************************************************************)
EXTENDS TableProofs

SlotsIn(es) ==
  [p \in Procs |-> {<<es[p][k].idx, es[p][k].pid>> : k \in DOMAIN es[p]}]
GivenIn(ch) ==
  [q \in Pids |-> IF ch[q].st = "free" THEN << >> ELSE <<ch[q].grp, ch[q].idx>>]

LEMMA Mapping ==
  /\ Slots = SlotsIn(entries) /\ Slots' = SlotsIn(entries')
  /\ Given = GivenIn(child) /\ Given' = GivenIn(child')
  BY DEF Slots, SlotsIn, Given, GivenIn, NoChild

\* A list with one entry more is a set with one slot more.
LEMMA SlotsInsert ==
  ASSUME NEW s \in Seq(Entries), NEW e \in Entries, NEW k \in 1..(Len(s) + 1)
  PROVE  LET t == InsertAt(s, k, e) IN
         {<<t[j].idx, t[j].pid>> : j \in DOMAIN t} =
           {<<s[j].idx, s[j].pid>> : j \in DOMAIN s} \cup {<<e.idx, e.pid>>}
<1> DEFINE t == InsertAt(s, k, e)
           S == {<<s[j].idx, s[j].pid>> : j \in DOMAIN s}
           T == {<<t[j].idx, t[j].pid>> : j \in DOMAIN t}
<1>1. /\ t \in Seq(Entries) /\ Len(t) = Len(s) + 1
      /\ \A j \in 1..(Len(s) + 1) :
           t[j] = IF j < k THEN s[j] ELSE IF j = k THEN e ELSE s[j - 1]
  BY InsertAtIs
<1>2. /\ Len(s) \in Nat /\ DOMAIN s = 1..Len(s) /\ DOMAIN t = 1..(Len(s) + 1)
  BY <1>1, LenProperties
<1> HIDE DEF t
<1>3. ASSUME NEW j \in DOMAIN t
      PROVE  <<t[j].idx, t[j].pid>> \in S \cup {<<e.idx, e.pid>>}
  <2>1. CASE j < k
    <3>1. j \in DOMAIN s /\ t[j] = s[j]
      BY <1>1, <1>2, <2>1
    <3> QED BY <3>1
  <2>2. CASE j = k
    BY <1>1, <1>2, <2>2
  <2>3. CASE j > k
    <3>1. j - 1 \in DOMAIN s /\ t[j] = s[j - 1]
      BY <1>1, <1>2, <2>3
    <3> QED BY <3>1
  <2> QED BY <1>2, <2>1, <2>2, <2>3
<1>4. ASSUME NEW j \in DOMAIN s
      PROVE  <<s[j].idx, s[j].pid>> \in T
  <2>1. CASE j < k
    <3>1. j \in DOMAIN t /\ t[j] = s[j]
      BY <1>1, <1>2, <2>1
    <3> QED BY <3>1
  <2>2. CASE j >= k
    <3>1. j + 1 \in DOMAIN t /\ t[j + 1] = s[j]
      BY <1>1, <1>2, <2>2
    <3> QED BY <3>1
  <2> QED BY <1>2, <2>1, <2>2
<1>5. k \in DOMAIN t /\ t[k] = e
  BY <1>1, <1>2
<1>6. T = S \cup {<<e.idx, e.pid>>}
  BY <1>3, <1>4, <1>5
<1> QED BY <1>6 DEF t

\* A list without one entry is the set without its slot: no two are the same.
LEMMA SlotsRemove ==
  ASSUME NEW s \in Seq(Entries), NEW k \in 1..Len(s),
         \A j \in DOMAIN s : s[j].pid = s[k].pid => j = k
  PROVE  LET t == RemoveAt(s, k) IN
         {<<t[j].idx, t[j].pid>> : j \in DOMAIN t} =
           {<<s[j].idx, s[j].pid>> : j \in DOMAIN s} \ {<<s[k].idx, s[k].pid>>}
<1> DEFINE t == RemoveAt(s, k)
           S == {<<s[j].idx, s[j].pid>> : j \in DOMAIN s}
           T == {<<t[j].idx, t[j].pid>> : j \in DOMAIN t}
           x == <<s[k].idx, s[k].pid>>
<1>1. /\ t \in Seq(Entries) /\ Len(t) = Len(s) - 1
      /\ \A j \in 1..(Len(s) - 1) : t[j] = IF j < k THEN s[j] ELSE s[j + 1]
  BY RemoveAtIs
<1>2. /\ Len(s) \in Nat /\ DOMAIN s = 1..Len(s) /\ DOMAIN t = 1..(Len(s) - 1)
  BY <1>1, LenProperties
<1> HIDE DEF t
<1>3. ASSUME NEW j \in DOMAIN t
      PROVE  <<t[j].idx, t[j].pid>> \in S \ {x}
  <2>1. PICK i \in DOMAIN s : i # k /\ t[j] = s[i]
    <3>1. CASE j < k
      BY <1>1, <1>2, <3>1
    <3>2. CASE j >= k
      <4>1. j + 1 \in DOMAIN s /\ j + 1 # k /\ t[j] = s[j + 1]
        BY <1>1, <1>2, <3>2
      <4> QED BY <4>1
    <3> QED BY <1>2, <3>1, <3>2
  <2>2. s[i].pid # s[k].pid
    BY <2>1
  <2> QED BY <2>1, <2>2
<1>4. ASSUME NEW j \in DOMAIN s, <<s[j].idx, s[j].pid>> # x
      PROVE  <<s[j].idx, s[j].pid>> \in T
  <2>1. CASE j < k
    <3>1. j \in DOMAIN t /\ t[j] = s[j]
      BY <1>1, <1>2, <2>1
    <3> QED BY <3>1
  <2>2. CASE j > k
    <3>1. j - 1 \in DOMAIN t /\ t[j - 1] = s[j]
      BY <1>1, <1>2, <2>2
    <3> QED BY <3>1
  <2> QED BY <1>2, <1>4, <2>1, <2>2
<1>5. T = S \ {x}
  BY <1>3, <1>4
<1> QED BY <1>5 DEF t
\* What a step made of the slots of a process.
Became(es, es2, p, S) == SlotsIn(es2) = [SlotsIn(es) EXCEPT ![p] = S]
MoreBy(es, es2, p, x) == Became(es, es2, p, SlotsIn(es)[p] \cup {x})
FewerBy(es, es2, p, x) == Became(es, es2, p, SlotsIn(es)[p] \ {x})

\* To know the slots of every process is to know the slots.
LEMMA AllSlots ==
  ASSUME NEW es, NEW es2, NEW p \in Procs, NEW S, SlotsIn(es2)[p] = S,
         \A r \in Procs \ {p} : SlotsIn(es2)[r] = SlotsIn(es)[r]
  PROVE  Became(es, es2, p, S)
<1> DEFINE f == SlotsIn(es)
           g == SlotsIn(es2)
<1>1. f = [r \in Procs |-> f[r]] /\ g = [r \in Procs |-> g[r]]
  BY DEF SlotsIn
<1> HIDE DEF f, g
<1>2. g[p] = S /\ \A r \in Procs \ {p} : g[r] = f[r]
  BY DEF f, g
<1>3. g = [f EXCEPT ![p] = S]
  BY <1>1, <1>2
<1> QED BY <1>3 DEF f, g, Became

\* The same for the lists of all processes.
LEMMA SlotsGrow ==
  ASSUME NEW es \in [Procs -> Seq(Entries)], NEW p \in Procs, NEW e \in Entries,
         NEW k \in 1..(Len(es[p]) + 1), NEW es2,
         es2 = [es EXCEPT ![p] = InsertAt(es[p], k, e)]
  PROVE  MoreBy(es, es2, p, <<e.idx, e.pid>>)
<1> DEFINE t == InsertAt(es[p], k, e)
           S == SlotsIn(es)[p] \cup {<<e.idx, e.pid>>}
<1>1. {<<t[j].idx, t[j].pid>> : j \in DOMAIN t} =
        {<<es[p][j].idx, es[p][j].pid>> : j \in DOMAIN es[p]} \cup {<<e.idx, e.pid>>}
  <2>1. es[p] \in Seq(Entries)
    OBVIOUS
  <2> QED BY <2>1, SlotsInsert
<1> HIDE DEF t
<1>2. es2[p] = t /\ \A r \in Procs \ {p} : es2[r] = es[r]
  BY DEF t
<1>3. SlotsIn(es2)[p] = S
  BY <1>1, <1>2 DEF SlotsIn
<1>4. \A r \in Procs \ {p} : SlotsIn(es2)[r] = SlotsIn(es)[r]
  BY <1>2 DEF SlotsIn
<1> HIDE DEF S
<1>5. Became(es, es2, p, S)
  BY <1>3, <1>4, AllSlots
<1> QED BY <1>5 DEF S, MoreBy

LEMMA SlotsShrink ==
  ASSUME NEW es \in [Procs -> Seq(Entries)], NEW p \in Procs,
         NEW k \in DOMAIN es[p],
         \A j \in DOMAIN es[p] : es[p][j].pid = es[p][k].pid => j = k,
         NEW es2, es2 = [es EXCEPT ![p] = RemoveAt(es[p], k)]
  PROVE  FewerBy(es, es2, p, <<es[p][k].idx, es[p][k].pid>>)
<1> DEFINE t == RemoveAt(es[p], k)
           x == <<es[p][k].idx, es[p][k].pid>>
           S == SlotsIn(es)[p] \ {x}
<1>1. {<<t[j].idx, t[j].pid>> : j \in DOMAIN t} =
        {<<es[p][j].idx, es[p][j].pid>> : j \in DOMAIN es[p]} \ {x}
  BY ListFacts, SlotsRemove
<1> HIDE DEF t
<1>2. es2[p] = t /\ \A r \in Procs \ {p} : es2[r] = es[r]
  BY DEF t
<1>3. SlotsIn(es2)[p] = S
  BY <1>1, <1>2 DEF SlotsIn
<1>4. \A r \in Procs \ {p} : SlotsIn(es2)[r] = SlotsIn(es)[r]
  BY <1>2 DEF SlotsIn
<1> HIDE DEF S
<1>5. Became(es, es2, p, S)
  BY <1>3, <1>4, AllSlots
<1> QED BY <1>5 DEF S, FewerBy

-----------------------------------------------------------------------------
\* Marking entries and signalling children changes nothing of this.
LEMMA SlotsSame ==
  ASSUME Relabelled(entries, entries'), entries \in [Procs -> Seq(Entries)]
  PROVE  SlotsIn(entries') = SlotsIn(entries)
<1> SUFFICES ASSUME NEW p \in Procs
             PROVE  {<<entries'[p][k].idx, entries'[p][k].pid>> :
                        k \in DOMAIN entries'[p]} =
                    {<<entries[p][k].idx, entries[p][k].pid>> :
                        k \in DOMAIN entries[p]}
  BY DEF SlotsIn
<1>1. /\ entries' \in [Procs -> Seq(Entries)]
      /\ Len(entries'[p]) = Len(entries[p])
      /\ \A k \in DOMAIN entries[p] :
           /\ entries'[p][k].pid = entries[p][k].pid
           /\ entries'[p][k].idx = entries[p][k].idx
  BY DEF Relabelled
<1>2. DOMAIN entries'[p] = DOMAIN entries[p]
  BY <1>1, ListFacts
<1> QED BY <1>1, <1>2

LEMMA GivenSame ==
  ASSUME \A q \in Pids : /\ NoChild(q)' <=> NoChild(q)
                         /\ child'[q].grp = child[q].grp
                         /\ child'[q].idx = child[q].idx
  PROVE  GivenIn(child') = GivenIn(child)
  BY DEF NoChild, GivenIn

LEMMA GivenReaped ==
  ASSUME NEW q \in Pids, child \in [Pids -> ChildRecords]
  PROVE  GivenIn([child EXCEPT ![q] = Free]) =
           [r \in Pids |-> IF r \in {q} THEN << >> ELSE GivenIn(child)[r]]
  BY DEF GivenIn, Free

\* The lists' pids are those of the slots.
LEMMA Unslotted ==
  ASSUME NEW q, q \in Pids, q \notin Tracked, NEW p \in Procs,
         NEW s \in SlotsIn(entries)[p]
  PROVE  s[2] # q
<1>1. PICK k \in DOMAIN entries[p] : s = <<entries[p][k].idx, entries[p][k].pid>>
  BY DEF SlotsIn
<1>2. s[2] = entries[p][k].pid
  BY <1>1
<1> QED BY <1>2 DEF Tracked, PidsOf, Holds

\* A waitpid that returns a child in no list.
LEMMA UnknownEnds ==
  ASSUME TableNow, NEW q \in Pids, q \notin Tracked, ~ NoChild(q),
         UNCHANGED entries, child' = [child EXCEPT ![q] = Free]
  PROVE  Promise!EndUnknown(q)
<1>1. child \in [Pids -> ChildRecords]
  BY DEF TableNow, TableOK
<1>2. GivenIn(child)[q] # << >>
  BY DEF GivenIn, NoChild
<1>3. Given' = [r \in Pids |-> IF r \in {q} THEN << >> ELSE Given[r]]
  BY <1>1, Mapping, GivenReaped
<1>4. \A p \in Procs : \A s \in Slots[p] : s[2] # q
  BY Mapping, Unslotted
<1>5. Slots' = Slots
  BY Mapping
<1> QED BY <1>2, <1>3, <1>4, <1>5, Mapping
        DEF Promise!EndUnknown, Promise!Freed, Promise!Nothing

-----------------------------------------------------------------------------

\* do_fork starts an instance under the least index free.
StartedIn(es, ch, p, q, i) ==
  /\ GivenIn(ch)[q] = << >>
  /\ i \in Promise!Candidates(SlotsIn(es)[p])
  /\ Promise!LeastFree(SlotsIn(es)[p], i)
  /\ SlotsIn(entries') =
       [SlotsIn(es) EXCEPT ![p] = SlotsIn(es)[p] \cup {<<i, q>>}]
  /\ GivenIn(child') = [GivenIn(ch) EXCEPT ![q] = <<p, i>>]

LEMMA ForkIsLeast ==
  ASSUME NEW es \in [Procs -> Seq(Entries)], NEW p \in Procs, Sorted(es[p]),
         NEW k \in 1..(Len(es[p]) + 1), ForkStopsAt(es[p], k)
  PROVE  /\ SlotIndex(es[p], k) \in Promise!Candidates(SlotsIn(es)[p])
         /\ Promise!LeastFree(SlotsIn(es)[p], SlotIndex(es[p], k))
<1> DEFINE s == es[p]
           S == {<<s[j].idx, s[j].pid>> : j \in DOMAIN s}
           i == SlotIndex(s, k)
<1>1. /\ s \in Seq(Entries) /\ Len(s) \in Nat /\ DOMAIN s = 1..Len(s)
      /\ \A x \in Entries : x.idx \in Nat
  BY ListFacts DEF Entries
<1>2. S = SlotsIn(es)[p]
  BY DEF SlotsIn
<1>3. Sorted(s) /\ ForkStopsAt(s, k) /\ k \in 1..(Len(s) + 1)
  OBVIOUS
<1> HIDE DEF s
<1>4. /\ i \in Nat
      /\ \A j \in 1..(k - 1) : s[j].idx < i
      /\ \A j \in k..Len(s) : s[j].idx > i
  BY <1>1, <1>3, ForkPosition
<1>5. \A v \in 0..(i - 1) : \E j \in 1..(k - 1) : s[j].idx = v
  BY <1>1, <1>3, ForkDense
<1> HIDE DEF i
<1>6. \A v \in 0..(i - 1) : \E x \in S : x[1] = v
  <2> SUFFICES ASSUME NEW v \in 0..(i - 1) PROVE \E x \in S : x[1] = v
    OBVIOUS
  <2>1. PICK j \in 1..(k - 1) : s[j].idx = v
    BY <1>5
  <2>2. j \in DOMAIN s
    BY <1>1, <1>3
  <2>3. <<s[j].idx, s[j].pid>> \in S /\ <<s[j].idx, s[j].pid>>[1] = v
    BY <2>1, <2>2
  <2> QED BY <2>3
<1>7. \A x \in S : x[1] # i
  <2> SUFFICES ASSUME NEW j \in DOMAIN s PROVE s[j].idx # i
    OBVIOUS
  <2>1. s[j].idx \in Nat /\ j \in 1..Len(s)
    BY <1>1, ElementOfSeq
  <2>2. j \in 1..(k - 1) \/ j \in k..Len(s)
    BY <1>1, <1>3, <2>1
  <2> QED BY <1>4, <2>1, <2>2
<1>8. i \in Promise!Candidates(S)
  <2>1. CASE k = 1
    <3>1. i = 0
      BY <2>1 DEF i, SlotIndex
    <3> QED BY <3>1 DEF Promise!Candidates
  <2>2. CASE k # 1
    <3>1. k - 1 \in DOMAIN s /\ i = s[k - 1].idx + 1
      BY <1>1, <1>3, <2>2 DEF i, SlotIndex
    <3> DEFINE x == <<s[k - 1].idx, s[k - 1].pid>>
    <3>2. x \in S /\ x[1] + 1 = i
      BY <3>1
    <3> HIDE DEF x, S
    <3> QED BY <3>2 DEF Promise!Candidates
  <2> QED BY <2>1, <2>2
<1> HIDE DEF S
<1>9. Promise!LeastFree(S, i)
  <2>1. i \notin Promise!Used(S)
    BY <1>7 DEF Promise!Used
  <2>2. 0..(i - 1) \subseteq Promise!Used(S)
    BY <1>6 DEF Promise!Used
  <2> QED BY <2>1, <2>2 DEF Promise!LeastFree
<1>10. SlotIndex(es[p], k) = i
  BY DEF i, s
<1> QED BY <1>2, <1>8, <1>9, <1>10

LEMMA ForkStarts ==
  ASSUME NEW es, NEW ch, NEW run, NEW live, TableOK(es, ch, run, live),
         NEW p \in Procs, ForkInto(p, es, ch)
  PROVE  \E q \in Pids : \E i \in Nat : StartedIn(es, ch, p, q, i)
<1>1. /\ es \in [Procs -> Seq(Entries)] /\ ch \in [Pids -> ChildRecords]
      /\ Sorted(es[p])
  BY DEF TableOK
<1>2. PICK q \in Pids, k \in 1..(Len(es[p]) + 1) :
        /\ ch[q].st = "free"
        /\ ForkStopsAt(es[p], k)
        /\ entries' = [es EXCEPT ![p] =
             InsertAt(es[p], k, Entry(q, SlotIndex(es[p], k)))]
        /\ child' = [ch EXCEPT ![q] = NewChild(p, SlotIndex(es[p], k))]
  BY DEF ForkInto
<1> DEFINE i == SlotIndex(es[p], k)
<1>3. /\ i \in Promise!Candidates(SlotsIn(es)[p])
      /\ Promise!LeastFree(SlotsIn(es)[p], i)
  BY <1>1, <1>2, ForkIsLeast
<1>4. i \in Nat
  <2>1. es[p] \in Seq(Entries) /\ \A x \in Entries : x.idx \in Nat
    BY <1>1, ListFacts DEF Entries
  <2> QED BY <1>1, <1>2, <2>1, ForkPosition
<1> HIDE DEF i
<1>5. /\ Entry(q, i) \in Entries
      /\ Entry(q, i).idx = i /\ Entry(q, i).pid = q
  BY <1>4 DEF Entry, Entries, Dead
<1>6. entries' = [es EXCEPT ![p] = InsertAt(es[p], k, Entry(q, i))]
  BY <1>2 DEF i
<1>7. SlotsIn(entries') =
        [SlotsIn(es) EXCEPT ![p] = SlotsIn(es)[p] \cup {<<i, q>>}]
  <2> DEFINE e == Entry(q, i)
  <2> HIDE DEF e
  <2>1. e \in Entries /\ e.idx = i /\ e.pid = q
    BY <1>5 DEF e
  <2>2. entries' = [es EXCEPT ![p] = InsertAt(es[p], k, e)]
    BY <1>6 DEF e
  <2>3. MoreBy(es, entries', p, <<e.idx, e.pid>>)
    BY <1>1, <2>1, <2>2, SlotsGrow
  <2> QED BY <2>1, <2>3 DEF MoreBy, Became
<1>8. /\ GivenIn(ch)[q] = << >>
      /\ GivenIn(child') = [GivenIn(ch) EXCEPT ![q] = <<p, i>>]
  BY <1>1, <1>2 DEF GivenIn, NewChild, i
<1> QED BY <1>3, <1>4, <1>7, <1>8 DEF StartedIn

\* do_fork, from the table as it is.
LEMMA ForkKeeps ==
  ASSUME TableNow, NEW p \in Procs, ForkInto(p, entries, child)
  PROVE  Promise!Start(p)
<1>1. TableOK(entries, child, running, live_processes)
  BY DEF TableNow
<1>2. PICK q \in Pids, i \in Nat : StartedIn(entries, child, p, q, i)
  BY <1>1, ForkStarts
<1>3. Promise!Freed(Promise!PidsOf({})) = Given
  BY DEF Promise!Freed, Promise!PidsOf, Given
<1>4. Slots[p] \ {} = Slots[p]
  OBVIOUS
<1>5. i \in Promise!Candidates(Slots[p] \ {})
  BY <1>2, <1>4, Mapping DEF StartedIn
<1>6. Slots' = [Slots EXCEPT ![p] = (Slots[p] \ {}) \cup {<<i, q>>}]
  BY <1>2, <1>4, Mapping DEF StartedIn
<1> DEFINE given == Promise!Freed(Promise!PidsOf({}))
<1>7. Given' = [given EXCEPT ![q] = <<p, i>>] /\ given[q] = Promise!Nothing
  BY <1>2, <1>3, Mapping DEF StartedIn, Promise!Nothing
<1>8. Promise!LeastFree(Slots[p] \ {}, i)
  BY <1>2, <1>4, Mapping DEF StartedIn
<1>9. Promise!StartAfter(p, {})
  <2> HIDE DEF given
  <2> QED BY <1>5, <1>6, <1>7, <1>8 DEF Promise!StartAfter, given
<1> QED BY <1>9 DEF Promise!Start

\* reap_children: an instance ends, and is perhaps replaced.
LEMMA DeathKeeps ==
  ASSUME TableNow, NEW p \in Procs, NEW k \in DOMAIN entries[p],
         \/ /\ entries' = Without(p, k)
            /\ GivenIn(child') = GivenIn(Reaped(entries[p][k].pid))
         \/ ForkInto(p, Without(p, k), Reaped(entries[p][k].pid))
  PROVE  \E s \in Slots[p] : Promise!End(p, s) \/ Promise!Replace(p, s)
<1> DEFINE q == entries[p][k].pid
           s == <<entries[p][k].idx, q>>
           es == Without(p, k)
           ch == Reaped(q)
<1>1. /\ entries \in [Procs -> Seq(Entries)] /\ child \in [Pids -> ChildRecords]
      /\ Linked(entries, child)
  BY DEF TableNow, TableOK
<1>2. /\ q \in Pids
      /\ TableOK(es, ch, [running EXCEPT ![p] = running[p] - 1],
                 live_processes - 1)
  BY WithoutOK
<1>3. s \in Slots[p]
  BY Mapping DEF SlotsIn
<1>4. SlotsIn(es) = [Slots EXCEPT ![p] = Slots[p] \ {s}]
  <2>1. \A j \in DOMAIN entries[p] : entries[p][j].pid = q => j = k
    BY <1>1 DEF Linked
  <2>2. FewerBy(entries, es, p, s)
    BY <1>1, <2>1, SlotsShrink DEF Without
  <2> QED BY <2>2, Mapping DEF FewerBy, Became
<1>5. Promise!PidsOf({s}) = {q}
  BY DEF Promise!PidsOf
<1>6. GivenIn(ch) = [r \in Pids |-> IF r \in {q} THEN << >> ELSE Given[r]]
  BY <1>1, <1>2, GivenReaped, Mapping DEF Reaped
<1>7. s[2] = q
  OBVIOUS
<1> HIDE DEF s, es, ch, q
<1>8. CASE entries' = es /\ GivenIn(child') = GivenIn(ch)
  <2>1. Slots' = [Slots EXCEPT ![p] = Slots[p] \ {s}]
    BY <1>4, <1>8, Mapping
  <2>2. Given' = [r \in Pids |-> IF r \in {q} THEN << >> ELSE Given[r]]
    BY <1>6, <1>8, Mapping
  <2>3. Promise!End(p, s)
    BY <1>7, <2>1, <2>2
       DEF Promise!End, Promise!Without, Promise!Freed, Promise!Nothing
  <2> QED BY <1>3, <2>3
<1>9. CASE ForkInto(p, es, ch)
  <2>1. PICK r \in Pids, i \in Nat : StartedIn(es, ch, p, r, i)
    BY <1>2, <1>9, ForkStarts
  <2>2. SlotsIn(es)[p] = Slots[p] \ {s}
    BY <1>4 DEF Slots
  <2>3. i \in Promise!Candidates(Slots[p] \ {s})
    BY <2>1, <2>2 DEF StartedIn
  <2>4. Slots' = [Slots EXCEPT ![p] = (Slots[p] \ {s}) \cup {<<i, r>>}]
    <3>1. Slots' = [SlotsIn(es) EXCEPT ![p] = SlotsIn(es)[p] \cup {<<i, r>>}]
      BY <2>1, Mapping DEF StartedIn
    <3>2. SlotsIn(es) = [t \in Procs |-> SlotsIn(es)[t]]
      BY DEF SlotsIn
    <3>3. Slots = [t \in Procs |-> Slots[t]]
      BY DEF Slots
    <3> QED BY <1>4, <2>2, <3>1, <3>2, <3>3
  <2>5. Given' = [GivenIn(ch) EXCEPT ![r] = <<p, i>>] /\ GivenIn(ch)[r] = << >>
    BY <2>1, Mapping DEF StartedIn
  <2>6. Promise!Freed(Promise!PidsOf({s})) = GivenIn(ch)
    BY <1>5, <1>6 DEF Promise!Freed, Promise!Nothing
  <2>7. Promise!LeastFree(Slots[p] \ {s}, i)
    BY <2>1, <2>2 DEF StartedIn
  <2> DEFINE given == Promise!Freed(Promise!PidsOf({s}))
  <2>8. Given' = [given EXCEPT ![r] = <<p, i>>] /\ given[r] = Promise!Nothing
    BY <2>5, <2>6 DEF Promise!Nothing
  <2>9. Promise!StartAfter(p, {s})
    <3> HIDE DEF given
    <3> QED BY <2>3, <2>4, <2>7, <2>8 DEF Promise!StartAfter, given
  <2> QED BY <1>3, <2>9 DEF Promise!Replace
<1>10. \/ entries' = es /\ GivenIn(child') = GivenIn(ch)
       \/ ForkInto(p, es, ch)
  BY DEF es, ch, q
<1> QED BY <1>8, <1>9, <1>10

\* Before anything is forked.
LEMMA EmptyKeeps ==
  ASSUME entries = [p \in Procs |-> << >>], child = [q \in Pids |-> Free]
  PROVE  Promise!Init
<1>1. /\ \A p \in Procs : entries[p] = << >>
      /\ \A q \in Pids : child[q].st = "free"
  BY DEF Free
<1>2. \A p \in Procs : DOMAIN entries[p] = {}
  BY <1>1
<1> QED BY <1>1, <1>2 DEF Promise!Init, Promise!Nothing, Slots, Given, NoChild
=============================================================================
