---------------------------- MODULE TableProofs ----------------------------
(***************************************************************************)
(* The process table of a supervisor: the lists, the kernel's children and *)
(* the two counters, as values.  TableOK says they agree; the lemmas say   *)
(* that inserting, removing and marking an entry keeps the agreement, and  *)
(* what the steps of Procman, that bossd and bossrun share, make of it.    *)
(***************************************************************************)
EXTENDS Procman, EntryListProofs, FiniteSetTheorems

PidsIn(es) ==
  {q \in Pids : \E p \in Procs : \E k \in DOMAIN es[p] : es[p][k].pid = q}

\* Every entry is of a child not yet waited for, of its process and index, and
\* no pid is twice in a list.
Linked(es, ch) ==
  \A p \in Procs : \A k \in DOMAIN es[p] :
    /\ ch[es[p][k].pid].st # "free"
    /\ ch[es[p][k].pid].grp = p
    /\ ch[es[p][k].pid].idx = es[p][k].idx
    /\ \A j \in DOMAIN es[p] : es[p][j].pid = es[p][k].pid => j = k

\* What a step did to a set of pids.
OneMore(Q, R, q) == R = Q \cup {q}
OneLess(Q, R, q) == R = Q \ {q} /\ q \in Q

TableOK(es, ch, run, live) ==
  /\ es \in [Procs -> Seq(Entries)]
  /\ ch \in [Pids -> ChildRecords]
  /\ run \in [Procs -> Int] /\ live \in Int
  /\ \A p \in Procs : run[p] = Len(es[p])
  /\ \A p \in Procs : Sorted(es[p])
  /\ Linked(es, ch)
  /\ live = Cardinality(PidsIn(es))

LEMMA ListFacts ==
  ASSUME NEW es \in [Procs -> Seq(Entries)], NEW p \in Procs
  PROVE  /\ es[p] \in Seq(Entries)
         /\ Len(es[p]) \in Nat /\ DOMAIN es[p] = 1..Len(es[p])
         /\ \A k \in DOMAIN es[p] : es[p][k] \in Entries
  <1>1. es[p] \in Seq(Entries)
    OBVIOUS
  <1> QED BY <1>1, LenProperties, ElementOfSeq

LEMMA PidsInFinite == ASSUME NEW es PROVE IsFiniteSet(PidsIn(es))
  <1>1. PidsIn(es) \in SUBSET Pids
    BY DEF PidsIn
  <1> QED BY <1>1, FS_Subset, PidsAssumption

\* Position k of the list of p is between the lesser and the greater indices.
Fits(es, p, k, e) ==
  /\ k \in 1..(Len(es[p]) + 1)
  /\ \A j \in 1..(k - 1) : es[p][j].idx <= e.idx
  /\ k <= Len(es[p]) => e.idx <= es[p][k].idx

\* The child of entry e is what the entry says; ch2 differs from ch in it only.
Describes(e, p, ch, ch2) ==
  /\ ch2 \in [Pids -> ChildRecords]
  /\ ch2[e.pid].st # "free" /\ ch2[e.pid].grp = p /\ ch2[e.pid].idx = e.idx
  /\ \A q \in Pids \ {e.pid} : ch2[q] = ch[q]

\* do_fork and parse_entry: an entry for a child in no list yet.
LEMMA TableInsert ==
  ASSUME NEW es, NEW ch, NEW run, NEW live, TableOK(es, ch, run, live),
         NEW p \in Procs, NEW e \in Entries, e.pid \notin PidsIn(es),
         NEW k, Fits(es, p, k, e), NEW ch2, Describes(e, p, ch, ch2)
  PROVE  LET es2 == [es EXCEPT ![p] = InsertAt(es[p], k, e)]
         IN  /\ TableOK(es2, ch2, [run EXCEPT ![p] = run[p] + 1], live + 1)
             /\ OneMore(PidsIn(es), PidsIn(es2), e.pid)
<1> DEFINE s == es[p]
           t == InsertAt(s, k, e)
           es2 == [es EXCEPT ![p] = t]
           run2 == [run EXCEPT ![p] = run[p] + 1]
           Old(j) == IF j < k THEN j ELSE j - 1
           New(j) == IF j < k THEN j ELSE j + 1
<1>1. /\ es \in [Procs -> Seq(Entries)] /\ run \in [Procs -> Int] /\ live \in Int
      /\ run[p] = Len(s) /\ Sorted(s) /\ live = Cardinality(PidsIn(es))
      /\ Linked(es, ch)
  BY DEF TableOK
<1>2. /\ s \in Seq(Entries) /\ Len(s) \in Nat /\ DOMAIN s = 1..Len(s)
      /\ \A j \in 1..Len(s) : s[j] \in Entries
      /\ k \in 1..(Len(s) + 1)
      /\ \A j \in 1..(k - 1) : s[j].idx <= e.idx
      /\ k <= Len(s) => e.idx <= s[k].idx
  BY <1>1, ListFacts DEF Fits
<1>15. /\ ch2 \in [Pids -> ChildRecords]
       /\ ch2[e.pid].st # "free" /\ ch2[e.pid].grp = p
       /\ ch2[e.pid].idx = e.idx
       /\ \A q \in Pids \ {e.pid} : ch2[q] = ch[q]
  BY DEF Describes
<1> HIDE DEF s
<1>3. /\ t \in Seq(Entries) /\ Len(t) = Len(s) + 1
      /\ \A j \in 1..(Len(s) + 1) :
           t[j] = IF j < k THEN s[j] ELSE IF j = k THEN e ELSE s[j - 1]
  BY <1>2, InsertAtIs
<1>4. DOMAIN t = 1..(Len(s) + 1)
  BY <1>3, LenProperties
<1>5. Sorted(t)
  <2>1. \A x \in Entries : x.idx \in Int
    BY DEF Entries
  <2> QED BY <1>1, <1>2, <2>1, SortedInsert
<1> HIDE DEF t
<1>6. /\ es2 \in [Procs -> Seq(Entries)] /\ es2[p] = t
      /\ \A r \in Procs \ {p} : es2[r] = es[r]
  BY <1>1, <1>3
<1> HIDE DEF es2
<1>7. \A j \in 1..(Len(s) + 1) :
        j # k => Old(j) \in 1..Len(s) /\ t[j] = s[Old(j)]
  BY <1>2, <1>3
<1>8. t[k] = e
  BY <1>2, <1>3
<1>9. \A j \in 1..Len(s) :
        New(j) \in 1..(Len(s) + 1) /\ New(j) # k /\ t[New(j)] = s[j]
  BY <1>2, <1>3
<1>10. PidsIn(es2) = PidsIn(es) \cup {e.pid}
  <2>1. ASSUME NEW q \in PidsIn(es2) PROVE q \in PidsIn(es) \cup {e.pid}
    <3>1. PICK r \in Procs : \E j \in DOMAIN es2[r] : es2[r][j].pid = q
      BY DEF PidsIn
    <3>2. PICK j \in DOMAIN es2[r] : es2[r][j].pid = q
      BY <3>1
    <3>3. CASE r # p
      BY <1>6, <3>2, <3>3 DEF PidsIn
    <3>4. CASE r = p /\ j = k
      BY <1>6, <1>8, <3>2, <3>4
    <3>5. CASE r = p /\ j # k
      <4>1. Old(j) \in DOMAIN s /\ s[Old(j)].pid = q
        BY <1>2, <1>4, <1>6, <1>7, <3>2, <3>5
      <4> HIDE DEF Old
      <4> QED BY <4>1 DEF PidsIn, s
    <3> QED BY <3>3, <3>4, <3>5
  <2>2. e.pid \in PidsIn(es2)
    <3>1. e.pid \in Pids
      BY DEF Entries
    <3>2. k \in DOMAIN es2[p] /\ es2[p][k].pid = e.pid
      BY <1>2, <1>4, <1>6, <1>8
    <3> QED BY <3>1, <3>2 DEF PidsIn
  <2>3. ASSUME NEW q \in PidsIn(es) PROVE q \in PidsIn(es2)
    <3>1. PICK r \in Procs : \E j \in DOMAIN es[r] : es[r][j].pid = q
      BY DEF PidsIn
    <3>2. PICK j \in DOMAIN es[r] : es[r][j].pid = q
      BY <3>1
    <3>3. CASE r # p
      BY <1>6, <3>2, <3>3 DEF PidsIn
    <3>4. CASE r = p
      <4>1. j \in 1..Len(s) /\ s[j].pid = q
        BY <1>2, <3>2, <3>4 DEF s
      <4>2. New(j) \in DOMAIN es2[p] /\ es2[p][New(j)].pid = q
        BY <1>4, <1>6, <1>9, <4>1
      <4> HIDE DEF New
      <4> QED BY <4>2 DEF PidsIn
    <3> QED BY <3>3, <3>4
  <2> QED BY <2>1, <2>2, <2>3
<1>11. Linked(es2, ch2)
  <2> SUFFICES ASSUME NEW r \in Procs, NEW i \in DOMAIN es2[r]
               PROVE  /\ ch2[es2[r][i].pid].st # "free"
                      /\ ch2[es2[r][i].pid].grp = r
                      /\ ch2[es2[r][i].pid].idx = es2[r][i].idx
                      /\ \A j \in DOMAIN es2[r] :
                           es2[r][j].pid = es2[r][i].pid => j = i
    BY DEF Linked
  <2>1. \A x \in Procs : \A j \in DOMAIN es[x] :
          es[x][j].pid \in PidsIn(es) /\ es[x][j].pid \in Pids \ {e.pid}
    BY <1>1, ListFacts DEF PidsIn, Entries
  <2>2. CASE r # p
    <3>1. es2[r] = es[r]
      BY <1>6, <2>2
    <3> QED BY <1>1, <1>15, <2>1, <3>1 DEF Linked
  <2>3. CASE r = p
    <3>1. \A j \in 1..Len(s) :
            /\ s[j].pid \in Pids \ {e.pid}
            /\ ch2[s[j].pid].st # "free" /\ ch2[s[j].pid].grp = p
            /\ ch2[s[j].pid].idx = s[j].idx
      <4>1. \A j \in DOMAIN es[p] :
              /\ es[p][j].pid \in Pids \ {e.pid}
              /\ ch[es[p][j].pid].st # "free" /\ ch[es[p][j].pid].grp = p
              /\ ch[es[p][j].pid].idx = es[p][j].idx
        BY <1>1, <2>1 DEF Linked
      <4>2. \A j \in 1..Len(s) :
              /\ s[j].pid \in Pids \ {e.pid}
              /\ ch[s[j].pid].st # "free" /\ ch[s[j].pid].grp = p
              /\ ch[s[j].pid].idx = s[j].idx
        BY <1>2, <4>1 DEF s
      <4> QED BY <1>15, <4>2
    <3>2. \A j, l \in 1..Len(s) : s[j].pid = s[l].pid => j = l
      <4>1. \A l, j \in DOMAIN es[p] : es[p][j].pid = es[p][l].pid => j = l
        BY <1>1 DEF Linked
      <4> QED BY <1>2, <4>1 DEF s
    <3>3. i \in 1..(Len(s) + 1) /\ es2[r] = t /\ DOMAIN es2[r] = 1..(Len(s) + 1)
      BY <1>4, <1>6, <2>3
    <3>4. CASE i = k
      <4>1. \A j \in 1..(Len(s) + 1) : t[j].pid = e.pid => j = k
        BY <1>7, <3>1
      <4> QED BY <1>8, <1>15, <2>3, <3>3, <3>4, <4>1
    <3>5. CASE i # k
      <4>1. Old(i) \in 1..Len(s) /\ t[i] = s[Old(i)]
        BY <1>7, <3>3, <3>5
      <4>2. ASSUME NEW j \in 1..(Len(s) + 1), t[j].pid = t[i].pid
            PROVE  j = i
        <5>1. j # k
          BY <1>8, <3>1, <4>1, <4>2
        <5>2. Old(j) \in 1..Len(s) /\ t[j] = s[Old(j)]
          BY <1>7, <5>1
        <5>3. Old(j) = Old(i)
          BY <3>2, <4>1, <4>2, <5>2
        <5> QED BY <1>2, <3>3, <3>5, <5>1, <5>3
      <4> HIDE DEF Old
      <4> QED BY <2>3, <3>1, <3>3, <4>1, <4>2
    <3> QED BY <3>4, <3>5
  <2> QED BY <2>2, <2>3
<1>12. live + 1 = Cardinality(PidsIn(es2))
  BY <1>1, <1>10, PidsInFinite, FS_AddElement
<1>13. /\ run2 \in [Procs -> Int] /\ live + 1 \in Int
       /\ \A r \in Procs : run2[r] = Len(es2[r]) /\ Sorted(es2[r])
  BY <1>1, <1>2, <1>3, <1>5, <1>6 DEF TableOK
<1>14. TableOK(es2, ch2, run2, live + 1)
  BY <1>6, <1>15, <1>11, <1>12, <1>13 DEF TableOK
<1> QED BY <1>10, <1>14 DEF es2, t, s, OneMore

\* ch2 differs from ch in the child of entry e only.
Leaves(e, ch, ch2) ==
  /\ ch2 \in [Pids -> ChildRecords]
  /\ \A q \in Pids \ {e.pid} : ch2[q] = ch[q]

\* decide_dead: the entry of a child just waited for.
LEMMA TableRemove ==
  ASSUME NEW es, NEW ch, NEW run, NEW live, TableOK(es, ch, run, live),
         NEW p \in Procs, NEW k \in DOMAIN es[p],
         NEW ch2, Leaves(es[p][k], ch, ch2)
  PROVE  LET es2 == [es EXCEPT ![p] = RemoveAt(es[p], k)]
         IN  /\ TableOK(es2, ch2, [run EXCEPT ![p] = run[p] - 1], live - 1)
             /\ OneLess(PidsIn(es), PidsIn(es2), es[p][k].pid)
<1> DEFINE s == es[p]
           gone == s[k].pid
           t == RemoveAt(s, k)
           es2 == [es EXCEPT ![p] = t]
           run2 == [run EXCEPT ![p] = run[p] - 1]
           Old(j) == IF j < k THEN j ELSE j + 1
           New(j) == IF j < k THEN j ELSE j - 1
<1>1. /\ es \in [Procs -> Seq(Entries)] /\ run \in [Procs -> Int] /\ live \in Int
      /\ run[p] = Len(s) /\ Sorted(s) /\ live = Cardinality(PidsIn(es))
      /\ Linked(es, ch)
  BY DEF TableOK
<1>2. /\ s \in Seq(Entries) /\ Len(s) \in Nat /\ DOMAIN s = 1..Len(s)
      /\ \A j \in 1..Len(s) : s[j] \in Entries
      /\ k \in 1..Len(s)
  BY <1>1, ListFacts
<1>14. /\ ch2 \in [Pids -> ChildRecords]
       /\ \A q \in Pids \ {gone} : ch2[q] = ch[q]
  BY DEF Leaves
<1>15. /\ \A j, l \in 1..Len(s) : s[j].pid = s[l].pid => j = l
       /\ \A j \in 1..Len(s) : s[j].pid \in Pids /\ ch[s[j].pid].grp = p
  <2>1. \A l \in DOMAIN es[p] :
          /\ ch[es[p][l].pid].grp = p
          /\ \A j \in DOMAIN es[p] : es[p][j].pid = es[p][l].pid => j = l
    BY <1>1 DEF Linked
  <2>2. /\ \A j, l \in 1..Len(s) : s[j].pid = s[l].pid => j = l
        /\ \A j \in 1..Len(s) : ch[s[j].pid].grp = p
    BY <1>2, <2>1
  <2> HIDE DEF s
  <2>3. \A j \in 1..Len(s) : s[j].pid \in Pids
    BY <1>2 DEF Entries
  <2> QED BY <2>2, <2>3
<1> HIDE DEF s
<1>3. /\ t \in Seq(Entries) /\ Len(t) = Len(s) - 1
      /\ \A j \in 1..(Len(s) - 1) : t[j] = IF j < k THEN s[j] ELSE s[j + 1]
  BY <1>2, RemoveAtIs
<1>4. DOMAIN t = 1..(Len(s) - 1)
  BY <1>3, LenProperties
<1>5. Sorted(t)
  BY <1>1, <1>2, SortedRemove
<1> HIDE DEF t
<1>6. /\ es2 \in [Procs -> Seq(Entries)] /\ es2[p] = t
      /\ \A r \in Procs \ {p} : es2[r] = es[r]
  BY <1>1, <1>3
<1> HIDE DEF es2
<1>7. \A j \in 1..(Len(s) - 1) :
        Old(j) \in 1..Len(s) /\ Old(j) # k /\ t[j] = s[Old(j)]
  BY <1>2, <1>3
<1>8. \A j \in 1..Len(s) :
        j # k => New(j) \in 1..(Len(s) - 1) /\ t[New(j)] = s[j]
  BY <1>2, <1>3
<1>9. gone \in PidsIn(es)
  BY <1>2, <1>15 DEF PidsIn, s
<1> HIDE DEF gone
<1>10. PidsIn(es2) = PidsIn(es) \ {gone}
  <2>1. ASSUME NEW q \in PidsIn(es2) PROVE q \in PidsIn(es) /\ q # gone
    <3>1. PICK r \in Procs : \E j \in DOMAIN es2[r] : es2[r][j].pid = q
      BY DEF PidsIn
    <3>2. PICK j \in DOMAIN es2[r] : es2[r][j].pid = q
      BY <3>1
    <3>3. CASE r # p
      <4>1. j \in DOMAIN es[r] /\ es[r][j].pid = q
        BY <1>6, <3>2, <3>3
      <4>2. q \in Pids /\ ch[q].grp = r
        BY <1>1, <2>1, <4>1 DEF Linked, PidsIn
      <4>3. ch[gone].grp = p
        BY <1>2, <1>15 DEF gone
      <4> QED BY <3>3, <4>1, <4>2, <4>3 DEF PidsIn
    <3>4. CASE r = p
      <4>1. j \in 1..(Len(s) - 1) /\ t[j].pid = q
        BY <1>4, <1>6, <3>2, <3>4
      <4>2. Old(j) \in 1..Len(s) /\ Old(j) # k /\ s[Old(j)].pid = q
        BY <1>7, <4>1
      <4> HIDE DEF Old
      <4>3. q # gone
        BY <1>2, <1>15, <4>2 DEF gone
      <4>4. q \in Pids /\ Old(j) \in DOMAIN es[p] /\ es[p][Old(j)].pid = q
        BY <1>2, <2>1, <4>2 DEF s, PidsIn
      <4> QED BY <4>3, <4>4 DEF PidsIn
    <3> QED BY <3>3, <3>4
  <2>2. ASSUME NEW q \in PidsIn(es), q # gone PROVE q \in PidsIn(es2)
    <3>1. PICK r \in Procs : \E j \in DOMAIN es[r] : es[r][j].pid = q
      BY DEF PidsIn
    <3>2. PICK j \in DOMAIN es[r] : es[r][j].pid = q
      BY <3>1
    <3>3. CASE r # p
      BY <1>6, <3>2, <3>3 DEF PidsIn
    <3>4. CASE r = p
      <4>1. j \in 1..Len(s) /\ s[j].pid = q /\ j # k
        BY <1>2, <2>2, <3>2, <3>4 DEF s, gone
      <4>2. New(j) \in DOMAIN es2[p] /\ es2[p][New(j)].pid = q
        BY <1>4, <1>6, <1>8, <4>1
      <4> HIDE DEF New
      <4> QED BY <4>2 DEF PidsIn
    <3> QED BY <3>3, <3>4
  <2> QED BY <2>1, <2>2
<1>11. Linked(es2, ch2)
  <2> SUFFICES ASSUME NEW r \in Procs, NEW i \in DOMAIN es2[r]
               PROVE  /\ ch2[es2[r][i].pid].st # "free"
                      /\ ch2[es2[r][i].pid].grp = r
                      /\ ch2[es2[r][i].pid].idx = es2[r][i].idx
                      /\ \A j \in DOMAIN es2[r] :
                           es2[r][j].pid = es2[r][i].pid => j = i
    BY DEF Linked
  <2>1. CASE r # p
    <3>1. es2[r] = es[r]
      BY <1>6, <2>1
    <3>2. es2[r][i].pid \in Pids
      BY <1>1, <3>1, ListFacts DEF Entries
    <3>3. es2[r][i].pid \in PidsIn(es2)
      BY <3>2 DEF PidsIn
    <3> QED BY <1>1, <1>10, <1>14, <3>1, <3>2, <3>3 DEF Linked
  <2>2. CASE r = p
    <3>1. i \in 1..(Len(s) - 1) /\ es2[r] = t /\ DOMAIN es2[r] = 1..(Len(s) - 1)
      BY <1>4, <1>6, <2>2
    <3>2. Old(i) \in 1..Len(s) /\ Old(i) # k /\ t[i] = s[Old(i)]
      BY <1>7, <3>1
    <3>3. ASSUME NEW j \in 1..(Len(s) - 1), t[j].pid = t[i].pid
          PROVE  j = i
      <4>1. Old(j) \in 1..Len(s) /\ t[j] = s[Old(j)]
        BY <1>7
      <4>2. Old(j) = Old(i)
        BY <1>15, <3>2, <3>3, <4>1
      <4> QED BY <1>2, <3>1, <4>2
    <3>4. \A l \in 1..Len(s) : /\ ch[s[l].pid].st # "free"
                               /\ ch[s[l].pid].grp = p
                               /\ ch[s[l].pid].idx = s[l].idx
      BY <1>1, <1>2 DEF Linked, s
    <3> HIDE DEF Old
    <3>5. t[i].pid \in Pids \ {gone}
      BY <1>2, <1>15, <3>2 DEF gone
    <3> QED BY <1>14, <2>2, <3>1, <3>2, <3>3, <3>4, <3>5
  <2> QED BY <2>1, <2>2
<1>12. live - 1 = Cardinality(PidsIn(es2))
  BY <1>1, <1>9, <1>10, PidsInFinite, FS_RemoveElement
<1>13. /\ run2 \in [Procs -> Int] /\ live - 1 \in Int
       /\ \A r \in Procs : run2[r] = Len(es2[r]) /\ Sorted(es2[r])
  <2>1. run[p] - 1 = Len(t) /\ run[p] - 1 \in Int /\ live - 1 \in Int
    BY <1>1, <1>2, <1>3
  <2>2. \A r \in Procs \ {p} : run[r] = Len(es[r]) /\ Sorted(es[r])
    BY DEF TableOK
  <2> QED BY <1>1, <1>5, <1>6, <2>1, <2>2
<1>16. TableOK(es2, ch2, run2, live - 1)
  BY <1>6, <1>14, <1>11, <1>12, <1>13 DEF TableOK
<1> QED BY <1>9, <1>10, <1>16 DEF es2, t, gone, s, OneLess

Relabelled(es, es2) ==
  /\ es2 \in [Procs -> Seq(Entries)]
  /\ \A p \in Procs : /\ Len(es2[p]) = Len(es[p])
                      /\ \A k \in DOMAIN es[p] : /\ es2[p][k].pid = es[p][k].pid
                                                /\ es2[p][k].idx = es[p][k].idx
StillChildren(es, ch, ch2) ==
  /\ ch2 \in [Pids -> ChildRecords]
  /\ \A q \in PidsIn(es) :
       /\ ch2[q].st # "free" \/ ch[q].st = "free"
       /\ ch2[q].grp = ch[q].grp /\ ch2[q].idx = ch[q].idx

\* The lists are relabelled (the marks of procman.c) or the children change
\* (exec, death, signals, time), and nothing of what ties them together does.
LEMMA TableSame ==
  ASSUME NEW es, NEW ch, NEW run, NEW live, TableOK(es, ch, run, live),
         NEW es2, Relabelled(es, es2), NEW ch2, StillChildren(es, ch, ch2)
  PROVE  TableOK(es2, ch2, run, live) /\ PidsIn(es2) = PidsIn(es)
<1>1. /\ es \in [Procs -> Seq(Entries)] /\ run \in [Procs -> Int] /\ live \in Int
      /\ \A p \in Procs : run[p] = Len(es[p])
      /\ \A p \in Procs : Sorted(es[p])
      /\ Linked(es, ch)
      /\ live = Cardinality(PidsIn(es))
  BY DEF TableOK
<1>8. /\ es2 \in [Procs -> Seq(Entries)] /\ ch2 \in [Pids -> ChildRecords]
      /\ \A p \in Procs : Len(es2[p]) = Len(es[p])
      /\ \A q \in PidsIn(es) :
           /\ ch2[q].st # "free" \/ ch[q].st = "free"
           /\ ch2[q].grp = ch[q].grp /\ ch2[q].idx = ch[q].idx
  BY DEF Relabelled, StillChildren
<1>2. \A p \in Procs : DOMAIN es2[p] = DOMAIN es[p]
  BY <1>1, <1>8, ListFacts
<1>7. \A p \in Procs : \A k \in DOMAIN es[p] :
        es2[p][k].pid = es[p][k].pid /\ es2[p][k].idx = es[p][k].idx
  BY DEF Relabelled
<1>3. PidsIn(es2) = PidsIn(es)
  <2>1. ASSUME NEW q \in Pids
        PROVE  (\E p \in Procs : \E k \in DOMAIN es2[p] : es2[p][k].pid = q)
                 <=> (\E p \in Procs : \E k \in DOMAIN es[p] : es[p][k].pid = q)
    BY <1>2, <1>7
  <2> QED BY <2>1 DEF PidsIn
<1>4. \A p \in Procs : Sorted(es2[p])
  BY <1>1, <1>2, <1>7 DEF Sorted
<1>5. Linked(es2, ch2)
  <2>1. \A p \in Procs : \A k \in DOMAIN es[p] : es[p][k].pid \in PidsIn(es)
    BY <1>1, ListFacts DEF PidsIn, Entries
  <2>2. ASSUME NEW p \in Procs, NEW k \in DOMAIN es2[p]
        PROVE  /\ ch2[es2[p][k].pid].st # "free"
               /\ ch2[es2[p][k].pid].grp = p
               /\ ch2[es2[p][k].pid].idx = es2[p][k].idx
               /\ \A j \in DOMAIN es2[p] :
                    es2[p][j].pid = es2[p][k].pid => j = k
    <3>1. /\ k \in DOMAIN es[p]
          /\ es2[p][k].pid = es[p][k].pid /\ es2[p][k].idx = es[p][k].idx
      BY <1>2, <1>7
    <3>2. /\ ch[es[p][k].pid].st # "free" /\ ch[es[p][k].pid].grp = p
          /\ ch[es[p][k].pid].idx = es[p][k].idx
          /\ \A j \in DOMAIN es[p] : es[p][j].pid = es[p][k].pid => j = k
      BY <1>1, <3>1 DEF Linked
    <3> QED BY <1>2, <1>7, <1>8, <2>1, <3>1, <3>2
  <2> QED BY <2>2 DEF Linked
<1>6. \A p \in Procs : run[p] = Len(es2[p])
  BY <1>1, <1>8
<1> QED BY <1>1, <1>8, <1>3, <1>4, <1>5, <1>6 DEF TableOK

\* The same for the marks of one list.
LEMMA TableMark ==
  ASSUME NEW es \in [Procs -> Seq(Entries)], NEW p \in Procs, NEW K,
         NEW d \in Dead
  PROVE  /\ MarkedAt(es[p], K, d) \in Seq(Entries)
         /\ Len(MarkedAt(es[p], K, d)) = Len(es[p])
         /\ \A k \in DOMAIN es[p] :
              /\ MarkedAt(es[p], K, d)[k].pid = es[p][k].pid
              /\ MarkedAt(es[p], K, d)[k].idx = es[p][k].idx
<1> DEFINE s == es[p]
           r == MarkedAt(s, K, d)
<1>1. /\ Len(s) \in Nat /\ DOMAIN s = 1..Len(s)
      /\ \A k \in 1..Len(s) : s[k] \in Entries
  BY ListFacts
<1> HIDE DEF s
<1>2. \A k \in 1..Len(s) :
        r[k] \in Entries /\ r[k].pid = s[k].pid /\ r[k].idx = s[k].idx
  BY <1>1 DEF MarkedAt, Entries
<1>3. r \in [1..Len(s) -> Entries]
  BY <1>1, <1>2 DEF MarkedAt
<1>4. r \in Seq(Entries)
  BY <1>1, <1>3, SeqDef
<1>5. Len(r) = Len(s)
  BY <1>1, <1>3, <1>4, LenProperties
<1> QED BY <1>1, <1>2, <1>4, <1>5 DEF s

-----------------------------------------------------------------------------
(***************************************************************************)
(* The table of the variables, and the steps both supervisors share        *)
(***************************************************************************)
TableNow == TableOK(entries, child, running, live_processes)

LEMMA TrackedIs == Tracked = PidsIn(entries)
  BY DEF Tracked, PidsOf, Holds, PidsIn

LEMMA TrackedNextIs == Tracked' = PidsIn(entries')
  BY DEF Tracked, PidsOf, Holds, PidsIn

LEMMA TrackedInPids == Tracked \subseteq Pids
  BY DEF Tracked, PidsOf

\* A step that leaves the lists and the children alone.
LEMMA Calm ==
  ASSUME TableNow, UNCHANGED <<table, child>>
  PROVE  /\ TableOK(entries', child', running', live_processes')
         /\ Tracked' = Tracked
  BY TrackedIs, TrackedNextIs DEF table, TableNow

\* A step of the kernel's: the children change, and stay what they are children
\* of; none of those in a list is waited for.
LEMMA Outside ==
  ASSUME TableNow,
         UNCHANGED table, child' \in [Pids -> ChildRecords],
         \A q \in Tracked : /\ child'[q].st # "free" \/ child[q].st = "free"
                            /\ child'[q].grp = child[q].grp
                            /\ child'[q].idx = child[q].idx
  PROVE  /\ TableOK(entries', child', running', live_processes')
         /\ Tracked' = Tracked
  <1>1. /\ TableOK(entries, child', running, live_processes)
        /\ PidsIn(entries) = PidsIn(entries)
    <2>1. entries \in [Procs -> Seq(Entries)]
      BY DEF TableNow, TableOK
    <2>2. Relabelled(entries, entries) /\ StillChildren(entries, child, child')
      BY <2>1, TrackedIs DEF Relabelled, StillChildren
    <2> QED BY <2>2, TableSame DEF TableNow
  <1> QED BY <1>1, TrackedIs, TrackedNextIs DEF table

\* do_fork, from any table that agrees.
LEMMA Forking ==
  ASSUME NEW es, NEW ch, NEW run, NEW live, TableOK(es, ch, run, live),
         NEW p \in Procs, ForkInto(p, es, ch)
  PROVE  /\ TableOK(entries', child', [run EXCEPT ![p] = run[p] + 1], live + 1)
         /\ \E q \in Pids :
              /\ ch[q].st = "free" /\ child'[q].st = "forked"
              /\ PidsIn(entries') = PidsIn(es) \cup {q}
              /\ \A r \in Pids \ {q} : child'[r] = ch[r]
  <1>1. PICK pid \in Pids, k \in 1..(Len(es[p]) + 1) :
          /\ ch[pid].st = "free"
          /\ ForkStopsAt(es[p], k)
          /\ entries' = [es EXCEPT ![p] =
               InsertAt(es[p], k, Entry(pid, SlotIndex(es[p], k)))]
          /\ child' = [ch EXCEPT ![pid] = NewChild(p, SlotIndex(es[p], k))]
    BY DEF ForkInto
  <1> DEFINE i == SlotIndex(es[p], k)
             e == Entry(pid, i)
  <1>2. /\ es \in [Procs -> Seq(Entries)] /\ ch \in [Pids -> ChildRecords]
        /\ Sorted(es[p]) /\ Linked(es, ch)
    BY DEF TableOK
  <1>3. \A x \in Entries : x.idx \in Nat
    BY DEF Entries
  <1>4. /\ i \in Nat
        /\ \A j \in 1..(k - 1) : es[p][j].idx < i
        /\ \A j \in k..Len(es[p]) : es[p][j].idx > i
    BY <1>1, <1>2, <1>3, ForkPosition
  <1> HIDE DEF i
  <1>5. e \in Entries /\ e.pid = pid /\ e.idx = i
    BY <1>4 DEF Entry, Entries, Dead
  <1>6. pid \notin PidsIn(es)
    BY <1>1, <1>2 DEF PidsIn, Linked
  <1>7. Len(es[p]) \in Nat /\ \A j \in 1..Len(es[p]) : es[p][j].idx \in Nat
    BY <1>2, <1>3, ListFacts
  <1>8. /\ \A j \in 1..(k - 1) : es[p][j].idx <= i
        /\ k <= Len(es[p]) => i <= es[p][k].idx
    BY <1>1, <1>4, <1>7
  <1>9. /\ child' \in [Pids -> ChildRecords]
        /\ child'[pid] = NewChild(p, i)
        /\ \A q \in Pids \ {pid} : child'[q] = ch[q]
    BY <1>1, <1>2, <1>4 DEF NewChild, ChildRecords, ChildStates, i
  <1>10. /\ child'[pid].st = "forked" /\ child'[pid].grp = p
         /\ child'[pid].idx = i
    BY <1>9 DEF NewChild
  <1>11. entries' = [es EXCEPT ![p] = InsertAt(es[p], k, e)]
    BY <1>1 DEF i
  <1> HIDE DEF e
  <1>13. Describes(e, p, ch, child') /\ e.pid \notin PidsIn(es)
    BY <1>5, <1>6, <1>9, <1>10 DEF Describes
  <1>14. Fits(es, p, k, e)
    BY <1>1, <1>5, <1>8 DEF Fits
  <1>12. /\ TableOK(entries', child', [run EXCEPT ![p] = run[p] + 1], live + 1)
         /\ OneMore(PidsIn(es), PidsIn(entries'), e.pid)
    BY <1>5, <1>11, <1>13, <1>14, TableInsert
  <1> QED BY <1>1, <1>5, <1>9, <1>10, <1>12 DEF OneMore

\* kill(): no child changes in what the lists say of it.
LEMMA KilledIs ==
  ASSUME NEW Q, child \in [Pids -> ChildRecords]
  PROVE  /\ Killed(Q) \in [Pids -> ChildRecords]
         /\ \A q \in Pids : /\ Killed(Q)[q].st = child[q].st
                            /\ Killed(Q)[q].grp = child[q].grp
                            /\ Killed(Q)[q].idx = child[q].idx
  BY DEF Killed, ChildRecords

\* A step that relabels entries and signals children, and leaves the rest of
\* what the invariant speaks of.
LEMMA Marking ==
  ASSUME TableNow, NEW Q, Relabelled(entries, entries'), child' = Killed(Q),
         UNCHANGED <<running, live_processes>>
  PROVE  /\ TableOK(entries', child', running', live_processes')
         /\ Tracked' = Tracked
         /\ \A q \in Tracked : child'[q].st = child[q].st
<1>1. TableOK(entries, child, running, live_processes)
      /\ child \in [Pids -> ChildRecords]
  BY DEF TableNow, TableOK
<1>2. StillChildren(entries, child, child')
  BY <1>1, KilledIs DEF StillChildren, PidsIn
<1>3. /\ TableOK(entries', child', running, live_processes)
      /\ PidsIn(entries') = PidsIn(entries)
  BY <1>1, <1>2, TableSame
<1> QED BY <1>1, <1>3, KilledIs, TrackedInPids, TrackedIs, TrackedNextIs

\* The marks of all lists at once.
LEMMA MarkingAll ==
  ASSUME TableNow, NEW K, NEW d \in Dead,
         entries' = [p \in Procs |-> MarkedAt(entries[p], K[p], d)]
  PROVE  Relabelled(entries, entries')
<1>1. entries \in [Procs -> Seq(Entries)]
  BY DEF TableNow, TableOK
<1>2. ASSUME NEW p \in Procs
      PROVE  /\ entries'[p] = MarkedAt(entries[p], K[p], d)
             /\ entries'[p] \in Seq(Entries)
             /\ Len(entries'[p]) = Len(entries[p])
             /\ \A k \in DOMAIN entries[p] :
                  /\ entries'[p][k].pid = entries[p][k].pid
                  /\ entries'[p][k].idx = entries[p][k].idx
  <2>1. entries'[p] = MarkedAt(entries[p], K[p], d)
    OBVIOUS
  <2>2. LET t == MarkedAt(entries[p], K[p], d) IN
        /\ t \in Seq(Entries) /\ Len(t) = Len(entries[p])
        /\ \A k \in DOMAIN entries[p] :
             t[k].pid = entries[p][k].pid /\ t[k].idx = entries[p][k].idx
    BY <1>1, TableMark
  <2> QED BY <2>1, <2>2
<1>3. entries' \in [Procs -> Seq(Entries)]
  BY <1>2
<1> QED BY <1>2, <1>3 DEF Relabelled

\* Nothing is marked.
LEMMA NotMarking ==
  ASSUME TableNow, UNCHANGED entries
  PROVE  Relabelled(entries, entries')
  BY DEF TableNow, TableOK, Relabelled

MarkCommand ==
  \/ RestartProcesses \/ StopProcesses
  \/ ShrinkProcesses("decr") \/ ShrinkProcesses("min")
  \/ NorestartProcesses \/ SignalProcesses \/ StopSupervisor

Marks == \E Q : /\ Relabelled(entries, entries')
                /\ child' = Killed(Q)
                /\ UNCHANGED <<running, live_processes>>

\* The commands of procman.c that fork nothing mark and signal.
LEMMA MarkingActions ==
  ASSUME TableNow, MarkCommand
  PROVE  Marks
<1>2. CASE RestartProcesses
  <2>1. PICK G \in Groups :
          /\ entries' = [p \in Procs |->
               MarkedAt(entries[p], AllOf(G, p), "RESTART")]
          /\ child' = Killed(PidsOf(G))
          /\ UNCHANGED <<running, live_processes>>
    BY <1>2 DEF RestartProcesses
  <2>2. Relabelled(entries, entries')
    <3> DEFINE K == [p \in Procs |-> AllOf(G, p)]
    <3>1. entries' = [p \in Procs |-> MarkedAt(entries[p], K[p], "RESTART")]
      BY <2>1
    <3> HIDE DEF K
    <3> QED BY <3>1, MarkingAll DEF Dead
  <2> QED BY <2>1, <2>2 DEF Marks
<1>3. CASE StopProcesses
  <2>1. PICK G \in Groups :
          /\ entries' = [p \in Procs |-> MarkedAt(entries[p], AllOf(G, p), "STOP")]
          /\ child' = Killed(PidsOf(G))
          /\ UNCHANGED <<running, live_processes>>
    BY <1>3 DEF StopProcesses
  <2>2. Relabelled(entries, entries')
    <3> DEFINE K == [p \in Procs |-> AllOf(G, p)]
    <3>1. entries' = [p \in Procs |-> MarkedAt(entries[p], K[p], "STOP")]
      BY <2>1
    <3> HIDE DEF K
    <3> QED BY <3>1, MarkingAll DEF Dead
  <2> QED BY <2>1, <2>2 DEF Marks
<1>4. ASSUME NEW op, ShrinkProcesses(op)
      PROVE  Marks
  <2>1. PICK G \in Groups :
          /\ entries' = [p \in Procs |->
               MarkedAt(entries[p], Spare(op, G, p), "STOP")]
          /\ \E Q : child' = Killed(Q)
          /\ UNCHANGED <<running, live_processes>>
    BY <1>4 DEF ShrinkProcesses
  <2>2. Relabelled(entries, entries')
    <3> DEFINE K == [p \in Procs |-> Spare(op, G, p)]
    <3>1. entries' = [p \in Procs |-> MarkedAt(entries[p], K[p], "STOP")]
      BY <2>1
    <3> HIDE DEF K
    <3> QED BY <3>1, MarkingAll DEF Dead
  <2> QED BY <2>1, <2>2 DEF Marks
<1>5. CASE NorestartProcesses
  <2>1. PICK Q \in Instances :
          entries' = [p \in Procs |-> MarkedAt(entries[p],
            {k \in DOMAIN entries[p] : entries[p][k].pid \in Q}, "STOP")]
    BY <1>5 DEF NorestartProcesses
  <2>2. Relabelled(entries, entries')
    <3> DEFINE K == [p \in Procs |->
                      {k \in DOMAIN entries[p] : entries[p][k].pid \in Q}]
    <3>1. entries' = [p \in Procs |-> MarkedAt(entries[p], K[p], "STOP")]
      BY <2>1
    <3> HIDE DEF K
    <3> QED BY <3>1, MarkingAll DEF Dead
  <2>3. child' = Killed({})
    <3>1. child \in [Pids -> ChildRecords]
      BY DEF TableNow, TableOK
    <3> QED BY <1>5, <3>1 DEF NorestartProcesses, Killed
  <2> QED BY <1>5, <2>2, <2>3 DEF Marks, NorestartProcesses
<1>6. CASE SignalProcesses
  BY <1>6, NotMarking DEF SignalProcesses, Marks
<1>7. CASE StopSupervisor
  BY <1>7, NotMarking DEF StopSupervisor, SendAll, Marks
<1> QED BY <1>2, <1>3, <1>4, <1>5, <1>6, <1>7 DEF MarkCommand

\* Waiting for a child makes its record free, and touches no other.
LEMMA ReapedIs ==
  ASSUME NEW e, e.pid \in Pids, child \in [Pids -> ChildRecords]
  PROVE  /\ Leaves(e, child, Reaped(e.pid))
         /\ Reaped(e.pid)[e.pid].st = "free"
<1>1. Free \in ChildRecords /\ Free.st = "free"
  BY ProcsAssumption DEF Free, ChildRecords, ChildStates
<1> QED BY <1>1 DEF Leaves, Reaped

\* The table decide_dead forks into: without the entry, with the child reaped.
LEMMA WithoutOK ==
  ASSUME TableNow, NEW p \in Procs, NEW k \in DOMAIN entries[p]
  PROVE  /\ entries[p][k].pid \in Pids
         /\ TableOK(Without(p, k), Reaped(entries[p][k].pid),
                    [running EXCEPT ![p] = running[p] - 1], live_processes - 1)
<1>1. /\ TableOK(entries, child, running, live_processes)
      /\ child \in [Pids -> ChildRecords] /\ entries \in [Procs -> Seq(Entries)]
  BY DEF TableNow, TableOK
<1>2. entries[p][k].pid \in Pids
  BY <1>1, ListFacts DEF Entries
<1> QED BY <1>1, <1>2, ReapedIs, TableRemove DEF Without

\* What an entry removed leaves of a list.
LEMMA WithoutIs ==
  ASSUME TableNow, NEW p \in Procs, NEW k \in DOMAIN entries[p]
  PROVE  /\ Len(Without(p, k)[p]) = Len(entries[p]) - 1
         /\ \A j \in DOMAIN Without(p, k)[p] :
              \E i \in DOMAIN entries[p] : Without(p, k)[p][j] = entries[p][i]
         /\ \A r \in Procs \ {p} : Without(p, k)[r] = entries[r]
<1>1. entries \in [Procs -> Seq(Entries)]
  BY DEF TableNow, TableOK
<1>2. /\ entries[p] \in Seq(Entries) /\ DOMAIN entries[p] = 1..Len(entries[p])
      /\ Len(entries[p]) \in Nat
  BY <1>1, ListFacts
<1>3. Without(p, k)[p] = RemoveAt(entries[p], k)
  BY <1>1 DEF Without
<1>4. /\ RemoveAt(entries[p], k) \in Seq(Entries)
      /\ Len(RemoveAt(entries[p], k)) = Len(entries[p]) - 1
      /\ \A j \in 1..(Len(entries[p]) - 1) : RemoveAt(entries[p], k)[j] =
           IF j < k THEN entries[p][j] ELSE entries[p][j + 1]
  BY <1>2, RemoveAtIs
<1>5. DOMAIN RemoveAt(entries[p], k) = 1..(Len(entries[p]) - 1)
  BY <1>4, LenProperties
<1>6. \A r \in Procs \ {p} : Without(p, k)[r] = entries[r]
  BY <1>1 DEF Without
<1>7. ASSUME NEW j \in 1..(Len(entries[p]) - 1)
      PROVE  \E i \in DOMAIN entries[p] :
               RemoveAt(entries[p], k)[j] = entries[p][i]
  <2>1. CASE j < k
    <3>1. j \in DOMAIN entries[p]
      BY <1>2
    <3>2. RemoveAt(entries[p], k)[j] = entries[p][j]
      BY <1>4, <2>1
    <3> QED BY <3>1, <3>2
  <2>2. CASE ~ (j < k)
    <3>1. j + 1 \in DOMAIN entries[p]
      BY <1>2
    <3> QED BY <1>4, <2>2, <3>1
  <2> QED BY <2>1, <2>2
<1> QED BY <1>3, <1>4, <1>5, <1>6, <1>7

\* do_fork forks one child, and gives it the place found for it.
ForkedAt(es, p, q, k) ==
  /\ ForkStopsAt(es[p], k)
  /\ entries' = [es EXCEPT ![p] =
       InsertAt(es[p], k, Entry(q, SlotIndex(es[p], k)))]

LEMMA ForkedIs ==
  ASSUME NEW es, NEW ch, NEW p \in Procs, ForkInto(p, es, ch),
         es \in [Procs -> Seq(Entries)], ch \in [Pids -> ChildRecords],
         NEW q \in Pids, child'[q].st = "forked", ch[q].st # "forked"
  PROVE  \E k \in 1..(Len(es[p]) + 1) :
           ch[q].st = "free" /\ ForkedAt(es, p, q, k)
<1>1. PICK pid \in Pids, k \in 1..(Len(es[p]) + 1) :
        /\ ch[pid].st = "free"
        /\ ForkStopsAt(es[p], k)
        /\ entries' = [es EXCEPT ![p] =
             InsertAt(es[p], k, Entry(pid, SlotIndex(es[p], k)))]
        /\ child' = [ch EXCEPT ![pid] = NewChild(p, SlotIndex(es[p], k))]
  BY DEF ForkInto
<1>2. q = pid
  BY <1>1
<1> QED BY <1>1, <1>2 DEF ForkedAt

\* What a fork makes of a list: the new entry at its place, between the others.
LEMMA ForkedList ==
  ASSUME NEW es, NEW ch, NEW run, NEW live, TableOK(es, ch, run, live),
         NEW p \in Procs, NEW q \in Pids,
         NEW k \in 1..(Len(es[p]) + 1), ForkedAt(es, p, q, k)
  PROVE  /\ Len(es[p]) \in Nat /\ DOMAIN es[p] = 1..Len(es[p])
         /\ DOMAIN entries'[p] = 1..(Len(es[p]) + 1)
         /\ Len(entries'[p]) = Len(es[p]) + 1
         /\ entries'[p][k] = Entry(q, SlotIndex(es[p], k))
         /\ \A j \in 1..(k - 1) : entries'[p][j] = es[p][j]
         /\ \A j \in (k + 1)..(Len(es[p]) + 1) : entries'[p][j] = es[p][j - 1]
         /\ \A r \in Procs \ {p} : entries'[r] = es[r]
         /\ SlotIndex(es[p], k) \in Nat
         /\ \A j \in 1..Len(es[p]) : es[p][j].idx # SlotIndex(es[p], k)
<1>1. /\ es \in [Procs -> Seq(Entries)] /\ Sorted(es[p])
      /\ es[p] \in Seq(Entries) /\ Len(es[p]) \in Nat
      /\ DOMAIN es[p] = 1..Len(es[p])
      /\ \A j \in 1..Len(es[p]) : es[p][j].idx \in Nat
  BY ListFacts DEF TableOK, Entries
<1>2. /\ SlotIndex(es[p], k) \in Nat
      /\ \A j \in 1..(k - 1) : es[p][j].idx < SlotIndex(es[p], k)
      /\ \A j \in k..Len(es[p]) : es[p][j].idx > SlotIndex(es[p], k)
  <2>1. \A x \in Entries : x.idx \in Nat
    BY DEF Entries
  <2> QED BY <1>1, <2>1, ForkPosition DEF ForkedAt
<1> DEFINE e == Entry(q, SlotIndex(es[p], k))
           t == InsertAt(es[p], k, e)
<1>3. e \in Entries
  BY <1>2 DEF Entry, Entries, Dead
<1> HIDE DEF e
<1>4. /\ t \in Seq(Entries) /\ Len(t) = Len(es[p]) + 1
      /\ \A j \in 1..(Len(es[p]) + 1) : t[j] =
           IF j < k THEN es[p][j] ELSE IF j = k THEN e ELSE es[p][j - 1]
  <2> DEFINE u == es[p]
  <2>1. u \in Seq(Entries) /\ k \in 1..(Len(u) + 1)
    BY <1>1
  <2> HIDE DEF u
  <2>2. /\ InsertAt(u, k, e) \in Seq(Entries)
        /\ Len(InsertAt(u, k, e)) = Len(u) + 1
        /\ \A j \in 1..(Len(u) + 1) : InsertAt(u, k, e)[j] =
             IF j < k THEN u[j] ELSE IF j = k THEN e ELSE u[j - 1]
    BY <1>3, <2>1, InsertAtIs
  <2> QED BY <2>2 DEF u
<1>5. /\ entries'[p] = t /\ \A r \in Procs \ {p} : entries'[r] = es[r]
  BY <1>1 DEF e, ForkedAt
<1> HIDE DEF t
<1>6. DOMAIN t = 1..(Len(es[p]) + 1)
  BY <1>4, LenProperties
<1>7. \A j \in 1..Len(es[p]) : es[p][j].idx # SlotIndex(es[p], k)
  BY <1>1, <1>2
<1>8. /\ t[k] = e
      /\ \A j \in 1..(k - 1) : t[j] = es[p][j]
      /\ \A j \in (k + 1)..(Len(es[p]) + 1) : t[j] = es[p][j - 1]
  BY <1>1, <1>4
<1>9. t[k] = Entry(q, SlotIndex(es[p], k))
  BY <1>8 DEF e
<1> QED BY <1>1, <1>2, <1>4, <1>5, <1>6, <1>7, <1>8, <1>9

\* The same for do_fork as a whole.
LEMMA ForkGrows ==
  ASSUME NEW es, NEW ch, NEW run, NEW live, TableOK(es, ch, run, live),
         NEW p \in Procs, ForkInto(p, es, ch)
  PROVE  /\ Len(entries'[p]) = Len(es[p]) + 1
         /\ \A r \in Procs \ {p} : entries'[r] = es[r]
<1>1. PICK q \in Pids, k \in 1..(Len(es[p]) + 1) :
        ForkedAt(es, p, q, k)
  BY DEF ForkInto, ForkedAt
<1> QED BY <1>1, ForkedList

\* A fork of a loop: the table has one child more.
LEMMA ForkAdds ==
  ASSUME TableNow, NEW p \in Procs, Fork(p)
  PROVE  /\ TableOK(entries', child', running', live_processes')
         /\ \E q \in Pids :
              /\ child[q].st = "free" /\ child'[q].st = "forked"
              /\ Tracked' = Tracked \cup {q}
              /\ \A r \in Pids \ {q} : child'[r] = child[r]
<1>1. TableOK(entries, child, running, live_processes)
  BY DEF TableNow
<1>2. ForkInto(p, entries, child)
  BY DEF Fork
<1>3. /\ TableOK(entries', child', [running EXCEPT ![p] = running[p] + 1],
                 live_processes + 1)
      /\ \E q \in Pids :
           /\ child[q].st = "free" /\ child'[q].st = "forked"
           /\ PidsIn(entries') = PidsIn(entries) \cup {q}
           /\ \A r \in Pids \ {q} : child'[r] = child[r]
  BY <1>1, <1>2, Forking, SMTT(30)
<1>4. /\ running' = [running EXCEPT ![p] = running[p] + 1]
      /\ live_processes' = live_processes + 1
  BY DEF Fork
<1> QED BY <1>3, <1>4, TrackedIs, TrackedNextIs

\* decide_dead: the entry goes with its child, or another takes its place.
LEMMA EntryRemoved ==
  ASSUME TableNow, NEW p \in Procs, NEW k \in DOMAIN entries[p],
         entries' = Without(p, k), child' = Reaped(entries[p][k].pid),
         running' = [running EXCEPT ![p] = running[p] - 1],
         live_processes' = live_processes - 1
  PROVE  /\ TableOK(entries', child', running', live_processes')
         /\ OneLess(Tracked, Tracked', entries[p][k].pid)
<1>1. /\ entries \in [Procs -> Seq(Entries)] /\ child \in [Pids -> ChildRecords]
      /\ entries[p][k].pid \in Pids
  BY ListFacts DEF TableNow, TableOK, Entries
<1> QED BY <1>1, ReapedIs, TableRemove, TrackedIs, TrackedNextIs
        DEF Without, TableNow

LEMMA EntryReplaced ==
  ASSUME TableNow, NEW p \in Procs, NEW k \in DOMAIN entries[p],
         ForkInto(p, Without(p, k), Reaped(entries[p][k].pid)),
         UNCHANGED <<running, live_processes>>
  PROVE  /\ TableOK(entries', child', running', live_processes')
         /\ \E q \in Pids :
              /\ Reaped(entries[p][k].pid)[q].st = "free"
              /\ child'[q].st = "forked"
              /\ Tracked' = (Tracked \ {entries[p][k].pid}) \cup {q}
              /\ \A r \in Pids \ {q} : child'[r] = Reaped(entries[p][k].pid)[r]
<1> DEFINE e == entries[p][k]
           es == Without(p, k)
           ch == Reaped(e.pid)
           run == [running EXCEPT ![p] = running[p] - 1]
           run2 == [run EXCEPT ![p] = run[p] + 1]
           live2 == live_processes - 1 + 1
<1>1. /\ TableOK(entries, child, running, live_processes)
      /\ child \in [Pids -> ChildRecords] /\ entries \in [Procs -> Seq(Entries)]
      /\ running \in [Procs -> Int] /\ live_processes \in Int
      /\ e.pid \in Pids
  BY WithoutOK DEF TableNow, TableOK
<1>2. /\ TableOK(es, ch, run, live_processes - 1)
      /\ OneLess(PidsIn(entries), PidsIn(es), e.pid)
  BY <1>1, ReapedIs, TableRemove DEF Without
<1>3. run2 = running /\ live2 = live_processes
  <2>1. run2 \in [Procs -> Int] /\ \A r \in Procs : run2[r] = running[r]
    BY <1>1
  <2> HIDE DEF run2
  <2>2. run2 = running
    BY <1>1, <2>1
  <2> QED BY <1>1, <2>2
<1>4. ForkInto(p, es, ch)
  OBVIOUS
<1> HIDE DEF run, es, ch
<1>5. /\ TableOK(entries', child', run2, live2)
      /\ \E q \in Pids :
           /\ ch[q].st = "free" /\ child'[q].st = "forked"
           /\ PidsIn(entries') = PidsIn(es) \cup {q}
           /\ \A r \in Pids \ {q} : child'[r] = ch[r]
  BY <1>2, <1>4, Forking
<1> HIDE DEF run2, live2
<1> QED BY <1>2, <1>3, <1>5, TrackedIs, TrackedNextIs DEF OneLess, ch
=============================================================================
