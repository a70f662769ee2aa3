-------------------------- MODULE SupervisorProofs --------------------------
(***************************************************************************)
(* No child is lost, none is given an index in use, none is left when      *)
(* bossd exits, and no process is slept on, for every value of the         *)
(* constants.  All of it follows from one invariant: what bossd remembers  *)
(* and what the kernel has agree on which children are still alive.  At    *)
(* the end, bossd implements Instances.                                    *)
(***************************************************************************)
EXTENDS BossdProofs, RefinementProofs

\* The loops of procman.c and of main_loop go over configured processes.
JobInConf == job.todo \subseteq conf.names

\* The loop condition of main_loop: live_processes counts the lists.
ExitedEmpty == pc = "exited" => Tracked = {}

\* A process main_loop's pass is through with runs, is down, is waited for, or
\* could not be forked.
CoveredBy(p) ==
  running[p] > 0 \/ want_down[p] \/ p \in waiting \/ p \in refused
PassCovers == pc = "pass" => \A p \in conf.names \ job.todo : CoveredBy(p)

\* What the loops of bossd keep, beside IInv ...
LoopsOK == JobInConf /\ ExitedEmpty /\ PassCovers /\ NoGroupForgotten
\* ... and the whole invariant.
SInv == IInv /\ LoopsOK /\ NoLostChild /\ DuplicateOnlyByOrphan

LEMMA InitSInv == Init => SInv
<1> SUFFICES ASSUME Init PROVE SInv
  OBVIOUS
<1>1. \A q \in Pids : ~ Alive(q)
  BY DEF Init, Alive, Free
<1>2. LoopsOK /\ NoLostChild
  BY DEF Init, LoopsOK, JobInConf, ExitedEmpty, PassCovers, NoGroupForgotten,
         NoLostChild, NoJob
<1> QED BY <1>1, <1>2, InitInv DEF SInv, DuplicateOnlyByOrphan

-----------------------------------------------------------------------------
\* What a step leaves of bossd's knowledge of its children.
Remembers == UNCHANGED <<conf, scan, orphan>>

\* Every step is of one of seven kinds: the start, the re-exec, a step of the
\* recovery, the two kinds of reaping, a fork of a loop, and all the others.
LEMMA SupervisorKinds ==
  ASSUME IInv, [Next]_vars
  PROVE  \/ InitSignals
         \/ ReExec
         \/ \E q \in Pids : RecoverStep(q)
         \/ \E p \in Procs : \E k \in DOMAIN entries[p] : ReapTracked(p, k)
         \/ \E q \in Pids : ReapUnknown(q)
         \/ \E p \in Procs : Starts(p) /\ Remembers
         \/ Settles /\ Remembers /\ \A q \in Pids : SameChild(q)
<1> SUFFICES ASSUME ~ InitSignals, ~ ReExec,
                    ~ \E q \in Pids : RecoverStep(q),
                    ~ \E p \in Procs : \E k \in DOMAIN entries[p] :
                        ReapTracked(p, k),
                    ~ \E q \in Pids : ReapUnknown(q)
             PROVE  Remembers
  BY StepKinds DEF Settles
<1>1. CASE Supervisor
  BY <1>1
     DEF Supervisor, Reap, KilledByPending, ControlLocked, RecoverDone,
         GrowStep, GrowDone, LoopExit, LoopTop, PassStep, PassDone,
         PollReturns, ControlDone, ReadInt, ReadTerm, ReadChld, SignalsDone,
         ReapDone, Remembers, bossdVars
<1>2. CASE Operator
  BY <1>2
     DEF Operator, PollControl, ControlCommand, RestartProcesses, StopProcesses,
         ShrinkProcesses, NorestartProcesses, SignalProcesses, StopSupervisor,
         GrowProcesses, Remembers, bossdVars
<1>3. CASE Environment
  BY <1>3
     DEF Environment, ChildExec, ChildDies, SignalArrives, Tick, Remembers,
         bossdVars
<1>4. CASE UNCHANGED vars
  BY <1>4 DEF vars, procmanVars, bossdVars, Remembers
<1> QED BY <1>1, <1>2, <1>3, <1>4 DEF Next

\* bossd comes to run only by InitSignals, and ends for good.
LEMMA PcMoves ==
  ASSUME [Next]_vars
  PROVE  /\ pc \in {"exec", "killed"} =>
              InitSignals \/ pc' \in {"exec", "killed"}
         /\ pc = "exited" => UNCHANGED vars
<1>1. CASE Supervisor
  BY <1>1
     DEF Supervisor, Reap, KilledByPending, ControlLocked, RecoverStep,
         RecoverDone, GrowStep, GrowDone, LoopExit, LoopTop, PassStep,
         PassDone, PollReturns, ControlDone, ReadInt, ReadTerm, ReadChld,
         SignalsDone, ReapTracked, ReapUnknown, ReapDone, InitSignals
<1>2. CASE Operator
  BY <1>2
     DEF Operator, PollControl, ControlCommand, RestartProcesses, StopProcesses,
         ShrinkProcesses, NorestartProcesses, SignalProcesses, StopSupervisor,
         GrowProcesses, Command
<1>3. CASE Environment
  BY <1>3 DEF Environment, ChildExec, ChildDies, SignalArrives, Tick
<1>4. CASE ReExec \/ UNCHANGED vars
  BY <1>4 DEF ReExec, Started, Command, vars, procmanVars
<1> QED BY <1>1, <1>2, <1>3, <1>4 DEF Next

-----------------------------------------------------------------------------
\* do_fork makes one child more, with an index no child of the list has.
NewIn(es, ch, p, q, i) ==
  /\ ch[q].st = "free" /\ child' = [ch EXCEPT ![q] = NewChild(p, i)]
  /\ PidsIn(entries') = PidsIn(es) \cup {q}
  /\ \A r \in PidsIn(es) : ch[r].grp = p => ch[r].idx # i

LEMMA ForkIsNew ==
  ASSUME NEW es, NEW ch, NEW run, NEW live, TableOK(es, ch, run, live),
         NEW p \in Procs, ForkInto(p, es, ch)
  PROVE  \E q \in Pids : \E i \in Nat : NewIn(es, ch, p, q, i)
<1>1. PICK q \in Pids, k \in 1..(Len(es[p]) + 1) :
        /\ ch[q].st = "free"
        /\ ForkedAt(es, p, q, k)
        /\ child' = [ch EXCEPT ![q] = NewChild(p, SlotIndex(es[p], k))]
  BY DEF ForkInto, ForkedAt
<1> DEFINE i == SlotIndex(es[p], k)
<1>2. /\ i \in Nat
      /\ \A j \in DOMAIN es[p] : es[p][j].idx # i
  BY <1>1, ForkedList
<1>3. PidsIn(entries') = PidsIn(es) \cup {q}
  <2>1. PICK r \in Pids :
          /\ ch[r].st = "free" /\ child'[r].st = "forked"
          /\ PidsIn(entries') = PidsIn(es) \cup {r}
    BY Forking
  <2>2. r = q
    <3>1. ch \in [Pids -> ChildRecords]
      BY DEF TableOK
    <3> QED BY <1>1, <2>1, <3>1
  <2> QED BY <2>1, <2>2
<1> HIDE DEF i
<1>4. ASSUME NEW r \in PidsIn(es), ch[r].grp = p
      PROVE  ch[r].idx # i
  <2>1. PICK t \in Procs : \E j \in DOMAIN es[t] : es[t][j].pid = r
    BY DEF PidsIn
  <2>2. PICK j \in DOMAIN es[t] : es[t][j].pid = r
    BY <2>1
  <2>3. t = p /\ ch[r].idx = es[t][j].idx
    BY <1>4, <2>2 DEF TableOK, Linked
  <2> QED BY <1>2, <2>2, <2>3
<1>5. NewIn(es, ch, p, q, i)
  BY <1>1, <1>3, <1>4 DEF NewIn, i
<1> QED BY <1>2, <1>5

\* Every child that is alive and configured is in a list or is an orphan.
AllKnown(es, ch) ==
  \A q \in Pids : ch[q].st \in {"forked", "run"} =>
    q \in PidsIn(es) \cup orphan \/ ch[q].grp \notin conf.names
\* Two children share an index only when one is an orphan.
Distinct(ch, Q) ==
  \A q, r \in Pids :
    /\ q # r
    /\ ch[q].st \in {"forked", "run"} /\ ch[r].st \in {"forked", "run"}
    /\ ch[q].grp = ch[r].grp /\ ch[q].idx = ch[r].idx
    => q \in Q \/ r \in Q

\* A fork of a configured process, from a table in which all are known.
LEMMA ForkKnown ==
  ASSUME NEW es, NEW ch, NEW run, NEW live, TableOK(es, ch, run, live),
         NEW p \in conf.names, p \in Procs, ForkInto(p, es, ch),
         AllKnown(es, ch), Distinct(ch, orphan),
         NEW Q, orphan \subseteq Q \cup {q \in Pids : ch[q].st = "free"}
  PROVE  /\ Distinct(child', Q)
         /\ \A q \in Pids : child'[q].st \in {"forked", "run"} =>
              q \in PidsIn(entries') \cup Q \/ child'[q].grp \notin conf.names
<1>1. PICK q \in Pids, i \in Nat : NewIn(es, ch, p, q, i)
  BY ForkIsNew
<1>2. /\ ch \in [Pids -> ChildRecords]
      /\ child'[q] = NewChild(p, i)
      /\ \A r \in Pids \ {q} : child'[r] = ch[r]
      /\ PidsIn(entries') = PidsIn(es) \cup {q}
  BY <1>1 DEF NewIn, TableOK
<1>3. child'[q].st = "forked" /\ child'[q].grp = p /\ child'[q].idx = i
  BY <1>2 DEF NewChild
<1>4. ASSUME NEW r \in Pids \ {q}, ch[r].st \in {"forked", "run"},
             r \notin Q, ch[r].grp = p
      PROVE  ch[r].idx # i
  <2>1. r \notin orphan
    BY <1>4
  <2>2. r \in PidsIn(es)
    BY <1>4, <2>1 DEF AllKnown
  <2> QED BY <1>1, <1>4, <2>2 DEF NewIn
<1>5. Distinct(child', Q)
  <2> SUFFICES ASSUME NEW a \in Pids, NEW b \in Pids, a # b,
                      child'[a].st \in {"forked", "run"},
                      child'[b].st \in {"forked", "run"},
                      child'[a].grp = child'[b].grp,
                      child'[a].idx = child'[b].idx,
                      a \notin Q, b \notin Q
               PROVE  FALSE
    BY DEF Distinct
  <2>1. CASE a # q /\ b # q
    <3>1. child'[a] = ch[a] /\ child'[b] = ch[b]
      BY <1>2, <2>1
    <3>2. a \notin orphan /\ b \notin orphan
      BY <3>1
    <3> QED BY <3>1, <3>2 DEF Distinct
  <2>2. CASE a = q \/ b = q
    BY <1>2, <1>3, <1>4, <2>2
  <2> QED BY <2>1, <2>2
<1>6. ASSUME NEW r \in Pids, child'[r].st \in {"forked", "run"}
      PROVE  r \in PidsIn(entries') \cup Q \/ child'[r].grp \notin conf.names
  BY <1>2, <1>6 DEF AllKnown
<1> QED BY <1>5, <1>6

-----------------------------------------------------------------------------
LEMMA DistinctIs == DuplicateOnlyByOrphan <=> Distinct(child, orphan)
  BY DEF DuplicateOnlyByOrphan, Distinct, Alive
LEMMA DistinctNextIs == DuplicateOnlyByOrphan' <=> Distinct(child', orphan')
  BY DEF DuplicateOnlyByOrphan, Distinct, Alive

\* A step after which every child alive was one, and what it was told and
\* whether it is an orphan stays.
LEMMA StillDistinct ==
  ASSUME DuplicateOnlyByOrphan,
         \A q \in Pids : Alive(q)' =>
           /\ Alive(q) /\ child'[q].grp = child[q].grp
           /\ child'[q].idx = child[q].idx
           /\ q \in orphan => q \in orphan'
  PROVE  DuplicateOnlyByOrphan'
  BY DEF DuplicateOnlyByOrphan

\* The same, for what bossd knows of them.
LEMMA StillKnown ==
  ASSUME NoLostChild, pc \notin {"exec", "killed"}, conf' = conf,
         \A q \in Pids : Alive(q)' =>
           /\ Alive(q) /\ child'[q].grp = child[q].grp
           /\ q \in Tracked \cup scan \cup orphan =>
                \/ q \in Tracked' \cup scan' \cup orphan'
                \/ child[q].grp \notin conf.names
  PROVE  NoLostChild'
  BY DEF NoLostChild

\* recover_processes passes over no child it could recognise.
LEMMA RecoverKnows ==
  ASSUME SInv, NEW q \in Pids, RecoverStep(q)
  PROVE  NoLostChild' /\ DuplicateOnlyByOrphan'
<1>1. /\ IInv /\ NoLostChild /\ DuplicateOnlyByOrphan
      /\ child \in [Pids -> ChildRecords]
  BY DEF SInv, IInv, TableOK
<1>2. /\ pc = "recover" /\ conf' = conf /\ scan' = scan \ {q}
      /\ q \notin Tracked
  BY <1>1 DEF RecoverStep, IInv, ScanFresh
<1>3. CASE RecoverEntry(q)
  <2>1. Tracked' = Tracked \cup {q} /\ UNCHANGED <<child, orphan>>
    BY <1>1, <1>2, <1>3, RecoverEntryIs
  <2> QED BY <1>1, <1>2, <2>1, StillDistinct, StillKnown DEF Alive
<1>4. CASE RecoverDied(q)
  <2>1. /\ \A r \in Pids : Alive(r)' => r # q /\ child'[r] = child[r]
        /\ Tracked' = Tracked /\ orphan' = orphan \ {q}
    BY <1>1, <1>4, Zenon, TrackedIs, TrackedNextIs
       DEF RecoverDied, Free, Alive, table
  <2> QED BY <1>1, <1>2, <2>1, StillDistinct, StillKnown DEF Alive
<1>5. CASE RecoverSkip(q) \/ RecoverUnread(q)
  <2>1. /\ UNCHANGED child /\ Tracked' = Tracked /\ orphan \subseteq orphan'
        /\ Alive(q) => q \in orphan' \/ child[q].grp \notin conf.names
    BY <1>1, <1>5, TrackedIs, TrackedNextIs
       DEF RecoverSkip, RecoverUnread, Recognised, Alive, table
  <2> QED BY <1>1, <1>2, <2>1, StillDistinct, StillKnown DEF Alive
<1> QED BY <1>3, <1>4, <1>5 DEF RecoverStep

\* A child waited for is no longer alive, whether bossd knew it or not.
LEMMA ReapUnknownKnows ==
  ASSUME SInv, NEW q \in Pids, ReapUnknown(q)
  PROVE  NoLostChild' /\ DuplicateOnlyByOrphan'
<1>1. /\ NoLostChild /\ DuplicateOnlyByOrphan
      /\ child \in [Pids -> ChildRecords] /\ pc = "reap"
  BY DEF SInv, IInv, TableOK, ReapUnknown
<1>2. /\ \A r \in Pids : Alive(r)' => r # q /\ child'[r] = child[r]
      /\ Tracked' = Tracked /\ orphan' = orphan \ {q}
      /\ conf' = conf /\ scan' = scan
  BY <1>1, TrackedIs, TrackedNextIs DEF ReapUnknown, Reaped, Free, Alive, table
<1> QED BY <1>1, <1>2, StillDistinct, StillKnown DEF Alive

\* decide_dead loses no other child, and its fork shares no index.
LEMMA ReapTrackedKnows ==
  ASSUME SInv, NEW p \in Procs, NEW k \in DOMAIN entries[p], ReapTracked(p, k)
  PROVE  NoLostChild' /\ DuplicateOnlyByOrphan'
<1> DEFINE e == entries[p][k]
           es == Without(p, k)
           ch == Reaped(e.pid)
<1>1. /\ IInv /\ NoLostChild /\ DuplicateOnlyByOrphan
      /\ TableOK(entries, child, running, live_processes)
      /\ child \in [Pids -> ChildRecords] /\ scan = {}
      /\ pc = "reap" /\ p \in conf.names
      /\ conf' = conf /\ scan' = scan /\ orphan' = orphan \ {e.pid}
  BY DEF SInv, IInv, TableOK, ScanFresh, ReapTracked
<1>2. /\ e.pid \in Pids
      /\ TableOK(es, ch, [running EXCEPT ![p] = running[p] - 1],
                 live_processes - 1)
  BY <1>1, TableOfInv, WithoutOK
<1>3. PidsIn(es) = PidsIn(entries) \ {e.pid}
  BY <1>1, <1>2, ReapedIs, TableRemove DEF Without, OneLess
<1>4. /\ ch[e.pid].st = "free"
      /\ \A r \in Pids \ {e.pid} : ch[r] = child[r]
  BY <1>1, <1>2 DEF Reaped, Free
<1> HIDE DEF e, es, ch
<1>5. AllKnown(es, ch)
  BY <1>1, <1>3, <1>4, TrackedIs DEF AllKnown, NoLostChild, Alive
<1>6. Distinct(ch, orphan)
  BY <1>1, <1>4 DEF Distinct, DuplicateOnlyByOrphan, Alive
<1>7. CASE entries' = es /\ child' = ch
  <2>1. /\ \A r \in Pids : Alive(r)' => r # e.pid /\ child'[r] = child[r]
        /\ Tracked' = Tracked \ {e.pid}
    BY <1>3, <1>4, <1>7, TrackedIs, TrackedNextIs DEF Alive
  <2> QED BY <1>1, <2>1, StillDistinct, StillKnown DEF Alive
<1>8. CASE ForkInto(p, es, ch)
  <2>1. orphan \subseteq orphan' \cup {q \in Pids : ch[q].st = "free"}
    BY <1>1, <1>2, <1>4
  <2>2. /\ Distinct(child', orphan')
        /\ \A q \in Pids : child'[q].st \in {"forked", "run"} =>
             q \in PidsIn(entries') \cup orphan' \/ child'[q].grp \notin conf.names
    BY <1>1, <1>2, <1>5, <1>6, <1>8, <2>1, ForkKnown
  <2> QED BY <1>1, <2>2, DistinctNextIs, TrackedNextIs DEF NoLostChild, Alive
<1> QED BY <1>7, <1>8 DEF ReapTracked, DecideDead, Removed, Replaced, e, es, ch

\* A fork of a loop: of a configured process, with nothing left to scan.
LEMMA StartsKnows ==
  ASSUME SInv, NEW p \in Procs, Starts(p), Remembers
  PROVE  NoLostChild' /\ DuplicateOnlyByOrphan'
<1>1. /\ NoLostChild /\ DuplicateOnlyByOrphan
      /\ TableOK(entries, child, running, live_processes)
      /\ pc \notin {"exec", "killed"} /\ scan = {} /\ p \in conf.names
      /\ ForkInto(p, entries, child) /\ conf' = conf /\ orphan' = orphan
  BY DEF SInv, IInv, ScanFresh, LoopsOK, JobInConf, Starts, Fork, Remembers
<1>2. AllKnown(entries, child) /\ Distinct(child, orphan)
  BY <1>1, TrackedIs, DistinctIs DEF AllKnown, NoLostChild, Alive
<1>3. /\ Distinct(child', orphan)
      /\ \A q \in Pids : child'[q].st \in {"forked", "run"} =>
           q \in PidsIn(entries') \cup orphan \/ child'[q].grp \notin conf.names
  BY <1>1, <1>2, ForkKnown
<1> QED BY <1>1, <1>3, DistinctNextIs, TrackedNextIs DEF NoLostChild, Alive

\* The restart looks at every child there is; all other steps change none.
LEMMA ChildrenKnown ==
  ASSUME SInv, [Next]_vars
  PROVE  NoLostChild' /\ DuplicateOnlyByOrphan'
<1>1. /\ IInv /\ NoLostChild /\ DuplicateOnlyByOrphan
      /\ child \in [Pids -> ChildRecords]
  BY DEF SInv, IInv, TableOK
<1>2. CASE InitSignals
  <2>1. UNCHANGED <<child, orphan>> /\ \A q \in Pids : Alive(q) => q \in scan'
    BY <1>2 DEF InitSignals, NoChild, Alive
  <2> QED BY <1>1, <2>1, StillDistinct DEF NoLostChild, Alive
<1>3. CASE ReExec
  <2>1. pc' = "exec" /\ UNCHANGED <<child, orphan>>
    BY <1>3 DEF ReExec
  <2> QED BY <1>1, <2>1, StillDistinct DEF NoLostChild, Alive
<1>4. CASE Settles /\ Remembers /\ \A q \in Pids : SameChild(q)
  <2>1. /\ \A q \in Pids : Alive(q)' =>
             /\ Alive(q) /\ child'[q].grp = child[q].grp
             /\ child'[q].idx = child[q].idx
        /\ conf' = conf /\ scan' = scan /\ orphan' = orphan
    BY <1>4 DEF SameChild, Remembers
  <2>2. Tracked' = Tracked
    <3>1. \A p \in Procs :
            /\ DOMAIN entries'[p] = DOMAIN entries[p]
            /\ \A k \in DOMAIN entries[p] : entries'[p][k].pid = entries[p][k].pid
      <4>1. Relabelled(entries, entries') /\ entries \in [Procs -> Seq(Entries)]
        BY <1>1, <1>4 DEF Settles, IInv, TableOK
      <4> QED BY <4>1, ListFacts DEF Relabelled
    <3>2. \A q \in Pids, p \in Procs : Holds(p, q)' <=> Holds(p, q)
      BY <3>1 DEF Holds
    <3> QED BY <3>2 DEF Tracked, PidsOf
  <2>3. DuplicateOnlyByOrphan'
    BY <1>1, <2>1, StillDistinct
  <2>4. CASE pc \in {"exec", "killed"}
    BY <1>2, <2>3, <2>4, PcMoves DEF NoLostChild
  <2>5. CASE pc \notin {"exec", "killed"}
    BY <1>1, <2>1, <2>2, <2>3, <2>5, StillKnown
  <2> QED BY <2>4, <2>5
<1> QED BY <1>1, <1>2, <1>3, <1>4, SupervisorKinds, RecoverKnows,
           ReapUnknownKnows, ReapTrackedKnows, StartsKnows

-----------------------------------------------------------------------------
\* job and conf change together only at the top of a loop.
LEMMA JobStep ==
  ASSUME IInv, JobInConf, [Next]_vars
  PROVE  JobInConf'
<1> USE DEF JobInConf
<1>1. CASE Supervisor
  <2>1. CASE RecoverDone \/ LoopTop \/ PassDone \/ GrowDone
    BY <2>1 DEF RecoverDone, LoopTop, PassDone, GrowDone, NoJob
  <2>2. CASE \E p \in Procs : GrowStep(p) \/ PassStep(p)
    <3>1. job \in [op : Jobs, todo : SUBSET Procs]
      BY DEF IInv, TypeOK
    <3> QED BY <2>2, <3>1 DEF GrowStep, PassStep, JobWithout
  <2>3. CASE \/ InitSignals \/ KilledByPending \/ ControlLocked
             \/ \E q \in Pids : RecoverStep(q)
             \/ LoopExit \/ PollReturns \/ ControlDone
             \/ ReadInt \/ ReadTerm \/ ReadChld \/ SignalsDone \/ Reap
    BY <2>3
       DEF InitSignals, KilledByPending, ControlLocked, RecoverStep, LoopExit,
           PollReturns, ControlDone, ReadInt, ReadTerm, ReadChld, SignalsDone,
           Reap, ReapTracked, ReapUnknown, ReapDone
  <2> QED BY <1>1, <2>1, <2>2, <2>3 DEF Supervisor
<1>2. CASE Operator
  <2>1. CASE \E op \in GrowCommands : GrowProcesses(op)
    BY <2>1 DEF GrowProcesses, Groups
  <2>2. CASE ~ \E op \in GrowCommands : GrowProcesses(op)
    <3>1. UNCHANGED <<conf, job>>
      BY <1>2, <2>2
         DEF Operator, PollControl, ControlCommand, RestartProcesses,
             StopProcesses, ShrinkProcesses, NorestartProcesses,
             SignalProcesses, StopSupervisor
    <3> QED BY <3>1
  <2> QED BY <2>1, <2>2
<1>3. CASE Environment
  BY <1>3 DEF Environment, ChildExec, ChildDies, SignalArrives, Tick
<1>4. CASE ReExec \/ UNCHANGED vars
  BY <1>4 DEF ReExec, NoJob, vars, procmanVars
<1> QED BY <1>1, <1>2, <1>3, <1>4 DEF Next

\* main_loop ends when live_processes, and so every list, is empty.
LEMMA ExitStep ==
  ASSUME IInv, ExitedEmpty, [Next]_vars
  PROVE  ExitedEmpty'
<1> SUFFICES ASSUME pc' = "exited" PROVE Tracked' = {}
  BY DEF ExitedEmpty
<1>1. CASE pc = "exited"
  <2>1. UNCHANGED vars
    BY <1>1, PcMoves
  <2>2. Tracked' = Tracked
    BY <2>1, TrackedIs, TrackedNextIs DEF vars, procmanVars
  <2> QED BY <1>1, <2>2 DEF ExitedEmpty
<1>2. CASE pc # "exited"
  <2>1. LoopExit
    <3>1. CASE Supervisor
      BY <1>2, <3>1
         DEF Supervisor, Reap, InitSignals, KilledByPending, ControlLocked,
             RecoverStep, RecoverDone, GrowStep, GrowDone, LoopTop, PassStep,
             PassDone, PollReturns, ControlDone, ReadInt, ReadTerm, ReadChld,
             SignalsDone, ReapTracked, ReapUnknown, ReapDone
    <3>2. CASE Operator
      BY <1>2, <3>2
         DEF Operator, PollControl, ControlCommand, RestartProcesses,
             StopProcesses, ShrinkProcesses, NorestartProcesses,
             SignalProcesses, StopSupervisor, GrowProcesses
    <3>3. CASE Environment
      BY <1>2, <3>3 DEF Environment, ChildExec, ChildDies, SignalArrives, Tick
    <3>4. CASE ReExec \/ UNCHANGED vars
      BY <1>2, <3>4 DEF ReExec, vars, procmanVars
    <3> QED BY <3>1, <3>2, <3>3, <3>4 DEF Next
  <2>2. /\ live_processes <= 0 /\ entries' = entries
        /\ live_processes = Cardinality(PidsIn(entries))
    BY <2>1 DEF LoopExit, LeavesLoop, table, IInv, TableOK
  <2>3. Cardinality(PidsIn(entries)) \in Nat
    BY PidsInFinite, FS_CardinalityType
  <2>4. PidsIn(entries) = {}
    BY <2>2, <2>3, PidsInFinite, FS_EmptySet
  <2> QED BY <2>2, <2>4, TrackedNextIs
<1> QED BY <1>1, <1>2

\* A step that takes nothing from what covers a process.
LEMMA StillCovered ==
  ASSUME NEW p, CoveredBy(p), running'[p] = running[p],
         want_down'[p] = want_down[p], waiting \subseteq waiting',
         refused \subseteq refused'
  PROVE  CoveredBy(p)'
  BY DEF CoveredBy

\* main_loop's pass starts a process, finds it up or down, fails to start it, or
\* sets its timer.
LEMMA PassCoversStep ==
  ASSUME IInv, PassCovers, NEW r \in Procs, PassStep(r)
  PROVE  PassCovers'
<1>1. /\ running \in [Procs -> Int] /\ running[r] \in Nat
      /\ want_down \in [Procs -> BOOLEAN]
      /\ TableOK(entries, child, running, live_processes)
      /\ conf' = conf /\ job' = JobWithout(r) /\ want_down' = want_down
      /\ conf.names \subseteq Procs
  BY ListFacts, ConfigsAssumption DEF IInv, TypeOK, TableOK, PassStep
<1>2. \A p \in conf.names \ job.todo : CoveredBy(p)
  BY DEF PassCovers, PassStep
<1>3. conf'.names \ job'.todo \subseteq (conf.names \ job.todo) \cup {r}
  BY <1>1 DEF JobWithout
<1>4. CASE ~ NeedsRestart(r) /\ UNCHANGED <<table, child, waiting, refused>>
  <2>1. MinOf(r) \in Nat \ {0}
    BY ConfigsAssumption DEF IInv, TypeOK, MinOf
  <2>2. CoveredBy(r)
    BY <1>1, <1>4, <2>1 DEF NeedsRestart, CoveredBy
  <2>3. \A p \in conf.names : CoveredBy(p) => CoveredBy(p)'
    BY <1>1, <1>4, StillCovered DEF table
  <2> QED BY <1>1, <1>2, <1>3, <2>2, <2>3 DEF PassCovers
<1>5. CASE Fork(r) /\ UNCHANGED <<waiting, refused>>
  <2>1. running' = [running EXCEPT ![r] = running[r] + 1]
    BY <1>5 DEF Fork
  <2>2. CoveredBy(r)'
    BY <1>1, <2>1 DEF CoveredBy
  <2>3. \A p \in conf.names \ {r} : CoveredBy(p) => CoveredBy(p)'
    BY <1>1, <1>5, <2>1, StillCovered
  <2> QED BY <1>1, <1>2, <1>3, <2>2, <2>3 DEF PassCovers
<1>6. CASE /\ UNCHANGED <<table, child>>
           /\ \/ refused' = refused \cup {r} /\ UNCHANGED waiting
              \/ waiting' = SleepsFor(r) /\ UNCHANGED refused
  <2>1. \A p \in conf.names : CoveredBy(p) => CoveredBy(p)'
    BY <1>1, <1>6, StillCovered DEF table, SleepsFor
  <2>2. CoveredBy(r)'
    BY <1>6 DEF CoveredBy, SleepsFor
  <2> QED BY <1>1, <1>2, <1>3, <2>1, <2>2 DEF PassCovers
<1> QED BY <1>4, <1>5, <1>6 DEF PassStep

\* The other steps of the pass: the outside, which reaps nothing.
LEMMA PassKept ==
  ASSUME IInv, PassCovers, [Next]_vars, pc = "pass", pc' = "pass",
         ~ \E r \in Procs : PassStep(r)
  PROVE  PassCovers'
<1>1. UNCHANGED <<conf, job, running, want_down, waiting, refused>>
  <2>1. Environment \/ UNCHANGED vars
    <3>1. ~ Supervisor
      BY DEF Supervisor, Reap, InitSignals, KilledByPending, ControlLocked,
             RecoverStep, RecoverDone, GrowStep, GrowDone, LoopExit, LoopTop,
             PassDone, PollReturns, ControlDone, ReadInt, ReadTerm, ReadChld,
             SignalsDone, ReapTracked, ReapUnknown, ReapDone
    <3>2. ~ Operator /\ ~ ReExec
      BY DEF Operator, PollControl, ControlCommand, RestartProcesses,
             StopProcesses, ShrinkProcesses, NorestartProcesses,
             SignalProcesses, StopSupervisor, GrowProcesses, Command, ReExec
    <3> QED BY <3>1, <3>2 DEF Next
  <2> QED BY <2>1 DEF Environment, ChildExec, ChildDies, SignalArrives, Tick,
                      table, vars, procmanVars, bossdVars
<1> QED BY <1>1, StillCovered DEF PassCovers

\* The pass begins with all processes to do.
LEMMA PassBegins ==
  ASSUME IInv, [Next]_vars, pc # "pass", pc' = "pass"
  PROVE  PassCovers'
<1>1. LoopTop
  <2>1. CASE Supervisor
    BY <2>1
       DEF Supervisor, Reap, InitSignals, KilledByPending, ControlLocked,
           RecoverStep, RecoverDone, GrowStep, GrowDone, LoopExit, PassStep,
           PassDone, PollReturns, ControlDone, ReadInt, ReadTerm, ReadChld,
           SignalsDone, ReapTracked, ReapUnknown, ReapDone
  <2>2. CASE Operator
    BY <2>2
       DEF Operator, PollControl, ControlCommand, RestartProcesses,
           StopProcesses, ShrinkProcesses, NorestartProcesses,
           SignalProcesses, StopSupervisor, GrowProcesses
  <2>3. CASE Environment
    BY <2>3 DEF Environment, ChildExec, ChildDies, SignalArrives, Tick
  <2>4. CASE ReExec \/ UNCHANGED vars
    BY <2>4 DEF ReExec, vars, procmanVars
  <2> QED BY <2>1, <2>2, <2>3, <2>4 DEF Next
<1>2. job'.todo = conf'.names
  BY <1>1 DEF LoopTop
<1> QED BY <1>2 DEF PassCovers

\* bossd goes to poll after a whole pass, or when it is stopping.
LEMMA SleepStep ==
  ASSUME IInv, JobInConf, PassCovers, NoGroupForgotten, [Next]_vars
  PROVE  NoGroupForgotten'
<1> SUFFICES ASSUME pc' = "poll", ~ stopping', NEW p \in conf'.names
             PROVE  CoveredBy(p)'
  BY DEF NoGroupForgotten, CoveredBy
<1>1. \/ PassDone \/ (LoopTop /\ stopping)
      \/ pc = "poll" /\ (Environment \/ UNCHANGED vars)
  <2>1. CASE Supervisor
    BY <2>1
       DEF Supervisor, Reap, InitSignals, KilledByPending, ControlLocked,
           RecoverStep, RecoverDone, GrowStep, GrowDone, LoopExit, LoopTop,
           PassStep, PollReturns, ControlDone, ReadInt, ReadTerm, ReadChld,
           SignalsDone, ReapTracked, ReapUnknown, ReapDone
  <2>2. CASE Operator
    BY <2>2
       DEF Operator, PollControl, ControlCommand, RestartProcesses,
           StopProcesses, ShrinkProcesses, NorestartProcesses,
           SignalProcesses, StopSupervisor, GrowProcesses, Command
  <2>3. CASE Environment
    BY <2>3 DEF Environment, ChildExec, ChildDies, SignalArrives, Tick
  <2>4. CASE ReExec \/ UNCHANGED vars
    BY <2>4 DEF ReExec, vars, procmanVars
  <2> QED BY <2>1, <2>2, <2>3, <2>4 DEF Next
<1>2. CASE PassDone
  <2>1. /\ p \in conf.names \ job.todo /\ pc = "pass"
        /\ UNCHANGED <<running, want_down, waiting, refused>>
    BY <1>2 DEF PassDone, table, bossdVars
  <2> QED BY <2>1, StillCovered DEF PassCovers
<1>3. CASE LoopTop /\ stopping
  BY <1>3 DEF LoopTop
<1>4. CASE pc = "poll" /\ (Environment \/ UNCHANGED vars)
  <2>1. UNCHANGED <<conf, stopping, running, want_down, waiting, refused>>
    BY <1>4 DEF Environment, ChildExec, ChildDies, SignalArrives, Tick,
                table, vars, procmanVars, bossdVars
  <2>2. CoveredBy(p)
    BY <1>4, <2>1 DEF NoGroupForgotten, CoveredBy
  <2> QED BY <2>1, <2>2, StillCovered
<1> QED BY <1>1, <1>2, <1>3, <1>4

-----------------------------------------------------------------------------
LEMMA SInvariant == Spec => []SInv
<1>1. ASSUME SInv, [Next]_vars PROVE SInv'
  <2>1. IInv' /\ NoLostChild' /\ DuplicateOnlyByOrphan'
    BY <1>1, NextInv, ChildrenKnown DEF SInv
  <2>2. JobInConf' /\ ExitedEmpty' /\ NoGroupForgotten'
    BY <1>1, JobStep, ExitStep, SleepStep DEF SInv, LoopsOK
  <2>3. PassCovers'
    <3>1. CASE pc' # "pass"
      BY <3>1 DEF PassCovers
    <3>2. CASE pc' = "pass"
      BY <1>1, <3>2, PassCoversStep, PassKept, PassBegins DEF SInv, LoopsOK
    <3> QED BY <3>1, <3>2
  <2> QED BY <2>1, <2>2, <2>3 DEF SInv, LoopsOK
<1> QED BY <1>1, InitSInv, PTL DEF Spec

\* bossd itself forgets no child, through any number of re-execs, failed forks
\* and deaths at any point: each one alive is in a list, to be scanned, no
\* longer configured, or one whose record or stat a re-exec'd bossd could not
\* read (not exec'd yet, or its environment mangled).
THEOREM ChildrenCorrect == Spec => []NoLostChild
<1>1. SInv => NoLostChild
  BY DEF SInv
<1> QED BY <1>1, SInvariant, PTL

\* do_fork never gives an index a living child has, unless a re-exec'd bossd
\* has missed that child: the recovery is the only way to a duplicate.
THEOREM DuplicatesCorrect == Spec => []DuplicateOnlyByOrphan
<1>1. SInv => DuplicateOnlyByOrphan
  BY DEF SInv
<1> QED BY <1>1, SInvariant, PTL

\* When main_loop has ended, no child is alive but those a re-exec'd bossd has
\* missed and those not configured.
THEOREM ExitCorrect == Spec => []ExitLeavesNoChild
<1>1. ASSUME SInv PROVE ExitLeavesNoChild
  BY <1>1 DEF SInv, LoopsOK, ExitedEmpty, IInv, ScanFresh, NoLostChild,
              ExitLeavesNoChild
<1> QED BY <1>1, SInvariant, PTL

\* main_loop never sleeps on a process with nothing running and no timer, for
\* every configuration, unless its fork has just failed.
THEOREM SleepCorrect == Spec => []NoGroupForgotten
<1>1. SInv => NoGroupForgotten
  BY DEF SInv, LoopsOK
<1> QED BY <1>1, SInvariant, PTL

-----------------------------------------------------------------------------
LEMMA SettlesKeeps ==
  ASSUME IInv, Settles
  PROVE  (\E q \in Pids : Promise!EndUnknown(q)) \/ UNCHANGED <<Slots, Given>>
<1>1. CASE \A q \in Pids : SameChild(q)
  <2>1. GivenIn(child') = GivenIn(child)
    BY <1>1, GivenSame DEF SameChild
  <2> QED BY <2>1, SlotsSame, Mapping DEF Settles, IInv, TableOK
<1>2. ASSUME NEW q \in Pids, ReapUnknown(q)
      PROVE  Promise!EndUnknown(q)
  BY <1>2, TableOfInv, UnknownEnds DEF ReapUnknown, Reaped, NoChild, table
<1> QED BY <1>1, <1>2 DEF Settles

LEMMA ReExecLoses ==
  ASSUME ReExec
  PROVE  Promise!Lose
<1>1. SlotsIn(entries') = [p \in Procs |-> {}]
  <2>1. \A p \in Procs : entries'[p] = << >>
    BY DEF ReExec
  <2>2. \A p \in Procs : DOMAIN entries'[p] = {}
    BY <2>1
  <2> QED BY <2>2 DEF SlotsIn
<1>2. child' = child
  BY DEF ReExec
<1> QED BY <1>1, <1>2, Mapping DEF Promise!Lose

LEMMA RecoverTakesBack ==
  ASSUME IInv, NEW q \in Pids, RecoverStep(q)
  PROVE  Promise!TakeBack(q) \/ Promise!EndUnknown(q) \/ UNCHANGED <<Slots, Given>>
<1>1. /\ child \in [Pids -> ChildRecords] /\ entries \in [Procs -> Seq(Entries)]
      /\ q \notin Tracked
  BY DEF IInv, TableOK, ScanFresh, RecoverStep
<1>2. CASE RecoverEntry(q)
  <2> DEFINE p == child[q].grp
             i == child[q].idx
  <2>1. p \in Procs /\ i \in Nat /\ child[q].st # "free"
    BY <1>1, <1>2 DEF ChildRecords, RecoverEntry, Recognised
  <2>2. PICK k \in 1..(Len(entries[p]) + 1) :
          entries' = [entries EXCEPT ![p] = InsertAt(entries[p], k, Entry(q, i))]
    BY <1>2 DEF RecoverEntry
  <2>3. /\ Entry(q, i) \in Entries
        /\ Entry(q, i).idx = i /\ Entry(q, i).pid = q
    BY <2>1 DEF Entry, Entries, Dead
  <2>4. entries[p] \in Seq(Entries)
    BY <1>1, <2>1
  <2> HIDE DEF p, i
  <2>5. SlotsIn(entries') =
          [SlotsIn(entries) EXCEPT ![p] = SlotsIn(entries)[p] \cup {<<i, q>>}]
    <3> DEFINE e == Entry(q, i)
    <3> HIDE DEF e
    <3>1. e \in Entries /\ e.idx = i /\ e.pid = q
      BY <2>3 DEF e
    <3>2. entries' = [entries EXCEPT ![p] = InsertAt(entries[p], k, e)]
      BY <2>2 DEF e
    <3>3. MoreBy(entries, entries', p, <<e.idx, e.pid>>)
      BY <1>1, <2>1, <3>1, <3>2, SlotsGrow
    <3> QED BY <3>1, <3>3 DEF MoreBy, Became
  <2>6. GivenIn(child)[q] = <<p, i>>
    BY <2>1 DEF GivenIn, p, i
  <2>7. child' = child
    BY <1>2 DEF RecoverEntry
  <2>8. Given[q] # << >> /\ Given[q][1] = p /\ Given[q][2] = i
    <3>1. <<p, i>>[1] = p /\ <<p, i>>[2] = i /\ <<p, i>> # << >>
      OBVIOUS
    <3> QED BY <2>6, <3>1, Mapping
  <2>9. Slots' = [Slots EXCEPT ![Given[q][1]] =
                    Slots[Given[q][1]] \cup {<<Given[q][2], q>>}]
    BY <2>5, <2>8, Mapping
  <2>10. Given' = Given
    BY <2>7, Mapping
  <2> QED BY <2>8, <2>9, <2>10 DEF Promise!TakeBack, Promise!Nothing
<1>3. CASE RecoverDied(q)
  BY <1>1, <1>3, TableOfInv, UnknownEnds DEF RecoverDied, NoChild, table
<1>4. CASE RecoverSkip(q) \/ RecoverUnread(q)
  BY <1>4, Mapping DEF RecoverSkip, RecoverUnread, table
<1> QED BY <1>2, <1>3, <1>4 DEF RecoverStep

LEMMA StepKeeps ==
  ASSUME IInv, [Next]_vars
  PROVE  [Promise!Next]_(Promise!vars)
<1>1. CASE Settles
  BY <1>1, SettlesKeeps DEF Promise!Next, Promise!vars
<1>2. CASE ReExec
  BY <1>2, ReExecLoses DEF Promise!Next
<1>3. CASE \E q \in Pids : RecoverStep(q)
  BY <1>3, RecoverTakesBack DEF Promise!Next, Promise!vars
<1>4. CASE \E p \in Procs : Starts(p)
  BY <1>4, TableOfInv, ForkKeeps DEF Promise!Next, Starts, Fork
<1>5. CASE \E p \in Procs : \E k \in DOMAIN entries[p] : ReapTracked(p, k)
  <2>1. ASSUME NEW p \in Procs, NEW k \in DOMAIN entries[p], ReapTracked(p, k)
        PROVE  \E s \in Slots[p] : Promise!End(p, s) \/ Promise!Replace(p, s)
    BY <2>1, TableOfInv, DeathKeeps DEF ReapTracked, DecideDead, Removed, Replaced
  <2> QED BY <1>5, <2>1 DEF Promise!Next
<1> QED BY <1>1, <1>2, <1>3, <1>4, <1>5, StepKinds

\* The process table of bossd implements Instances: whatever the order of
\* forks, deaths, commands, re-execs and recoveries, an instance keeps the index
\* it was given at its fork, and that was the least one free.
THEOREM IndicesKept == Spec => KeepsIndices
<1>1. IInv /\ [Next]_vars => [Promise!Next]_(Promise!vars)
  BY StepKeeps
<1>2. Init => Promise!Init
  BY EmptyKeeps DEF Init
<1> QED BY <1>1, <1>2, Invariant, PTL DEF Spec, KeepsIndices, Promise!Spec
=============================================================================
