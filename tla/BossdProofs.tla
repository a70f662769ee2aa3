---------------------------- MODULE BossdProofs ----------------------------
(***************************************************************************)
(* Bossd keeps its process table in agreement with the kernel's, for every *)
(* number of processes, pids and instances and every configuration.        *)
(***************************************************************************)
EXTENDS Bossd, TableProofs

\* recover_processes looks at each pid once, before main() forks anything.
ScanFresh == scan \cap Tracked = {} /\ (pc # "recover" => scan = {})
\* A restarted bossd begins with an empty table.
ExecEmpty == pc = "exec" => Tracked = {}
\* main_loop begins its pass only when not stopping, and cannot be told to stop
\* before the end of it.
PassNotStopping == pc = "pass" => ~ stopping

\* The inductive invariant: the properties of Bossd, tied together.
IInv ==
  /\ TypeOK
  /\ TableOK(entries, child, running, live_processes)
  /\ NoLostDeath
  /\ ScanFresh
  /\ ExecEmpty
  /\ PassNotStopping

\* What TypeOK says of the variables that are not the table.
RestOK ==
  /\ conf \in Configs
  /\ want_down \in [Procs -> BOOLEAN] /\ stopping \in BOOLEAN
  /\ pc \in PcValues /\ job \in [op : Jobs, todo : SUBSET Procs]
  /\ bad_attempts \in [Procs -> 0..BadCap]
  /\ since_dead \in [Procs -> 0..TimeCap]
  /\ waiting \subseteq Procs /\ scan \subseteq Pids
  /\ pending \subseteq {"CHLD", "TERM", "INT"} /\ orphan \subseteq Pids
  /\ refused \subseteq Procs

LEMMA TableOfInv == IInv => TableNow
  BY DEF IInv, TableNow

LEMMA RestOKType == TypeOK => RestOK
  BY DEF TypeOK, RestOK

\* The parts of the invariant, put together again after a step.
LEMMA Assembled ==
  ASSUME RestOK', TableOK(entries', child', running', live_processes'),
         NoLostDeath', ScanFresh', ExecEmpty', PassNotStopping'
  PROVE  IInv'
  <1>1. TypeOK'
    BY DEF TypeOK, RestOK, TableOK
  <1>2. TableOK(entries, child, running, live_processes)'
    OBVIOUS
  <1> QED BY <1>1, <1>2 DEF IInv

-----------------------------------------------------------------------------
\* The parts of the invariant that a step which is not of the table can touch.
SideOK ==
  RestOK /\ NoLostDeath /\ ScanFresh /\ ExecEmpty /\ PassNotStopping

LEMMA SideOfInv == IInv => SideOK
  BY RestOKType DEF IInv, SideOK

LEMMA InitInv == Init => IInv
<1> SUFFICES ASSUME Init PROVE IInv
  OBVIOUS
<1>1. /\ entries = [p \in Procs |-> << >>] /\ running = [p \in Procs |-> 0]
      /\ live_processes = 0 /\ child = [q \in Pids |-> Free]
  BY DEF Init
<1>2. \A p \in Procs : entries[p] = << >>
  BY <1>1
<1>3. PidsIn(entries) = {}
  BY <1>2 DEF PidsIn
<1>4. RestOK
  <2>1. 0 \in 0..BadCap /\ TimeCap \in 0..TimeCap
    BY TimeoutsAssumption DEF BadCap, TimeCap
  <2> QED BY <2>1 DEF Init, RestOK, PcValues, Jobs, NoJob
<1>5. SideOK
  BY <1>3, <1>4, TrackedIs
     DEF Init, SideOK, NoLostDeath, ScanFresh, ExecEmpty, PassNotStopping
<1>6. TableOK(entries, child, running, live_processes)
  <2>1. child \in [Pids -> ChildRecords]
    BY <1>1, ProcsAssumption DEF ChildRecords, ChildStates, Free
  <2>2. entries \in [Procs -> Seq(Entries)] /\ \A p \in Procs : Len(entries[p]) = 0
    BY <1>1, <1>2
  <2>3. Linked(entries, child) /\ \A p \in Procs : Sorted(entries[p])
    BY <1>2 DEF Linked, Sorted
  <2>4. Cardinality(PidsIn(entries)) = 0
    BY <1>3, FS_EmptySet
  <2> QED BY <1>1, <2>1, <2>2, <2>3, <2>4 DEF TableOK
<1>7. TypeOK
  BY <1>4, <1>6 DEF TypeOK, RestOK, TableOK
<1> QED BY <1>5, <1>6, <1>7 DEF IInv, SideOK

LEMMA AssembledSide ==
  ASSUME SideOK', TableOK(entries', child', running', live_processes')
  PROVE  IInv'
  BY Assembled DEF SideOK

\* The steps that change neither a list nor a child.
LEMMA CalmSteps ==
  ASSUME IInv,
         \/ InitSignals \/ KilledByPending \/ ControlLocked \/ RecoverDone
         \/ GrowDone /\ UNCHANGED bossdVars
         \/ LoopExit \/ LoopTop \/ PassDone
         \/ PollReturns \/ PollControl \/ ControlDone
         \/ ReadInt \/ ReadChld \/ SignalsDone \/ ReapDone
         \/ \E op \in GrowCommands : GrowProcesses(op) /\ UNCHANGED bossdVars
         \/ \E s \in Signals : SignalArrives(s)
  PROVE  IInv'
<1>1. TableOK(entries, child, running, live_processes) /\ SideOK
  BY SideOfInv DEF IInv
<1>2. UNCHANGED <<table, child>>
  BY DEF InitSignals, KilledByPending, ControlLocked, RecoverDone, GrowDone,
         LoopExit, LoopTop, PassDone, PollReturns, PollControl, ControlDone, ReadInt, ReadChld,
         SignalsDone, ReapDone, GrowProcesses, SignalArrives, table
<1>3. /\ TableOK(entries', child', running', live_processes')
      /\ Tracked' = Tracked /\ child' = child
  BY <1>1, <1>2, TableOfInv, Calm
<1>4. conf.names \subseteq Procs
  BY <1>1, ConfigsAssumption DEF SideOK, RestOK
<1> USE DEF SideOK, RestOK, NoLostDeath, ScanFresh, ExecEmpty, PassNotStopping,
            PcValues, Jobs, NoJob, bossdVars, table
<1>5. CASE InitSignals
  BY <1>1, <1>3, <1>5, AssembledSide DEF InitSignals
<1>6. CASE KilledByPending \/ ControlLocked
  BY <1>1, <1>3, <1>6, AssembledSide DEF KilledByPending, ControlLocked
<1>7. CASE RecoverDone
  BY <1>1, <1>3, <1>4, <1>7, AssembledSide DEF RecoverDone
<1>8. CASE GrowDone /\ UNCHANGED bossdVars
  BY <1>1, <1>3, <1>8, AssembledSide DEF GrowDone
<1>9. CASE LoopExit \/ PassDone \/ ControlDone
  <2>1. CASE LoopExit
    BY <1>1, <1>3, <2>1, AssembledSide DEF LoopExit
  <2>2. CASE PassDone
    BY <1>1, <1>3, <2>2, AssembledSide DEF PassDone
  <2>3. CASE ControlDone
    BY <1>1, <1>3, <2>3, AssembledSide DEF ControlDone
  <2> QED BY <1>9, <2>1, <2>2, <2>3
<1>10. CASE LoopTop
  BY <1>1, <1>3, <1>4, <1>10, AssembledSide DEF LoopTop
<1>11. CASE PollReturns \/ PollControl \/ SignalsDone
  BY <1>1, <1>3, <1>11, AssembledSide DEF PollReturns, PollControl, SignalsDone
<1>12. CASE ReadInt \/ ReadChld
  BY <1>1, <1>3, <1>12, AssembledSide DEF ReadInt, ReadChld
<1>13. CASE ReapDone
  <2>1. \A q \in Tracked : child[q].st # "zombie"
    BY <1>13, TrackedIs DEF ReapDone, PidsIn
  <2> QED BY <1>1, <1>3, <1>13, <2>1, AssembledSide DEF ReapDone
<1>14. CASE \E op \in GrowCommands : GrowProcesses(op) /\ UNCHANGED bossdVars
  BY <1>1, <1>3, <1>4, <1>14, AssembledSide DEF GrowProcesses, Groups, Command
<1>15. CASE \E s \in Signals : SignalArrives(s)
  BY <1>1, <1>3, <1>15, SignalsAssumption, AssembledSide
     DEF SignalArrives
<1> QED BY <1>5, <1>6, <1>7, <1>8, <1>9, <1>10, <1>11, <1>12, <1>13, <1>14,
           <1>15

-----------------------------------------------------------------------------
LEMMA ReadTermMarks ==
  ASSUME IInv, ReadTerm
  PROVE  Marks
  BY TableOfInv, NotMarking DEF ReadTerm, SendAll, Marks, table

LEMMA MarkSteps ==
  ASSUME IInv, ReadTerm \/ (MarkCommand /\ UNCHANGED bossdVars)
  PROVE  IInv'
<1>0. Marks
  BY ReadTermMarks, TableOfInv, MarkingActions
<1>1. /\ SideOK
      /\ TableOK(entries', child', running', live_processes')
      /\ Tracked' = Tracked
      /\ \A q \in Tracked : child'[q].st = child[q].st
  BY <1>0, SideOfInv, TableOfInv, Marking DEF Marks
<1> USE DEF SideOK, RestOK, NoLostDeath, ScanFresh, ExecEmpty, PassNotStopping,
            PcValues, bossdVars
<1>2. CASE ReadTerm
  BY <1>1, <1>2, AssembledSide DEF ReadTerm
<1>3. CASE StopProcesses /\ UNCHANGED bossdVars
  <2>1. want_down' \in [Procs -> BOOLEAN]
    BY <1>1, <1>3 DEF StopProcesses
  <2> QED BY <1>1, <1>3, <2>1, AssembledSide DEF StopProcesses
<1>4. CASE RestartProcesses /\ UNCHANGED bossdVars
  BY <1>1, <1>4, AssembledSide DEF RestartProcesses
<1>5. CASE ShrinkProcesses("decr") /\ UNCHANGED bossdVars
  BY <1>1, <1>5, AssembledSide DEF ShrinkProcesses
<1>6. CASE ShrinkProcesses("min") /\ UNCHANGED bossdVars
  BY <1>1, <1>6, AssembledSide DEF ShrinkProcesses
<1>7. CASE /\ NorestartProcesses \/ SignalProcesses
           /\ UNCHANGED bossdVars
  BY <1>1, <1>7, AssembledSide DEF NorestartProcesses, SignalProcesses
<1>8. CASE StopSupervisor /\ UNCHANGED bossdVars
  BY <1>1, <1>8, AssembledSide DEF StopSupervisor, Command
<1> QED BY <1>2, <1>3, <1>4, <1>5, <1>6, <1>7, <1>8 DEF MarkCommand

-----------------------------------------------------------------------------
LEMMA CappedIncType ==
  ASSUME NEW n \in Nat, NEW cap \in Nat
  PROVE  CappedInc(n, cap) \in Nat
  BY DEF CappedInc

\* The children exec and die, and time passes.
LEMMA OutsideSteps ==
  ASSUME IInv,
         \/ \E q \in Pids : ChildExec(q) \/ ChildDies(q)
         \/ Tick
  PROVE  IInv'
<1>1. /\ SideOK /\ child \in [Pids -> ChildRecords]
      /\ TableOK(entries, child, running, live_processes)
  BY SideOfInv DEF IInv, TableOK
<1> USE DEF SideOK, RestOK, NoLostDeath, ScanFresh, ExecEmpty, PassNotStopping,
            PcValues, bossdVars
<1>2. ASSUME NEW q \in Pids, ChildExec(q)
      PROVE  IInv'
  <2>1. /\ UNCHANGED table /\ child' \in [Pids -> ChildRecords]
        /\ \A r \in Pids : /\ child'[r].st # "free" \/ child[r].st = "free"
                           /\ child'[r].grp = child[r].grp
                           /\ child'[r].idx = child[r].idx
                           /\ child'[r].st = "zombie" => child[r].st = "zombie"
    BY <1>1, <1>2 DEF ChildExec, ChildRecords, ChildStates, table
  <2>2. /\ TableOK(entries', child', running', live_processes')
        /\ Tracked' = Tracked
    BY <1>1, <2>1, TrackedInPids, TableOfInv, Outside
  <2> QED BY <1>1, <1>2, <2>1, <2>2, TrackedInPids, AssembledSide DEF ChildExec
<1>3. ASSUME NEW q \in Pids, ChildDies(q)
      PROVE  IInv'
  <2>1. /\ UNCHANGED table /\ child' \in [Pids -> ChildRecords]
        /\ \A r \in Pids : /\ child'[r].st # "free" \/ child[r].st = "free"
                           /\ child'[r].grp = child[r].grp
                           /\ child'[r].idx = child[r].idx
    BY <1>1, <1>3 DEF ChildDies, Alive, ChildRecords, ChildStates, table
  <2>2. /\ TableOK(entries', child', running', live_processes')
        /\ Tracked' = Tracked
    BY <1>1, <2>1, TrackedInPids, TableOfInv, Outside
  <2> QED BY <1>1, <1>3, <2>1, <2>2, AssembledSide DEF ChildDies
<1>4. CASE Tick
  <2>1. \A n \in Nat : CappedInc(n, SuccessfulRun) \in Nat
    BY TimeoutsAssumption, CappedIncType
  <2>2. ASSUME NEW r \in Pids
        PROVE  /\ child'[r] \in ChildRecords
               /\ child'[r].st = child[r].st
               /\ child'[r].grp = child[r].grp
               /\ child'[r].idx = child[r].idx
    BY <1>1, <1>4, <2>1 DEF Tick, ChildRecords
  <2>3. child' \in [Pids -> ChildRecords]
    BY <1>4, <2>2 DEF Tick
  <2>4. /\ TableOK(entries', child', running', live_processes')
        /\ Tracked' = Tracked
    BY <1>1, <1>4, <2>2, <2>3, TrackedInPids, TableOfInv, Outside DEF Tick
  <2>5. since_dead' \in [Procs -> 0..TimeCap]
    <3>1. TimeCap \in Nat
      BY TimeoutsAssumption DEF TimeCap
    <3>2. \A n \in 0..TimeCap : CappedInc(n, TimeCap) \in 0..TimeCap
      BY <3>1 DEF CappedInc
    <3> QED BY <1>1, <1>4, <3>2 DEF Tick
  <2> QED BY <1>1, <1>4, <2>2, <2>4, <2>5, TrackedInPids, AssembledSide DEF Tick
<1> QED BY <1>2, <1>3, <1>4

-----------------------------------------------------------------------------
\* A fork of do_fork into the table as it is.
LEMMA ForkStep ==
  ASSUME IInv, NEW p \in Procs, Fork(p)
  PROVE  /\ TableOK(entries', child', running', live_processes')
         /\ \A q \in Tracked' : child'[q].st = "zombie" =>
                                  q \in Tracked /\ child[q].st = "zombie"
<1>1. /\ TableOK(entries', child', running', live_processes')
      /\ \E q \in Pids :
           /\ child'[q].st = "forked" /\ Tracked' = Tracked \cup {q}
           /\ \A r \in Pids \ {q} : child'[r] = child[r]
  BY TableOfInv, ForkAdds
<1> QED BY <1>1, TrackedInPids

\* The fork loops of the boot and of the commands, and main_loop's pass.
LEMMA ForkSteps ==
  ASSUME IInv, NEW p \in Procs,
         (GrowStep(p) /\ UNCHANGED bossdVars) \/ PassStep(p)
  PROVE  IInv'
<1>1. /\ SideOK /\ TableOK(entries, child, running, live_processes)
      /\ pc \in {"grow", "pass"} /\ UNCHANGED <<pc, pending, scan, stopping>>
      /\ JobWithout(p) \in [op : Jobs, todo : SUBSET Procs]
  BY SideOfInv
     DEF IInv, SideOK, RestOK, GrowStep, PassStep, bossdVars, JobWithout
<1>2. RestOK'
  BY <1>1 DEF GrowStep, PassStep, bossdVars, SideOK, RestOK, SleepsFor
<1> DEFINE Good ==
      /\ TableOK(entries', child', running', live_processes')
      /\ \A q \in Tracked' : child'[q].st = "zombie" =>
                               q \in Tracked /\ child[q].st = "zombie"
<1>3. Good
  <2>1. CASE Fork(p)
    BY <2>1, ForkStep
  <2>2. CASE UNCHANGED <<table, child>>
    BY <1>1, <2>2, TableOfInv, Calm
  <2> QED BY <2>1, <2>2 DEF GrowStep, PassStep
<1>4. NoLostDeath' /\ ScanFresh' /\ ExecEmpty' /\ PassNotStopping'
  BY <1>1, <1>3
     DEF SideOK, NoLostDeath, ScanFresh, ExecEmpty, PassNotStopping
<1> QED BY <1>2, <1>3, <1>4, Assembled

-----------------------------------------------------------------------------
\* parse_entry puts a recognised child into its list.
LEMMA RecoverEntryIs ==
  ASSUME IInv, NEW q \in Pids, q \notin Tracked, RecoverEntry(q)
  PROVE  /\ TableOK(entries', child', running', live_processes')
         /\ Tracked' = Tracked \cup {q}
         /\ UNCHANGED <<child, pending, orphan>> /\ child[q].st = "run"
<1> DEFINE p == child[q].grp
           i == child[q].idx
           e == Entry(q, i)
<1>1. /\ TableOK(entries, child, running, live_processes)
      /\ child \in [Pids -> ChildRecords]
      /\ entries \in [Procs -> Seq(Entries)]
  BY DEF IInv, TableOK
<1>2. PICK k \in 1..(Len(entries[p]) + 1) :
        /\ RecoverStopsAt(entries[p], i, k)
        /\ entries' = [entries EXCEPT ![p] = InsertAt(entries[p], k, e)]
        /\ running' = [running EXCEPT ![p] = running[p] + 1]
        /\ live_processes' = live_processes + 1
        /\ UNCHANGED <<child, pending, orphan>>
        /\ child[q].st = "run"
  BY DEF RecoverEntry, Recognised
<1>3. p \in Procs /\ i \in Nat
  BY <1>1 DEF ChildRecords
<1>4. e \in Entries /\ e.pid = q /\ e.idx = i
  BY <1>3 DEF Entry, Entries, Dead
<1>5. Describes(e, p, child, child') /\ e.pid \notin PidsIn(entries)
  BY <1>1, <1>2, <1>4, TrackedIs DEF Describes
<1>6. Fits(entries, p, k, e)
  <2>1. Len(entries[p]) \in Nat /\ \A j \in 1..Len(entries[p]) :
                                     entries[p][j].idx \in Nat
    BY <1>1, <1>3, ListFacts DEF Entries
  <2>2. /\ \A j \in 1..(k - 1) : entries[p][j].idx <= i
        /\ k <= Len(entries[p]) => i <= entries[p][k].idx
    BY <1>2, <1>3, <2>1 DEF RecoverStopsAt
  <2> QED BY <1>2, <1>4, <2>2 DEF Fits
<1> HIDE DEF e, i, p
<1>7. /\ TableOK(entries', child', running', live_processes')
      /\ OneMore(PidsIn(entries), PidsIn(entries'), e.pid)
  BY <1>1, <1>2, <1>3, <1>4, <1>5, <1>6, TableInsert
<1>8. Tracked' = Tracked \cup {q}
  BY <1>4, <1>7, TrackedIs, TrackedNextIs DEF OneMore
<1> QED BY <1>2, <1>7, <1>8

\* recover_processes and parse_entry.
LEMMA RecoverSteps ==
  ASSUME IInv, NEW q \in Pids, RecoverStep(q)
  PROVE  IInv'
<1>1. /\ SideOK /\ TableOK(entries, child, running, live_processes)
      /\ child \in [Pids -> ChildRecords]
      /\ entries \in [Procs -> Seq(Entries)]
      /\ pc = "recover" /\ q \in scan /\ q \notin Tracked
      /\ pc' = pc /\ scan' = scan \ {q} /\ UNCHANGED stopping
  BY SideOfInv DEF IInv, SideOK, TableOK, ScanFresh, RecoverStep
<1>2. RestOK'
  BY <1>1
     DEF RecoverStep, RecoverEntry, RecoverDied, RecoverSkip, RecoverUnread,
         SideOK, RestOK
<1>3. CASE RecoverEntry(q)
  <2>1. /\ TableOK(entries', child', running', live_processes')
        /\ Tracked' = Tracked \cup {q}
        /\ UNCHANGED <<child, pending, orphan>> /\ child[q].st = "run"
    BY <1>1, <1>3, RecoverEntryIs
  <2>2. NoLostDeath' /\ ScanFresh' /\ ExecEmpty' /\ PassNotStopping'
    BY <1>1, <2>1
       DEF SideOK, NoLostDeath, ScanFresh, ExecEmpty, PassNotStopping
  <2> QED BY <1>2, <2>1, <2>2, Assembled
<1>4. CASE RecoverDied(q)
  <2>1. /\ UNCHANGED table /\ child' = [child EXCEPT ![q] = Free]
        /\ "CHLD" \in pending'
    BY <1>4 DEF RecoverDied
  <2>2. Free \in ChildRecords
    BY ProcsAssumption DEF Free, ChildRecords, ChildStates
  <2>3. child' \in [Pids -> ChildRecords] /\ \A r \in Tracked : child'[r] = child[r]
    BY <1>1, <2>1, <2>2, TrackedInPids
  <2>4. /\ TableOK(entries', child', running', live_processes')
        /\ Tracked' = Tracked
    BY <1>1, <2>1, <2>3, TableOfInv, Outside
  <2>5. NoLostDeath' /\ ScanFresh' /\ ExecEmpty' /\ PassNotStopping'
    BY <1>1, <2>1, <2>4
       DEF SideOK, NoLostDeath, ScanFresh, ExecEmpty, PassNotStopping
  <2> QED BY <1>2, <2>4, <2>5, Assembled
<1>5. CASE RecoverSkip(q) \/ RecoverUnread(q)
  <2>1. UNCHANGED <<table, child, pending>>
    BY <1>5 DEF RecoverSkip, RecoverUnread
  <2>2. /\ TableOK(entries', child', running', live_processes')
        /\ Tracked' = Tracked
    BY <1>1, <2>1, TableOfInv, Calm
  <2>3. NoLostDeath' /\ ScanFresh' /\ ExecEmpty' /\ PassNotStopping'
    BY <1>1, <2>1, <2>2
       DEF SideOK, NoLostDeath, ScanFresh, ExecEmpty, PassNotStopping
  <2> QED BY <1>2, <2>2, <2>3, Assembled
<1> QED BY <1>3, <1>4, <1>5 DEF RecoverStep

-----------------------------------------------------------------------------
\* decide_dead: the entry goes, and unless a fork succeeds nothing takes its
\* place.
LEMMA DecideSteps ==
  ASSUME IInv, NEW p \in Procs, NEW k \in DOMAIN entries[p], DecideDead(p, k)
  PROVE  /\ TableOK(entries', child', running', live_processes')
         /\ \A q \in Tracked' : child'[q].st = "zombie" =>
                                  q \in Tracked /\ child[q].st = "zombie"
<1> DEFINE d == entries[p][k].pid
<1>1. TableNow /\ child \in [Pids -> ChildRecords] /\ d \in Pids
  BY TableOfInv, WithoutOK DEF IInv, TableOK
<1>2. \A q \in Pids \ {d} : Reaped(d)[q] = child[q]
  BY <1>1 DEF Reaped
<1>3. CASE /\ entries' = Without(p, k) /\ child' = Reaped(d)
           /\ running' = [running EXCEPT ![p] = running[p] - 1]
           /\ live_processes' = live_processes - 1
  BY <1>1, <1>2, <1>3, EntryRemoved, TrackedInPids DEF OneLess
<1>4. CASE /\ ForkInto(p, Without(p, k), Reaped(d))
           /\ UNCHANGED <<running, live_processes>>
  BY <1>1, <1>2, <1>4, EntryReplaced, TrackedInPids
<1> QED BY <1>3, <1>4 DEF DecideDead, Removed, Replaced

\* reap_children.
LEMMA ReapSteps ==
  ASSUME IInv,
         \/ \E p \in Procs : \E k \in DOMAIN entries[p] : ReapTracked(p, k)
         \/ \E q \in Pids : ReapUnknown(q)
  PROVE  IInv'
<1>1. /\ SideOK /\ TableOK(entries, child, running, live_processes)
      /\ child \in [Pids -> ChildRecords]
      /\ BadCap \in Nat /\ TimeCap \in Nat
      /\ bad_attempts \in [Procs -> 0..BadCap]
      /\ since_dead \in [Procs -> 0..TimeCap]
  BY SideOfInv, TimeoutsAssumption
     DEF IInv, TableOK, SideOK, RestOK, BadCap, TimeCap
<1>2. ASSUME NEW p \in Procs, NEW k \in DOMAIN entries[p], ReapTracked(p, k)
      PROVE  IInv'
  <2>1. /\ TableOK(entries', child', running', live_processes')
        /\ \A q \in Tracked' : child'[q].st = "zombie" =>
                                 q \in Tracked /\ child[q].st = "zombie"
    BY <1>2, DecideSteps DEF ReapTracked
  <2>2. bad_attempts' \in [Procs -> 0..BadCap]
    <3>1. \A n \in 0..BadCap : CappedInc(n, BadCap) \in 0..BadCap
      BY <1>1 DEF CappedInc
    <3> QED BY <1>1, <1>2, <3>1 DEF ReapTracked, DecideDead
  <2>3. RestOK'
    <3>1. since_dead' \in [Procs -> 0..TimeCap]
      BY <1>1, <1>2 DEF ReapTracked
    <3>2. refused' \subseteq Procs
      BY <1>1, <1>2 DEF ReapTracked, DecideDead, SideOK, RestOK
    <3> QED BY <1>1, <1>2, <2>2, <3>1, <3>2 DEF ReapTracked, SideOK, RestOK
  <2>4. NoLostDeath' /\ ScanFresh' /\ ExecEmpty' /\ PassNotStopping'
    BY <1>1, <1>2, <2>1
       DEF ReapTracked, SideOK, NoLostDeath, ScanFresh, ExecEmpty,
           PassNotStopping
  <2> QED BY <2>1, <2>3, <2>4, Assembled
<1>3. ASSUME NEW q \in Pids, ReapUnknown(q)
      PROVE  IInv'
  <2>1. UNCHANGED table /\ child' = [child EXCEPT ![q] = Free]
    BY <1>3 DEF ReapUnknown, Reaped
  <2>2. Free \in ChildRecords
    BY ProcsAssumption DEF Free, ChildRecords, ChildStates
  <2>3. /\ child' \in [Pids -> ChildRecords]
        /\ \A r \in Tracked : child'[r] = child[r]
    BY <1>1, <1>3, <2>1, <2>2, TrackedInPids DEF ReapUnknown
  <2>4. /\ TableOK(entries', child', running', live_processes')
        /\ Tracked' = Tracked
    BY <1>1, <2>1, <2>3, TableOfInv, Outside
  <2>5. SideOK'
    BY <1>1, <1>3, <2>3, <2>4
       DEF ReapUnknown, SideOK, RestOK, NoLostDeath, ScanFresh, ExecEmpty,
           PassNotStopping
  <2> QED BY <2>4, <2>5, AssembledSide
<1> QED BY <1>2, <1>3

\* restart_supervisor and recover_signal forget the table.
LEMMA ReExecSteps ==
  ASSUME IInv, ReExec
  PROVE  IInv'
<1>1. SideOK /\ child' = child /\ child \in [Pids -> ChildRecords]
  BY SideOfInv DEF ReExec, IInv, TableOK
<1>2. /\ \A p \in Procs : entries'[p] = << >> /\ running'[p] = 0
      /\ entries' \in [Procs -> Seq(Entries)] /\ running' \in [Procs -> Int]
      /\ live_processes' = 0
  BY DEF ReExec
<1>3. PidsIn(entries') = {}
  BY <1>2 DEF PidsIn
<1>4. TableOK(entries', child', running', live_processes')
  <2>1. Linked(entries', child') /\ \A p \in Procs : Sorted(entries'[p])
    BY <1>2 DEF Linked, Sorted
  <2>2. Cardinality(PidsIn(entries')) = 0
    BY <1>3, FS_EmptySet
  <2> QED BY <1>1, <1>2, <2>1, <2>2 DEF TableOK
<1>5. RestOK'
  <2>1. 0 \in 0..BadCap /\ TimeCap \in 0..TimeCap
    BY TimeoutsAssumption DEF BadCap, TimeCap
  <2> QED BY <1>1, <2>1 DEF ReExec, SideOK, RestOK, PcValues, Jobs, NoJob
<1>6. NoLostDeath' /\ ScanFresh' /\ ExecEmpty' /\ PassNotStopping'
  BY <1>3, TrackedNextIs
     DEF ReExec, NoLostDeath, ScanFresh, ExecEmpty, PassNotStopping
<1> QED BY <1>4, <1>5, <1>6, Assembled

-----------------------------------------------------------------------------
LEMMA NextInv == IInv /\ [Next]_vars => IInv'
<1> SUFFICES ASSUME IInv, [Next]_vars PROVE IInv'
  OBVIOUS
<1>1. CASE Supervisor
  BY <1>1, CalmSteps, MarkSteps, ForkSteps, RecoverSteps, ReapSteps
     DEF Supervisor, Reap
<1>2. CASE Operator
  BY <1>2, CalmSteps, MarkSteps DEF Operator, ControlCommand, MarkCommand
<1>3. CASE ReExec
  BY <1>3, ReExecSteps
<1>4. CASE Environment
  BY <1>4, CalmSteps, OutsideSteps DEF Environment
<1>5. CASE UNCHANGED vars
  <2>1. /\ TableOK(entries', child', running', live_processes')
        /\ Tracked' = Tracked
    BY <1>5, TableOfInv, Calm DEF IInv, vars, procmanVars, table
  <2>2. SideOK'
    BY <1>5, <2>1, SideOfInv
       DEF vars, procmanVars, bossdVars, SideOK, RestOK, NoLostDeath, ScanFresh,
           ExecEmpty, PassNotStopping
  <2> QED BY <2>1, <2>2, AssembledSide
<1> QED BY <1>1, <1>2, <1>3, <1>4, <1>5 DEF Next

LEMMA Invariant == Spec => []IInv
  BY InitInv, NextInv, PTL DEF Spec

\* Every variable stays in its type: no index is negative, no timer above its
\* cap, for any number of children.
THEOREM TypeCorrect == Spec => []TypeOK
<1>1. IInv => TypeOK
  BY DEF IInv
<1> QED BY <1>1, Invariant, PTL

\* running and live_processes, counted by hand in four places, always agree
\* with the lists.
THEOREM CountersCorrect == Spec => []CountersAgree
<1>1. IInv => CountersAgree
  BY TrackedIs DEF IInv, TableOK, CountersAgree
<1> QED BY <1>1, Invariant, PTL

\* The lists stay in the order of the indices.
THEOREM SortedCorrect == Spec => []ListsSorted
<1>1. IInv => ListsSorted
  BY DEF IInv, TableOK, ListsSorted
<1> QED BY <1>1, Invariant, PTL

\* Every pid in a list is a child of bossd not yet waited for, and is in one
\* place of one list: kill() never reaches a stranger.
THEOREM TrackedCorrect == Spec => []TrackedAreChildren
<1>1. ASSUME IInv PROVE TrackedAreChildren
  <2>1. Linked(entries, child)
    BY <1>1 DEF IInv, TableOK
  <2> SUFFICES ASSUME NEW p \in Procs, NEW k \in DOMAIN entries[p]
               PROVE  LET e == entries[p][k] IN
                      /\ ~ NoChild(e.pid)
                      /\ child[e.pid].grp = p /\ child[e.pid].idx = e.idx
                      /\ \A r \in Procs : \A j \in DOMAIN entries[r] :
                           entries[r][j].pid = e.pid => r = p /\ j = k
    BY DEF TrackedAreChildren
  <2>2. \A r \in Procs : \A j \in DOMAIN entries[r] :
          /\ child[entries[r][j].pid].st # "free"
          /\ child[entries[r][j].pid].grp = r
          /\ child[entries[r][j].pid].idx = entries[r][j].idx
    BY <2>1 DEF Linked
  <2>3. \A j \in DOMAIN entries[p] :
          entries[p][j].pid = entries[p][k].pid => j = k
    BY <2>1 DEF Linked
  <2> QED BY <2>2, <2>3 DEF NoChild
<1> QED BY <1>1, Invariant, PTL

\* The death of a tracked child is never missed: while it is a zombie, SIGCHLD
\* is pending or reap_children is running.
THEOREM DeathsCorrect == Spec => []NoLostDeath
<1>1. IInv => NoLostDeath
  BY DEF IInv
<1> QED BY <1>1, Invariant, PTL
-----------------------------------------------------------------------------
(***************************************************************************)
(* What a step of bossd may never do: a step that is not calm is a fork of *)
(* a loop, a re-exec, a step of the recovery, or the reaping of an         *)
(* instance.                                                               *)
(***************************************************************************)
\* What a child was told at its fork stays, and it is still to be waited for.
SameChild(q) ==
  /\ NoChild(q)' <=> NoChild(q)
  /\ Alive(q)' => Alive(q)
  /\ child'[q].grp = child[q].grp /\ child'[q].idx = child[q].idx

\* Nothing enters or leaves a list, nothing is forked, and at most a child in
\* no list is waited for.
Settles ==
  /\ Relabelled(entries, entries')
  /\ \A q \in Pids : ~ Forked(q)
  /\ \/ \A q \in Pids : SameChild(q)
     \/ \E q \in Pids : ReapUnknown(q)

\* A fork of a loop of procman.c or main(), or of main_loop's pass.
Starts(p) ==
  /\ p \in job.todo /\ Fork(p)
  /\ \/ pc = "grow" /\ BelowTarget(p, Target(p))
     \/ pc = "pass" /\ NeedsRestart(p)

LEMMA StillSettles ==
  ASSUME IInv, UNCHANGED <<entries, child>>
  PROVE  Settles
  BY TableOfInv, NotMarking DEF Settles, Forked, SameChild, NoChild, Alive

LEMMA MarksSettle ==
  ASSUME IInv, Marks
  PROVE  Settles
<1>1. PICK Q : Relabelled(entries, entries') /\ child' = Killed(Q)
  BY DEF Marks
<1>2. child \in [Pids -> ChildRecords]
  BY DEF IInv, TableOK
<1> QED BY <1>1, <1>2, KilledIs DEF Settles, Forked, SameChild, NoChild, Alive

\* The children's own steps.
LEMMA OutsideSettles ==
  ASSUME IInv,
         \/ \E q \in Pids : ChildExec(q) \/ ChildDies(q)
         \/ Tick
         \/ \E q \in Pids : ReapUnknown(q)
  PROVE  Settles
<1>1. child \in [Pids -> ChildRecords] /\ Relabelled(entries, entries')
  BY TableOfInv, NotMarking
     DEF IInv, TableOK, table, ChildExec, ChildDies, Tick, ReapUnknown
<1>2. CASE \E q \in Pids : ChildExec(q)
  BY <1>1, <1>2 DEF ChildExec, ChildRecords, Settles, Forked, SameChild, NoChild, Alive
<1>3. CASE \E q \in Pids : ChildDies(q)
  BY <1>1, <1>3 DEF ChildDies, ChildRecords, Settles, Forked, SameChild, NoChild, Alive
<1>4. CASE Tick
  BY <1>1, <1>4 DEF Tick, ChildRecords, Settles, Forked, SameChild, NoChild, Alive
<1>5. CASE \E q \in Pids : ReapUnknown(q)
  <2>1. \A q \in Pids : ~ Forked(q)
    BY <1>1, <1>5 DEF ReapUnknown, Reaped, Free, ChildRecords, Forked
  <2> QED BY <1>1, <1>5, <2>1 DEF Settles
<1> QED BY <1>2, <1>3, <1>4, <1>5

LEMMA LoopKinds ==
  ASSUME IInv, NEW p \in Procs, GrowStep(p) \/ PassStep(p)
  PROVE  Settles \/ Starts(p)
<1>1. CASE UNCHANGED <<table, child>>
  BY <1>1, StillSettles DEF table
<1>2. CASE p \in job.todo /\ Fork(p) /\ pc = "grow" /\ BelowTarget(p, Target(p))
  BY <1>2 DEF Starts
<1>3. CASE p \in job.todo /\ Fork(p) /\ pc = "pass" /\ NeedsRestart(p)
  BY <1>3 DEF Starts
<1> QED BY <1>1, <1>2, <1>3 DEF GrowStep, PassStep

\* Every step is of one of five kinds.
LEMMA StepKinds ==
  ASSUME IInv, [Next]_vars
  PROVE  \/ Settles
         \/ ReExec
         \/ \E q \in Pids : RecoverStep(q)
         \/ \E p \in Procs : Starts(p)
         \/ \E p \in Procs : \E k \in DOMAIN entries[p] : ReapTracked(p, k)
<1>1. CASE Supervisor
  <2>1. CASE \/ InitSignals \/ KilledByPending \/ ControlLocked \/ RecoverDone
             \/ (GrowDone /\ UNCHANGED bossdVars)
             \/ LoopExit \/ LoopTop \/ PassDone \/ PollReturns \/ ControlDone
             \/ ReadInt \/ ReadChld \/ SignalsDone \/ ReapDone
    <3>1. UNCHANGED <<entries, child>>
      BY <2>1
         DEF InitSignals, KilledByPending, ControlLocked, RecoverDone, GrowDone, LoopExit,
             LoopTop, PassDone, PollReturns, ControlDone, ReadInt, ReadChld,
             SignalsDone, ReapDone, table
    <3> QED BY <3>1, StillSettles
  <2>2. CASE ReadTerm
    BY <2>2, ReadTermMarks, MarksSettle
  <2>3. CASE \E p \in Procs : GrowStep(p) \/ PassStep(p)
    BY <2>3, LoopKinds
  <2>4. CASE \E q \in Pids : ReapUnknown(q)
    BY <2>4, OutsideSettles
  <2> QED BY <1>1, <2>1, <2>2, <2>3, <2>4 DEF Supervisor, Reap
<1>2. CASE Operator
  <2>1. CASE PollControl
    BY <2>1, StillSettles DEF PollControl, table
  <2>2. CASE MarkCommand
    BY <2>2, TableOfInv, MarkingActions, MarksSettle
  <2>3. CASE \E op \in GrowCommands : GrowProcesses(op)
    BY <2>3, StillSettles DEF GrowProcesses
  <2> QED BY <1>2, <2>1, <2>2, <2>3 DEF Operator, ControlCommand, MarkCommand
<1>3. CASE Environment
  <2>1. CASE \E s \in Signals : SignalArrives(s)
    BY <2>1, StillSettles DEF SignalArrives, table
  <2> QED BY <1>3, <2>1, OutsideSettles DEF Environment
<1>4. CASE UNCHANGED vars
  BY <1>4, StillSettles DEF vars, procmanVars
<1> QED BY <1>1, <1>2, <1>3, <1>4 DEF Next

-----------------------------------------------------------------------------
\* A step that forks is not a calm one: it is made by a loop that was told to
\* go on, or by decide_dead.
LEMMA WhoForks ==
  ASSUME IInv, [Next]_vars, NEW q \in Pids, Forked(q)
  PROVE  \/ \E p \in Procs : Starts(p)
         \/ \E p \in Procs : \E k \in DOMAIN entries[p] :
              /\ MayRestart(entries[p][k])
              /\ child[entries[p][k].pid].st = "zombie"
              /\ ForkInto(p, Without(p, k), Reaped(entries[p][k].pid))
<1>1. child \in [Pids -> ChildRecords]
  BY DEF IInv, TableOK
<1>2. CASE Settles \/ ReExec
  BY <1>2 DEF Settles, ReExec, Forked
<1>3. CASE \E r \in Pids : RecoverStep(r)
  BY <1>1, <1>3
     DEF RecoverStep, RecoverEntry, RecoverDied, RecoverSkip, RecoverUnread,
         Free, Forked
<1>4. ASSUME NEW p \in Procs, NEW k \in DOMAIN entries[p], ReapTracked(p, k)
      PROVE  /\ MayRestart(entries[p][k])
             /\ child[entries[p][k].pid].st = "zombie"
             /\ ForkInto(p, Without(p, k), Reaped(entries[p][k].pid))
  <2>1. child' # Reaped(entries[p][k].pid)
    BY <1>1 DEF Reaped, Free, Forked
  <2> QED BY <1>4, <2>1 DEF ReapTracked, DecideDead, Replaced
<1> QED BY <1>2, <1>3, <1>4, StepKinds

LEMMA StoppingStep ==
  ASSUME IInv, [Next]_vars
  PROVE  stopping /\ pc # "grow" => \A q \in Pids : ~ Forked(q)
<1> SUFFICES ASSUME stopping, pc # "grow", NEW q \in Pids, Forked(q)
             PROVE  FALSE
  OBVIOUS
<1> QED BY WhoForks DEF Starts, MayRestart, IInv, PassNotStopping

\* Once stopping, bossd starts nothing but what the operator asks for.
THEOREM StoppingCorrect == Spec => StoppingForksNothing
<1>1. IInv /\ [Next]_vars =>
        [stopping /\ pc # "grow" => \A q \in Pids : ~ Forked(q)]_vars
  BY StoppingStep
<1> QED BY <1>1, Invariant, PTL DEF Spec, StoppingForksNothing
-----------------------------------------------------------------------------
\* What decide_dead makes of the list of the reaped instance.
LEMMA DecidedList ==
  ASSUME IInv, NEW p \in Procs, NEW k \in DOMAIN entries[p], ReapTracked(p, k)
  PROVE  /\ Len(entries'[p]) \in {Len(entries[p]) - 1, Len(entries[p])}
         /\ MayRestart(entries[p][k]) /\ RestartsAtOnce(entries[p][k]) =>
              /\ Len(entries'[p]) = Len(entries[p]) \/ p \in refused'
              /\ bad_attempts'[p] = 0
         /\ ~ MayRestart(entries[p][k]) => entries' = Without(p, k)
         /\ \A r \in Procs \ {p} : entries'[r] = entries[r]
<1>1. /\ Len(Without(p, k)[p]) = Len(entries[p]) - 1
      /\ \A r \in Procs \ {p} : Without(p, k)[r] = entries[r]
      /\ Len(entries[p]) \in Nat
  BY TableOfInv, WithoutIs, ListFacts DEF IInv, TableOK
<1>2. CASE entries' = Without(p, k) /\ ~ (/\ MayRestart(entries[p][k])
                                          /\ RestartsAtOnce(entries[p][k]))
  BY <1>1, <1>2
<1>4. CASE /\ entries' = Without(p, k) /\ MayRestart(entries[p][k])
           /\ bad_attempts' = [bad_attempts EXCEPT ![p] = 0]
           /\ refused' = refused \cup {p}
  <2>1. bad_attempts'[p] = 0
    BY <1>4 DEF IInv, TypeOK
  <2> QED BY <1>1, <1>4, <2>1
<1>3. CASE /\ MayRestart(entries[p][k])
           /\ bad_attempts' = [bad_attempts EXCEPT ![p] = 0]
           /\ ForkInto(p, Without(p, k), Reaped(entries[p][k].pid))
  <2>1. /\ Len(entries'[p]) = Len(Without(p, k)[p]) + 1
        /\ \A r \in Procs \ {p} : entries'[r] = Without(p, k)[r]
    BY <1>3, TableOfInv, WithoutOK, ForkGrows
  <2>2. bad_attempts'[p] = 0
    BY <1>3 DEF IInv, TypeOK
  <2> QED BY <1>1, <1>3, <2>1, <2>2
<1> QED BY <1>2, <1>3, <1>4 DEF ReapTracked, DecideDead, Removed, Replaced

\* The bounds of read_config.
LEMMA Bounds ==
  ASSUME IInv, NEW p \in Procs
  PROVE  MinOf(p) \in Nat /\ MaxOf(p) \in Nat /\ MinOf(p) <= MaxOf(p)
<1>1. conf.min[p] \in Nat /\ conf.max[p] \in Nat
  BY ConfigsAssumption DEF IInv, TypeOK
<1> QED BY <1>1 DEF MinOf, MaxOf

LEMMA MaxStep ==
  ASSUME IInv, [Next]_vars, NEW p \in Procs, Grows(p)
  PROVE  pc = "recover" \/ Len(entries'[p]) <= MaxOf(p)
<1>1. /\ TableOK(entries, child, running, live_processes)
      /\ Len(entries[p]) \in Nat /\ running[p] = Len(entries[p])
  BY ListFacts DEF IInv, TableOK
<1>2. ~ Settles
  BY <1>1 DEF Settles, Relabelled, Grows
<1>3. CASE ReExec
  BY <1>1, <1>3 DEF ReExec, Grows
<1>4. CASE \E q \in Pids : RecoverStep(q)
  BY <1>4 DEF RecoverStep
<1>5. ASSUME NEW r \in Procs, Starts(r)
      PROVE  Len(entries'[p]) <= MaxOf(p)
  <2>1. /\ Len(entries'[r]) = Len(entries[r]) + 1
        /\ \A t \in Procs \ {r} : entries'[t] = entries[t]
    BY <1>1, <1>5, ForkGrows DEF Starts, Fork
  <2>2. p = r
    BY <1>1, <2>1 DEF Grows
  <2>3. running[p] < MaxOf(p)
    BY <1>1, <1>5, <2>2, Bounds
       DEF Starts, BelowTarget, Target, NeedsRestart
  <2> QED BY <1>1, <2>1, <2>2, <2>3, Bounds
<1>6. ASSUME NEW r \in Procs, NEW k \in DOMAIN entries[r], ReapTracked(r, k)
      PROVE  FALSE
  BY <1>1, <1>6, DecidedList DEF Grows
<1> QED BY <1>2, <1>3, <1>4, <1>5, <1>6, StepKinds

\* Only recovery brings a process above its maximum, for every configuration
\* and every sequence of commands, deaths and signals.
THEOREM MaxCorrect == Spec => GrowsWithinMax
<1>1. IInv /\ [Next]_vars =>
        [\A p \in Procs : Grows(p) =>
           pc = "recover" \/ Len(entries'[p]) <= MaxOf(p)]_vars
  BY MaxStep
<1> QED BY <1>1, Invariant, PTL DEF Spec, GrowsWithinMax

-----------------------------------------------------------------------------
\* reap_children touches no other dead child than the one it waits for.
LEMMA OneReaped ==
  ASSUME IInv, [Next]_vars, pc = "reap", NEW q \in Pids,
         child[q].st = "zombie", child'[q] # child[q], q \in Tracked
  PROVE  \E p \in Procs : \E k \in DOMAIN entries[p] :
           ReapTracked(p, k) /\ entries[p][k].pid = q
<1>1. child \in [Pids -> ChildRecords]
  BY DEF IInv, TableOK
<1>2. CASE Supervisor
  <2>1. \/ \E p \in Procs : \E k \in DOMAIN entries[p] : ReapTracked(p, k)
        \/ \E r \in Pids : ReapUnknown(r)
        \/ ReapDone
    BY <1>2
       DEF Supervisor, Reap, InitSignals, KilledByPending, ControlLocked, RecoverStep,
           RecoverDone, GrowStep, GrowDone, LoopExit, LoopTop, PassStep,
           PassDone, PollReturns, ControlDone, ReadInt, ReadTerm, ReadChld,
           SignalsDone
  <2>2. CASE ReapDone \/ \E r \in Pids : ReapUnknown(r)
    BY <1>1, <2>2 DEF ReapDone, ReapUnknown, Reaped
  <2>3. ASSUME NEW p \in Procs, NEW k \in DOMAIN entries[p], ReapTracked(p, k)
        PROVE  entries[p][k].pid = q
    <3> DEFINE ch == Reaped(entries[p][k].pid)
    <3>1. \A r \in Pids \ {entries[p][k].pid} : ch[r] = child[r]
      BY <1>1 DEF Reaped
    <3>2. CASE child' = ch
      BY <3>1, <3>2
    <3>3. CASE ForkInto(p, Without(p, k), ch)
      <4>1. PICK r \in Pids : ch[r].st = "free" /\ \A t \in Pids \ {r} :
                                child'[t] = ch[t]
        BY <1>1, <3>3 DEF ForkInto, Reaped
      <4> QED BY <3>1, <4>1
    <3> QED BY <2>3, <3>2, <3>3 DEF ReapTracked, DecideDead, Removed, Replaced
  <2> QED BY <2>1, <2>2, <2>3
<1>3. CASE Operator
  BY <1>3
     DEF Operator, PollControl, ControlCommand, RestartProcesses, StopProcesses,
         ShrinkProcesses, NorestartProcesses, SignalProcesses, StopSupervisor,
         GrowProcesses, Command
<1>4. CASE ReExec \/ UNCHANGED vars
  BY <1>4 DEF ReExec, vars, procmanVars
<1>5. CASE Environment
  BY <1>1, <1>5 DEF Environment, ChildExec, ChildDies, Alive, SignalArrives, Tick
<1> QED BY <1>2, <1>3, <1>4, <1>5 DEF Next

LEMMA RestartStep ==
  ASSUME IInv, [Next]_vars, NEW p \in Procs, NEW k \in DOMAIN entries[p],
         entries[p][k].dead = "RESTART", ~ stopping, pc = "reap",
         child[entries[p][k].pid].st = "zombie",
         child'[entries[p][k].pid] # child[entries[p][k].pid]
  PROVE  /\ Len(entries'[p]) = Len(entries[p]) \/ p \in refused'
         /\ bad_attempts'[p] = 0
<1>1. entries[p][k].pid \in Pids /\ entries[p][k].pid \in Tracked
  BY TableOfInv, WithoutOK, TrackedIs DEF PidsIn
<1>2. PICK r \in Procs : \E j \in DOMAIN entries[r] :
        ReapTracked(r, j) /\ entries[r][j].pid = entries[p][k].pid
  BY <1>1, OneReaped
<1>3. PICK j \in DOMAIN entries[r] :
        ReapTracked(r, j) /\ entries[r][j].pid = entries[p][k].pid
  BY <1>2
<1>4. r = p /\ j = k
  <2>1. Linked(entries, child)
    BY DEF IInv, TableOK
  <2> QED BY <1>3, <2>1 DEF Linked
<1>5. MayRestart(entries[p][k]) /\ RestartsAtOnce(entries[p][k])
  BY DEF MayRestart, RestartsAtOnce
<1> QED BY <1>3, <1>4, <1>5, DecidedList

\* A reaped instance that was marked by restart is replaced in the same step,
\* unless the fork fails, and counts as no failed attempt.
THEOREM RestartCorrect == Spec => RestartIsImmediate
<1>1. IInv /\ [Next]_vars =>
        [\A p \in Procs : \A k \in DOMAIN entries[p] :
           /\ entries[p][k].dead = "RESTART" /\ ~ stopping /\ pc = "reap"
           /\ child[entries[p][k].pid].st = "zombie"
           /\ child'[entries[p][k].pid] # child[entries[p][k].pid]
           => /\ Len(entries'[p]) = Len(entries[p]) \/ p \in refused'
              /\ bad_attempts'[p] = 0]_vars
  BY RestartStep
<1> QED BY <1>1, Invariant, PTL DEF Spec, RestartIsImmediate
-----------------------------------------------------------------------------
\* read_config clears want_down, and no command is read before main_loop.
UpAtStart == pc \in {"exec", "recover"} => \A p \in Procs : ~ want_down[p]

LEMMA UpStep == UpAtStart /\ [Next]_vars => UpAtStart'
<1> SUFFICES ASSUME UpAtStart, [Next]_vars PROVE UpAtStart'
  OBVIOUS
<1> USE DEF UpAtStart
<1>1. CASE Supervisor
  BY <1>1
     DEF Supervisor, InitSignals, KilledByPending, ControlLocked, RecoverStep, RecoverDone,
         GrowStep, GrowDone, LoopExit, LoopTop, PassStep, PassDone, PollReturns,
         ControlDone, ReadInt, ReadTerm, ReadChld, SignalsDone, Reap,
         ReapTracked, ReapUnknown, ReapDone
<1>2. CASE Operator
  BY <1>2
     DEF Operator, PollControl, ControlCommand, RestartProcesses, StopProcesses,
         ShrinkProcesses, NorestartProcesses, SignalProcesses, StopSupervisor,
         GrowProcesses, Command
<1>3. CASE ReExec
  BY <1>3 DEF ReExec
<1>4. CASE Environment
  BY <1>4 DEF Environment, ChildExec, ChildDies, SignalArrives, Tick
<1>5. CASE UNCHANGED vars
  BY <1>5 DEF vars, procmanVars
<1> QED BY <1>1, <1>2, <1>3, <1>4, <1>5 DEF Next

LEMMA UpInvariant == Spec => []UpAtStart
<1>1. Init => UpAtStart
  BY DEF Init, UpAtStart
<1> QED BY <1>1, UpStep, PTL DEF Spec

LEMMA DownStep ==
  ASSUME IInv, UpAtStart, [Next]_vars, NEW p \in Procs,
         want_down[p], pc # "grow",
         \A k \in DOMAIN entries[p] : entries[p][k].dead = "STOP",
         NEW q \in Pids, NewPid(p, q)
  PROVE  FALSE
<1>1. /\ TableOK(entries, child, running, live_processes)
      /\ entries \in [Procs -> Seq(Entries)]
  BY DEF IInv, TableOK
<1>2. CASE Settles
  <2>1. DOMAIN entries'[p] = DOMAIN entries[p]
    <3>1. /\ entries' \in [Procs -> Seq(Entries)]
          /\ Len(entries'[p]) = Len(entries[p])
      BY <1>2 DEF Settles, Relabelled
    <3>2. DOMAIN entries'[p] = 1..Len(entries'[p])
      BY <3>1, ListFacts
    <3>3. DOMAIN entries[p] = 1..Len(entries[p])
      BY <1>1, ListFacts
    <3> QED BY <3>1, <3>2, <3>3
  <2> QED BY <1>2, <2>1 DEF Settles, Relabelled, NewPid, Holds
<1>3. CASE ReExec
  BY <1>3 DEF ReExec, NewPid, Holds
<1>4. CASE \E r \in Pids : RecoverStep(r)
  BY <1>4 DEF RecoverStep, UpAtStart
<1>5. ASSUME NEW r \in Procs, Starts(r)
      PROVE  FALSE
  <2>1. r # p
    BY <1>5 DEF Starts, NeedsRestart
  <2>2. entries'[p] = entries[p]
    BY <1>1, <1>5, <2>1, ForkGrows DEF Starts, Fork
  <2> QED BY <2>2 DEF NewPid, Holds
<1>6. ASSUME NEW r \in Procs, NEW k \in DOMAIN entries[r], ReapTracked(r, k)
      PROVE  FALSE
  <2>1. CASE r # p
    <3>1. entries'[p] = entries[p]
      BY <1>6, <2>1, DecidedList
    <3> QED BY <3>1 DEF NewPid, Holds
  <2>2. CASE r = p
    <3>1. entries' = Without(p, k)
      BY <1>6, <2>2, DecidedList DEF MayRestart
    <3>2. \A j \in DOMAIN entries'[p] :
            \E i \in DOMAIN entries[p] : entries'[p][j] = entries[p][i]
      BY <1>6, <2>2, <3>1, TableOfInv, WithoutIs
    <3> QED BY <3>2 DEF NewPid, Holds
  <2> QED BY <2>1, <2>2
<1> QED BY <1>2, <1>3, <1>4, <1>5, <1>6, StepKinds

\* Nothing but a command starts an instance of a stopped process: neither
\* main_loop nor the death of the stopped instances.
THEOREM StopCorrect == Spec => StoppedStaysDown
<1>1. IInv /\ UpAtStart /\ [Next]_vars =>
        [\A p \in Procs :
           /\ want_down[p] /\ pc # "grow"
           /\ \A k \in DOMAIN entries[p] : entries[p][k].dead = "STOP"
           => \A q \in Pids : ~ NewPid(p, q)]_vars
  BY DownStep
<1> QED BY <1>1, Invariant, UpInvariant, PTL DEF Spec, StoppedStaysDown

-----------------------------------------------------------------------------
\* The entry of a list at k has the least index that no other entry has.
LeastAt(l, k) ==
  LET others == {l[j].idx : j \in DOMAIN l \ {k}}
  IN  l[k].idx \notin others /\ 0..(l[k].idx - 1) \subseteq others

\* l is the list s of N entries with one of pid q, that is not in s, and of
\* index n, the least that s does not use, inserted at i.
Inserted(s, l, N, i, n, q) ==
  /\ N \in Nat /\ i \in 1..(N + 1) /\ n \in Nat
  /\ DOMAIN l = 1..(N + 1) /\ l[i].idx = n
  /\ \A j \in 1..(i - 1) : l[j] = s[j]
  /\ \A j \in (i + 1)..(N + 1) : l[j] = s[j - 1]
  /\ \A j \in 1..N : s[j].idx # n /\ s[j].pid # q
  /\ \A v \in 0..(n - 1) : \E j \in 1..(i - 1) : s[j].idx = v

\* The inserted entry is the only one of its pid, and its index the least free.
LEMMA LeastInserted ==
  ASSUME NEW s, NEW l, NEW N, NEW i, NEW n, NEW q, Inserted(s, l, N, i, n, q),
         NEW k \in DOMAIN l, l[k].pid = q
  PROVE  LeastAt(l, k)
<1> USE DEF Inserted
<1>1. ASSUME NEW j \in DOMAIN l, j # i
      PROVE  l[j].idx # n /\ l[j].pid # q
  <2>1. CASE j < i
    <3>1. j \in 1..N /\ l[j] = s[j]
      BY <2>1
    <3> QED BY <3>1
  <2>2. CASE j > i
    <3>1. j - 1 \in 1..N /\ l[j] = s[j - 1]
      BY <2>2
    <3> QED BY <3>1
  <2> QED BY <1>1, <2>1, <2>2
<1>2. k = i
  BY <1>1
<1>3. ASSUME NEW v \in 0..(n - 1)
      PROVE  \E j \in DOMAIN l \ {k} : l[j].idx = v
  <2>1. PICK j \in 1..(i - 1) : s[j].idx = v
    OBVIOUS
  <2>2. j \in DOMAIN l \ {k} /\ l[j].idx = v
    BY <1>2, <2>1
  <2> QED BY <2>2
<1>4. l[k].idx = n /\ l[k].idx \notin {l[j].idx : j \in DOMAIN l \ {k}}
  BY <1>1, <1>2
<1>5. 0..(n - 1) \subseteq {l[j].idx : j \in DOMAIN l \ {k}}
  BY <1>3
<1> QED BY <1>4, <1>5 DEF LeastAt

\* The entry of a child do_fork has just forked is the one it has inserted.
LEMMA LeastFree ==
  ASSUME NEW es, NEW ch, NEW run, NEW live, TableOK(es, ch, run, live),
         NEW p \in Procs, ForkInto(p, es, ch),
         NEW r \in Procs, NEW k \in DOMAIN entries'[r],
         NEW q \in Pids, entries'[r][k].pid = q,
         child'[q].st = "forked", ch[q].st # "forked"
  PROVE  LeastAt(entries'[r], k)
<1>1. /\ es \in [Procs -> Seq(Entries)] /\ ch \in [Pids -> ChildRecords]
      /\ Linked(es, ch)
  BY DEF TableOK
<1>2. PICK i \in 1..(Len(es[p]) + 1) :
        ch[q].st = "free" /\ ForkedAt(es, p, q, i)
  BY <1>1, ForkedIs
<1>3. /\ Len(es[p]) \in Nat /\ DOMAIN es[p] = 1..Len(es[p])
      /\ DOMAIN entries'[p] = 1..(Len(es[p]) + 1)
      /\ entries'[p][i] = Entry(q, SlotIndex(es[p], i))
      /\ \A j \in 1..(i - 1) : entries'[p][j] = es[p][j]
      /\ \A j \in (i + 1)..(Len(es[p]) + 1) : entries'[p][j] = es[p][j - 1]
      /\ \A t \in Procs \ {p} : entries'[t] = es[t]
      /\ SlotIndex(es[p], i) \in Nat
      /\ \A j \in 1..Len(es[p]) : es[p][j].idx # SlotIndex(es[p], i)
  BY <1>2, ForkedList
<1>4. \A t \in Procs : \A j \in DOMAIN es[t] : es[t][j].pid # q
  BY <1>1, <1>2 DEF Linked
<1>5. r = p
  BY <1>3, <1>4
<1>6. entries'[p][i].idx = SlotIndex(es[p], i)
  BY <1>3 DEF Entry
<1>7. \A v \in 0..(SlotIndex(es[p], i) - 1) :
        \E j \in 1..(i - 1) : es[p][j].idx = v
  <2>1. es[p] \in Seq(Entries) /\ \A x \in Entries : x.idx \in Nat
    BY <1>1, ListFacts DEF Entries
  <2>2. ForkStopsAt(es[p], i)
    BY <1>2 DEF ForkedAt
  <2> DEFINE s == es[p]
  <2> HIDE DEF s
  <2>3. /\ s \in Seq(Entries) /\ i \in 1..(Len(s) + 1) /\ ForkStopsAt(s, i)
    BY <2>1, <2>2 DEF s
  <2>4. \A v \in 0..(SlotIndex(s, i) - 1) : \E j \in 1..(i - 1) : s[j].idx = v
    BY <2>1, <2>3, ForkDense
  <2> QED BY <2>4 DEF s
<1>8. k \in DOMAIN entries'[p] /\ entries'[p][k].pid = q
  BY <1>5
<1> DEFINE l == entries'[p]
           s == es[p]
           n == SlotIndex(es[p], i)
<1>9. \A j \in 1..Len(s) : s[j].idx # n /\ s[j].pid # q
  BY <1>3, <1>4
<1>10. LeastAt(l, k)
  <2> HIDE DEF l, s, n
  <2>1. /\ Len(s) \in Nat /\ i \in 1..(Len(s) + 1) /\ n \in Nat
        /\ DOMAIN l = 1..(Len(s) + 1) /\ l[i].idx = n
        /\ \A j \in 1..(i - 1) : l[j] = s[j]
        /\ \A j \in (i + 1)..(Len(s) + 1) : l[j] = s[j - 1]
        /\ \A v \in 0..(n - 1) : \E j \in 1..(i - 1) : s[j].idx = v
        /\ k \in DOMAIN l /\ l[k].pid = q
    BY <1>3, <1>6, <1>7, <1>8 DEF l, s, n
  <2>2. \A j \in 1..Len(s) : s[j].idx # n /\ s[j].pid # q
    BY <1>9
  <2>3. Inserted(s, l, Len(s), i, n, q)
    BY <2>1, <2>2 DEF Inserted
  <2> QED BY <2>1, <2>3, LeastInserted
<1> QED BY <1>5, <1>10

LEMMA LeastStep ==
  ASSUME IInv, [Next]_vars, NEW p \in Procs, NEW k \in DOMAIN entries'[p],
         Forked(entries'[p][k].pid)
  PROVE  LeastAt(entries'[p], k)
<1>1. /\ TableOK(entries, child, running, live_processes)
      /\ child \in [Pids -> ChildRecords]
  BY DEF IInv, TableOK
<1>2. entries'[p][k].pid \in Pids
  <2>1. entries' \in [Procs -> Seq(Entries)]
    BY NextInv DEF IInv, TableOK
  <2> QED BY <2>1, ListFacts DEF Entries
<1>3. CASE \E r \in Procs : Starts(r)
  BY <1>1, <1>2, <1>3, LeastFree DEF Starts, Fork, Forked
<1>4. CASE \E r \in Procs : \E j \in DOMAIN entries[r] :
             /\ child[entries[r][j].pid].st = "zombie"
             /\ ForkInto(r, Without(r, j), Reaped(entries[r][j].pid))
  <2>1. PICK r \in Procs : \E j \in DOMAIN entries[r] :
          ForkInto(r, Without(r, j), Reaped(entries[r][j].pid))
    BY <1>4
  <2>2. PICK j \in DOMAIN entries[r] :
          ForkInto(r, Without(r, j), Reaped(entries[r][j].pid))
    BY <2>1
  <2> DEFINE ch == Reaped(entries[r][j].pid)
  <2>3. ch[entries'[p][k].pid].st # "forked"
    BY <1>1, <1>2 DEF Reaped, Free, Forked
  <2>4. ForkInto(r, Without(r, j), ch) /\ child'[entries'[p][k].pid].st = "forked"
    BY <2>2 DEF Forked
  <2>5. TableOK(Without(r, j), ch, [running EXCEPT ![r] = running[r] - 1],
                live_processes - 1)
    BY <1>1, TableOfInv, WithoutOK
  <2> HIDE DEF ch
  <2> QED BY <1>2, <2>3, <2>4, <2>5, LeastFree
<1> QED BY <1>2, <1>3, <1>4, WhoForks

\* Every instance bossd starts takes the least index free among the instances
\* it tracks of the process, however many there are and with whatever gaps.
THEOREM IndexCorrect == Spec => ForkTakesLeastIndex
<1>1. IInv /\ [Next]_vars =>
        [\A p \in Procs : \A k \in DOMAIN entries'[p] :
           LET e == entries'[p][k]
               others == {entries'[p][j].idx : j \in DOMAIN entries'[p] \ {k}}
           IN  Forked(e.pid) =>
                 e.idx \notin others /\ 0..(e.idx - 1) \subseteq others]_vars
  BY LeastStep DEF LeastAt
<1> QED BY <1>1, Invariant, PTL DEF Spec, ForkTakesLeastIndex
=============================================================================
