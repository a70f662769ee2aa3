--------------------------- MODULE BossrunProofs ---------------------------
(***************************************************************************)
(* bossrun leaves no child behind, keeps the minimum it promises under its *)
(* option restart, restarts nothing else but what was marked, and keeps    *)
(* the indices, for every value of the constants.                          *)
(***************************************************************************)
EXTENDS Bossrun, RefinementProofs

\* What TypeOK says of the variables that are not the table.
RestOK ==
  /\ conf \in Configs /\ opts \in Options
  /\ want_down \in [Procs -> BOOLEAN] /\ stopping \in BOOLEAN
  /\ pc \in {"grow", "loop", "poll", "signals", "reap", "control", "exited"}
  /\ job \in [op : Jobs, todo : SUBSET Procs]
  /\ pending \subseteq Signals \cup {"CHLD"}
  /\ owed \in [Procs -> Nat] /\ late \subseteq Pids

\* bossrun is never replaced by another image: it knows every child it has.
AllTracked == \A q \in Pids : ~ NoChild(q) => q \in Tracked
\* The loop condition of main(): live_processes counts the lists.
ExitedEmpty == pc = "exited" => Tracked = {}
\* Between any two steps, and not at the poll only, each process started has
\* its minimum but for what it is short of, under the options that say so.
Boots(p) == pc = "grow" /\ job.op = "boot" /\ p \in job.todo
EnoughOf(p) == running[p] + owed[p] >= MinOf(p)
MinKept ==
  opts.restart /\ ~ opts.failfast /\ ~ stopping =>
    \A p \in conf.names : Boots(p) \/ EnoughOf(p)

\* The inductive invariant.
BInv ==
  /\ RestOK /\ TableNow
  /\ AllTracked /\ ExitedEmpty /\ MinKept

LEMMA InitBInv == Init => BInv
<1> SUFFICES ASSUME Init PROVE BInv
  OBVIOUS
<1>1. RestOK
  BY ConfigsAssumption DEF Init, RestOK, Jobs
<1>2. /\ entries \in [Procs -> Seq(Entries)]
      /\ \A p \in Procs : entries[p] = << >> /\ running[p] = 0
      /\ child \in [Pids -> ChildRecords]
      /\ \A q \in Pids : NoChild(q)
  BY ProcsAssumption DEF Init, Free, ChildRecords, ChildStates, NoChild
<1>3. PidsIn(entries) = {}
  BY <1>2 DEF PidsIn
<1>4. TableNow
  <2>1. Linked(entries, child) /\ \A p \in Procs : Sorted(entries[p])
    BY <1>2 DEF Linked, Sorted
  <2>2. Cardinality(PidsIn(entries)) = 0
    BY <1>3, FS_EmptySet
  <2> QED BY <1>2, <2>1, <2>2 DEF Init, TableNow, TableOK
<1>5. AllTracked /\ ExitedEmpty /\ MinKept
  BY <1>2 DEF Init, AllTracked, ExitedEmpty, MinKept, Boots
<1> QED BY <1>1, <1>3, <1>4, <1>5 DEF BInv

-----------------------------------------------------------------------------
\* The variables beside the table.
LEMMA RestStep ==
  ASSUME RestOK, [Next]_vars
  PROVE  RestOK'
<1> USE DEF RestOK
<1>1. CASE Supervisor
  <2>1. CASE \E p \in Procs : GrowOne(p)
    <3>1. PICK p \in Procs : GrowOne(p)
      BY <2>1
    <3>2. owed' \in [Procs -> Nat]
      BY <3>1 DEF GrowOne, Paid
    <3>3. /\ late' \subseteq Pids /\ UNCHANGED <<conf, opts, pending>>
          /\ UNCHANGED <<want_down, stopping, pc>> /\ job' \in {job, JobWithout(p)}
      BY <3>1 DEF GrowOne, GrowStep
    <3> QED BY <3>2, <3>3 DEF JobWithout
  <2>2. CASE GrowDone /\ UNCHANGED bossrunVars
    BY <2>2 DEF GrowDone, NoJob, Jobs, bossrunVars
  <2>3. CASE LoopExit \/ LoopTop \/ PollSignals \/ ControlDone \/ SignalsDone
    BY <2>3
       DEF LoopExit, LoopTop, PollSignals, ControlDone, SignalsDone, bossrunVars
  <2>4. CASE \E s \in Signals : ReadSignal(s)
    BY <2>4 DEF ReadSignal
  <2>5. CASE ReadChld
    BY <2>5 DEF ReadChld
  <2>6. CASE Reap
    <3>1. CASE ReapDone
      BY <3>1 DEF ReapDone, bossrunVars
    <3>2. CASE \E p \in Procs : \E k \in DOMAIN entries[p] : ReapTracked(p, k)
      <4>1. PICK p \in Procs : \E k \in DOMAIN entries[p] : ReapTracked(p, k)
        BY <3>2
      <4>2. PICK k \in DOMAIN entries[p] : ReapTracked(p, k)
        BY <4>1
      <4>3. owed' \in [Procs -> Nat] /\ late' \subseteq Pids
        BY <4>2 DEF ReapTracked
      <4>4. stopping' \in BOOLEAN
        BY <4>2 DEF ReapTracked, DecideDead, FailFast
      <4> QED BY <4>2, <4>3, <4>4 DEF ReapTracked
    <3> QED BY <2>6, <3>1, <3>2 DEF Reap
  <2> QED BY <1>1, <2>1, <2>2, <2>3, <2>4, <2>5, <2>6 DEF Supervisor
<1>2. CASE Operator
  <2>1. CASE PollControl
    BY <2>1 DEF PollControl, bossrunVars
  <2>2. CASE ControlCommand /\ UNCHANGED bossrunVars
    <3> USE DEF bossrunVars
    <3>1. CASE \E op \in GrowCommands : GrowProcesses(op)
      BY <2>2, <3>1, ConfigsAssumption DEF GrowProcesses, Groups, Jobs
    <3>2. CASE StopProcesses
      BY <2>2, <3>2 DEF StopProcesses
    <3>3. CASE \/ RestartProcesses \/ ShrinkProcesses("decr")
               \/ ShrinkProcesses("min") \/ NorestartProcesses
               \/ SignalProcesses \/ StopSupervisor
      BY <2>2, <3>3
         DEF RestartProcesses, ShrinkProcesses, NorestartProcesses,
             SignalProcesses, StopSupervisor
    <3> QED BY <2>2, <3>1, <3>2, <3>3 DEF ControlCommand
  <2> QED BY <1>2, <2>1, <2>2 DEF Operator
<1>3. CASE Environment
  <2>1. CASE \E q \in Pids : ChildExec(q)
    BY <2>1 DEF ChildExec, bossrunVars
  <2>2. CASE \E q \in Pids : ChildDies(q)
    BY <2>2 DEF ChildDies
  <2>3. CASE \E s \in Signals : SignalArrives(s)
    BY <2>3 DEF SignalArrives
  <2> QED BY <1>3, <2>1, <2>2, <2>3 DEF Environment
<1>4. CASE UNCHANGED vars
  BY <1>4 DEF vars, procmanVars, bossrunVars
<1> QED BY <1>1, <1>2, <1>3, <1>4 DEF Next

\* What a step makes of the table: nothing, marks and signals, a child's own
\* step, a fork of a loop, or the end of an instance.
LEMMA BossrunKinds ==
  ASSUME TableNow, [Next]_vars
  PROVE  \/ UNCHANGED <<table, child>>
         \/ Marks
         \/ \E q \in Pids : ChildExec(q) \/ ChildDies(q)
         \/ \E p \in Procs : GrowOne(p) /\ Fork(p)
         \/ \E p \in Procs : \E k \in DOMAIN entries[p] : ReapTracked(p, k)
<1>1. CASE Supervisor
  <2>1. CASE \E s \in Signals : ReadSignal(s)
    BY <2>1, NotMarking DEF ReadSignal, SendAll, Marks, table
  <2>2. CASE \E p \in Procs : GrowOne(p)
    BY <2>2 DEF GrowOne, GrowStep
  <2>3. CASE \/ GrowDone /\ UNCHANGED bossrunVars
             \/ LoopExit \/ LoopTop \/ PollSignals \/ ControlDone
             \/ ReadChld \/ SignalsDone \/ ReapDone
    BY <2>3
       DEF GrowDone, LoopExit, LoopTop, PollSignals, ControlDone, ReadChld,
           SignalsDone, ReapDone
  <2> QED BY <1>1, <2>1, <2>2, <2>3 DEF Supervisor, Reap
<1>2. CASE Operator
  <2>1. CASE PollControl
    BY <2>1 DEF PollControl
  <2>2. CASE MarkCommand
    BY <2>2, MarkingActions
  <2>3. CASE \E op \in GrowCommands : GrowProcesses(op)
    BY <2>3 DEF GrowProcesses, table
  <2> QED BY <1>2, <2>1, <2>2, <2>3
          DEF Operator, ControlCommand, MarkCommand
<1>3. CASE Environment
  BY <1>3 DEF Environment, SignalArrives
<1>4. CASE UNCHANGED vars
  BY <1>4 DEF vars, procmanVars, table
<1> QED BY <1>1, <1>2, <1>3, <1>4 DEF Next

-----------------------------------------------------------------------------
\* stop_supervisor in the middle of reap_children: the others are signalled,
\* the instance goes.
LEMMA FailFastIs ==
  ASSUME TableNow, NEW p \in Procs, NEW k \in DOMAIN entries[p], FailFast(p, k)
  PROVE  /\ TableOK(entries', child', running', live_processes')
         /\ OneLess(Tracked, Tracked', entries[p][k].pid)
         /\ \A q \in Pids :
              /\ child'[q].st = Reaped(entries[p][k].pid)[q].st
              /\ child'[q].grp = Reaped(entries[p][k].pid)[q].grp
              /\ child'[q].idx = Reaped(entries[p][k].pid)[q].idx
<1> DEFINE d == entries[p][k].pid
           ch == Killed(Tracked \ {d})
<1>1. /\ entries \in [Procs -> Seq(Entries)] /\ child \in [Pids -> ChildRecords]
      /\ d \in Pids /\ TableOK(entries, child, running, live_processes)
  BY ListFacts DEF TableNow, TableOK, Entries
<1>2. /\ ch \in [Pids -> ChildRecords]
      /\ \A q \in Pids : /\ ch[q].st = child[q].st /\ ch[q].grp = child[q].grp
                         /\ ch[q].idx = child[q].idx
  BY <1>1, KilledIs
<1>3. /\ entries' = Without(p, k)
      /\ child' = [ch EXCEPT ![d] = Free]
      /\ running' = [running EXCEPT ![p] = running[p] - 1]
      /\ live_processes' = live_processes - 1
  BY DEF FailFast, Removed
<1>4. Free \in ChildRecords
  BY ProcsAssumption DEF Free, ChildRecords, ChildStates
<1> HIDE DEF ch
<1>5. TableOK(entries, ch, running, live_processes)
  <2>1. Relabelled(entries, entries)
    BY <1>1 DEF Relabelled
  <2>2. StillChildren(entries, child, ch)
    BY <1>2 DEF StillChildren, PidsIn
  <2> QED BY <1>1, <2>1, <2>2, TableSame
<1>6. Leaves(entries[p][k], ch, child')
  BY <1>1, <1>2, <1>3, <1>4 DEF Leaves
<1>7. /\ TableOK(entries', child', running', live_processes')
      /\ OneLess(PidsIn(entries), PidsIn(entries'), d)
  BY <1>3, <1>5, <1>6, TableRemove DEF Without
<1>8. \A q \in Pids : /\ child'[q].st = Reaped(d)[q].st
                      /\ child'[q].grp = Reaped(d)[q].grp
                      /\ child'[q].idx = Reaped(d)[q].idx
  BY <1>1, <1>2, <1>3 DEF Reaped
<1> QED BY <1>7, <1>8, TrackedIs, TrackedNextIs

\* What the death of an instance makes of the table, when nothing replaces it.
Gone(p, k) ==
  /\ entries' = Without(p, k)
  /\ running' = [running EXCEPT ![p] = running[p] - 1]
  /\ OneLess(Tracked, Tracked', entries[p][k].pid)
  /\ \A q \in Pids :
       /\ child'[q].st = Reaped(entries[p][k].pid)[q].st
       /\ child'[q].grp = Reaped(entries[p][k].pid)[q].grp
       /\ child'[q].idx = Reaped(entries[p][k].pid)[q].idx

LEMMA DeathIs ==
  ASSUME TableNow, NEW p \in Procs, NEW k \in DOMAIN entries[p],
         ReapTracked(p, k)
  PROVE  /\ TableOK(entries', child', running', live_processes')
         /\ \/ Gone(p, k)
            \/ /\ Replaced(p, k)
               /\ ~ stopping /\ ~ Fails(entries[p][k])
               /\ Restarts(p, entries[p][k])
<1>1. CASE child' = Reaped(entries[p][k].pid) /\ Removed(p, k)
  BY <1>1, EntryRemoved DEF Removed, Gone
<1>2. CASE FailFast(p, k)
  BY <1>2, FailFastIs DEF FailFast, Removed, Gone
<1>3. CASE /\ ~ stopping /\ ~ Fails(entries[p][k])
           /\ Restarts(p, entries[p][k])
           /\ Replaced(p, k)
  BY <1>3, EntryReplaced DEF Replaced
<1> QED BY <1>1, <1>2, <1>3 DEF ReapTracked, DecideDead

\* A child's own step.
LEMMA ChildStep ==
  ASSUME TableNow, NEW q \in Pids, ChildExec(q) \/ ChildDies(q)
  PROVE  /\ TableOK(entries', child', running', live_processes')
         /\ Tracked' = Tracked
         /\ \A r \in Pids : /\ NoChild(r)' <=> NoChild(r)
                            /\ child'[r].grp = child[r].grp
                            /\ child'[r].idx = child[r].idx
<1>1. child \in [Pids -> ChildRecords]
  BY DEF TableNow, TableOK
<1>2. /\ UNCHANGED table /\ child' \in [Pids -> ChildRecords]
      /\ \A r \in Pids : /\ NoChild(r)' <=> NoChild(r)
                         /\ child'[r].grp = child[r].grp
                         /\ child'[r].idx = child[r].idx
  BY <1>1 DEF ChildExec, ChildDies, Alive, NoChild, ChildRecords, ChildStates,
              table
<1> QED BY <1>2, TrackedInPids, Outside DEF NoChild

\* The table agrees after every step, and holds every child.
LEMMA TableStep ==
  ASSUME TableNow, AllTracked, [Next]_vars
  PROVE  TableNow' /\ AllTracked'
<1>1. /\ TableOK(entries, child, running, live_processes)
      /\ child \in [Pids -> ChildRecords] /\ entries \in [Procs -> Seq(Entries)]
  BY DEF TableNow, TableOK
<1> SUFFICES /\ TableOK(entries', child', running', live_processes')
             /\ AllTracked'
  BY DEF TableNow
<1>2. CASE UNCHANGED <<table, child>>
  BY <1>2, Calm DEF AllTracked, NoChild
<1>3. CASE Marks
  <2>1. PICK Q : /\ Relabelled(entries, entries') /\ child' = Killed(Q)
                 /\ UNCHANGED <<running, live_processes>>
    BY <1>3 DEF Marks
  <2> QED BY <1>1, <2>1, Marking, KilledIs DEF AllTracked, NoChild
<1>4. CASE \E q \in Pids : ChildExec(q) \/ ChildDies(q)
  BY <1>4, ChildStep DEF AllTracked
<1>5. CASE \E p \in Procs : Fork(p)
  <2>1. PICK p \in Procs : Fork(p)
    BY <1>5
  <2>2. TableOK(entries', child', running', live_processes')
    BY <2>1, ForkAdds
  <2>3. PICK q \in Pids : /\ Tracked' = Tracked \cup {q}
                          /\ \A r \in Pids \ {q} : child'[r] = child[r]
    BY <2>1, ForkAdds
  <2> QED BY <2>2, <2>3 DEF AllTracked, NoChild
<1>6. CASE \E p \in Procs : \E k \in DOMAIN entries[p] : ReapTracked(p, k)
  <2>1. PICK p \in Procs : \E k \in DOMAIN entries[p] : ReapTracked(p, k)
    BY <1>6
  <2>2. PICK k \in DOMAIN entries[p] : ReapTracked(p, k)
    BY <2>1
  <2> DEFINE d == entries[p][k].pid
  <2>3. /\ TableOK(entries', child', running', live_processes')
        /\ Gone(p, k) \/ Replaced(p, k)
    BY <2>2, DeathIs
  <2>4. /\ d \in Pids /\ Reaped(d)[d].st = "free"
        /\ \A r \in Pids \ {d} : Reaped(d)[r] = child[r]
    BY <1>1, WithoutOK DEF Reaped, Free
  <2>5. CASE Gone(p, k)
    <3>1. /\ Tracked' = Tracked \ {d}
          /\ \A r \in Pids : child'[r].st = Reaped(d)[r].st
      BY <2>5 DEF Gone, OneLess
    <3> QED BY <2>3, <2>4, <3>1 DEF AllTracked, NoChild
  <2>6. CASE Replaced(p, k)
    <3>1. PICK q \in Pids :
            /\ Tracked' = (Tracked \ {d}) \cup {q}
            /\ \A r \in Pids \ {q} : child'[r] = Reaped(d)[r]
      BY <2>6, EntryReplaced DEF Replaced
    <3> QED BY <2>3, <2>4, <3>1 DEF AllTracked, NoChild
  <2> QED BY <2>3, <2>5, <2>6
<1> QED BY <1>2, <1>3, <1>4, <1>5, <1>6, BossrunKinds

-----------------------------------------------------------------------------
\* The options and the configuration stay, and stopping is for good.
LEMMA Settled ==
  ASSUME [Next]_vars, stopping \in BOOLEAN
  PROVE  UNCHANGED <<conf, opts>> /\ (stopping => stopping')
<1>1. CASE Supervisor
  <2>1. CASE Reap
    BY <2>1 DEF Reap, ReapTracked, ReapDone, DecideDead, FailFast, bossrunVars
  <2>2. CASE ~ Reap
    BY <1>1, <2>2
       DEF Supervisor, GrowOne, GrowStep, GrowDone, LoopExit, LoopTop,
           PollSignals, ControlDone, ReadSignal, ReadChld, SignalsDone,
           bossrunVars
  <2> QED BY <2>1, <2>2
<1>2. CASE Operator
  BY <1>2
     DEF Operator, PollControl, ControlCommand, RestartProcesses,
         StopProcesses, ShrinkProcesses, NorestartProcesses, SignalProcesses,
         StopSupervisor, GrowProcesses, bossrunVars
<1>3. CASE Environment
  BY <1>3 DEF Environment, ChildExec, ChildDies, SignalArrives, bossrunVars
<1>4. CASE UNCHANGED vars
  BY <1>4 DEF vars, procmanVars, bossrunVars
<1> QED BY <1>1, <1>2, <1>3, <1>4 DEF Next

\* The boot loop gives up a process only when it has its minimum.
LEMMA BootStep ==
  ASSUME RestOK, TableNow, [Next]_vars, NEW p \in Procs, Boots(p)
  PROVE  Boots(p)' \/ running[p] >= MinOf(p)
<1> USE DEF Boots
<1>1. CASE \E q \in Procs : GrowStep(q)
  <2>1. PICK q \in Procs : GrowStep(q)
    BY <1>1
  <2>2. ~ ForksOnce /\ Target(q) = MinOf(q)
    BY DEF ForksOnce, Target
  <2>3. pc' = pc /\ job' \in {job, JobWithout(q)}
    BY <2>1 DEF GrowStep
  <2>4. job' = job \/ ~ BelowTarget(q, MinOf(q))
    BY <2>1, <2>2 DEF GrowStep
  <2>5. CASE p = q /\ ~ BelowTarget(q, MinOf(q))
    BY <2>5, ConfigsAssumption
       DEF BelowTarget, MinOf, RestOK, TableNow, TableOK
  <2>6. CASE p # q \/ job' = job
    BY <2>3, <2>6 DEF JobWithout, RestOK
  <2> QED BY <2>4, <2>5, <2>6
<1>2. CASE ~ \E q \in Procs : GrowStep(q)
  <2>1. ~ Supervisor
    BY <1>2
       DEF Supervisor, GrowOne, GrowDone, LoopExit, LoopTop, PollSignals,
           ControlDone, ReadSignal, ReadChld, SignalsDone, Reap, ReapTracked,
           ReapDone
  <2>2. ~ Operator
    BY DEF Operator, PollControl, ControlCommand, Command,
           RestartProcesses, StopProcesses, ShrinkProcesses,
           NorestartProcesses, SignalProcesses, StopSupervisor, GrowProcesses
  <2>3. UNCHANGED <<pc, job>>
    BY <2>1, <2>2
       DEF Next, Environment, ChildExec, ChildDies, SignalArrives, vars,
           procmanVars
  <2> QED BY <2>3
<1> QED BY <1>1, <1>2

\* What a process is short of changes only with the number that runs.
LEMMA OwedSame ==
  ASSUME RestOK, TableNow, [Next]_vars, running' = running
  PROVE  owed' = owed
<1>1. running \in [Procs -> Int]
  BY DEF TableNow, TableOK
<1>2. CASE Supervisor
  <2>1. CASE Reap
    BY <1>1, <2>1 DEF Reap, ReapTracked, ReapDone, FallsShort, bossrunVars
  <2>2. CASE ~ Reap
    BY <1>2, <2>2
       DEF Supervisor, GrowOne, GrowDone, LoopExit, LoopTop, PollSignals,
           ControlDone, ReadSignal, ReadChld, SignalsDone, bossrunVars
  <2> QED BY <2>1, <2>2
<1>3. CASE Operator
  BY <1>3 DEF Operator, PollControl, bossrunVars
<1>4. CASE Environment \/ UNCHANGED vars
  BY <1>4
     DEF Environment, ChildExec, ChildDies, SignalArrives, vars, bossrunVars
<1> QED BY <1>2, <1>3, <1>4 DEF Next

\* Under restart, an instance that dies at the minimum of its process either is
\* replaced or is counted as owed.
LEMMA MinStep ==
  ASSUME BInv, [Next]_vars
  PROVE  MinKept'
<1>1. /\ RestOK /\ TableNow /\ MinKept
      /\ UNCHANGED <<conf, opts>> /\ (stopping => stopping')
      /\ RestOK' /\ TableNow'
  BY Settled, RestStep, TableStep DEF BInv, RestOK
<1> SUFFICES ASSUME opts.restart, ~ opts.failfast, ~ stopping',
                    NEW p \in conf.names
             PROVE  Boots(p)' \/ EnoughOf(p)'
  BY <1>1 DEF MinKept
<1>2. /\ (Boots(p) \/ EnoughOf(p)) /\ p \in Procs
      /\ running \in [Procs -> Int] /\ \A r \in Procs : MinOf(r) \in Int
  BY <1>1, ConfigsAssumption DEF MinKept, RestOK, MinOf, TableNow, TableOK
<1>3. /\ owed \in [Procs -> Nat] /\ owed'[p] \in Nat /\ running'[p] \in Int
      /\ MinOf(p)' = MinOf(p)
  BY <1>1, <1>2 DEF RestOK, TableNow, TableOK, MinOf
<1>4. ASSUME running'[p] >= running[p],
             running'[p] + owed'[p] >= running[p] + owed[p]
      PROVE  Boots(p)' \/ EnoughOf(p)'
  <2>1. CASE Boots(p)
    <3>1. Boots(p)' \/ running[p] >= MinOf(p)
      BY <1>1, <1>2, <2>1, BootStep
    <3> QED BY <1>2, <1>3, <1>4, <3>1 DEF EnoughOf
  <2>2. CASE EnoughOf(p)
    BY <1>2, <1>3, <1>4, <2>2 DEF EnoughOf
  <2> QED BY <1>2, <2>1, <2>2
<1>5. CASE running' = running
  BY <1>1, <1>2, <1>3, <1>4, <1>5, OwedSame
<1>6. ASSUME NEW q \in Procs, GrowOne(q), Fork(q)
      PROVE  Boots(p)' \/ EnoughOf(p)'
  <2>1. running' = [running EXCEPT ![q] = running[q] + 1] /\ owed' = Paid(q)
    BY <1>2, <1>6 DEF GrowOne, Fork
  <2>2. CASE q = p
    BY <1>2, <1>3, <1>4, <2>1, <2>2 DEF Paid
  <2>3. CASE q # p
    BY <1>2, <1>3, <1>4, <2>1, <2>3 DEF Paid
  <2> QED BY <2>2, <2>3
<1>7. ASSUME NEW q \in Procs, NEW k \in DOMAIN entries[q], ReapTracked(q, k)
      PROVE  Boots(p)' \/ EnoughOf(p)'
  <2>1. /\ pc = "reap"
        /\ owed' = IF FallsShort(q, k) THEN [owed EXCEPT ![q] = owed[q] + 1]
                                       ELSE owed
    BY <1>7 DEF ReapTracked
  <2>2. CASE Replaced(q, k)
    BY <1>5, <2>2 DEF Replaced
  <2>3. CASE Gone(q, k) /\ q # p
    BY <1>2, <1>3, <1>4, <2>1, <2>3 DEF Gone
  <2>4. CASE Gone(q, k) /\ q = p
    <3>1. EnoughOf(p)
      BY <1>2, <2>1 DEF Boots
    <3>2. running'[p] = running[p] - 1
      BY <1>2, <2>4 DEF Gone
    <3>3. CASE FallsShort(p, k)
      <4>1. owed'[p] = owed[p] + 1
        BY <1>2, <1>3, <2>1, <2>4, <3>3
      <4> QED BY <1>2, <1>3, <3>1, <3>2, <4>1 DEF EnoughOf
    <3>4. CASE ~ FallsShort(p, k)
      <4>1. running[p] - 1 >= MinOf(p)
        BY <1>2, <3>2, <3>4 DEF FallsShort, Restarts
      <4> QED BY <1>2, <1>3, <3>2, <4>1 DEF EnoughOf
    <3> QED BY <3>3, <3>4
  <2> QED BY <1>1, <1>7, <2>2, <2>3, <2>4, DeathIs
<1>8. running' = running \/ (\E q \in Procs : GrowOne(q) /\ Fork(q))
        \/ \E q \in Procs : \E k \in DOMAIN entries[q] : ReapTracked(q, k)
  BY <1>1, BossrunKinds DEF table, Marks, ChildExec, ChildDies
<1> QED BY <1>5, <1>6, <1>7, <1>8

-----------------------------------------------------------------------------
\* main() leaves its loop only when live_processes, hence the lists, are empty,
\* and does nothing after it.
LEMMA ExitStep ==
  ASSUME BInv, [Next]_vars
  PROVE  ExitedEmpty'
<1>1. TableNow
  BY DEF BInv
<1> SUFFICES ASSUME pc' = "exited" PROVE Tracked' = {}
  BY DEF ExitedEmpty
<1>2. CASE pc = "exited"
  <2>1. entries' = entries
    BY <1>2
       DEF Next, Supervisor, Operator, Environment, GrowOne, GrowStep, GrowDone,
           LoopExit, LoopTop, PollSignals, PollControl, ControlDone,
           ReadSignal, ReadChld, SignalsDone, Reap, ReapTracked, ReapDone,
           ControlCommand, Command, RestartProcesses,
           StopProcesses, ShrinkProcesses, NorestartProcesses,
           SignalProcesses, StopSupervisor, GrowProcesses, vars, procmanVars
  <2>2. Tracked = {}
    BY <1>2 DEF BInv, ExitedEmpty
  <2> QED BY <2>1, <2>2, TrackedIs, TrackedNextIs
<1>3. CASE pc # "exited"
  <2>1. LoopExit
    <3>1. CASE Supervisor
      <4>1. CASE Reap
        BY <1>3, <4>1 DEF Reap, ReapTracked, ReapDone
      <4>2. CASE ~ Reap
        BY <1>3, <3>1, <4>2
           DEF Supervisor, GrowOne, GrowStep, GrowDone, LoopTop, PollSignals,
               ControlDone, ReadSignal, ReadChld, SignalsDone
      <4> QED BY <4>1, <4>2
    <3>2. CASE Operator
      BY <1>3, <3>2
         DEF Operator, PollControl, ControlCommand,
             RestartProcesses, StopProcesses, ShrinkProcesses,
             NorestartProcesses, SignalProcesses, StopSupervisor,
             GrowProcesses
    <3>3. CASE Environment \/ UNCHANGED vars
      BY <1>3, <3>3
         DEF Environment, ChildExec, ChildDies, SignalArrives, vars,
             procmanVars
    <3> QED BY <3>1, <3>2, <3>3 DEF Next
  <2>2. live_processes <= 0 /\ entries' = entries
    BY <2>1 DEF LoopExit, LeavesLoop, table
  <2>3. live_processes = Cardinality(PidsIn(entries))
    BY <1>1 DEF TableNow, TableOK
  <2>4. IsFiniteSet(PidsIn(entries))
    BY PidsInFinite
  <2>5. PidsIn(entries) = {}
    BY <2>2, <2>3, <2>4, FS_CardinalityType, FS_EmptySet
  <2> QED BY <2>2, <2>5, TrackedNextIs
<1> QED BY <1>2, <1>3

LEMMA BInvariant == Spec => []BInv
<1>1. ASSUME BInv, [Next]_vars PROVE BInv'
  BY <1>1, RestStep, TableStep, ExitStep, MinStep DEF BInv
<1> QED BY <1>1, InitBInv, PTL DEF Spec

\* The types of bossrun's state.
THEOREM BossrunTypes == Spec => []TypeOK
<1>1. BInv => TypeOK
  BY DEF BInv, RestOK, TableNow, TableOK, TypeOK
<1> QED BY <1>1, BInvariant, PTL

\* bossrun gives the terminal back only when every process it started has been
\* waited for.
THEOREM BossrunExit == Spec => []ExitLeavesNoChild
<1>1. BInv => ExitLeavesNoChild
  BY DEF BInv, AllTracked, ExitedEmpty, ExitLeavesNoChild
<1> QED BY <1>1, BInvariant, PTL

\* With restart bossrun sleeps with the minimum of every process running, but
\* for as many instances as it was short of when a stopped one was waited for or
\* a fork failed.
THEOREM BossrunMinimum == Spec => []MinimumKept
<1>1. BInv => MinimumKept
  BY DEF BInv, MinKept, MinimumKept, Boots, EnoughOf
<1> QED BY <1>1, BInvariant, PTL

-----------------------------------------------------------------------------
\* An instance of p that was marked DEAD_RESTART is waited for in this step.
MarkedReaped(p) ==
  \E k \in DOMAIN entries[p] :
    /\ entries[p][k].dead = "RESTART"
    /\ child[entries[p][k].pid].st = "zombie"
    /\ child'[entries[p][k].pid].st # "zombie"

\* After the boot and the commands, only reap_children forks, and under the
\* options named it does so in place of an instance marked DEAD_RESTART.
LEMMA StepRestarts ==
  ASSUME BInv, [Next]_vars, ~ opts.restart \/ opts.failfast,
         NEW q \in Pids, child[q].st # "forked", child'[q].st = "forked",
         pc # "grow"
  PROVE  MarkedReaped(child'[q].grp)
<1>1. /\ TableNow /\ child \in [Pids -> ChildRecords]
      /\ entries \in [Procs -> Seq(Entries)]
  BY DEF BInv, TableNow, TableOK
<1>2. ASSUME NEW p \in Procs, NEW k \in DOMAIN entries[p], ReapTracked(p, k)
      PROVE  MarkedReaped(child'[q].grp)
  <2> DEFINE d == entries[p][k].pid
             ch == Reaped(d)
  <2>1. d \in Pids /\ ch \in [Pids -> ChildRecords] /\ ch[d].st = "free"
        /\ \A r \in Pids \ {d} : ch[r] = child[r]
    BY <1>1, WithoutOK, ProcsAssumption, ListFacts
       DEF Reaped, Free, ChildRecords, ChildStates, Entries
  <2>2. ch[q].st \in {child[q].st, "free"}
    BY <2>1
  <2>3. Replaced(p, k) /\ ~ Fails(entries[p][k]) /\ Restarts(p, entries[p][k])
    BY <1>1, <1>2, <2>2, DeathIs DEF Gone
  <2>4. entries[p][k].dead = "RESTART"
    <3>1. entries[p][k].dead \in Dead
      BY <1>1, ListFacts DEF Entries
    <3> QED BY <2>3, <3>1 DEF Fails, Restarts, Dead
  <2> HIDE DEF d, ch
  <2>5. PICK r \in Pids, j \in 1..(Len(Without(p, k)[p]) + 1) :
          child' = [ch EXCEPT ![r] = NewChild(p, SlotIndex(Without(p, k)[p], j))]
    BY <2>3 DEF Replaced, ForkInto, d, ch
  <2>6. q = r
    BY <1>1, <2>1, <2>2, <2>5
  <2>7. child'[q].grp = p
    BY <2>1, <2>5, <2>6 DEF NewChild
  <2>8. child[d].st = "zombie" /\ child'[d].st # "zombie"
    BY <1>2, <2>1, <2>5 DEF ReapTracked, NewChild, d
  <2> QED BY <2>4, <2>7, <2>8 DEF MarkedReaped, d
<1>3. ~ UNCHANGED <<table, child>>
  OBVIOUS
<1>4. ~ Marks
  BY <1>1, KilledIs DEF Marks
<1>5. ~ \E r \in Pids : ChildExec(r) \/ ChildDies(r)
  BY <1>1 DEF ChildExec, ChildDies, ChildRecords
<1>6. ~ \E p \in Procs : GrowOne(p)
  BY DEF GrowOne, GrowStep
<1> QED BY <1>1, <1>2, <1>3, <1>4, <1>5, <1>6, BossrunKinds

\* Without restart, or when failfast overrides it, decide_dead starts nothing
\* but the successor of an instance that was marked by restart.
THEOREM BossrunRestarts == Spec => OnlyMarkedRestart
<1>1. BInv /\ [Next]_vars =>
        [\A q \in Pids :
           /\ ~ opts.restart \/ opts.failfast
           /\ child[q].st # "forked" /\ child'[q].st = "forked" /\ pc # "grow"
           => LET p == child'[q].grp IN \E k \in DOMAIN entries[p] :
                /\ entries[p][k].dead = "RESTART"
                /\ child[entries[p][k].pid].st = "zombie"
                /\ child'[entries[p][k].pid].st # "zombie"]_vars
  BY StepRestarts DEF MarkedReaped
<1> QED BY <1>1, BInvariant, PTL DEF Spec, OnlyMarkedRestart

LEMMA BossrunKeeps ==
  ASSUME TableNow, [Next]_vars
  PROVE  [Promise!Next]_(Promise!vars)
<1>1. /\ entries \in [Procs -> Seq(Entries)] /\ child \in [Pids -> ChildRecords]
  BY DEF TableNow, TableOK
<1>2. CASE UNCHANGED <<table, child>>
  BY <1>2, Mapping DEF table, Promise!vars
<1>3. CASE Marks
  <2>1. PICK Q : Relabelled(entries, entries') /\ child' = Killed(Q)
    BY <1>3 DEF Marks
  <2>2. GivenIn(child') = GivenIn(child)
    BY <1>1, <2>1, KilledIs, GivenSame DEF NoChild
  <2> QED BY <1>1, <2>1, <2>2, SlotsSame, Mapping DEF Promise!vars
<1>4. CASE \E q \in Pids : ChildExec(q) \/ ChildDies(q)
  <2>1. GivenIn(child') = GivenIn(child)
    BY <1>4, ChildStep, GivenSame
  <2>2. entries' = entries
    BY <1>4 DEF ChildExec, ChildDies, table
  <2> QED BY <2>1, <2>2, Mapping DEF Promise!vars
<1>5. CASE \E p \in Procs : Fork(p)
  BY <1>5, ForkKeeps DEF Fork, Promise!Next
<1>6. CASE \E p \in Procs : \E k \in DOMAIN entries[p] : ReapTracked(p, k)
  <2>1. ASSUME NEW p \in Procs, NEW k \in DOMAIN entries[p], ReapTracked(p, k)
        PROVE  \E s \in Slots[p] : Promise!End(p, s) \/ Promise!Replace(p, s)
    <3>1. CASE Gone(p, k)
      <4>1. GivenIn(child') = GivenIn(Reaped(entries[p][k].pid))
        BY <3>1 DEF Gone, GivenIn
      <4> QED BY <3>1, <4>1, DeathKeeps DEF Gone
    <3>2. CASE Replaced(p, k)
      BY <3>2, DeathKeeps DEF Replaced
    <3> QED BY <2>1, <3>1, <3>2, DeathIs
  <2> QED BY <1>6, <2>1 DEF Promise!Next
<1> QED BY <1>2, <1>3, <1>4, <1>5, <1>6, BossrunKinds

\* The process table of bossrun implements Instances.
THEOREM BossrunIndices == Spec => KeepsIndices
<1>1. BInv /\ [Next]_vars => [Promise!Next]_(Promise!vars)
  BY BossrunKeeps DEF BInv
<1>2. Init => Promise!Init
  BY EmptyKeeps DEF Init
<1> QED BY <1>1, <1>2, BInvariant, PTL DEF Spec, KeepsIndices, Promise!Spec
=============================================================================
