------------------------------ MODULE Procman ------------------------------
(***************************************************************************)
(* The process table of a supervisor and everything that changes it: the   *)
(* fork of do_fork (runcommand.c), the signals and the control commands of *)
(* procman.c.  bossd and bossrun link the same objects; Bossd.tla and      *)
(* Bossrun.tla EXTEND this module.                                         *)
(***************************************************************************)
EXTENDS FiniteSets, EntryList

CONSTANTS
  Procs,     \* names of configured processes (the keys of Processes)
  Pids,      \* process ids the kernel has to give: the process table
  Configs,   \* the contents the configuration file may have
  Commands,  \* the control commands the operator sends (a bound)
  ForkMayFail  \* whether a fork may fail with a pid left to give (a bound)

ASSUME ProcsAssumption == Procs # {}
ASSUME PidsAssumption == IsFiniteSet(Pids)
ASSUME ConfigsAssumption ==
  Configs \subseteq [names : SUBSET Procs, min : [Procs -> Nat \ {0}],
                     max : [Procs -> Nat \ {0}]]
ASSUME ForkAssumption == ForkMayFail \in BOOLEAN

VARIABLES
  conf,           \* config.Processes, as read at the last start
  entries,        \* _entries.entries of each process
  running,        \* _entries.running
  want_down,      \* _entries.want_down
  live_processes, \* entry.c
  stopping,       \* globalstate.h
  child,          \* the kernel: what each pid is
  pc,             \* where the supervisor is
  job             \* the fork loop it is in: [op, todo]

table == <<entries, running, live_processes>>
procmanVars == <<conf, entries, running, want_down, live_processes, stopping,
                 child, pc, job>>

-----------------------------------------------------------------------------
(***************************************************************************)
(* The kernel's side.  A child is "forked" from fork() until its execve,   *)
(* "run" after it, "zombie" from its death until waitpid returns it.       *)
(* "idx" is the index do_run puts in BOSS_CHILD, "term" says a             *)
(* terminating signal was sent, "age" counts clock ticks since the fork.   *)
(***************************************************************************)
ChildStates == {"free", "forked", "run", "zombie"}
NoChild(q) == child[q].st = "free"
Alive(q) == child[q].st \in {"forked", "run"}
Free == [st |-> "free", grp |-> CHOOSE p \in Procs : TRUE, idx |-> 0,
         term |-> FALSE, age |-> 0]
NewChild(p, i) == [st |-> "forked", grp |-> p, idx |-> i,
                   term |-> FALSE, age |-> 0]

Holds(p, q) == \E k \in DOMAIN entries[p] : entries[p][k].pid = q
PidsOf(G) == {q \in Pids : \E p \in G : Holds(p, q)}
Tracked == PidsOf(Procs)

\* kill() to every pid of a set: the child may die of it at any later time.
Killed(Q) == [q \in Pids |-> IF q \in Q THEN [child[q] EXCEPT !.term = TRUE]
                                        ELSE child[q]]

-----------------------------------------------------------------------------
\* read_config: the maximum is raised to the minimum
MinOf(p) == conf.min[p]
MaxOf(p) == IF conf.min[p] > conf.max[p] THEN conf.min[p] ELSE conf.max[p]

NoJob == [op |-> "none", todo |-> {}]

(***************************************************************************)
(* do_fork, in the parent: es and ch are the lists and the kernel's table  *)
(* it starts from.  fork() fails when the process table is full, and it or *)
(* the malloc before it may fail for want of something else (ForkMayFail). *)
(***************************************************************************)
ForkInto(p, es, ch) ==
  \E pid \in Pids, k \in 1..(Len(es[p]) + 1) :
    LET i == SlotIndex(es[p], k) IN
    /\ ch[pid].st = "free"
    /\ ForkStopsAt(es[p], k)
    /\ entries' = [es EXCEPT ![p] = InsertAt(@, k, Entry(pid, i))]
    /\ child' = [ch EXCEPT ![pid] = NewChild(p, i)]

\* mutant: one of the two counters is forgotten
ForkUncounted(p) ==
  /\ ForkInto(p, entries, child)
  /\ running' = [running EXCEPT ![p] = @ + 1]
  /\ UNCHANGED live_processes
Fork(p) ==
  /\ ForkInto(p, entries, child)
  /\ running' = [running EXCEPT ![p] = @ + 1]
  /\ live_processes' = live_processes + 1

ForkFails == ForkMayFail \/ \A q \in Pids : ~ NoChild(q)

\* mutant: the signal goes to one process only
SendOne == child' = Killed(PidsOf({CHOOSE p \in Procs : TRUE}))
\* send_all: every entry of every configured process gets the signal.
SendAll == child' = Killed(Tracked)

\* reap_children of both supervisors, for the entry of a pid waited for
\* mutant: the entry stays in the list
StillWith(p, k) == entries
Without(p, k) == [entries EXCEPT ![p] = RemoveAt(@, k)]
Reaped(q) == [child EXCEPT ![q] = Free]

\* The entry at k leaves the list of p and the counters, its zombie goes.
Removed(p, k) ==
  /\ entries' = Without(p, k)
  /\ running' = [running EXCEPT ![p] = @ - 1]
  /\ live_processes' = live_processes - 1

\* ... and in the same step do_fork puts another one in its place.
Replaced(p, k) ==
  /\ ForkInto(p, Without(p, k), Reaped(entries[p][k].pid))
  /\ UNCHANGED <<running, live_processes>>  \* one less and one more

-----------------------------------------------------------------------------
(***************************************************************************)
(* Control commands: read_control runs them while pc = "control".          *)
(* run_groupman finds any non-empty set of configured processes,           *)
(* run_instman any non-empty set of their entries.                         *)
(***************************************************************************)
Groups == SUBSET conf.names \ {{}}
Instances == SUBSET Tracked \ {{}}
Command(name) == pc = "control" /\ name \in Commands

AllOf(G, p) == IF p \in G THEN DOMAIN entries[p] ELSE {}

RestartProcesses == \E G \in Groups :
  /\ Command("restart")
  /\ entries' = [p \in Procs |-> MarkedAt(entries[p], AllOf(G, p), "RESTART")]
  /\ child' = Killed(PidsOf(G))
  /\ UNCHANGED <<conf, running, want_down, live_processes, stopping, pc, job>>

StopProcesses == \E G \in Groups :
  /\ Command("stop")
  /\ want_down' = [p \in Procs |-> p \in G \/ want_down[p]]
  /\ entries' = [p \in Procs |-> MarkedAt(entries[p], AllOf(G, p), "STOP")]
  /\ child' = Killed(PidsOf(G))
  /\ UNCHANGED <<conf, running, live_processes, stopping, pc, job>>

\* How many entries decr_processes and min_processes stop, from the tail.
Excess(op, p) ==
  IF running[p] <= MinOf(p) THEN 0
  ELSE IF op = "decr" THEN 1 ELSE running[p] - MinOf(p)
Spare(op, G, p) ==
  {k \in AllOf(G, p) : k > Len(entries[p]) - Excess(op, p)}

ShrinkProcesses(op) == \E G \in Groups :
  /\ Command(op)
  /\ entries' = [p \in Procs |-> MarkedAt(entries[p], Spare(op, G, p), "STOP")]
  /\ child' = Killed({q \in Pids : \E p \in Procs : \E k \in Spare(op, G, p) :
                        entries[p][k].pid = q})
  /\ UNCHANGED <<conf, running, want_down, live_processes, stopping, pc, job>>

NorestartProcesses == \E Q \in Instances :
  /\ Command("norestart")
  /\ entries' = [p \in Procs |->
       MarkedAt(entries[p], {k \in DOMAIN entries[p] : entries[p][k].pid \in Q},
                "STOP")]
  /\ UNCHANGED <<conf, running, want_down, live_processes, stopping, child,
                 pc, job>>

\* signal_proc, sigterm_processes, sigkill_processes, ...
SignalProcesses == \E Q \in Instances :
  /\ Command("signal")
  /\ child' = Killed(Q)
  /\ UNCHANGED <<conf, entries, running, want_down, live_processes, stopping,
                 pc, job>>

\* stop_supervisor, the command shutdown
StopSupervisor ==
  /\ Command("shutdown")
  /\ stopping' = TRUE
  /\ SendAll
  /\ UNCHANGED <<conf, entries, running, want_down, live_processes, pc, job>>

-----------------------------------------------------------------------------
(***************************************************************************)
(* The commands that fork, and the loop of main() that starts the minimum, *)
(* take several steps: children die and signals arrive in between.  job    *)
(* holds the processes still to be done; the order of the configuration    *)
(* file is abstracted to any order.                                        *)
(***************************************************************************)
GrowCommands == {"start", "incr", "max", "startin"}

GrowProcesses(op) == \E G \in Groups :
  /\ Command(op)
  /\ job' = [op |-> op, todo |-> G]
  /\ pc' = "grow"
  /\ UNCHANGED <<conf, entries, running, want_down, live_processes, stopping,
                 child>>

\* mutant: off by one
NotAboveTarget(p, target) == running[p] <= target
\* the condition of every fork of procman.c and of the loop of main()
BelowTarget(p, target) == running[p] < target

\* incr_processes and startin_proc fork once, the others while below target.
ForksOnce == job.op \in {"incr", "startin"}
Target(p) == IF job.op \in {"boot", "start"} THEN MinOf(p) ELSE MaxOf(p)
JobWithout(p) == [job EXCEPT !.todo = @ \ {p}]

GrowStep(p) ==
  /\ pc = "grow" /\ p \in job.todo
  /\ \/ BelowTarget(p, Target(p)) /\ Fork(p)
        /\ job' = IF ForksOnce THEN JobWithout(p) ELSE job
     \/ /\ \/ ~ BelowTarget(p, Target(p))
           \/ ForksOnce /\ ForkFails   \* the while loops try again
        /\ job' = JobWithout(p)
        /\ UNCHANGED <<table, child>>
  /\ UNCHANGED <<conf, want_down, stopping, pc>>

GrowDone ==
  /\ pc = "grow" /\ job.todo = {}
  /\ pc' = IF job.op = "boot" THEN "loop" ELSE "control"
  /\ job' = NoJob
  /\ UNCHANGED <<conf, table, want_down, stopping, child>>

ControlCommand ==
  \/ RestartProcesses
  \/ StopProcesses
  \/ ShrinkProcesses("decr")
  \/ ShrinkProcesses("min")
  \/ NorestartProcesses
  \/ SignalProcesses
  \/ StopSupervisor
  \/ \E op \in GrowCommands : GrowProcesses(op)

-----------------------------------------------------------------------------
(***************************************************************************)
(* The types of the table, and what it must satisfy in both supervisors    *)
(***************************************************************************)
ChildRecords ==
  [st : ChildStates, grp : Procs, idx : Nat, term : BOOLEAN, age : Nat]
Entries == [pid : Pids, dead : Dead, idx : Nat]
Jobs == {"none", "boot", "pass"} \cup GrowCommands

\* The two counters the code keeps by hand, running of each process and the
\* global live_processes the main loops end on, agree with the lists at every
\* step, through forks, deaths, recovery and re-exec.
CountersAgree ==
  /\ \A p \in Procs : running[p] = Len(entries[p])
  /\ live_processes = Cardinality(Tracked)

\* do_fork and parse_entry keep each list in the order of the indices, which
\* do_fork's search for the least free index relies on.
ListsSorted == \A p \in Procs : Sorted(entries[p])

\* kill() and the reaping by pid are only right while every pid in a list is a
\* child of the supervisor not waited for, of that process and index, and is in one
\* place: a stale pid could be anybody's.
TrackedAreChildren ==
  \A p \in Procs : \A k \in DOMAIN entries[p] :
    LET e == entries[p][k] IN
    /\ ~ NoChild(e.pid)
    /\ child[e.pid].grp = p /\ child[e.pid].idx = e.idx
    /\ \A r \in Procs : \A j \in DOMAIN entries[r] :
         entries[r][j].pid = e.pid => r = p /\ j = k

(***************************************************************************)
(* What the table implements: the lists as sets of <<index, pid>>, and     *)
(* what each child was told when it was forked.                            *)
(***************************************************************************)
Slots == [p \in Procs |->
  {<<entries[p][k].idx, entries[p][k].pid>> : k \in DOMAIN entries[p]}]
Given == [q \in Pids |->
  IF NoChild(q) THEN << >> ELSE <<child[q].grp, child[q].idx>>]

Promise == INSTANCE Instances WITH slots <- Slots, given <- Given

\* Through every order of forks, deaths, replacements, commands, losses of
\* memory and recovery an instance has one index, given to it at its fork as
\* the least one free, until it is waited for ("seq0", config.yaml).
KeepsIndices == Promise!Spec
=============================================================================
