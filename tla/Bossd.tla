------------------------------- MODULE Bossd -------------------------------
(***************************************************************************)
(* The supervisor bossd (bossd.c): start and recovery, the main loop, the  *)
(* reaping of children, signals and the re-exec in place of "explode".     *)
(*                                                                         *)
(* bossd is one thread, so an action is the code between two points where  *)
(* the outside can be noticed: a fork, a waitpid, a poll, a read.  The     *)
(* environment (children that exec and die, the clock, signals, the        *)
(* operator) acts between any two actions.                                 *)
(***************************************************************************)
EXTENDS Procman

CONSTANTS
  Signals,       \* signals the outside sends to bossd, of TERM, INT, QUIT
  SuccessfulRun, \* config.bossd.timeouts, in clock ticks
  SmallRestart,
  BigRestart,
  Retries

ASSUME SignalsAssumption == Signals \subseteq {"TERM", "INT", "QUIT"}
ASSUME TimeoutsAssumption ==
  /\ SuccessfulRun \in Nat /\ SmallRestart \in Nat /\ BigRestart \in Nat
  /\ Retries \in Nat

\* Clocks and counters stop where no comparison of the code tells more.
TimeCap == IF SmallRestart > BigRestart THEN SmallRestart ELSE BigRestart
BadCap == Retries + 1
CappedInc(n, cap) == IF n < cap THEN n + 1 ELSE cap

VARIABLES
  bad_attempts,  \* _entries.bad_attempts
  since_dead,    \* now - _entries.last_dead_time
  waiting,       \* processes whose start_time next_time was computed from
  scan,          \* pids recover_processes has still to look at
  pending,       \* signals pending in signal_fd
  orphan,        \* history: children a re-exec'd bossd did not recognise
  refused        \* history: processes a fork failed for since main_loop's top

bossdVars == <<bad_attempts, since_dead, waiting, scan, pending, orphan,
               refused>>
vars == <<procmanVars, bossdVars>>

\* Where the handler of init_signals is installed: anywhere but in main()
\* before it, and after the process has gone.
Started == pc \notin {"exec", "exited", "killed"}

Init ==
  /\ conf \in Configs
  /\ entries = [p \in Procs |-> << >>]
  /\ running = [p \in Procs |-> 0]
  /\ want_down = [p \in Procs |-> FALSE]
  /\ live_processes = 0
  /\ stopping = FALSE
  /\ child = [q \in Pids |-> Free]
  /\ pc = "exec" /\ job = NoJob
  /\ bad_attempts = [p \in Procs |-> 0]
  /\ since_dead = [p \in Procs |-> TimeCap]
  /\ waiting = {} /\ scan = {} /\ pending = {}
  /\ orphan = {} /\ refused = {}

-----------------------------------------------------------------------------
(***************************************************************************)
(* Start: read_config, init_signals, init_control, recover_processes, the  *)
(* boot loop                                                               *)
(***************************************************************************)

\* init_signals unblocks every signal before it blocks its own: a pending
\* SIGCHLD is lost (its default is to be ignored), SIGTERM or SIGINT kills.
InitSignals ==
  /\ pc = "exec"
  /\ pending \cap {"TERM", "INT"} = {}
  /\ pending' = {}
  /\ scan' = {q \in Pids : ~ NoChild(q)}
  /\ pc' = "recover"
  /\ UNCHANGED <<conf, table, want_down, stopping, child, job,
                 bad_attempts, since_dead, waiting, orphan, refused>>

KilledByPending ==
  /\ pc = "exec"
  /\ pending \cap {"TERM", "INT"} # {}
  /\ pc' = "killed" /\ pending' = {}
  /\ UNCHANGED <<conf, table, want_down, stopping, child, job,
                 bad_attempts, since_dead, waiting, scan, orphan, refused>>

\* The lock on the fifo goes with the open file, which a child shares from its
\* fork to the close_all of do_run: while there is one, init_control cannot lock
\* it again and bossd exits.  A child past close_all has not exec'd either, so
\* InitSignals may be taken too.
ControlLocked ==
  /\ pc = "exec"
  /\ pending \cap {"TERM", "INT"} = {}
  /\ \E q \in Pids : child[q].st = "forked"
  /\ pc' = "killed" /\ pending' = {}
  /\ UNCHANGED <<conf, table, want_down, stopping, child, job,
                 bad_attempts, since_dead, waiting, scan, orphan, refused>>

\* mutants: the dead are recorded; the excess above the maximum is not
RecognisedDead(q) ==
  child[q].st \in {"run", "zombie"} /\ child[q].grp \in conf.names
RecognisedBelowMax(q) ==
  /\ child[q].st = "run" /\ child[q].grp \in conf.names
  /\ running[child[q].grp] < MaxOf(child[q].grp)
\* /proc/PID/environ has BOSS_CHILD only after the execve of do_run, and is
\* empty in a zombie; the process must still be in the configuration.
Recognised(q) == child[q].st = "run" /\ child[q].grp \in conf.names

\* recover_processes and parse_entry for one pid
RecoverEntry(q) ==
  /\ Recognised(q)
  /\ LET p == child[q].grp
         i == child[q].idx
     IN  /\ \E k \in 1..(Len(entries[p]) + 1) :
              /\ RecoverStopsAt(entries[p], i, k)
              /\ entries' = [entries EXCEPT ![p] = InsertAt(@, k, Entry(q, i))]
         /\ running' = [running EXCEPT ![p] = @ + 1]
         /\ live_processes' = live_processes + 1
  /\ UNCHANGED <<child, pending, orphan>>

\* It died after its environment was read: parse_entry's waitpid reaps it.
RecoverDied(q) ==
  /\ child[q].st = "run"
  /\ child' = [child EXCEPT ![q] = Free]
  /\ pending' = pending \cup {"CHLD"}
  /\ orphan' = orphan \ {q}
  /\ UNCHANGED table

RecoverSkip(q) ==
  /\ ~ Recognised(q)
  /\ orphan' = IF child[q].st = "forked" THEN orphan \cup {q} ELSE orphan
  /\ UNCHANGED <<table, child, pending>>

\* It is alive and bossd does not learn whose it is: the program has mangled its
\* environment (README.rst), the record is too long or cannot be parsed, or
\* /proc/PID/stat cannot be opened, read or parsed.
RecoverUnread(q) ==
  /\ child[q].st = "run"
  /\ orphan' = orphan \cup {q}
  /\ UNCHANGED <<table, child, pending>>

RecoverStep(q) ==
  /\ pc = "recover" /\ q \in scan
  /\ scan' = scan \ {q}
  /\ RecoverEntry(q) \/ RecoverDied(q) \/ RecoverSkip(q) \/ RecoverUnread(q)
  /\ UNCHANGED <<conf, want_down, stopping, pc, job, bad_attempts, since_dead,
                 waiting, refused>>

RecoverDone ==
  /\ pc = "recover" /\ scan = {}
  /\ pc' = "grow" /\ job' = [op |-> "boot", todo |-> conf.names]
  /\ UNCHANGED <<conf, table, want_down, stopping, child, bossdVars>>

-----------------------------------------------------------------------------
(***************************************************************************)
(* main_loop                                                               *)
(***************************************************************************)
\* mutant: live_processes is not looked at
LeavesOnStopping == stopping
\* the negated condition of main_loop's while
LeavesLoop == stopping /\ live_processes <= 0

LoopExit ==
  /\ pc = "loop" /\ LeavesLoop
  /\ pc' = "exited"
  /\ UNCHANGED <<conf, table, want_down, stopping, child, job, bossdVars>>

LoopTop ==
  /\ pc = "loop" /\ ~ LeavesLoop
  /\ waiting' = {} /\ refused' = {}
  /\ IF stopping
     THEN pc' = "poll" /\ UNCHANGED job
     ELSE pc' = "pass" /\ job' = [op |-> "pass", todo |-> conf.names]
  /\ UNCHANGED <<conf, table, want_down, stopping, child,
                 bad_attempts, since_dead, scan, pending, orphan>>

RestartTimeout(p) ==
  IF bad_attempts[p] > Retries THEN BigRestart ELSE SmallRestart
Due(p) == since_dead[p] >= RestartTimeout(p)

\* mutant: want_down is not looked at
IgnoresWantDown(p) == running[p] < MinOf(p)
NeedsRestart(p) == running[p] < MinOf(p) /\ ~ want_down[p]

\* mutant: next_time is not set
SleepsForNobody(p) == waiting
SleepsFor(p) == waiting \cup {p}

PassStep(p) ==
  /\ pc = "pass" /\ p \in job.todo
  /\ job' = JobWithout(p)
  /\ \/ ~ NeedsRestart(p) /\ UNCHANGED <<table, child, waiting, refused>>
     \/ NeedsRestart(p) /\ Due(p) /\ Fork(p) /\ UNCHANGED <<waiting, refused>>
     \/ NeedsRestart(p) /\ Due(p) /\ ForkFails
        /\ refused' = refused \cup {p} /\ UNCHANGED <<table, child, waiting>>
     \/ NeedsRestart(p) /\ ~ Due(p) /\ waiting' = SleepsFor(p)
        /\ UNCHANGED <<table, child, refused>>
  /\ UNCHANGED <<conf, want_down, stopping, pc, bad_attempts, since_dead,
                 scan, pending, orphan>>

PassDone ==
  /\ pc = "pass" /\ job.todo = {}
  /\ pc' = "poll" /\ job' = NoJob
  /\ UNCHANGED <<conf, table, want_down, stopping, child, bossdVars>>

\* poll returns for signal_fd, or on its timeout ...
PollReturns ==
  /\ pc = "poll"
  /\ \/ pending # {} /\ pc' = "signals"
     \/ pending = {} /\ (\E p \in waiting : Due(p)) /\ pc' = "loop"
  /\ UNCHANGED <<conf, table, want_down, stopping, child, job, bossdVars>>

\* ... or for control_fd, when the operator has written to the fifo.
PollControl ==
  /\ pc = "poll" /\ pending = {} /\ Commands # {}
  /\ pc' = "control"
  /\ UNCHANGED <<conf, table, want_down, stopping, child, job, bossdVars>>

ControlDone ==
  /\ pc = "control" /\ pc' = "loop"
  /\ UNCHANGED <<conf, table, want_down, stopping, child, job, bossdVars>>

-----------------------------------------------------------------------------
(***************************************************************************)
(* reap_signal: the kernel gives the pending signal of lowest number       *)
(***************************************************************************)
ReadInt ==
  /\ pc = "signals" /\ "INT" \in pending
  /\ stopping' = TRUE
  /\ pending' = pending \ {"INT"}
  /\ UNCHANGED <<conf, table, want_down, child, pc, job, bad_attempts,
                 since_dead, waiting, scan, orphan, refused>>

ReadTerm ==
  /\ pc = "signals" /\ "INT" \notin pending /\ "TERM" \in pending
  /\ stopping' = TRUE
  /\ SendAll
  /\ pending' = pending \ {"TERM"}
  /\ UNCHANGED <<conf, table, want_down, pc, job, bad_attempts, since_dead,
                 waiting, scan, orphan, refused>>

ReadChld ==
  /\ pc = "signals" /\ pending = {"CHLD"}
  /\ pending' = {}
  /\ pc' = "reap"
  /\ UNCHANGED <<conf, table, want_down, stopping, child, job, bad_attempts,
                 since_dead, waiting, scan, orphan, refused>>

SignalsDone ==
  /\ pc = "signals" /\ pending = {}
  /\ \/ pc' = "loop"
     \/ Commands # {} /\ pc' = "control"
  /\ UNCHANGED <<conf, table, want_down, stopping, child, job, bossdVars>>

-----------------------------------------------------------------------------
(***************************************************************************)
(* reap_children and decide_dead, for one pid returned by waitpid          *)
(***************************************************************************)
\* mutant: decide_dead does not look at stopping
RestartsWhenStopping(e) == e.dead # "STOP"
\* decide_dead returns at once when stopping or when the entry is DEAD_STOP.
MayRestart(e) == ~ stopping /\ e.dead # "STOP"
\* mutant: DEAD_RESTART is not looked at
RestartsLongRun(e) == child[e.pid].age >= SuccessfulRun
\* last_dead_time - start_time is the age of the child
RestartsAtOnce(e) ==
  e.dead = "RESTART" \/ child[e.pid].age >= SuccessfulRun

DecideDead(p, k) ==
  LET e == entries[p][k] IN
  \/ /\ ~ MayRestart(e)
     /\ Removed(p, k) /\ child' = Reaped(e.pid)
     /\ UNCHANGED <<bad_attempts, refused>>
  \/ /\ MayRestart(e) /\ RestartsAtOnce(e)
     /\ bad_attempts' = [bad_attempts EXCEPT ![p] = 0]
     /\ \/ Replaced(p, k) /\ UNCHANGED refused
        \* the result of fork_and_run is not looked at
        \/ ForkMayFail /\ Removed(p, k) /\ child' = Reaped(e.pid)
           /\ refused' = refused \cup {p}
  \/ /\ MayRestart(e) /\ ~ RestartsAtOnce(e)
     /\ bad_attempts' = [bad_attempts EXCEPT ![p] = CappedInc(@, BadCap)]
     /\ Removed(p, k) /\ child' = Reaped(e.pid)
     /\ UNCHANGED refused

ReapTracked(p, k) ==
  /\ pc = "reap" /\ p \in conf.names
  /\ child[entries[p][k].pid].st = "zombie"
  /\ DecideDead(p, k)
  /\ since_dead' = [since_dead EXCEPT ![p] = 0]
  /\ orphan' = orphan \ {entries[p][k].pid}
  /\ UNCHANGED <<conf, want_down, stopping, pc, job, waiting, scan, pending>>

\* waitpid returns a child no entry has: only the zombie goes.
ReapUnknown(q) ==
  /\ pc = "reap" /\ child[q].st = "zombie" /\ q \notin Tracked
  /\ child' = Reaped(q)
  /\ orphan' = orphan \ {q}
  /\ UNCHANGED <<conf, table, want_down, stopping, pc, job, bad_attempts,
                 since_dead, waiting, scan, pending, refused>>

\* mutant: one waitpid for one SIGCHLD
ReapOnce ==
  /\ pc = "reap"
  /\ pc' = "signals"
  /\ UNCHANGED <<conf, table, want_down, stopping, child, job, bossdVars>>
ReapDone ==
  /\ pc = "reap" /\ \A q \in Pids : child[q].st # "zombie"
  /\ pc' = "signals"
  /\ UNCHANGED <<conf, table, want_down, stopping, child, job, bossdVars>>

Reap ==
  \/ \E p \in Procs : \E k \in DOMAIN entries[p] : ReapTracked(p, k)
  \/ \E q \in Pids : ReapUnknown(q)
  \/ ReapDone

-----------------------------------------------------------------------------
(***************************************************************************)
(* recover_signal at any time, restart_supervisor for explode and reload:  *)
(* execvp keeps the pid, the children and the pending signals, and loses   *)
(* the memory.  read_config then reads the file, which may have changed.   *)
(***************************************************************************)
ReExec ==
  /\ (Started /\ "QUIT" \in Signals) \/ Command("explode")
  /\ pc' = "exec"
  /\ conf' \in Configs
  /\ entries' = [p \in Procs |-> << >>]
  /\ running' = [p \in Procs |-> 0]
  /\ want_down' = [p \in Procs |-> FALSE]
  /\ live_processes' = 0
  /\ stopping' = FALSE
  /\ bad_attempts' = [p \in Procs |-> 0]
  /\ since_dead' = [p \in Procs |-> TimeCap]
  /\ waiting' = {} /\ scan' = {} /\ refused' = {} /\ job' = NoJob
  /\ UNCHANGED <<child, pending, orphan>>

-----------------------------------------------------------------------------
(***************************************************************************)
(* The environment                                                         *)
(***************************************************************************)
\* the execve at the end of do_run
ChildExec(q) ==
  /\ child[q].st = "forked"
  /\ child' = [child EXCEPT ![q].st = "run"]
  /\ UNCHANGED <<conf, table, want_down, stopping, pc, job, bossdVars>>

ChildDies(q) ==
  /\ Alive(q)
  /\ child' = [child EXCEPT ![q].st = "zombie"]
  /\ pending' = pending \cup {"CHLD"}
  /\ UNCHANGED <<conf, table, want_down, stopping, pc, job, bad_attempts,
                 since_dead, waiting, scan, orphan, refused>>

SignalArrives(s) ==
  /\ s \in Signals \ {"QUIT"}
  /\ pending' = pending \cup {s}
  /\ UNCHANGED <<conf, table, want_down, stopping, child, pc, job,
                 bad_attempts, since_dead, waiting, scan, orphan, refused>>

\* Time is counted while bossd is in poll; its other steps take none.
Tick ==
  /\ pc = "poll"
  /\ since_dead' = [p \in Procs |-> CappedInc(since_dead[p], TimeCap)]
  /\ child' = [q \in Pids |-> IF NoChild(q) THEN child[q]
                 ELSE [child[q] EXCEPT !.age = CappedInc(@, SuccessfulRun)]]
  /\ UNCHANGED <<conf, table, want_down, stopping, pc, job, bad_attempts,
                 waiting, scan, pending, orphan, refused>>

Supervisor ==
  \/ InitSignals \/ KilledByPending \/ ControlLocked
  \/ \E q \in Pids : RecoverStep(q)
  \/ RecoverDone
  \/ \E p \in Procs : GrowStep(p) /\ UNCHANGED bossdVars
  \/ GrowDone /\ UNCHANGED bossdVars
  \/ LoopExit \/ LoopTop
  \/ \E p \in Procs : PassStep(p)
  \/ PassDone \/ PollReturns \/ ControlDone
  \/ ReadInt \/ ReadTerm \/ ReadChld \/ SignalsDone
  \/ Reap

Operator == PollControl \/ (ControlCommand /\ UNCHANGED bossdVars)

\* The model ends with the supervisor: what its children do after it is gone
\* is not followed.
Environment ==
  /\ pc \notin {"exited", "killed"}
  /\ \/ \E q \in Pids : ChildExec(q) \/ ChildDies(q)
     \/ \E s \in Signals : SignalArrives(s)
     \/ Tick

Next == Supervisor \/ Operator \/ ReExec \/ Environment

Spec == Init /\ [][Next]_vars

-----------------------------------------------------------------------------
(***************************************************************************)
(* What a state of bossd must satisfy                                      *)
(***************************************************************************)
PcValues == {"exec", "recover", "grow", "loop", "pass", "poll", "signals",
             "reap", "control", "exited", "killed"}

\* The type invariant of all of bossd's state and of the kernel's table.
TypeOK ==
  /\ conf \in Configs
  /\ entries \in [Procs -> Seq(Entries)]
  /\ running \in [Procs -> Int] /\ live_processes \in Int
  /\ want_down \in [Procs -> BOOLEAN] /\ stopping \in BOOLEAN
  /\ child \in [Pids -> ChildRecords]
  /\ pc \in PcValues /\ job \in [op : Jobs, todo : SUBSET Procs]
  /\ bad_attempts \in [Procs -> 0..BadCap]
  /\ since_dead \in [Procs -> 0..TimeCap]
  /\ waiting \subseteq Procs /\ scan \subseteq Pids
  /\ pending \subseteq {"CHLD", "TERM", "INT"} /\ orphan \subseteq Pids
  /\ refused \subseteq Procs

\* bossd itself forgets no child: each one alive is in a list, or is still to
\* be scanned by a restarted bossd, or is one whose record or stat that bossd
\* could not read (its program not exec'd yet, or its environment mangled), or
\* one whose process left the configuration.
NoLostChild ==
  pc \notin {"exec", "killed"} =>
    \A q \in Pids : Alive(q) =>
      \/ q \in Tracked \cup scan \cup orphan
      \/ child[q].grp \notin conf.names

\* "seq0 ... guaranty that no duplicates are simultaneously running"
\* (config.yaml): two children alive share an index of a process only when a
\* re-exec'd bossd has missed one of them: nothing else in any order of forks,
\* deaths, recovery and commands brings it about.
DuplicateOnlyByOrphan ==
  \A q, r \in Pids :
    /\ q # r /\ Alive(q) /\ Alive(r)
    /\ child[q].grp = child[r].grp /\ child[q].idx = child[r].idx
    => q \in orphan \/ r \in orphan

\* The death of a child bossd tracks is never missed, although SIGCHLD is one
\* bit and init_signals drops it: a tracked zombie is about to be reaped.
NoLostDeath ==
  \A q \in Tracked : child[q].st = "zombie" => "CHLD" \in pending \/ pc = "reap"

\* bossd leaves main_loop only when none of its children is alive but those a
\* re-exec'd bossd has missed or that are not in the configuration: the count it
\* leaves on is kept by hand through forks, deaths, signals and recovery.
ExitLeavesNoChild ==
  pc = "exited" => \A q \in Pids : Alive(q) =>
                     q \in orphan \/ child[q].grp \notin conf.names

\* bossd never goes to sleep on a process that has nothing running without a
\* timer set to start it: unless it is down, or its fork has failed in the pass
\* just made, for which main_loop sets no timer.
NoGroupForgotten ==
  pc = "poll" /\ ~ stopping =>
    \A p \in conf.names :
      running[p] > 0 \/ want_down[p] \/ p \in waiting \/ p \in refused

-----------------------------------------------------------------------------
(***************************************************************************)
(* What a step of bossd may never do                                       *)
(***************************************************************************)
Grows(p) == Len(entries'[p]) > Len(entries[p])
Forked(q) == child[q].st # "forked" /\ child'[q].st = "forked"
NewPid(p, q) == ~ Holds(p, q) /\ Holds(p, q)'

\* A forked instance gets the least index no tracked instance of its process
\* has, also when the fork replaces the instance just reaped.
ForkTakesLeastIndex ==
  [][\A p \in Procs : \A k \in DOMAIN entries'[p] :
       LET e == entries'[p][k]
           others == {entries'[p][j].idx : j \in DOMAIN entries'[p] \ {k}}
       IN  Forked(e.pid) => e.idx \notin others /\ 0..(e.idx - 1) \subseteq others
  ]_vars

\* Only recovery can bring a process above its maximum.
GrowsWithinMax ==
  [][\A p \in Procs : Grows(p) =>
       pc = "recover" \/ Len(entries'[p]) <= MaxOf(p)]_vars

\* Nothing but a command of the operator starts an instance of a process that
\* was stopped: not main_loop, and not the death of the stopped instances.
StoppedStaysDown ==
  [][\A p \in Procs :
       /\ want_down[p] /\ pc # "grow"
       /\ \A k \in DOMAIN entries[p] : entries[p][k].dead = "STOP"
       => \A q \in Pids : ~ NewPid(p, q)]_vars

\* Once stopping, only a command of the operator can still start anything.
StoppingForksNothing ==
  [][stopping /\ pc # "grow" =>
       \A q \in Pids : ~ Forked(q)]_vars

\* While bossd runs, the death of an instance marked by "restart" is no failed
\* attempt, whatever the history of crashes of its process, and the instance is
\* replaced in the same step, unless the fork fails.
RestartIsImmediate ==
  [][\A p \in Procs : \A k \in DOMAIN entries[p] :
       /\ entries[p][k].dead = "RESTART" /\ ~ stopping /\ pc = "reap"
       /\ child[entries[p][k].pid].st = "zombie"
       /\ child'[entries[p][k].pid] # child[entries[p][k].pid]
       => /\ Len(entries'[p]) = Len(entries[p]) \/ p \in refused'
          /\ bad_attempts'[p] = 0]_vars

-----------------------------------------------------------------------------
(***************************************************************************)
(* What the documentation says and the code does not do                    *)
(***************************************************************************)
\* "Minimum processes of this kind to start and keep running" (config.yaml):
\* bossd never sleeps below the minimum of a process without a timer.
MinimumKept ==
  pc = "poll" /\ ~ stopping =>
    \A p \in conf.names :
      running[p] >= MinOf(p) \/ want_down[p] \/ p \in waiting \/ p \in refused

\* "Also this command marks process to be restarted after death" (bossctl.rst,
\* start): when start is done with a process, neither the process nor any of
\* its instances bears the mark of a stop.
StartMarksForRestart ==
  [][\A p \in Procs :
       /\ pc = "grow" /\ job.op = "start" /\ p \in job.todo \ job'.todo
       => /\ ~ want_down'[p]
          /\ \A k \in DOMAIN entries'[p] : entries'[p][k].dead # "STOP"]_vars

\* "guaranty that no duplicates are simultaneously running" (config.yaml)
NoDuplicateInstances ==
  \A q, r \in Pids :
    Alive(q) /\ Alive(r) /\ child[q].grp = child[r].grp
      /\ child[q].idx = child[r].idx => q = r

-----------------------------------------------------------------------------
(***************************************************************************)
(* Liveness                                                                *)
(***************************************************************************)
\* The scheduler runs bossd; a fork loop that tries again gets its child in the
\* end; a read of the fifo ends (its buffer is finite); signals do not arrive
\* for ever faster than they are read; time passes; a child that was sent
\* SIGTERM dies; a forked child exec's.
ChildObeys(q) == child[q].term /\ ChildDies(q)
Fairness ==
  /\ WF_vars(Supervisor) /\ SF_vars(ControlDone)
  /\ SF_vars(ReadChld) /\ SF_vars(SignalsDone)
  /\ SF_vars(Tick /\ vars' # vars)
  /\ \A q \in Pids : WF_vars(ChildExec(q)) /\ WF_vars(ChildObeys(q))

LiveSpec == Spec /\ Fairness

\* A shutdown, by command or SIGTERM, ends bossd: no child it has to wait for
\* is left unsignalled, and no death after the signal is missed.  That is so
\* while no command forks after the shutdown.
ShutdownCompletes == stopping ~> pc = "exited"

\* A process whose instances have all died is started again, after the small
\* or the big timeout, unless the operator stopped it or bossd.  A fork that
\* fails in main_loop ends the wait without a child: bossd then sleeps until
\* something else wakes it.
CrashIsRepaired ==
  \A p \in Procs :
    Started /\ running[p] = 0 ~>
      running[p] > 0 \/ want_down[p] \/ stopping \/ p \in refused

\* Every dead child is waited for, however many deaths one SIGCHLD stands for,
\* while bossd is not re-exec'd: init_signals drops the SIGCHLD of a zombie.
ZombieIsReaped ==
  \A q \in Pids :
    child[q].st = "zombie" ~> child[q].st # "zombie" \/ pc = "exited"
=============================================================================
