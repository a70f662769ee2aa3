------------------------------ MODULE Bossrun ------------------------------
(***************************************************************************)
(* The supervisor bossrun (bossrun.c): it runs the processes of a bossd    *)
(* configuration in the foreground.  It shares the process table and the   *)
(* commands with bossd, has no timers, no recovery and no re-exec, passes  *)
(* the signals it gets on to the processes, and decides by its options     *)
(* what the death of a process means.                                      *)
(*                                                                         *)
(* The configuration is read once.  As in Bossd an action is the code      *)
(* between two points where the outside can be noticed.                    *)
(***************************************************************************)
EXTENDS Procman

CONSTANTS
  Signals,  \* signals the outside sends to bossrun
  Options   \* the contents config.bossrun may have

\* The signals of init_signals, with their numbers; WINCH and USR2 are treated
\* like USR1.
SigNo == [HUP |-> 1, INT |-> 2, QUIT |-> 3, USR1 |-> 10, PIPE |-> 13,
          TERM |-> 15, CHLD |-> 17]

ASSUME SignalsAssumption == Signals \subseteq DOMAIN SigNo \ {"CHLD"}
ASSUME OptionsAssumption ==
  Options \subseteq [failfast : BOOLEAN, restart : BOOLEAN,
                     stop : SUBSET {"HUP", "INT", "QUIT", "TERM"}]

VARIABLES
  opts,     \* config.bossrun: failfast, restart, and the set of stop_signals
  pending,  \* signals pending in signal_fd
  owed,     \* history: instances a process is short of its minimum by the
            \* operator's will or because a fork of decide_dead failed
  late      \* history: children a command has forked after the stop

bossrunVars == <<opts, pending, owed, late>>
vars == <<procmanVars, bossrunVars>>

\* main() up to the boot loop: nothing is forked yet, signals are blocked.
Init ==
  /\ conf \in Configs /\ opts \in Options
  /\ entries = [p \in Procs |-> << >>]
  /\ running = [p \in Procs |-> 0]
  /\ want_down = [p \in Procs |-> FALSE]
  /\ live_processes = 0
  /\ stopping = FALSE
  /\ child = [q \in Pids |-> Free]
  /\ pc = "grow" /\ job = [op |-> "boot", todo |-> conf.names]
  /\ pending = {}
  /\ owed = [p \in Procs |-> 0] /\ late = {}

-----------------------------------------------------------------------------
(***************************************************************************)
(* The boot loop and the commands that fork do not look at stopping.       *)
(***************************************************************************)
Paid(p) == [owed EXCEPT ![p] = IF @ > 0 THEN @ - 1 ELSE 0]

GrowOne(p) ==
  /\ GrowStep(p)
  /\ owed' = IF running' = running THEN owed ELSE Paid(p)
  /\ late' = late \cup {q \in Pids : stopping /\ NoChild(q) /\ ~ NoChild(q)'}
  /\ UNCHANGED <<opts, pending>>

-----------------------------------------------------------------------------
\* mutant: the supervisor does not wait for the processes it has signalled
LeavesOnStopping == stopping \/ live_processes <= 0
\* the negated condition of main()'s while
LeavesLoop == live_processes <= 0

LoopExit ==
  /\ pc = "loop" /\ LeavesLoop
  /\ pc' = "exited"
  /\ UNCHANGED <<conf, table, want_down, stopping, child, job, bossrunVars>>

LoopTop ==
  /\ pc = "loop" /\ ~ LeavesLoop
  /\ pc' = "poll"
  /\ UNCHANGED <<conf, table, want_down, stopping, child, job, bossrunVars>>

\* poll has no timeout; when both descriptors are ready signals come first.
PollSignals ==
  /\ pc = "poll" /\ pending # {}
  /\ pc' = "signals"
  /\ UNCHANGED <<conf, table, want_down, stopping, child, job, bossrunVars>>

PollControl ==
  /\ pc = "poll" /\ pending = {} /\ Commands # {}
  /\ pc' = "control"
  /\ UNCHANGED <<conf, table, want_down, stopping, child, job, bossrunVars>>

ControlDone ==
  /\ pc = "control" /\ pc' = "loop"
  /\ UNCHANGED <<conf, table, want_down, stopping, child, job, bossrunVars>>

-----------------------------------------------------------------------------
(***************************************************************************)
(* reap_signal                                                             *)
(***************************************************************************)
\* read(signal_fd) gives the pending signal of the lowest number.
Lowest(s) == s \in pending /\ \A t \in pending : SigNo[s] <= SigNo[t]

\* mutant: only the signals that do not stop bossrun are passed on
ForwardsUnlessStop(s) == s # "PIPE" /\ s \notin opts.stop
Forwards(s) == s # "PIPE"

ReadSignal(s) ==
  /\ pc = "signals" /\ Lowest(s) /\ s # "CHLD"
  /\ pending' = pending \ {s}
  /\ stopping' = (stopping \/ s \in opts.stop)
  /\ IF Forwards(s) THEN SendAll ELSE UNCHANGED child
  /\ UNCHANGED <<conf, table, want_down, pc, job, opts, owed, late>>

ReadChld ==
  /\ pc = "signals" /\ Lowest("CHLD")
  /\ pending' = pending \ {"CHLD"}
  /\ pc' = "reap"
  /\ UNCHANGED <<conf, table, want_down, stopping, child, job, opts, owed, late>>

SignalsDone ==
  /\ pc = "signals" /\ pending = {}
  /\ \/ pc' = "loop"
     \/ Commands # {} /\ pc' = "control"
  /\ UNCHANGED <<conf, table, want_down, stopping, child, job, bossrunVars>>

-----------------------------------------------------------------------------
(***************************************************************************)
(* reap_children and decide_dead: the entry has left the list and the      *)
(* counters are one less before decide_dead looks at them.                 *)
(***************************************************************************)
Fails(e) == opts.failfast /\ e.dead = "CRASH"

\* mutant: running still counts the dead instance
RestartsAboveMin(p, e) ==
  /\ (opts.restart /\ e.dead # "STOP") \/ e.dead = "RESTART"
  /\ running[p] < MinOf(p)
\* mutant: the option is not looked at
RestartsWithoutOption(p, e) == e.dead # "STOP" /\ running[p] - 1 < MinOf(p)
\* the second condition of decide_dead
Restarts(p, e) ==
  /\ (opts.restart /\ e.dead # "STOP") \/ e.dead = "RESTART"
  /\ running[p] - 1 < MinOf(p)

\* mutant: the processes are not told
FailsSilently(p, k) ==
  /\ stopping' = TRUE
  /\ child' = Reaped(entries[p][k].pid)
  /\ Removed(p, k)
\* stop_supervisor, called for an entry that is no longer in its list
FailFast(p, k) ==
  LET q == entries[p][k].pid IN
  /\ stopping' = TRUE
  /\ child' = [Killed(Tracked \ {q}) EXCEPT ![q] = Free]
  /\ Removed(p, k)

DecideDead(p, k) ==
  LET e == entries[p][k] IN
  \/ /\ stopping \/ (~ Fails(e) /\ ~ Restarts(p, e))
     /\ child' = Reaped(e.pid) /\ Removed(p, k)
     /\ UNCHANGED stopping
  \/ /\ ~ stopping /\ Fails(e)
     /\ FailFast(p, k)
  \/ /\ ~ stopping /\ ~ Fails(e) /\ Restarts(p, e)
     /\ \/ Replaced(p, k)
        \* the result of fork_and_run is not looked at
        \/ ForkMayFail /\ Removed(p, k) /\ child' = Reaped(e.pid)
     /\ UNCHANGED stopping

\* The instance is lost below the minimum and nothing is to make up for it: it
\* was to stop, or it was to be replaced and the fork failed.
FallsShort(p, k) ==
  /\ running'[p] < running[p] /\ running'[p] < MinOf(p)
  /\ entries[p][k].dead = "STOP" \/ Restarts(p, entries[p][k])

ReapTracked(p, k) ==
  /\ pc = "reap" /\ child[entries[p][k].pid].st = "zombie"
  /\ DecideDead(p, k)
  /\ owed' = IF FallsShort(p, k) THEN [owed EXCEPT ![p] = @ + 1] ELSE owed
  /\ late' = late \ {entries[p][k].pid}
  /\ UNCHANGED <<conf, want_down, pc, job, opts, pending>>

ReapDone ==
  /\ pc = "reap" /\ \A q \in Pids : child[q].st # "zombie"
  /\ pc' = "signals"
  /\ UNCHANGED <<conf, table, want_down, stopping, child, job, bossrunVars>>

Reap ==
  \/ \E p \in Procs : \E k \in DOMAIN entries[p] : ReapTracked(p, k)
  \/ ReapDone

-----------------------------------------------------------------------------
(***************************************************************************)
(* The environment                                                         *)
(***************************************************************************)
ChildExec(q) ==
  /\ child[q].st = "forked"
  /\ child' = [child EXCEPT ![q].st = "run"]
  /\ UNCHANGED <<conf, table, want_down, stopping, pc, job, bossrunVars>>

ChildDies(q) ==
  /\ Alive(q)
  /\ child' = [child EXCEPT ![q].st = "zombie"]
  /\ pending' = pending \cup {"CHLD"}
  /\ UNCHANGED <<conf, table, want_down, stopping, pc, job, opts, owed, late>>

SignalArrives(s) ==
  /\ pending' = pending \cup {s}
  /\ UNCHANGED <<conf, table, want_down, stopping, child, pc, job, opts,
                 owed, late>>

Supervisor ==
  \/ \E p \in Procs : GrowOne(p)
  \/ GrowDone /\ UNCHANGED bossrunVars
  \/ LoopExit \/ LoopTop \/ PollSignals \/ ControlDone
  \/ \E s \in Signals : ReadSignal(s)
  \/ ReadChld \/ SignalsDone \/ Reap

Operator == PollControl \/ (ControlCommand /\ UNCHANGED bossrunVars)

Environment ==
  /\ pc # "exited"
  /\ \/ \E q \in Pids : ChildExec(q) \/ ChildDies(q)
     \/ \E s \in Signals : SignalArrives(s)

Next == Supervisor \/ Operator \/ Environment

Spec == Init /\ [][Next]_vars

-----------------------------------------------------------------------------
(***************************************************************************)
(* What a state of bossrun must satisfy, beside CountersAgree, ListsSorted *)
(* and TrackedAreChildren of Procman                                       *)
(***************************************************************************)
\* The type invariant of all of bossrun's state and of the kernel's table.
TypeOK ==
  /\ conf \in Configs /\ opts \in Options
  /\ entries \in [Procs -> Seq(Entries)]
  /\ running \in [Procs -> Int] /\ live_processes \in Int
  /\ want_down \in [Procs -> BOOLEAN] /\ stopping \in BOOLEAN
  /\ child \in [Pids -> ChildRecords]
  /\ pc \in {"grow", "loop", "poll", "signals", "reap", "control", "exited"}
  /\ job \in [op : Jobs, todo : SUBSET Procs]
  /\ pending \subseteq Signals \cup {"CHLD"}
  /\ owed \in [Procs -> Nat] /\ late \subseteq Pids

\* bossrun gives the terminal back only when every process it started has been
\* waited for.
ExitLeavesNoChild ==
  pc = "exited" => \A q \in Pids : NoChild(q)

\* "Restart if one of the processes dies" (config.yaml): with restart bossrun
\* sleeps with the minimum of each process running, whatever died and in
\* whatever order it was waited for, but for as many instances as it was short
\* of when a stopped one was waited for (the stopped ones count as running when
\* another dies, so that nothing makes up for that one) or when a fork failed,
\* and less those a command has started since.
MinimumKept ==
  pc = "poll" /\ opts.restart /\ ~ opts.failfast /\ ~ stopping =>
    \A p \in conf.names : running[p] + owed[p] >= MinOf(p)

\* Without the option restart, or when failfast overrides it (config.yaml),
\* nothing but a command starts an instance, except that decide_dead replaces
\* the one it has just waited for, when "restart" had marked it.
OnlyMarkedRestart ==
  [][\A q \in Pids :
       /\ ~ opts.restart \/ opts.failfast
       /\ child[q].st # "forked" /\ child'[q].st = "forked" /\ pc # "grow"
       => LET p == child'[q].grp IN \E k \in DOMAIN entries[p] :
            /\ entries[p][k].dead = "RESTART"
            /\ child[entries[p][k].pid].st = "zombie"
            /\ child'[entries[p][k].pid].st # "zombie"]_vars

-----------------------------------------------------------------------------
(***************************************************************************)
(* Liveness                                                                *)
(***************************************************************************)
\* The scheduler runs bossrun; a fork loop that tries again gets its child in
\* the end; signals and commands do not come faster than they are read for
\* ever; a child that got SIGTERM, or another signal whose default is to
\* terminate, dies; a forked child exec's.
ChildObeys(q) == child[q].term /\ ChildDies(q)
Fairness ==
  /\ WF_vars(Supervisor) /\ SF_vars(ControlDone)
  /\ SF_vars(ReadChld) /\ SF_vars(SignalsDone)
  /\ \A q \in Pids : WF_vars(ChildExec(q)) /\ WF_vars(ChildObeys(q))

LiveSpec == Spec /\ Fairness

\* A child forked by a command after the stop, which nobody has signalled.
LateAlive == \E q \in late : Alive(q)

\* A stop signal, the command shutdown or a failure under failfast ends
\* bossrun: every process it waits for has been told, also those it replaced
\* between a death and the stop.  Not told are the children that a start, incr
\* or max forks after the stop: while one of them lives bossrun goes on.
StopCompletes == stopping ~> pc = "exited" \/ LateAlive

\* "stop all processes and bossrun itself when one of the processes dead"
\* (bossrun.rst, -F): unless the instance was marked between its death and the
\* waitpid, or a command forks after the stop, bossrun ends.
FailfastEnds ==
  \A q \in Pids :
    /\ opts.failfast /\ child[q].st = "zombie"
    /\ \E p \in Procs : \E k \in DOMAIN entries[p] :
         entries[p][k].pid = q /\ entries[p][k].dead = "CRASH"
    ~> \/ pc = "exited" \/ LateAlive
       \/ \E p \in Procs : \E k \in DOMAIN entries[p] :
            entries[p][k].pid = q /\ entries[p][k].dead # "CRASH"
=============================================================================
