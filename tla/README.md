# A TLA+ development of procboss

procboss is a process supervisor in C. `bossd` reads a configuration of named
processes, keeps between a minimum and a maximum of instances of each one
running, restarts the dead ones, takes commands through a fifo and can replace
itself (`execvp`) without losing its children. `bossrun` is a smaller supervisor
built from the same objects. All paths below are relative to `src/` of the
repository, so `src/bossd.c` is the file `src/src/bossd.c` of `PROJECT.json`.

## 1. Inventory

| component | state | operations | what makes it correct |
|---|---|---|---|
| process table (`entry.h`, `entry.c`) | per process: list of entries (pid, index, dead flag), `running`, `want_down`, `bad_attempts`, `last_dead_time`; global `live_processes` | insertion by `do_fork` and `parse_entry`, removal by `reap_children`, marking by `procman.c` | list in the order of the indices; counters agree with the list; every pid is a child not yet waited for, once; an instance keeps its index |
| fork (`runcommand.c`) | the child between `fork` and `execve`, its descriptors | `do_fork`, `fork_and_run`, `do_run`, `open_files`, `close_all` | least free index; never above the maximum; the child has its files on the right numbers and nothing else |
| commands (`procman.c`, `bossdcmd.c`) | marks on entries, `want_down`, `stopping` | restart, stop, start, startin, incr, max, decr, min, norestart, sig*, shutdown, explode, reload, reopenlog, rotatelog | a stopped process stays down, a restarted one is replaced at once |
| bossd (`bossd.c`) | `stopping`, timers, signal_fd | start, recovery from `/proc`, main loop, reaping, `decide_dead`, signals, re-exec | no child forgotten but those a re-exec cannot recognise, no death missed, no process without instances is slept on unless its fork failed, shutdown ends |
| bossrun (`bossrun.c`, `bossruncmd.c`) | the same table, its options | boot loop, main loop, signals passed on, its own `decide_dead`, exit when all are dead | its options decide every death; it ends, and leaves no child |
| control fifo (`control.c`) | `fifobuf`, `fifobuf_pos` | `init_control`, `read_control`, `parse_spaces`, `run_groupman`, `run_instman` | every line is executed once, whole, in order |
| logging (`log.c`) | numbered files, the descriptor of the log | `openlogs`, `rotatelogs`, `reopenlogs` | backups in the order of their age, none lost but the oldest |
| sockets (`sockets.c`) | descriptors kept through a re-exec | recovery, opening, closing | a listening socket that can be recognised survives a re-exec; descriptors leak in the known ways only |
| clients (`bossctl.c`, `bossrc.c`, `shellutil.c`, `proxy.c`) | none shared | one `writev` per command | atomic lines |
| bosstree, bossname, util | none | print | pure I/O |

Interaction: a client writes a line to the fifo; `main_loop` polls the signalfd
and the fifo and calls `reap_signal`, then `read_control`, which runs commands of
`procman.c`; these mark entries, `kill` children and fork through
`runcommand.c`. Children die at any time; their SIGCHLD leads to `waitpid`,
`decide_dead` and possibly another fork. SIGQUIT (and the faults that share its
handler) and the commands explode and reload `execvp` bossd in place: children,
pid, sockets and pending signals stay, all memory goes. A child gets a copy of
bossd's descriptors, moves its files to the numbers of the configuration and
closes the rest.

Hard behaviours: deaths between any two steps; SIGCHLD coalesced into one bit
and dropped by `init_signals`; a re-exec between any two steps, in particular
between a child's `fork` and its `execve`, and between two renames of the log;
counters kept by hand; a sleep whose timeout is only set on one branch, or never;
the order of recovered entries, and children whose record cannot be read; forks that
fail where nobody looks at the result; commands that fork after a stop;
sockets told by addresses that the kernel writes in its own way; `stop_supervisor` in the middle of
`reap_children`; a command buffer that is shifted while it is scanned;
descriptors moved over one another. `PROJECT.json` lists them as `hazards`, each
at its line.

## 2. Modules

```
Instances        what a process table promises: the abstract specification
EntryList        the list of one process: search for an index, insertion, order
  Procman        the table, fork, kill, every command      (EXTENDS EntryList)
    Bossd        the supervisor bossd and its environment  (EXTENDS Procman)
      MCBossd
    Bossrun      the supervisor bossrun                    (EXTENDS Procman)
      MCBossrun
LogFiles         the log and its numbered backups
  Descriptors    log, sockets, and a child's descriptors   (EXTENDS LogFiles)
    MCDescriptors
ControlFifo      read_control and the fifo, byte by byte
```

**EntryList.** A list is a sequence of records `[pid, dead, idx]`; a pointer into
the circular queue is a position, and `Len + 1` the NULL insertion point.
`SlotIndex(s, k)` is the value of `idx` when the loop of `do_fork` reaches
position `k`; `ForkStopsAt` and `RecoverStopsAt` say where the loops of `do_fork`
and `parse_entry` stop. They are predicates on a position and no recursion, so
that they can be proved about.

**Procman.** `child` is the kernel's side: each pid is free, `forked` (before
`execve`), `run` or `zombie`, with the process and index it was started for.
`ForkInto` is `do_fork`; it takes the lists as parameters because `decide_dead`
forks into a list it has just removed an entry from, in one step. The commands
that only mark and kill are one action each. Those that fork, and the loop of
`main()`, take a step per fork (`GrowStep`, at `pc = "grow"`), because children
die and signals arrive in between. `run_groupman` and `run_instman` are a choice
of any non-empty set of processes (instances). A fork fails when the process table is
full, and where `ForkMayFail` says so also for any other reason.

**Instances.** The promise behind "seq0" of `config.yaml`: for each process a set
of slots `<<index, pid>>`, and for each pid what it was told when it was forked.
An instance starts on the least index free, ends, or is replaced by one that
takes the least index free without it; the supervisor may lose all its memory,
and may take an instance back on the index it was given. `Procman` instantiates
it over its own state (`Slots` forgets order and marks of the lists, `Given` is
the index in the child's environment), and `KeepsIndices` says that a supervisor
implements it. It is checked and proved of both.

**Bossd.** `pc` is the place in the program: `exec` (main before
`init_signals`), `recover`, `grow` (a loop that forks), `loop` (the top of
`main_loop`), `pass` (its loop over processes), `poll`, `signals`
(`reap_signal`), `reap` (`reap_children`), `control` (`read_control`), and the
two ends `exited` and `killed`. bossd is one thread; an action is the code
between two points where the outside can be noticed (a fork, a `waitpid`, a
`read`, a `poll`). `ReExec` is enabled at every `pc` after the handlers are
installed. `ControlLocked` is the `init_control` that fails because a child just
forked still has the lock of the fifo. Time is counted in ticks while bossd is in
`poll`; `since_dead` and a child's `age` stop at the largest value that the code
compares them with (`TimeCap`, `SuccessfulRun`), and `bad_attempts` at `BadCap`,
so these caps change no decision. `scan` is what `recover_processes` has still to
look at, in any order; `Recognised` says whose environment can have a usable
BOSS_CHILD, and of those too any one may be missed (`RecoverUnread`: its program
has mangled its environment, the record is too long, `/proc/PID/stat` cannot be
opened or parsed, as with a `)` in the name). Two history variables: `orphan`
has the children that a re-exec'd bossd did not recognise, not exec'd yet or unread,
and `refused` the processes for which a fork has failed since the last top of
`main_loop`, in the pass or in `decide_dead`, neither of which looks at the
result. The control lines come from `ControlFifo`: what `Bossd` sees of it
is a sequence of whole commands.

**Bossrun.** The same table and commands under another main loop. `opts` holds
`config.bossrun`. `poll` has no timeout and there are no timers, so all that ever
starts a process again is `decide_dead` (`DecideDead`, with its `stop_supervisor`
under failfast as one step) and the commands. `ReadSignal` takes the pending
signal of the lowest number, as `signalfd` does, and passes it on. The fork in
`DecideDead` may fail. Two history variables: `owed` counts, for each process, the
instances that were lost below its minimum for one of two reasons, the mark of a
stop or a fork that failed, and have not been started since; `late` has the
children that a command has forked after the stop.

**LogFiles and Descriptors.** `disk` says which file has the name `log.i`; files
are numbered in the order of their creation. `rotatelogs` is one step that finds
where to begin and one step per rename, with a re-exec possible between any two.
`Descriptors` is the table `fds` of bossd and those of its children (`kids`):
`ScanSockets` is the first loop of `open_sockets`, which tells by their addresses
what to keep. A listening socket is taken for a configured address when
`getsockname` prints it as the configuration has it (`HeardAs`): never for a port
left to the kernel (`Dynamic`) or a host like `127.1` (`Odd`). A socket left over
from a failed `open_unix` or `open_tcp` (`"failed unix"`, `"failed tcp"`) may have no
name, and is then compared by the `sun_path` the iteration before has left, or may be
bound already: it is taken for nothing or for any configured address of its kind
(`Guesses`), and `kept` has those that were taken for one. Of several
descriptors taken for one address the last has the file. `OpenSocket` is a turn
of the second loop, in which `socket()` or anything behind it may fail;
`Run` is the fork, which gives the child copies of the descriptors and of the
configuration, `PlaceFile` a turn of the loop of `open_files` in the child (open,
`dup2`, `close`), `CloseAll` its `close_all`. Between these steps bossd rotates,
opens and re-exec's, and other children die. `reopenlogs` opens the new log before
it closes the old one, so that the numbers that bossd itself uses move.

**ControlFifo.** A byte is its place in the line it was written in, the last
place being the newline. `Read` is the read at the top of `read_control`,
`TakeLine` one turn of its loop, which calls `parse_spaces` and moves the rest of
the buffer down. `end` is not moved by the code, and is a variable for that
reason. `done` records the text each command was given. A line may be longer than
the buffer; `Read` then reads nothing, again and again. `mixed` is a history
variable: a read has left a part of a line behind two whole ones. From then on the
loop can find old bytes again (run `stale`); the properties of `read_control` but
that one say what holds until then.

Operators whose comment says *mutant* are plausible mistakes in the definition
that follows them. No specification uses them; replacing the definition by its
mutant must make the property listed in `PROJECT.json` fail.

## 3. Runs

All are complete explorations. Runs without a deadlock check are those in which
the program really ends, or in which a bounded supply (files of the log) runs out.

| run | instance | shows |
|---|---|---|
| `commands` | bossd, 1 process of 1..2 instances, 3 pids, all table commands, SIGTERM, failing forks | counters; a fork takes the least free index; growth within the maximum; stopped stays down; restart is immediate; a process with nothing running has a timer; nothing is started while stopping |
| `reexec` | the same, incr and explode, SIGQUIT and SIGINT, children that are not recognised, the process may leave the configuration | sorted recovery; only children in the table; no child lost and no index shared but by what a re-exec has missed; no death lost; exit leaves no child; the table implements `Instances` |
| `live` | bossd, 2 processes, 2 pids, restart, shutdown, SIGTERM, failing forks, fairness | shutdown ends; a crashed process comes back; every zombie is waited for |
| `foreground` | bossrun, 2 processes of 1 instance or 1 of 2, 2 pids, every failfast and restart, restart, norestart, start, incr and shutdown, SIGTERM, failing forks, fairness | exit leaves no child; the minimum is kept under restart but for what is owed; only what was marked is restarted without it; a stop or a failure ends it unless a command forks after it; the table implements `Instances` |
| `lines` | buffer of 6 bytes, lines of 2 to 7, fifo of 11, 4 lines | unless a read mixes: no byte invented; commands are whole lines in order; each one executed, dropped by a re-exec, or behind a line without room |
| `resources` | 2 configurations of 2 processes with files below, among and above bossd's own descriptors, a unix socket that may fail, a tcp host that is not recognised, a port left to the kernel, 1 child, 1 or 2 backups, 4 log files | a child has its files and nothing else; no descriptor leaks but as said; recognisable sockets kept; backups in order, lost by age only |

Six more runs violate one property each: what a document says, against what the
code does.

| run | the document | the code |
|---|---|---|
| `minimum` | `src/config.yaml:87` "Minimum processes of this kind to start and keep running" | one fork per pass, and no timer after it: bossd sleeps below the minimum |
| `duplicate` | `src/config.yaml:107-109` "guaranty that no duplicates are simultaneously running" | a re-exec between fork and execve misses the child |
| `shutdown` | `doc/bossctl.rst:140` "shut down bossd and all started processes" | a command after shutdown forks a child nobody signals |
| `start` | `doc/bossctl.rst:52-53` "Also this command marks process to be restarted after death" | start clears neither `want_down` nor the DEAD_STOP of instances still alive: what it starts is not restarted |
| `stale` | `src/constants.h:4` "Maximum bytes in single commandline sent by fifo" | a part of a line is executed when two whole lines precede it in the buffer |
| `filemap` | `src/config.yaml:217-218` "a mapping from descriptor number to a file definition structure" | moving one file closes another whose number is still to be taken care of |

More disagreements were met that have no run of their own:

- bossrun with restart can stay below the minimum for good, although
  `src/config.yaml:241` says "Restart if one of the processes dies" and
  `src/config.yaml:87` "start and keep running". `running` still counts an instance that
  `norestart`, `decr` or `min` has marked, so a crash of another one before the marked
  one is reaped is made up for by nothing: with a minimum of two and three running,
  `decr` and a crash leave one. A fork that fails in `decide_dead` is not tried again
  either. `MinimumKept` of `Bossrun` says that these are the only two ways, and bounds
  what is missing (`owed`).
- bossrun does not end after a stop or a failure while a child lives that start, incr
  or max has forked since: the gap that the run `shutdown` shows of bossd, here against
  `doc/bossrun.rst:32-33` and `doc/procboss.rst:88`. `StopCompletes` and `FailfastEnds`
  except it (`LateAlive`).
- `doc/procboss.rst:91-92` says of restart "only useful if failfast is set to yes";
  `src/config.yaml:225-226` and `decide_dead` have failfast override restart, so that it is
  of use only without it. `MinimumKept` and `OnlyMarkedRestart` follow the code.
- `src/config.yaml:48-49` offers a port of zero, "dynamically alocated". Such a socket
  is recognised by no re-exec, which closes it and opens another port. The
  same happens to a host written in another way than `inet_ntoa` does (`127.1`), whose
  address cannot even be bound again while a child still has it.

**Bounds, and why they are enough.** Three pids allow a process at its maximum
of two and a third child that is a zombie or an orphan beside it; with two
indices and a third one above them the list has a gap to fill. One small and one
big timeout of 1 and 2 ticks, `Retries` 0 or 1, tell all branches of `main_loop`
apart. With two processes each one is asleep while the other acts. In
`foreground` two instances of one process let one be marked while the other dies (so
that the process is short of its minimum for good, and a start makes up for it),
and two processes let one fail while the other is told; every signal but SIGPIPE
is treated like SIGTERM or, when it is no stop signal, only passed on. In
`ControlFifo` a buffer of 6 holds a line of 2 to 5 bytes and a part of the next
one, three whole lines of 2, and two with a part of a third, where `mixed` is set;
a line of 6 just fits and one of 7 does not. In
`Descriptors` the numbers of the files are those bossd has for its log, its
sockets and the ends of the fifo, and a process has one address twice; `MaxFd` leaves
room for all the sockets that count and several failed ones, of which every re-exec may
leave one more (`Room` is not met beyond that), and four files of the log fill two
backups and rotate one out. One child is enough there: children meet only
through the addresses they have bound (`Bound`), in which a child and bossd meet as
well, and the theorems have any number. Each bound of these two is a constant of the
theorems. Where forks may fail (`ForkMayFail`), every fork may; the run `reexec` leaves
it out, since a full process table fails there too, and the violating runs need none.
Pids are symmetric (no property names one); the runs with liveness
use no symmetry.

**Fairness** (`Fairness` in `Bossd` and `Bossrun`, `FairSpec`). The supervisor is
scheduled (weak fairness of its steps). A failed fork is an outcome like any other
where the code goes on after it; in the loops that fork while below a target it is a
turn without effect, and fairness says that such a loop gets its child in the end. A read of the fifo ends although commands
may keep coming, since the buffer is finite (`ControlDone`); signals do not
arrive for ever faster than they are read (`ReadChld`, `SignalsDone`); time
passes while bossd sleeps (`Tick`, bossd only): these are strong, since each of
them is disabled and enabled again by the environment. A forked child exec's, and
a child that was sent SIGTERM dies. Nothing says that the operator sends
anything, nor that a child dies by itself. `EveryLineDone` needs the steps of
`read_control` only. `Descriptors` has no fairness.

## 4. Proofs

The theorems hold for every value of the constants, from their assumptions only:
at least one process, a finite process table, minima and maxima of at least 1,
natural timeouts, the signals and options the code knows, at least one backup,
files on numbers from 3 to a greatest descriptor, lines of a byte and a newline at
least.

```
EntryListProofs   insertion, removal and order of a list, do_fork's search
  TableProofs     the table: lists, children, counters; what both supervisors do to it
    BossdProofs   the inductive invariant of bossd, what one step of it may do
    RefinementProofs    forks, deaths and replacements are steps of Instances
      SupervisorProofs  no child lost, no index shared, the end, the sleep, Instances
      BossrunProofs     everything about bossrun
  DescriptorProofs      logs, sockets, descriptors of bossd and of its children
  FifoProofs            the bytes, lines and commands of the fifo
```

The last two use only `LeastElement` of `EntryListProofs`.

`BossdProofs` proves `TypeCorrect`, `CountersCorrect`, `SortedCorrect`,
`TrackedCorrect` and `DeathsCorrect`: `TypeOK`, `CountersAgree`, `ListsSorted`,
`TrackedAreChildren` and `NoLostDeath` hold in every state.
None of these is inductive alone: the counters stay right only because
a pid is in one place of one list, so that removing one entry takes exactly one
pid out of `Tracked`; a fork adds a pid nobody tracks only because every tracked
pid is a child; a death is not lost at a re-exec only because the lists are empty
until `init_signals` has dropped SIGCHLD, and only because what is being
scanned is not yet in a list. The inductive invariant is

    IInv == TypeOK /\ TableOK /\ NoLostDeath /\ ScanFresh /\ ExecEmpty /\ PassNotStopping

where `TableOK` holds the four facts about the table (sorted, counted, each entry
describes its child, each pid in one place), `ScanFresh` that no pid still to be
scanned is tracked, `ExecEmpty` that the table is empty before `init_signals`,
`PassNotStopping` that the pass of `main_loop` is not made while stopping. The
argument follows the code: `TableProofs` shows that the table stays right under an
insertion of a new child (fork and recovery), a removal (reaping), a marking
(commands) and a change of the kernel's side that keeps the children;
`BossdProofs` goes through the actions, grouped by which of these four they do.

It also proves the action properties `StoppingForksNothing`,
`GrowsWithinMax`, `RestartIsImmediate`, `StoppedStaysDown` and
`ForkTakesLeastIndex` (`StoppingCorrect`, `MaxCorrect`, `RestartCorrect`,
`StopCorrect`, `IndexCorrect`). For them it first sorts the steps (`StepKinds`): a
step relabels entries at most (`Settles`), empties the table (`ReExec`), recovers
an entry (`RecoverStep`), forks for a loop that was told to go on (`Starts`), or
reaps an instance and decides on it (`ReapTracked`). A theorem then has one case
per kind. `StopCorrect` needs one more invariant, `UpAtStart`: `want_down` is clear
until `main_loop` first runs. `IndexCorrect` rests on `ForkDense` of
`EntryListProofs`: below the index that `do_fork` takes, every index is found
before its place in the list, by the least-element principle of the natural
numbers and without induction over the list.

`SupervisorProofs` strengthens the invariant to

    SInv == IInv /\ LoopsOK /\ NoLostChild /\ DuplicateOnlyByOrphan

and proves `ChildrenCorrect`, `DuplicatesCorrect`, `ExitCorrect`, `SleepCorrect`
(`NoLostChild`, `DuplicateOnlyByOrphan`, `ExitLeavesNoChild`, `NoGroupForgotten`).
The two named in `SInv` need each other: an index that no list uses is free among
the children only if every living child is in a list or an orphan. Which children
recovery misses is left open (`RecoverUnread` may take any), so what the two say is that
nothing else loses a child or shares an index. `LoopsOK` has
what the loops keep: the processes a loop has still to do are configured, those
the pass of `main_loop` has done are running, waited for, down or refused a fork, and after the end the
lists are empty, because `live_processes` counts them. `IndicesKept`
(`KeepsIndices`) is the refinement of `Instances`: `RefinementProofs` translates
an insertion, a removal and a relabelling of lists into the sets of `Instances`,
and each kind of step is then one abstract step or a stutter.

`BossrunProofs` proves `BossrunTypes`, `BossrunExit`, `BossrunMinimum`,
`BossrunRestarts`, `BossrunIndices` (`TypeOK`, `ExitLeavesNoChild`, `MinimumKept`,
`OnlyMarkedRestart`, `KeepsIndices` of `Bossrun`), from

    BInv == RestOK /\ TableNow /\ AllTracked /\ ExitedEmpty /\ MinKept

`AllTracked`: bossrun never loses its memory, so every child is in a list.
`MinKept` is `MinimumKept` at every step and not at `poll` only, but for the
processes the boot loop has still to start; it holds because `decide_dead`
replaces an instance exactly when the process would fall below its minimum, so that
running falls below it only by the reaping of an instance marked DEAD_STOP or by a
fork that fails, each of which `owed` counts, and because a fork pays back one.

`DescriptorProofs` proves `LogsOrdered`, `LogsKept` and `SocketsStay`
(`LogsInOrder`, `LogsLostByAge`, `SocketsKept`). The invariant of the logs,
`LogsOK`, adds to `LogsInOrder` that the number the next rename is to has no file,
unless all numbers are taken and it is the last one.

`SocketsStay` is about the addresses that `getsockname` prints as the
configuration writes them (`Matched`), and holds whatever the failed sockets are
taken for.

It also proves `DescriptorsCorrect` (`NoDescriptorLeaks`), from `FdsOK` and `Tidy`.
`FdsOK`: the `_fd` of a file is -1 or `Right`, a descriptor open on its address or a
failed socket of its kind that the last scan took for it (in `kept`), and -1 for the
files that are no sockets. `Tidy` counts at every `pc` what `NoDescriptorLeaks` counts in
the loop: no second log and no second socket of an address with a fixed port at any
time, no log between a re-exec and `openlogs`, none of the four own descriptors before
`OpenOwn`, a file for each socket on a port of the kernel's, and of the failed sockets
that are not in `kept` no more than files `open_sockets` has come to and found none for
(`Unserved`). The last one is why the sockets that a re-exec inherits must be told by
their addresses first: `ScanSockets` closes those it takes for nothing. Nothing bounds
`kept`: `open_sockets` never closes what it mistakes.

`ChildFilesCorrect` (`ChildHasItsFiles`) is by `KidsOK`, an invariant of the loop
of `open_files`: the files placed are before those still to be placed; each number
that was given out is open on a file that belongs there; and each socket still to
be moved is still where bossd had it (or the failed socket it has in its place). The last part is what `Clobbers` excludes:
the run `filemap` shows it fail, and the theorem says that nothing else makes it
fail, whatever bossd and the other children do during the loop.

`FifoProofs` proves `PositionCorrect`, `BytesCorrect` and `LinesCorrect`
(`PosInBuffer`, `NothingInvented`, `CommandsAreLines`) from

    FInv  == mixed \/ Tame
    Tame  == FifoTypes /\ BufLegit /\ ScanSafe /\ BytesInOrder /\ WholeLinesInOrder

`BytesInOrder` is the heart: the bytes in the buffer up to `pos` and then those in
the fifo follow one another as they were written, begin with the first byte of the
first line neither executed nor lost, and end with the last newline written. So the
bytes up to the first newline are one line (`FirstLine`, by the first byte that
would not be of it: the least-element principle in place of an induction). It is
not inductive, because the loop scans up to `end` and not to `pos`: `ScanSafe` says
that while it runs the byte at `pos` is a newline, which is found before any old
byte is, or at most one newline is to be found at all. A read establishes one or
the other unless it mixes; memmove keeps it. `BufLegit` says that old bytes are at
least bytes of lines already sent, so that what is sent later changes none of them
into a newline. `OnlyLongQueuesMix`, the one theorem here that no run checks, tells
users when they need not care: a read mixes only when more bytes wait than the
buffer holds.

Only model-checked: liveness (`ShutdownCompletes`, `CrashIsRepaired`,
`ZombieIsReaped`, `StopCompletes`, `FailfastEnds`, `EveryLineDone`), which is
outside the prover's reach, and with it fairness. Every invariant and every
action property of the passing runs is a theorem.

## 5. What is abstracted

- Why a fork fails is left out: it does when the process table (`Pids`) is full, and at
  any time under `ForkMayFail`; a failing `malloc` before it is not told from it.
- What a child's environment says is right or useless. `README.rst:38-41` names a third
  case, a program that writes the name or the index of another one there: bossd would
  then list it as that, and no property of recovery holds of such a child.
- The signals of `sig*`, `spare_kill_signal` and those bossrun passes on are taken
  to end a child, at any later time. Signals to a child that has not exec'd end it
  as well; in the code SIGHUP and SIGQUIT run bossd's handler there.
- The configuration file's order of processes is any order in the loops that fork;
  in `Descriptors` it is the order of the sequence.
- `read_config` is one choice of `conf`; the parser and its zeroed memory
  (`bad_attempts`, `last_dead_time`) are external.
- `bossrun`: WINCH and USR2, which are treated like USR1, and the orphans it adopts
  as a subreaper, which `reap_children` waits for without doing anything else.
- `Descriptors`: what `getsockname` leaves in `addr` for a failed socket is any address of
  the configuration it can be compared with, more than the code's stack would hold.
  Two strings of the configuration name two addresses, except that a port of 0 is
  another one at each bind. A path longer than `sun_path` is left out.
  0, 1 and 2 are left alone and no file has their numbers; an ICMP
  file is treated like a plain one, and what a file contains is left out. A child
  has its own descriptors from its fork; that it shares the lock of the
  fifo until its `close_all` is in `Bossd` (`ControlLocked`). The limits on the
  number of descriptors (EMFILE) are left out: a step that opens some has room for
  them (`Room`). A rename of `log.n` to itself, with which a full rotation begins,
  changes nothing.
- `ControlFifo`: a `writev` longer than PIPE_BUF is atomic when there is room; words
  are not told from one another, so trailing blanks, options and MAX_ARGS are out.
- Left out: EINTR, clocks set back, the pid file, `fix_environ`'s own exec,
  another configuration path or another bossd, MAX_PROCESSES.
- After `exited` and `killed` nothing is followed (the kernel then sends SIGTERM
  to the children by PR_SET_PDEATHSIG).
- In the loops that fork while below a target, a fork that fails makes the
  code spin; the model has no step there until one succeeds.

## 6. Not modelled

- `bosstree.c`, `bossname.c`, `util.c`: they read `/proc` or an environment once,
  print and end. They keep no state and share none with the supervisors; what
  could be stated of bosstree is the layout of its output.
- `proxy.c`, `shellutil.c` and the interactive part of `bossrc.c`: copying bytes
  between a terminal and a pty, completion and prompts.
- `configmain` and the schema: generated by coyaml, which is not in the repository.
- The environment scan of `recover_processes`: its sliding window over
  `/proc/PID/environ` is a search in text; `Recognised` and `RecoverUnread` have its results.

## 7. Plan

Left, in this order:

1. The words of a command: `run_groupman` and `run_instman` with MAX_PROCESSES,
   the options and MAX_ARGS of `parse_spaces`, on top of `ControlFifo`.
2. `EnvironScan`: the sliding window that `recover_processes` searches with.
3. A composition of `ControlFifo` and `Procman`, in which the commands of one read
   share a buffer that explode drops.
4. A condition on configurations under which no child ever meets `Clobbers`, and one on
   commands and deaths under which bossrun is never short (`owed`).
