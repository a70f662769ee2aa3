---------------------------- MODULE Descriptors ----------------------------
(***************************************************************************)
(* The file descriptors of bossd: its log (log.c), the listening sockets   *)
(* it keeps through a re-exec (sockets.c), what it uses itself, and what   *)
(* open_files makes of a copy of them in a child (runcommand.c).           *)
(***************************************************************************)
EXTENDS LogFiles, Sequences

CONSTANTS
  Procs,      \* configured processes
  Unix, Tcp,  \* the addresses of sockets, as the configuration writes them
  Dynamic,    \* those of Tcp without a port: each bind gets another one
  Odd,        \* those of Tcp whose host is not written as inet_ntoa writes it
  MayFail,    \* those that may fail to open whoever has them (a bound)
  MaxFd,      \* the greatest descriptor (a bound; 0, 1 and 2 are left alone)
  Children,   \* children that may run at a time (a bound)
  Configs     \* what read_config may find: [backups, files]

Addrs == Unix \cup Tcp
\* The addresses getsockname gives back as the configuration has them.
Matched == Addrs \ (Dynamic \cup Odd)

\* What else a descriptor may be open on: a "failed" socket does not listen, as
\* what follows socket() in open_unix or open_tcp failed, and nothing closes it;
\* "own" is the signalfd, the lock, or one of the ends of the fifo.
Others == {"closed", "log", "own", "file", "failed unix", "failed tcp"}
ASSUME AddrsAssumption ==
  /\ Addrs \cap (Others \cup {"none"}) = {} /\ Unix \cap Tcp = {}
  /\ Dynamic \subseteq Tcp /\ Odd \subseteq Tcp

Fds == 3..MaxFd
File == [proc : Procs, key : Fds, addr : Addrs \cup {"file"}]

\* The files of all processes in the order of the configuration.
ASSUME FilesAssumption ==
  MaxFd \in Nat /\ Configs \subseteq [backups : 1..Top, files : Seq(File)]

VARIABLES
  conf,   \* the configuration read at the last start
  fds,    \* what each descriptor of bossd is open on
  fdOf,   \* the _fd of each file of conf
  at,     \* the file open_sockets is to open next
  kept,   \* history: the failed sockets the last scan took for a file's
  pc,     \* where bossd is
  kids    \* the children: the files they were forked with, their descriptors

vars == <<conf, fds, fdOf, at, kept, pc, kids, logVars>>

\* The kernel gives the lowest descriptor that is free.
IsLowestFree(t, f) == t[f] = "closed" /\ \A g \in 3..(f - 1) : t[g] # "closed"
LowestFree(t) == CHOOSE f \in Fds : IsLowestFree(t, f)
Opened(t, x) == [f \in Fds |-> IF IsLowestFree(t, f) THEN x ELSE t[f]]
\* No limit of the descriptors is met: there is room for n more.
On(t, x) == {f \in Fds : t[f] = x}
Room(t, n) == Cardinality(On(t, "closed")) >= n

\* A child: "opening" is in open_files, "run" behind close_all.
NoKid == [st |-> "none", proc |-> "none", files |-> << >>, fd |-> << >>,
          todo |-> {}, tab |-> [f \in Fds |-> "closed"]]
Holds(t, a) == \E f \in Fds : t[f] = a
\* bind, or the connect before it: an address is taken while anybody listens on
\* it; a failed socket is in nobody's way.
Bound(a) ==
  a \notin Dynamic /\ (Holds(fds, a) \/ \E c \in Children : Holds(kids[c].tab, a))

Init ==
  /\ LogInit
  /\ conf \in Configs
  /\ fds = [f \in Fds |-> "closed"]
  /\ fdOf = << >> /\ at = 1 /\ kept = {} /\ pc = "exec"
  /\ kids = [c \in Children |-> NoKid]

-----------------------------------------------------------------------------
(***************************************************************************)
(* main(): openlogs, open_sockets, init_signals and init_control           *)
(***************************************************************************)
OpenLogs ==
  /\ pc = "exec" /\ Room(fds, 1)
  /\ OpensLog
  /\ fds' = Opened(fds, "log")
  /\ pc' = "scan"
  /\ UNCHANGED <<conf, fdOf, at, kept, kids, moving>>

\* openlogs aborts, and nothing handles SIGABRT yet.
OpenLogsFails ==
  /\ pc = "exec"
  /\ pc' = "dead"
  /\ UNCHANGED <<conf, fds, fdOf, at, kept, kids, logVars>>

Configured == {conf.files[k].addr : k \in DOMAIN conf.files} \cap Addrs

\* The second loop of open_sockets compares the addresses as they are written.
SameAddr(k) ==
  {j \in 1..(k - 1) : conf.files[j].addr = conf.files[k].addr}

\* mutant: the recovery of sockets is left out
HeardAsNothing(x) == "none"
\* The address a listening socket is taken for.
HeardAs(x) == IF x \in Configured \cap Matched THEN x ELSE "none"

\* A failed socket is searched for by whatever getsockname leaves: the sun_path
\* of the iteration before when it has no name, 0.0.0.0:0, or the address it was
\* bound to before fchmod or listen failed.
Failed(a) == IF a \in Unix THEN "failed unix" ELSE "failed tcp"
FailedFds == {f \in Fds : fds[f] \in {"failed unix", "failed tcp"}}
Guesses(x) == {"none"} \cup {a \in Configured \ Odd : Failed(a) = x}

\* The first loop keeps what it takes for a configured address, and closes any
\* other socket and whatever is not one.  It meets the descriptors in ascending
\* order: the first file of an address gets the last one taken for it.
ScanSockets ==
  /\ pc = "scan"
  /\ \E guess \in [FailedFds -> Configured \cup {"none"}] :
       LET TakenAs(f) == IF f \in FailedFds THEN guess[f] ELSE HeardAs(fds[f])
           TakenFor(k) == {f \in Fds : TakenAs(f) = conf.files[k].addr}
           LastTaken(k) == CHOOSE f \in TakenFor(k) : \A g \in TakenFor(k) : g <= f
       IN /\ \A f \in FailedFds : guess[f] \in Guesses(fds[f])
          /\ fds' = [f \in Fds |-> IF fds[f] = "log" \/ TakenAs(f) # "none"
                                    THEN fds[f] ELSE "closed"]
          /\ fdOf' = [k \in DOMAIN conf.files |->
               IF SameAddr(k) = {} /\ TakenFor(k) # {} THEN LastTaken(k) ELSE 0 - 1]
          /\ kept' = {f \in FailedFds : guess[f] # "none"}
  /\ at' = 1 /\ pc' = "open"
  /\ UNCHANGED <<conf, kids, logVars>>

\* The second loop takes the first socket of the same address among those
\* recovered and those of the files before.
FirstSame(k) == CHOOSE j \in SameAddr(k) : \A i \in SameAddr(k) : j <= i
Known(k) == fdOf[IF SameAddr(k) = {} THEN k ELSE FirstSame(k)]

\* open_tcp, open_unix: a failure behind socket() leaves its descriptor open.
OpenSocket ==
  /\ pc = "open" /\ at \in DOMAIN conf.files /\ Room(fds, 1)
  /\ at' = at + 1
  /\ LET a == conf.files[at].addr IN
     \/ /\ a = "file"
        /\ UNCHANGED <<fds, fdOf>>
     \/ /\ a # "file" /\ Known(at) > 0
        /\ fdOf' = [fdOf EXCEPT ![at] = Known(at)]
        /\ UNCHANGED fds
     \/ /\ a # "file" /\ Known(at) < 0 /\ ~ Bound(a)
        /\ fds' = Opened(fds, a)
        /\ fdOf' = [fdOf EXCEPT ![at] = LowestFree(fds)]
     \/ /\ a # "file" /\ Known(at) < 0 /\ (Bound(a) \/ a \in MayFail)
        /\ fds' = Opened(fds, Failed(a))
        /\ fdOf' = [fdOf EXCEPT ![at] = 0 - 1]
     \/ /\ a # "file" /\ Known(at) < 0 /\ a \in MayFail
        /\ UNCHANGED fds
        /\ fdOf' = [fdOf EXCEPT ![at] = 0 - 1]
  /\ UNCHANGED <<conf, kept, pc, kids, logVars>>

\* init_signals and init_control: the signalfd, the lock, the fifo twice.
OpenOwn ==
  /\ pc = "open" /\ at = Len(conf.files) + 1 /\ Room(fds, 4)
  /\ fds' = Opened(Opened(Opened(Opened(fds, "own"), "own"), "own"), "own")
  /\ pc' = "loop"
  /\ UNCHANGED <<conf, fdOf, at, kept, kids, logVars>>

-----------------------------------------------------------------------------
(***************************************************************************)
(* open_files and close_all, in the child, while bossd goes on             *)
(***************************************************************************)
OwnFiles(kid) == {k \in DOMAIN kid.files : kid.files[k].proc = kid.proc}
KeysOf(kid) == {kid.files[k].key : k \in OwnFiles(kid)}

\* fork: the child has copies of the descriptors and of the configuration.
Run(c, p) ==
  /\ pc = "loop" /\ kids[c] = NoKid
  /\ LET kid == [st |-> "opening", proc |-> p, files |-> conf.files,
                 fd |-> fdOf, todo |-> {}, tab |-> fds]
     IN  /\ OwnFiles(kid) # {}
         /\ kids' = [kids EXCEPT ![c] = [kid EXCEPT !.todo = OwnFiles(kid)]]
  /\ UNCHANGED <<conf, fds, fdOf, at, kept, pc, logVars>>

\* dup2(tfd, key) and close(tfd), when they differ
Moved(t, from, to) ==
  IF from = to THEN t ELSE [t EXCEPT ![to] = t[from], ![from] = "closed"]

Places(c, k, tab) == kids' = [kids EXCEPT ![c].todo = @ \ {k}, ![c].tab = tab]
\* exit(127) leaves nothing behind.
Exits(c) == kids' = [kids EXCEPT ![c] = NoKid]

\* A turn of the loop of open_files: a socket of bossd is moved to its number,
\* anything else is opened first.  A dup2 of what is closed ends the child, and
\* so does whatever fails of the opening.
PlaceFile(c) ==
  /\ kids[c].st = "opening"
  /\ \E k \in kids[c].todo :
       /\ \A j \in kids[c].todo : k <= j
       /\ LET tab == kids[c].tab
              tfd == kids[c].fd[k]
              file == kids[c].files[k]
          IN \/ /\ tfd > 0 /\ (tfd = file.key \/ tab[tfd] # "closed")
                /\ Places(c, k, Moved(tab, tfd, file.key))
             \/ /\ tfd > 0 /\ tfd # file.key /\ tab[tfd] = "closed"
                /\ Exits(c)
             \/ /\ tfd < 0 /\ (file.addr = "file" \/ ~ Bound(file.addr))
                /\ Room(tab, 1)
                /\ Places(c, k, Moved(Opened(tab, file.addr), LowestFree(tab), file.key))
             \/ tfd < 0 /\ Exits(c)
  /\ UNCHANGED <<conf, fds, fdOf, at, kept, pc, logVars>>

\* mutant: close_all is not called
NothingClosed(t, keys) == t
ClosedBut(t, keys) == [f \in Fds |-> IF f \in keys THEN t[f] ELSE "closed"]

CloseAll(c) ==
  /\ kids[c].st = "opening" /\ kids[c].todo = {}
  /\ kids' = [kids EXCEPT ![c].st = "run",
                          ![c].tab = ClosedBut(@, KeysOf(kids[c]))]
  /\ UNCHANGED <<conf, fds, fdOf, at, kept, pc, logVars>>

Dies(c) ==
  /\ kids[c] # NoKid
  /\ kids' = [kids EXCEPT ![c] = NoKid]
  /\ UNCHANGED <<conf, fds, fdOf, at, kept, pc, logVars>>

-----------------------------------------------------------------------------
(***************************************************************************)
(* rotatelogs and reopenlogs                                               *)
(***************************************************************************)
\* The size or the age of the log, or the command rotatelog.
Rotate ==
  /\ pc = "loop"
  /\ RotateStart(conf.backups)
  /\ pc' = "rotate"
  /\ UNCHANGED <<conf, fds, fdOf, at, kept, kids>>

Rename ==
  /\ pc = "rotate" /\ CanRename
  /\ disk' = Renamed
  /\ moving' = moving - 1
  /\ UNCHANGED <<conf, fds, fdOf, at, kept, pc, kids, writing>>

\* mutant: the old log file stays open
ReopenedTwice == Opened(fds, "log")
\* The new file is opened before the old one is closed: the number moves.
Reopened ==
  [f \in Fds |-> IF fds[f] = "log" THEN "closed" ELSE Opened(fds, "log")[f]]

\* reopenlogs: the end of a rotation, or the command reopenlog
Reopen ==
  /\ pc \in {"loop", "rotate"} /\ moving = 0 /\ Room(fds, 1)
  /\ OpensLog
  /\ fds' = Reopened
  /\ pc' = "loop"
  /\ UNCHANGED <<conf, fdOf, at, kept, kids, moving>>

\* The open fails: bossd goes on writing to the old file.
ReopenFails ==
  /\ pc = "rotate" /\ moving = 0
  /\ pc' = "loop"
  /\ UNCHANGED <<conf, fds, fdOf, at, kept, kids, logVars>>

-----------------------------------------------------------------------------
\* explode, reload, a signal, or the abort of a rename or stat that fails, as
\* the rename of a log that is missing always does.  Only what was not opened
\* or marked close-on-exec stays open: the sockets.
ReExec ==
  /\ pc \in {"loop", "rotate"}
  /\ conf' \in Configs
  /\ fds' = [f \in Fds |-> IF fds[f] \in {"log", "own"} THEN "closed" ELSE fds[f]]
  /\ fdOf' = << >> /\ at' = 1 /\ kept' = {} /\ pc' = "exec"
  /\ writing' = 0 /\ moving' = 0
  /\ UNCHANGED <<kids, disk>>

Next ==
  \/ OpenLogs \/ OpenLogsFails \/ ScanSockets \/ OpenSocket \/ OpenOwn
  \/ \E c \in Children :
       PlaceFile(c) \/ CloseAll(c) \/ Dies(c) \/ \E p \in Procs : Run(c, p)
  \/ Rotate \/ Rename \/ Reopen \/ ReopenFails
  \/ ReExec

Spec == Init /\ [][Next]_vars

-----------------------------------------------------------------------------
\* A file is given a number that a later one is still to be moved from, or is
\* moved from where a later one is to be moved from too.
Clobbers(kid) ==
  \E j, k \in OwnFiles(kid) :
    j < k /\ kid.fd[k] > 0 /\ kid.fd[k] \in {kid.files[j].key, kid.fd[j]}

\* A file has its address, or a failed socket the scan took for it.
Serves(x, addr) == x = addr \/ (addr \in Addrs /\ x = Failed(addr))
HasItsFiles(kid) ==
  kid.st = "run" =>
    \A f \in Fds :
      IF f \in KeysOf(kid)
      THEN \E k \in OwnFiles(kid) :
             kid.files[k].key = f /\ Serves(kid.tab[f], kid.files[k].addr)
      ELSE kid.tab[f] = "closed"

\* A child that runs has on each configured number what is configured for it, or
\* a socket that does not listen and was taken for that (NoDescriptorLeaks says
\* which), and nothing else of bossd's, wherever bossd's own descriptors happen
\* to be and whatever bossd does meanwhile: but for a configuration that uses the
\* number of a socket still to be moved, or an address twice for a process.
ChildHasItsFiles ==
  \A c \in Children : HasItsFiles(kids[c]) \/ Clobbers(kids[c])

\* "a mapping from descriptor number to a file definition structure"
\* (config.yaml): the same without the exception.
MappingIsHonoured == \A c \in Children : HasItsFiles(kids[c])

\* No re-exec closes a listening socket that the configuration still names and
\* getsockname gives back as it does: clients notice nothing.  One of a dynamic
\* port, or of a host like 127.1, is closed by every re-exec.
SocketsKept ==
  [][\A a \in Matched :
       Holds(fds, a) /\ (\E k \in DOMAIN conf'.files : conf'.files[k].addr = a)
       => Holds(fds, a)']_vars

\* However many rotations and re-execs: bossd has one log, its own four
\* descriptors, no two sockets for an address and none for one it is not to
\* listen on, none on a dynamic port that no file has; a file without a listening
\* socket has none, or a failed one the last scan took for its; and of the other
\* failed sockets there is at most one for each file that has none.  What is
\* taken for a file's stays open: those may be more after every re-exec.
NoDescriptorLeaks ==
  pc = "loop" =>
    /\ Cardinality(On(fds, "log")) = 1 /\ Cardinality(On(fds, "own")) = 4
    /\ \A a \in Addrs : On(fds, a) # {} => a \in Configured
    /\ \A a \in Addrs \ Dynamic : Cardinality(On(fds, a)) <= 1
    /\ \A f \in Fds :
         fds[f] \in Dynamic => \E k \in DOMAIN fdOf : fdOf[k] = f
    /\ \A k \in DOMAIN fdOf :
         fdOf[k] > 0 => \/ fds[fdOf[k]] = conf.files[k].addr
                       \/ fdOf[k] \in kept
    /\ Cardinality(FailedFds \ kept)
         <= Cardinality({k \in DOMAIN fdOf : fdOf[k] < 0 /\ conf.files[k].addr # "file"})

\* Backups are lost by their age and number only.
LogsLostByAge == [][OnlyOldestLost(conf.backups)]_vars
=============================================================================
