-------------------------- MODULE DescriptorProofs --------------------------
(***************************************************************************)
(* The log files and the listening sockets of bossd, for any number of     *)
(* backups, addresses, processes and configurations, and rotations and     *)
(* re-execs in any order.                                                  *)
(***************************************************************************)
EXTENDS Descriptors, EntryListProofs, FiniteSetTheorems

\* The logs, and what rotatelogs has found out while it is at its renames.
LogsOK ==
  /\ disk \in [0..Top -> 0..MaxLogs] /\ writing \in 0..MaxLogs
  /\ moving \in 0..Top /\ conf \in Configs
  /\ moving > 0 =>
       /\ pc = "rotate" /\ moving <= conf.backups
       /\ Exists(moving) =>
            moving = conf.backups /\ \A j \in 1..moving : Exists(j)
  /\ LogsInOrder

\* What a child does, and its fork.
KidStep(c) ==
  PlaceFile(c) \/ CloseAll(c) \/ Dies(c) \/ \E p \in Procs : Run(c, p)

LEMMA KidKeeps ==
  ASSUME NEW c, KidStep(c)
  PROVE  UNCHANGED <<conf, fds, fdOf, at, kept, pc, logVars>>
<1>1. CASE PlaceFile(c)
  BY <1>1 DEF PlaceFile
<1>2. CASE CloseAll(c)
  BY <1>2 DEF CloseAll
<1>3. CASE Dies(c)
  BY <1>3 DEF Dies
<1>4. CASE \E p \in Procs : Run(c, p)
  BY <1>4 DEF Run
<1> QED BY <1>1, <1>2, <1>3, <1>4 DEF KidStep

\* A set of naturals below a bound has a greatest element.
LEMMA GreatestElement ==
  ASSUME NEW b \in Nat, NEW S, S \subseteq 0..b, S # {}
  PROVE  \E x \in S : \A y \in S : y <= x
<1> DEFINE T == {b - x : x \in S}
<1>1. T \subseteq Nat /\ T # {}
  <2>1. \A x \in S : b - x \in Nat
    OBVIOUS
  <2> QED BY <2>1
<1>2. PICK t \in T : \A u \in T : t <= u
  BY <1>1, LeastElement
<1>3. PICK x \in S : t = b - x
  OBVIOUS
<1>4. ASSUME NEW y \in S PROVE y <= x
  <2>1. b - x <= b - y
    BY <1>2, <1>3
  <2> QED BY <2>1
<1> QED BY <1>4

\* A file that is created is newer than all there are.
LEMMA FreshIsNew ==
  ASSUME LogsOK
  PROVE  /\ Fresh \in Nat \ {0} /\ writing < Fresh
         /\ \A i \in 0..Top : disk[i] < Fresh
<1>1. Created \subseteq 0..MaxLogs /\ writing \in Created
  BY DEF LogsOK, Created
<1>2. \E n \in Created : \A m \in Created : m <= n
  BY <1>1, LogsAssumption, GreatestElement
<1>3. PICK n \in Created : (\A m \in Created : m <= n) /\ Fresh = 1 + n
  BY <1>2 DEF Fresh
<1> QED BY <1>1, <1>3, LogsAssumption DEF Created

\* rotatelogs finds the least number without a file, or the last one.
LEMMA FirstTargetIs ==
  ASSUME NEW n \in 1..Top
  PROVE  /\ FirstTarget(n) \in 1..n
         /\ ~ Exists(FirstTarget(n)) \/ FirstTarget(n) = n
         /\ \A j \in 1..(FirstTarget(n) - 1) : Exists(j)
<1> DEFINE T == {i \in 1..n : ~ Exists(i) \/ i = n}
<1>1. T \subseteq Nat /\ n \in T /\ n \in Nat
  BY LogsAssumption
<1>2. PICK i \in T : \A j \in T : i <= j
  BY <1>1, LeastElement
<1>3. ASSUME NEW j \in 1..(i - 1) PROVE Exists(j)
  <2>1. j \in 1..n /\ ~ (i <= j)
    BY <1>1
  <2> QED BY <1>2, <2>1
<1>4. \E k \in 1..n : (~ Exists(k) \/ k = n) /\ \A j \in 1..(k - 1) : Exists(j)
  BY <1>3
<1> QED BY <1>4 DEF FirstTarget

-----------------------------------------------------------------------------
\* openlogs and reopenlogs: what is written to is then the newest file.
LEMMA OpeningKeeps ==
  ASSUME LogsOK, moving = 0, OpensLog, UNCHANGED <<conf, moving>>
  PROVE  LogsOK'
<1>1. /\ disk \in [0..Top -> 0..MaxLogs] /\ LogsInOrder /\ 0 \in 0..Top
      /\ moving = 0 /\ conf \in Configs
  BY LogsAssumption DEF LogsOK
<1>2. CASE Exists(0)
  <2>1. disk' = disk /\ writing' = disk[0]
    BY <1>1, <1>2 DEF OpensLog
  <2>2. ASSUME NEW i \in 0..Top PROVE disk[i] <= disk[0]
    <3>1. i = 0 \/ (0 < i)
      OBVIOUS
    <3>2. disk[i] \in Nat /\ disk[0] \in Nat /\ (disk[i] = 0 \/ Exists(i))
      BY <1>1 DEF Exists
    <3> QED BY <1>1, <1>2, <3>1, <3>2 DEF LogsInOrder
  <2>3. LogsInOrder'
    BY <1>1, <2>1, <2>2 DEF LogsInOrder, Exists
  <2> QED BY <1>1, <2>1, <2>3, LogsAssumption DEF LogsOK
<1>3. CASE ~ Exists(0)
  <2>1. /\ disk' = [disk EXCEPT ![0] = Fresh] /\ writing' = Fresh
        /\ Fresh <= MaxLogs
    BY <1>1, <1>3 DEF OpensLog
  <2>2. /\ Fresh \in Nat \ {0} /\ \A i \in 0..Top : disk[i] < Fresh
    BY FreshIsNew
  <2>3. /\ disk' \in [0..Top -> 0..MaxLogs] /\ writing' \in 0..MaxLogs
    BY <1>1, <2>1, <2>2, LogsAssumption
  <2>4. LogsInOrder'
    <3>1. ASSUME NEW i \in 0..Top, NEW j \in 0..Top, i < j,
                 Exists(i)', Exists(j)'
          PROVE  disk'[i] > disk'[j]
      <4>1. j # 0 /\ disk'[j] = disk[j] /\ Exists(j)
        BY <1>1, <2>1, <3>1 DEF Exists
      <4>2. CASE i = 0
        BY <1>1, <2>1, <2>2, <4>1, <4>2
      <4>3. CASE i # 0
        BY <1>1, <2>1, <3>1, <4>1, <4>3 DEF LogsInOrder, Exists
      <4> QED BY <4>2, <4>3
    <3>2. \A i \in 0..Top : disk'[i] <= writing'
      BY <1>1, <2>1, <2>2
    <3> QED BY <3>1, <3>2 DEF LogsInOrder
  <2> QED BY <1>1, <2>3, <2>4 DEF LogsOK
<1> QED BY <1>2, <1>3

\* A rename moves a file to the next number, and loses only what that had.
LEMMA RenameKeeps ==
  ASSUME LogsOK, Rename
  PROVE  LogsOK' /\ OnlyOldestLost(conf.backups)
<1> DEFINE m == moving
<1>1. /\ disk \in [0..Top -> 0..MaxLogs] /\ writing \in 0..MaxLogs
      /\ m \in 1..Top /\ (m - 1) \in 0..Top
      /\ conf \in Configs /\ LogsInOrder
  BY LogsAssumption DEF LogsOK, Rename, CanRename
<1>2. /\ disk' = [disk EXCEPT ![m] = disk[m - 1], ![m - 1] = 0]
      /\ moving' = m - 1 /\ UNCHANGED <<writing, conf, pc>> /\ Exists(m - 1)
  BY DEF Rename, CanRename, Renamed, Source
<1>3. /\ disk'[m] = disk[m - 1] /\ disk'[m - 1] = 0
      /\ \A i \in 0..Top : i # m /\ i # m - 1 => disk'[i] = disk[i]
      /\ disk' \in [0..Top -> 0..MaxLogs]
  BY <1>1, <1>2, LogsAssumption
<1>4. LogsInOrder'
  <2>1. ASSUME NEW i \in 0..Top, NEW j \in 0..Top, i < j, Exists(i)', Exists(j)'
        PROVE  disk'[i] > disk'[j]
    <3>1. i # m - 1 /\ j # m - 1
      BY <1>3, <2>1 DEF Exists
    <3>2. CASE i = m
      <4>1. disk'[j] = disk[j] /\ Exists(j) /\ m - 1 < j
        BY <1>1, <1>3, <2>1, <3>1, <3>2 DEF Exists
      <4> QED BY <1>1, <1>2, <1>3, <3>2, <4>1 DEF LogsInOrder
    <3>3. CASE j = m
      <4>1. disk'[i] = disk[i] /\ Exists(i) /\ i < m - 1
        BY <1>1, <1>3, <2>1, <3>1, <3>3 DEF Exists
      <4> QED BY <1>1, <1>2, <1>3, <3>3, <4>1 DEF LogsInOrder
    <3>4. CASE i # m /\ j # m
      BY <1>1, <1>3, <2>1, <3>1, <3>4 DEF LogsInOrder, Exists
    <3> QED BY <3>2, <3>3, <3>4
  <2>2. writing' # 0 => \A i \in 0..Top : disk'[i] <= writing'
    <3>1. ASSUME writing # 0, NEW i \in 0..Top PROVE disk'[i] <= writing
      <4>1. \A j \in 0..Top : disk[j] <= writing
        BY <1>1, <3>1 DEF LogsInOrder
      <4> QED BY <1>1, <1>3, <4>1
    <3> QED BY <1>2, <3>1
  <2> QED BY <2>1, <2>2 DEF LogsInOrder
<1>5. /\ pc = "rotate" /\ m <= conf.backups
      /\ Exists(m) => m = conf.backups /\ \A j \in 1..m : Exists(j)
  BY <1>1 DEF LogsOK
<1>6. LogsOK'
  <2>1. moving' \in 0..Top /\ (moving' > 0 => pc' = "rotate" /\ ~ Exists(moving)')
    BY <1>1, <1>2, <1>3, <1>5 DEF Exists
  <2>2. moving' > 0 => moving' <= conf'.backups
    <3>1. conf.backups \in Nat
      BY <1>1, FilesAssumption
    <3> QED BY <1>1, <1>2, <1>5, <3>1
  <2> QED BY <1>1, <1>2, <1>3, <1>4, <2>1, <2>2 DEF LogsOK
<1>7. ASSUME NEW i \in 0..Top, Exists(i), \A j \in 0..Top : disk'[j] # disk[i]
      PROVE  i = conf.backups /\ \A j \in 1..conf.backups : Exists(j)
  <2>1. i = m
    BY <1>1, <1>3, <1>7
  <2> QED BY <1>5, <1>7, <2>1
<1> QED BY <1>6, <1>7 DEF OnlyOldestLost

\* The beginning of a rotation.
LEMMA RotateKeeps ==
  ASSUME LogsOK, Rotate
  PROVE  LogsOK'
<1>1. /\ moving' = FirstTarget(conf.backups) /\ pc' = "rotate"
      /\ UNCHANGED <<conf, disk, writing>>
  BY DEF Rotate, RotateStart
<1>2. conf.backups \in 1..Top /\ Top \in Nat
  BY FilesAssumption, LogsAssumption DEF LogsOK
<1>3. /\ moving' \in 1..conf.backups
      /\ ~ Exists(moving') \/ moving' = conf.backups
      /\ \A j \in 1..(moving' - 1) : Exists(j)
  BY <1>1, <1>2, FirstTargetIs
<1>4. Exists(moving)' =>
        moving' = conf'.backups /\ \A j \in 1..moving' : Exists(j)'
  BY <1>1, <1>2, <1>3 DEF Exists
<1>5. LogsInOrder'
  BY <1>1 DEF LogsOK, LogsInOrder, Exists
<1> QED BY <1>1, <1>2, <1>3, <1>4, <1>5 DEF LogsOK

\* Every other step leaves the files alone, or forgets what it writes to.
LEMMA OtherKeeps ==
  ASSUME LogsOK,
         \/ UNCHANGED logVars /\ UNCHANGED conf /\ (pc' = pc \/ moving = 0)
         \/ ReExec
  PROVE  LogsOK' /\ disk' = disk
<1>1. CASE UNCHANGED logVars /\ UNCHANGED conf /\ (pc' = pc \/ moving = 0)
  BY <1>1 DEF LogsOK, logVars, LogsInOrder, Exists
<1>2. CASE ReExec
  <2>1. disk' = disk /\ writing' = 0 /\ moving' = 0 /\ conf' \in Configs
    BY <1>2 DEF ReExec
  <2> QED BY <2>1, LogsAssumption DEF LogsOK, LogsInOrder, Exists
<1> QED BY <1>1, <1>2

\* Without a rename no file loses its name.
LEMMA NothingLost ==
  ASSUME LogsOK, disk' = disk \/ OpensLog, NEW n
  PROVE  OnlyOldestLost(n)
<1>1. disk \in [0..Top -> 0..MaxLogs] /\ 0 \in 0..Top
  BY LogsAssumption DEF LogsOK
<1>2. ASSUME NEW i \in 0..Top, Exists(i) PROVE disk'[i] = disk[i]
  BY <1>1, <1>2 DEF OpensLog, Exists
<1> QED BY <1>2 DEF OnlyOldestLost

LEMMA LogsInit == Init => LogsOK
  BY LogsAssumption DEF Init, LogInit, LogsOK, LogsInOrder, Exists

LEMMA LogsStep ==
  ASSUME LogsOK, [Next]_vars
  PROVE  LogsOK' /\ OnlyOldestLost(conf.backups)
<1>1. moving \in Nat /\ (moving > 0 => pc = "rotate")
  BY LogsAssumption DEF LogsOK
<1>2. CASE Rename
  BY <1>2, RenameKeeps
<1>3. CASE Rotate
  BY <1>3, RotateKeeps, NothingLost DEF Rotate, RotateStart
<1>4. CASE OpenLogs \/ Reopen
  <2>1. OpensLog /\ moving = 0 /\ UNCHANGED <<conf, moving>>
    BY <1>1, <1>4 DEF OpenLogs, Reopen
  <2> QED BY <2>1, OpeningKeeps, NothingLost
<1>5. CASE \/ OpenLogsFails \/ ScanSockets \/ OpenSocket \/ OpenOwn
           \/ ReopenFails \/ ReExec \/ UNCHANGED vars
           \/ \E c \in Children : KidStep(c)
  <2>1. \/ UNCHANGED logVars /\ UNCHANGED conf /\ (pc' = pc \/ moving = 0)
        \/ ReExec
    BY <1>1, <1>5, KidKeeps
       DEF OpenLogsFails, ScanSockets, OpenSocket, OpenOwn, ReopenFails, vars
  <2> QED BY <2>1, OtherKeeps, NothingLost
<1> QED BY <1>2, <1>3, <1>4, <1>5 DEF Next, KidStep

LEMMA LogsInvariant == Spec => []LogsOK
<1>1. LogsOK /\ [Next]_vars => LogsOK'
  BY LogsStep
<1> QED BY <1>1, LogsInit, PTL DEF Spec

\* The backups are in the order of their age in every state, also in the middle
\* of a rotation and after any number of them that were cut off.
THEOREM LogsOrdered == Spec => []LogsInOrder
<1>1. LogsOK => LogsInOrder
  BY DEF LogsOK
<1> QED BY <1>1, LogsInvariant, PTL

\* A log is lost only when it is the last backup and all numbers are taken.
THEOREM LogsKept == Spec => LogsLostByAge
<1>1. LogsOK /\ [Next]_vars => [OnlyOldestLost(conf.backups)]_vars
  BY LogsStep
<1> QED BY <1>1, LogsInvariant, PTL DEF Spec, LogsLostByAge

-----------------------------------------------------------------------------
\* A descriptor that is open is not given again.
LEMMA OpenStays ==
  ASSUME NEW t, NEW x, NEW f \in Fds, t[f] # "closed"
  PROVE  Opened(t, x)[f] = t[f]
  BY DEF Opened, IsLowestFree

\* Only the scan and a re-exec close anything but the log.
LEMMA DescriptorStep ==
  ASSUME NEW f \in Fds, fds[f] \notin {"closed", "log"}, [Next]_vars,
         ~ ScanSockets, ~ ReExec
  PROVE  fds'[f] = fds[f]
<1>1. CASE OpenLogs
  BY <1>1, OpenStays DEF OpenLogs
<1>2. CASE OpenSocket
  BY <1>2, OpenStays DEF OpenSocket
<1>3. CASE OpenOwn
  <2> DEFINE t1 == Opened(fds, "own")
             t2 == Opened(t1, "own")
             t3 == Opened(t2, "own")
  <2>1. fds' = Opened(t3, "own")
    BY <1>3 DEF OpenOwn
  <2>2. t1[f] = fds[f]
    BY OpenStays
  <2> HIDE DEF t1
  <2>3. t2[f] = fds[f]
    BY <2>2, OpenStays
  <2> HIDE DEF t2
  <2>4. t3[f] = fds[f]
    BY <2>3, OpenStays
  <2> HIDE DEF t3
  <2> QED BY <2>1, <2>4, OpenStays
<1>4. CASE Reopen
  <2>1. fds'[f] = Opened(fds, "log")[f]
    BY <1>4 DEF Reopen, Reopened
  <2> QED BY <2>1, OpenStays
<1>5. CASE \/ OpenLogsFails \/ Rotate \/ Rename \/ ReopenFails \/ UNCHANGED vars
           \/ \E c \in Children : KidStep(c)
  <2>1. fds' = fds
    BY <1>5, KidKeeps DEF OpenLogsFails, Rotate, Rename, ReopenFails, vars
  <2> QED BY <2>1
<1> QED BY <1>1, <1>2, <1>3, <1>4, <1>5 DEF Next, KidStep

\* No step closes a socket of an address that its configuration names, when
\* getsockname gives that address back.
LEMMA SocketStep ==
  ASSUME NEW a \in Matched, NEW f \in Fds, fds[f] = a, [Next]_vars,
         NEW k \in DOMAIN conf'.files, conf'.files[k].addr = a
  PROVE  fds'[f] = a
<1>1. a \in Addrs /\ a \notin Others /\ a # "none"
  BY AddrsAssumption DEF Matched
<1>2. fds[f] \notin {"closed", "log", "own", "failed unix", "failed tcp"}
  BY <1>1 DEF Others
<1>3. CASE ScanSockets
  <2>1. conf' = conf /\ f \notin FailedFds
    BY <1>2, <1>3 DEF ScanSockets, FailedFds
  <2>2. HeardAs(fds[f]) = a
    BY <1>1, <2>1 DEF HeardAs, Configured
  <2> QED BY <1>1, <1>3, <2>1, <2>2 DEF ScanSockets
<1>4. CASE ReExec
  BY <1>2, <1>4 DEF ReExec
<1> QED BY <1>2, <1>3, <1>4, DescriptorStep

\* A listening socket stays open as long as the configuration names its address,
\* through every re-exec, on whatever descriptor it is, if the configuration
\* writes the address as getsockname and inet_ntoa give it back.
THEOREM SocketsStay == Spec => SocketsKept
<1> DEFINE Kept == \A a \in Matched :
      Holds(fds, a) /\ (\E k \in DOMAIN conf'.files : conf'.files[k].addr = a)
      => Holds(fds, a)'
<1>1. [Next]_vars => Kept
  BY SocketStep DEF Holds
<1> HIDE DEF Kept
<1>2. [Next]_vars => [Kept]_vars
  BY <1>1
<1>3. Spec => [][Kept]_vars
  BY <1>2, PTL DEF Spec
<1> QED BY <1>3 DEF SocketsKept, Kept
-----------------------------------------------------------------------------
(***************************************************************************)
(* No descriptor leaks.                                                    *)
(***************************************************************************)
Tables == [Fds -> Addrs \cup Others]

LEMMA FdsAre == \A f \in Fds : f \in Nat /\ f >= 3
  BY FilesAssumption DEF Fds

LEMMA FdsFinite ==
  ASSUME NEW S \in SUBSET Fds
  PROVE  IsFiniteSet(S) /\ Cardinality(S) \in Nat
<1>1. IsFiniteSet(3..MaxFd)
  BY FilesAssumption, FS_Interval
<1>2. IsFiniteSet(S)
  BY <1>1, FS_Subset DEF Fds
<1> QED BY <1>2, FS_CardinalityType

LEMMA ConfIs ==
  ASSUME conf \in Configs
  PROVE  /\ conf.files \in Seq(File) /\ Len(conf.files) \in Nat
         /\ DOMAIN conf.files = 1..Len(conf.files)
         /\ \A k \in DOMAIN conf.files :
              conf.files[k].addr \in Addrs \cup {"file"} /\ conf.files[k].key \in Fds
<1>1. conf \in [backups : 1..Top, files : Seq(File)]
  BY FilesAssumption
<1>2. conf.files \in Seq(File)
  BY <1>1
<1>3. \A k \in 1..Len(conf.files) : conf.files[k] \in File
  BY <1>2, ElementOfSeq
<1> QED BY <1>2, <1>3, LenProperties DEF File

\* What the kernel gives is a descriptor that is closed.
LEMMA OpenedIs ==
  ASSUME NEW t \in Tables, Room(t, 1), NEW x
  PROVE  /\ LowestFree(t) \in Fds /\ t[LowestFree(t)] = "closed"
         /\ Opened(t, x) = [t EXCEPT ![LowestFree(t)] = x]
<1> DEFINE T == On(t, "closed")
<1>1. T # {} /\ T \subseteq Nat
  <2>1. Cardinality({}) = 0 /\ Cardinality(T) >= 1
    BY FS_EmptySet DEF Room
  <2>2. T # {}
    BY <2>1
  <2> QED BY <2>2, FdsAre DEF On
<1>2. PICK f \in T : \A g \in T : f <= g
  BY <1>1, LeastElement
<1>3. IsLowestFree(t, f)
  <2>0. f \in Fds /\ t[f] = "closed"
    BY DEF On
  <2>1. ASSUME NEW g \in 3..(f - 1), t[g] = "closed" PROVE FALSE
    <3>1. f \in 3..MaxFd /\ MaxFd \in Nat /\ g \in 3..(f - 1)
      BY <2>0, FilesAssumption DEF Fds
    <3>2. g \in Fds /\ f \in Nat /\ g < f
      BY <3>1 DEF Fds
    <3> QED BY <1>2, <2>1, <3>2 DEF On
  <2> QED BY <2>0, <2>1 DEF IsLowestFree
<1>4. ASSUME NEW g \in Fds, IsLowestFree(t, g) PROVE g = f
  <2>1. f \in Nat /\ g \in Nat /\ f >= 3 /\ g >= 3 /\ t[f] = "closed" /\ t[g] = "closed"
    BY <1>3, <1>4, FdsAre DEF On, IsLowestFree
  <2>2. ~ (g \in 3..(f - 1)) /\ ~ (f \in 3..(g - 1))
    BY <1>3, <1>4, <2>1 DEF IsLowestFree
  <2> QED BY <2>1, <2>2
<1>5. LowestFree(t) = f /\ f \in Fds /\ t[f] = "closed"
  BY <1>3, <1>4 DEF LowestFree, On
<1>6. Opened(t, x) = [t EXCEPT ![f] = x]
  BY <1>3, <1>4 DEF Opened, Tables
<1> QED BY <1>5, <1>6

LEMMA OpenedCounts ==
  ASSUME NEW t \in Tables, Room(t, 1), NEW x \in (Addrs \cup Others) \ {"closed"}
  PROVE  /\ Opened(t, x) \in Tables
         /\ On(Opened(t, x), x) = On(t, x) \cup {LowestFree(t)}
         /\ Cardinality(On(Opened(t, x), x)) = Cardinality(On(t, x)) + 1
         /\ \A y : y # x /\ y # "closed" => On(Opened(t, x), y) = On(t, y)
         /\ \A n \in Nat : Room(t, n + 1) => Room(Opened(t, x), n)
<1> DEFINE g == LowestFree(t)
           u == Opened(t, x)
<1>1. /\ g \in Fds /\ t[g] = "closed" /\ u = [t EXCEPT ![g] = x]
      /\ t \in [Fds -> Addrs \cup Others] /\ x # "closed"
  BY OpenedIs DEF Tables
<1> HIDE DEF g, u
<1>2. u \in Tables /\ u[g] = x /\ \A f \in Fds : f # g => u[f] = t[f]
  BY <1>1 DEF Tables
<1>3. On(u, x) = On(t, x) \cup {g} /\ g \notin On(t, x)
  BY <1>1, <1>2 DEF On
<1>4. Cardinality(On(u, x)) = Cardinality(On(t, x)) + 1
  <2>1. IsFiniteSet(On(t, x))
    BY FdsFinite DEF On
  <2> QED BY <1>3, <2>1, FS_AddElement
<1>5. \A y : y # x /\ y # "closed" => On(u, y) = On(t, y)
  BY <1>1, <1>2 DEF On
<1>6. ASSUME NEW n \in Nat, Room(t, n + 1) PROVE Room(u, n)
  <2> DEFINE T == On(t, "closed")
             U == On(u, "closed")
  <2>1. U = T \ {g} /\ g \in T
    BY <1>1, <1>2 DEF On
  <2>2. IsFiniteSet(T) /\ Cardinality(T) \in Nat
    BY FdsFinite DEF On
  <2>3. Cardinality(U) = Cardinality(T) - 1
    BY <2>1, <2>2, FS_RemoveElement
  <2>4. Cardinality(T) >= n + 1
    BY <1>6 DEF Room
  <2>5. Cardinality(U) >= n
    BY <2>2, <2>3, <2>4
  <2> QED BY <2>5 DEF Room
<1> QED BY <1>2, <1>3, <1>4, <1>5, <1>6 DEF g, u

\* init_signals and init_control open four more.
OwnOpened(t) == Opened(Opened(Opened(Opened(t, "own"), "own"), "own"), "own")

LEMMA OwnCounts ==
  ASSUME NEW t \in Tables, Room(t, 4)
  PROVE  /\ OwnOpened(t) \in Tables
         /\ Cardinality(On(OwnOpened(t), "own")) = Cardinality(On(t, "own")) + 4
         /\ \A y : y # "own" /\ y # "closed" => On(OwnOpened(t), y) = On(t, y)
<1> DEFINE t1 == Opened(t, "own")
           t2 == Opened(t1, "own")
           t3 == Opened(t2, "own")
           t4 == Opened(t3, "own")
<1>0. "own" \in (Addrs \cup Others) \ {"closed"}
  BY DEF Others
<1>1. ASSUME NEW u \in Tables, NEW n \in Nat, Room(u, n + 1)
      PROVE  /\ Opened(u, "own") \in Tables /\ Room(Opened(u, "own"), n)
             /\ Cardinality(On(Opened(u, "own"), "own")) = Cardinality(On(u, "own")) + 1
             /\ \A y : y # "own" /\ y # "closed" => On(Opened(u, "own"), y) = On(u, y)
  <2>1. Room(u, 1)
    <3>1. Cardinality(On(u, "closed")) \in Nat
      BY FdsFinite DEF On
    <3> QED BY <1>1, <3>1 DEF Room
  <2> QED BY <1>0, <1>1, <2>1, OpenedCounts
<1>2. /\ t1 \in Tables /\ Room(t1, 3)
      /\ Cardinality(On(t1, "own")) = Cardinality(On(t, "own")) + 1
      /\ \A y : y # "own" /\ y # "closed" => On(t1, y) = On(t, y)
  BY <1>1, 3 + 1 = 4
<1> HIDE DEF t1
<1>3. /\ t2 \in Tables /\ Room(t2, 2)
      /\ Cardinality(On(t2, "own")) = Cardinality(On(t1, "own")) + 1
      /\ \A y : y # "own" /\ y # "closed" => On(t2, y) = On(t1, y)
  BY <1>1, <1>2, 2 + 1 = 3
<1> HIDE DEF t2
<1>4. /\ t3 \in Tables /\ Room(t3, 1)
      /\ Cardinality(On(t3, "own")) = Cardinality(On(t2, "own")) + 1
      /\ \A y : y # "own" /\ y # "closed" => On(t3, y) = On(t2, y)
  BY <1>1, <1>3, 1 + 1 = 2
<1> HIDE DEF t3
<1>5. /\ t4 \in Tables
      /\ Cardinality(On(t4, "own")) = Cardinality(On(t3, "own")) + 1
      /\ \A y : y # "own" /\ y # "closed" => On(t4, y) = On(t3, y)
  BY <1>1, <1>4, 0 + 1 = 1
<1> HIDE DEF t4
<1>6. Cardinality(On(t, "own")) \in Nat
  BY FdsFinite DEF On
<1>7. Cardinality(On(t4, "own")) = Cardinality(On(t, "own")) + 4
  BY <1>2, <1>3, <1>4, <1>5, <1>6
<1>8. OwnOpened(t) = t4
  BY DEF OwnOpened, t1, t2, t3, t4
<1> QED BY <1>2, <1>3, <1>4, <1>5, <1>7, <1>8

Started == pc \in {"open", "loop", "rotate"}

\* What a file may have for its descriptor: a socket of its address, or one the
\* scan mistook for that.
Right(k, f) ==
  LET a == conf.files[k].addr IN
  fds[f] = a \/ (f \in kept /\ a \in Addrs /\ fds[f] = Failed(a))

\* The _fd of a file is -1 or such a descriptor.
FdsOK ==
  /\ conf \in Configs /\ fds \in Tables
  /\ Started =>
       /\ fdOf \in [DOMAIN conf.files -> Fds \cup {0 - 1}]
       /\ at \in 1..(Len(conf.files) + 1)
       /\ \A k \in DOMAIN conf.files :
            /\ fdOf[k] \in Fds => Right(k, fdOf[k])
            /\ conf.files[k].addr = "file" => fdOf[k] = 0 - 1
  /\ pc \in {"loop", "rotate"} => at = Len(conf.files) + 1

\* What a step that opens or closes nothing changes of bossd.
Calm ==
  /\ UNCHANGED <<conf, fds, fdOf, at, kept>>
  /\ pc' = pc \/ pc' = "dead" \/ {pc, pc'} \subseteq {"loop", "rotate"}

LEMMA CalmSteps ==
  ASSUME \/ OpenLogsFails \/ Rotate \/ Rename \/ ReopenFails \/ UNCHANGED vars
         \/ \E c \in Children : KidStep(c)
  PROVE  Calm
<1>1. CASE \E c \in Children : KidStep(c)
  BY <1>1, KidKeeps DEF Calm
<1>2. CASE UNCHANGED vars
  BY <1>2 DEF vars, Calm
<1>3. CASE OpenLogsFails \/ Rotate \/ Rename \/ ReopenFails
  BY <1>3 DEF OpenLogsFails, Rotate, Rename, ReopenFails, Calm
<1> QED BY <1>1, <1>2, <1>3

\* A step of bossd is calm or one of six.
LEMMA BossdSteps ==
  ASSUME [Next]_vars
  PROVE  Calm \/ OpenLogs \/ ScanSockets \/ OpenSocket \/ OpenOwn \/ Reopen \/ ReExec
  BY CalmSteps DEF Next, KidStep

\* reopenlogs moves the log and nothing else.
LEMMA ReopenedIs ==
  ASSUME NEW f \in Fds, fds \in Tables, Room(fds, 1), fds[f] = "log",
         \A g \in Fds : fds[g] = "log" => g = f
  PROVE  /\ Reopened \in Tables
         /\ On(Reopened, "log") = {LowestFree(fds)}
         /\ \A y : y # "log" /\ y # "closed" => On(Reopened, y) = On(fds, y)
<1> DEFINE g == LowestFree(fds)
<1>1. /\ g \in Fds /\ fds[g] = "closed"
      /\ Opened(fds, "log") = [fds EXCEPT ![g] = "log"]
  BY OpenedIs
<1> HIDE DEF g
<1>2. \A h \in Fds : Reopened[h] = IF h = g THEN "log" ELSE IF h = f THEN "closed"
                                                           ELSE fds[h]
  BY <1>1 DEF Reopened, Tables
<1>3. Reopened = [h \in Fds |-> Reopened[h]]
  BY DEF Reopened
<1>4. "log" \in Others /\ "closed" \in Others
  BY DEF Others
<1>5. Reopened \in Tables
  <2>1. \A h \in Fds : Reopened[h] \in Addrs \cup Others
    BY <1>2, <1>4 DEF Tables
  <2> QED BY <1>3, <2>1 DEF Tables
<1>6. On(Reopened, "log") = {g}
  BY <1>1, <1>2 DEF On
<1>7. \A y : y # "log" /\ y # "closed" => On(Reopened, y) = On(fds, y)
  BY <1>1, <1>2 DEF On
<1> QED BY <1>5, <1>6, <1>7 DEF g

\* The files open_sockets has come to and found no socket for.
Unserved ==
  {k \in DOMAIN fdOf : k < at /\ fdOf[k] < 0 /\ conf.files[k].addr # "file"}

\* One log, one socket for an address, nothing of bossd's own before its loop
\* and four in it, a file for each dynamic port, and at most one descriptor left
\* over for each file without one.
Tidy ==
  /\ \A x \in (Addrs \ Dynamic) \cup {"log"} : \A f, g \in On(fds, x) : f = g
  /\ pc = "exec" => On(fds, "log") = {}
  /\ pc = "scan" \/ Started => On(fds, "log") # {}
  /\ pc \in {"exec", "scan", "open"} => On(fds, "own") = {}
  /\ pc \in {"loop", "rotate"} => Cardinality(On(fds, "own")) = 4
  /\ Started =>
       /\ \A a \in Addrs : On(fds, a) # {} => a \in Configured
       /\ \A f \in Fds :
            fds[f] \in Dynamic => \E k \in DOMAIN fdOf : k < at /\ fdOf[k] = f
       /\ Cardinality(FailedFds \ kept) <= Cardinality(Unserved)

LEMMA FailedAre ==
  /\ FailedFds = On(fds, "failed unix") \cup On(fds, "failed tcp")
  /\ \A a : Failed(a) \in {"failed unix", "failed tcp"}
  BY DEF FailedFds, On, Failed

\* What is on addresses, or failed, is where it was.
SocketsSame ==
  /\ \A x \in Addrs : On(fds', x) = On(fds, x)
  /\ FailedFds' = FailedFds

LEMMA SameSockets ==
  ASSUME NEW x \in {"log", "own"},
         \A y : y # x /\ y # "closed" => On(fds', y) = On(fds, y)
  PROVE  SocketsSame
<1>1. \A y \in Addrs : y # "closed" /\ y # x
  BY AddrsAssumption DEF Others
<1>2. FailedFds' = On(fds', "failed unix") \cup On(fds', "failed tcp")
  BY DEF FailedFds, On
<1>3. /\ On(fds', "failed unix") = On(fds, "failed unix")
      /\ On(fds', "failed tcp") = On(fds, "failed tcp")
  OBVIOUS
<1>4. FailedFds' = FailedFds
  BY <1>2, <1>3, FailedAre
<1> QED BY <1>1, <1>4 DEF SocketsSame

\* What Tidy says of the sockets stays true when they stay.
LEMMA SocketsTidy ==
  ASSUME Tidy, Started, SocketsSame, UNCHANGED <<conf, fdOf, at, kept>>, fds' \in Tables
  PROVE  /\ \A a \in Addrs : On(fds', a) # {} => a \in Configured'
         /\ \A f \in Fds :
              fds'[f] \in Dynamic => \E k \in DOMAIN fdOf' : k < at' /\ fdOf'[k] = f
         /\ Cardinality((FailedFds \ kept)') <= Cardinality(Unserved')
<1>1. Configured' = Configured /\ Unserved' = Unserved
  BY DEF Configured, Unserved
<1>2. ASSUME NEW f \in Fds, fds'[f] \in Dynamic PROVE fds[f] \in Dynamic
  <2>1. fds'[f] \in Addrs
    BY <1>2, AddrsAssumption DEF Addrs
  <2>2. f \in On(fds', fds'[f])
    BY DEF On
  <2>3. f \in On(fds, fds'[f])
    BY <2>1, <2>2 DEF SocketsSame
  <2> QED BY <1>2, <2>3 DEF On
<1> QED BY <1>1, <1>2 DEF Tidy, SocketsSame

LEMMA CalmKeeps ==
  ASSUME FdsOK, Tidy, Calm
  PROVE  FdsOK' /\ Tidy'
<1>1. UNCHANGED <<conf, fds, fdOf, at, kept>>
  BY DEF Calm
<1>2. /\ Started' => Started
      /\ pc' \in {"loop", "rotate"} => pc \in {"loop", "rotate"}
      /\ pc' = "exec" => pc = "exec"
      /\ pc' = "scan" => pc = "scan"
      /\ pc' = "open" => pc = "open"
  BY DEF Calm, Started
<1>3. FdsOK'
  BY <1>1, <1>2 DEF FdsOK, Right
<1>4. Unserved' = Unserved /\ Configured' = Configured /\ FailedFds' = FailedFds
  BY <1>1 DEF Unserved, Configured, FailedFds
<1>5. Tidy'
  BY <1>1, <1>2, <1>4 DEF Tidy
<1> QED BY <1>3, <1>5

LEMMA LogOpened ==
  ASSUME FdsOK, Tidy, OpenLogs
  PROVE  FdsOK' /\ Tidy'
<1>1. /\ pc = "exec" /\ pc' = "scan" /\ Room(fds, 1) /\ conf' = conf
      /\ fds' = Opened(fds, "log") /\ fds \in Tables /\ conf \in Configs
  BY DEF OpenLogs, FdsOK
<1>2. "log" \in (Addrs \cup Others) \ {"closed"} /\ Addrs \cap Others = {}
  BY AddrsAssumption DEF Others
<1>3. /\ fds' \in Tables /\ On(fds', "log") = {LowestFree(fds)}
      /\ \A y : y # "log" /\ y # "closed" => On(fds', y) = On(fds, y)
  <2>1. On(fds, "log") = {}
    BY <1>1 DEF Tidy
  <2> QED BY <1>1, <1>2, <2>1, OpenedCounts
<1>4. FdsOK'
  BY <1>1, <1>3 DEF FdsOK, Started
<1>5. \A x \in Addrs : On(fds', x) = On(fds, x)
  BY <1>2, <1>3 DEF Others
<1>6. On(fds', "own") = {}
  BY <1>1, <1>3 DEF Tidy
<1>7. Tidy'
  BY <1>1, <1>3, <1>5, <1>6 DEF Tidy, Started, On
<1> QED BY <1>4, <1>7

LEMMA ScanKeeps ==
  ASSUME FdsOK, Tidy, ScanSockets
  PROVE  FdsOK' /\ Tidy'
<1>1. /\ pc = "scan" /\ pc' = "open" /\ conf' = conf /\ at' = 1
      /\ fds \in Tables /\ conf \in Configs
  BY DEF ScanSockets, FdsOK
<1>2. /\ Addrs \cap Others = {} /\ "none" \notin Addrs /\ Configured \subseteq Addrs
      /\ "closed" \in Others /\ Dynamic \cap Matched = {} /\ Dynamic \subseteq Addrs
  BY AddrsAssumption DEF Configured, Others, Matched, Addrs
<1>3. PICK guess \in [FailedFds -> Configured \cup {"none"}] :
        LET TakenAs(f) == IF f \in FailedFds THEN guess[f] ELSE HeardAs(fds[f])
            TakenFor(k) == {f \in Fds : TakenAs(f) = conf.files[k].addr}
            LastTaken(k) == CHOOSE f \in TakenFor(k) : \A g \in TakenFor(k) : g <= f
        IN /\ \A f \in FailedFds : guess[f] \in Guesses(fds[f])
           /\ fds' = [f \in Fds |-> IF fds[f] = "log" \/ TakenAs(f) # "none"
                                     THEN fds[f] ELSE "closed"]
           /\ fdOf' = [k \in DOMAIN conf.files |->
                IF SameAddr(k) = {} /\ TakenFor(k) # {} THEN LastTaken(k) ELSE 0 - 1]
           /\ kept' = {f \in FailedFds : guess[f] # "none"}
  BY DEF ScanSockets
<1> DEFINE TakenAs(f) == IF f \in FailedFds THEN guess[f] ELSE HeardAs(fds[f])
           TakenFor(k) == {f \in Fds : TakenAs(f) = conf.files[k].addr}
           LastTaken(k) == CHOOSE f \in TakenFor(k) : \A g \in TakenFor(k) : g <= f
<1>4. /\ \A f \in FailedFds : guess[f] \in Guesses(fds[f])
      /\ fds' = [f \in Fds |-> IF fds[f] = "log" \/ TakenAs(f) # "none"
                                THEN fds[f] ELSE "closed"]
      /\ fdOf' = [k \in DOMAIN conf.files |->
           IF SameAddr(k) = {} /\ TakenFor(k) # {} THEN LastTaken(k) ELSE 0 - 1]
      /\ kept' = {f \in FailedFds : guess[f] # "none"}
  BY <1>3
<1>5. \A f \in Fds : f \in FailedFds <=> fds[f] \in {"failed unix", "failed tcp"}
  BY DEF FailedFds
<1>6. fds' \in Tables
  BY <1>1, <1>2, <1>4 DEF Tables
\* what a descriptor is taken for is what it is, or what was guessed
<1>7. ASSUME NEW f \in Fds, TakenAs(f) # "none"
      PROVE  \/ f \notin FailedFds /\ fds[f] = TakenAs(f) /\ fds[f] \in Configured \cap Matched
             \/ /\ f \in FailedFds /\ f \in kept' /\ TakenAs(f) \in Configured
                /\ fds[f] = Failed(TakenAs(f))
  <2>1. CASE f \in FailedFds
    BY <1>4, <1>7, <2>1 DEF Guesses
  <2>2. CASE f \notin FailedFds
    BY <1>7, <2>2 DEF HeardAs
  <2> QED BY <2>1, <2>2
<1>8. \A f \in Fds : fds'[f] = IF fds[f] = "log" \/ TakenAs(f) # "none"
                               THEN fds[f] ELSE "closed"
  BY <1>4
<1>9. ASSUME NEW k \in DOMAIN conf.files, fdOf'[k] \in Fds PROVE Right(k, fdOf[k])'
  <2> DEFINE S == TakenFor(k)
  <2>0. fdOf'[k] = IF SameAddr(k) = {} /\ S # {} THEN LastTaken(k) ELSE 0 - 1
    BY <1>4
  <2>1. S # {} /\ fdOf'[k] = LastTaken(k)
    <3> HIDE DEF S, LastTaken
    <3> QED BY <1>9, <2>0, FdsAre
  <2>2. S \subseteq 0..MaxFd /\ MaxFd \in Nat
    BY FilesAssumption DEF Fds
  <2>3. PICK x \in S : \A g \in S : g <= x
    <3> HIDE DEF S
    <3> QED BY <2>1, <2>2, GreatestElement
  <2>4. LastTaken(k) \in S
    BY <2>3
  <2>5. PICK f \in Fds : f = fdOf'[k] /\ TakenAs(f) = conf.files[k].addr
    BY <2>1, <2>4
  <2>6. conf.files[k].addr # "none"
    BY <1>1, <1>2, ConfIs
  <2>7. \/ fds'[f] = conf.files[k].addr
        \/ /\ f \in kept' /\ conf.files[k].addr \in Addrs
           /\ fds'[f] = Failed(conf.files[k].addr)
    BY <1>2, <1>7, <1>8, <2>5, <2>6
  <2> QED BY <1>1, <2>5, <2>7 DEF Right
<1>10. ASSUME NEW k \in DOMAIN conf.files, conf.files[k].addr = "file"
       PROVE  fdOf'[k] = 0 - 1
  <2>1. "file" \notin Configured /\ "file" # "none"
    BY <1>2 DEF Others
  <2>2. \A f \in Fds : TakenAs(f) # "file"
    BY <1>7, <2>1
  <2>3. TakenFor(k) = {}
    BY <1>10, <2>2
  <2> QED BY <1>4, <2>3
<1>11. fdOf' \in [DOMAIN conf.files -> Fds \cup {0 - 1}]
  <2>1. ASSUME NEW k \in DOMAIN conf.files, TakenFor(k) # {} PROVE LastTaken(k) \in Fds
    <3> DEFINE S == TakenFor(k)
    <3>2. S \subseteq 0..MaxFd /\ MaxFd \in Nat
      BY FilesAssumption DEF Fds
    <3>3. PICK x \in S : \A g \in S : g <= x
      <4> HIDE DEF S
      <4> QED BY <2>1, <3>2, GreatestElement DEF S
    <3> QED BY <3>3
  <2>2. \A k \in DOMAIN conf.files :
          fdOf'[k] = IF SameAddr(k) = {} /\ TakenFor(k) # {} THEN LastTaken(k) ELSE 0 - 1
    BY <1>4
  <2>3. \A k \in DOMAIN conf.files : fdOf'[k] \in Fds \cup {0 - 1}
    <3> HIDE DEF LastTaken, TakenFor
    <3> QED BY <2>1, <2>2
  <2>4. fdOf' = [k \in DOMAIN conf.files |-> fdOf'[k]]
    BY <1>4
  <2> QED BY <2>3, <2>4
<1> HIDE DEF TakenAs, TakenFor, LastTaken
<1>12. at' \in 1..(Len(conf.files) + 1)
  BY <1>1, ConfIs
<1>13. FdsOK'
  BY <1>1, <1>6, <1>9, <1>10, <1>11, <1>12 DEF FdsOK, Started
<1>14. ASSUME NEW a \in Addrs, NEW f \in On(fds', a)
       PROVE  f \in On(fds, a) /\ a \in Configured \cap Matched
  <2>1. f \in Fds /\ fds'[f] = a /\ a # "closed" /\ a # "log"
        /\ a \notin {"failed unix", "failed tcp"}
    BY <1>2, <1>14 DEF On, Others
  <2>2. fds[f] = a /\ TakenAs(f) # "none"
    BY <1>8, <2>1
  <2> QED BY <1>5, <1>7, <2>1, <2>2 DEF On
<1>15. On(fds', "log") = On(fds, "log")
  BY <1>8 DEF On
<1>16. On(fds', "own") = {}
  <2>1. ASSUME NEW f \in Fds, fds'[f] = "own" PROVE FALSE
    <3>1. fds[f] = "own" /\ TakenAs(f) # "none"
      BY <1>8, <2>1
    <3> QED BY <1>2, <1>5, <1>7, <3>1 DEF Others
  <2> QED BY <2>1 DEF On
<1>17. FailedFds' \ kept' = {}
  <2>1. ASSUME NEW f \in FailedFds' PROVE f \in kept'
    <3>1. f \in Fds /\ fds'[f] \in {"failed unix", "failed tcp"}
      BY DEF FailedFds
    <3>2. fds[f] = fds'[f] /\ TakenAs(f) # "none"
      BY <1>8, <3>1
    <3> QED BY <1>5, <1>7, <3>1, <3>2
  <2> QED BY <2>1
<1>18. Unserved' = {} /\ Configured' = Configured
  <2>1. \A k \in DOMAIN conf.files : ~ (k < 1)
    BY <1>1, ConfIs
  <2>2. DOMAIN fdOf' = DOMAIN conf.files
    BY <1>11
  <2>3. Unserved' = {}
    BY <1>1, <2>1, <2>2 DEF Unserved
  <2> QED BY <1>1, <2>3 DEF Configured
<1>19. \A f \in Fds : fds'[f] \notin Dynamic
  BY <1>2, <1>14 DEF On
<1>20. Cardinality((FailedFds \ kept)') <= Cardinality(Unserved')
  BY <1>17, <1>18, FS_EmptySet
<1>21. /\ \A x \in (Addrs \ Dynamic) \cup {"log"} : \A f, g \in On(fds', x) : f = g
       /\ On(fds', "log") # {}
       /\ \A a \in Addrs : On(fds', a) # {} => a \in Configured'
  BY <1>1, <1>14, <1>15, <1>18 DEF Tidy
<1>22. Tidy'
  BY <1>1, <1>16, <1>19, <1>20, <1>21 DEF Tidy, Started
<1> QED BY <1>13, <1>22

\* A descriptor that is right for a file stays so.
LEMMA RightStays ==
  ASSUME FdsOK, [Next]_vars, ~ ScanSockets, ~ ReExec, UNCHANGED <<conf, kept>>,
         NEW k \in DOMAIN conf.files, NEW f \in Fds, Right(k, f),
         conf.files[k].addr # "file"
  PROVE  Right(k, f)'
<1>1. conf.files[k].addr \in Addrs
  BY ConfIs DEF FdsOK
<1>2. fds[f] \in Addrs \/ fds[f] \in {"failed unix", "failed tcp"}
  BY <1>1, FailedAre DEF Right
<1>3. fds[f] \notin {"closed", "log"}
  BY <1>2, AddrsAssumption DEF Others
<1>4. fds'[f] = fds[f]
  BY <1>3, DescriptorStep
<1> QED BY <1>4 DEF Right

\* The descriptors of the files stay where they are in a step that does not
\* forget them.
LEMMA FdsStay ==
  ASSUME FdsOK, [Next]_vars, Started, Started', UNCHANGED <<conf, fdOf, at, kept>>,
         pc # "scan", fds' \in Tables,
         pc' \in {"loop", "rotate"} => at = Len(conf.files) + 1
  PROVE  FdsOK'
<1>1. ~ ScanSockets /\ ~ ReExec
  BY DEF ScanSockets, ReExec, Started
<1>2. /\ conf \in Configs /\ fdOf \in [DOMAIN conf.files -> Fds \cup {0 - 1}]
      /\ at \in 1..(Len(conf.files) + 1)
      /\ \A k \in DOMAIN conf.files :
           /\ fdOf[k] \in Fds => Right(k, fdOf[k])
           /\ conf.files[k].addr = "file" => fdOf[k] = 0 - 1
  BY DEF FdsOK
<1>3. ASSUME NEW k \in DOMAIN conf.files, fdOf[k] \in Fds PROVE Right(k, fdOf[k])'
  <2>1. Right(k, fdOf[k]) /\ conf.files[k].addr # "file"
    BY <1>2, <1>3, FdsAre
  <2>2. PICK f \in Fds : f = fdOf[k] /\ f = fdOf'[k]
    BY <1>3
  <2>3. Right(k, f)'
    BY <1>1, <2>1, <2>2, RightStays
  <2> QED BY <2>2, <2>3 DEF Right
<1> QED BY <1>2, <1>3 DEF FdsOK

LEMMA OwnKeeps ==
  ASSUME FdsOK, Tidy, OpenOwn
  PROVE  FdsOK' /\ Tidy'
<1>1. /\ pc = "open" /\ pc' = "loop" /\ Room(fds, 4)
      /\ UNCHANGED <<conf, fdOf, at, kept>>
      /\ fds' = OwnOpened(fds) /\ fds \in Tables /\ conf \in Configs
  BY DEF OpenOwn, OwnOpened, FdsOK
<1>2. /\ fds' \in Tables
      /\ Cardinality(On(fds', "own")) = Cardinality(On(fds, "own")) + 4
      /\ \A y : y # "own" /\ y # "closed" => On(fds', y) = On(fds, y)
  BY <1>1, OwnCounts
<1>3. Cardinality(On(fds', "own")) = 4
  BY <1>1, <1>2, FS_EmptySet DEF Tidy
<1>4. SocketsSame /\ On(fds', "log") = On(fds, "log")
  BY <1>2, SameSockets
<1>5. Started /\ Started'
  BY <1>1 DEF Started
<1>6. \A x \in (Addrs \ Dynamic) \cup {"log"} : On(fds', x) = On(fds, x)
  BY <1>4 DEF SocketsSame
<1>7. Tidy'
  BY <1>1, <1>2, <1>3, <1>4, <1>5, <1>6, SocketsTidy DEF Tidy
<1>8. FdsOK'
  <2>1. at = Len(conf.files) + 1 /\ [Next]_vars
    BY DEF OpenOwn, Next
  <2> QED BY <1>1, <1>2, <1>5, <2>1, FdsStay
<1> QED BY <1>7, <1>8

LEMMA ReopenKeeps ==
  ASSUME FdsOK, Tidy, Reopen
  PROVE  FdsOK' /\ Tidy'
<1>1. /\ pc \in {"loop", "rotate"} /\ pc' = "loop" /\ Room(fds, 1)
      /\ UNCHANGED <<conf, fdOf, at, kept>>
      /\ fds' = Reopened /\ fds \in Tables /\ conf \in Configs
  BY DEF Reopen, FdsOK
<1>2. PICK f \in Fds : fds[f] = "log" /\ \A g \in Fds : fds[g] = "log" => g = f
  BY <1>1 DEF Tidy, Started, On
<1>3. /\ fds' \in Tables /\ On(fds', "log") = {LowestFree(fds)}
      /\ \A y : y # "log" /\ y # "closed" => On(fds', y) = On(fds, y)
  BY <1>1, <1>2, ReopenedIs
<1>4. SocketsSame /\ On(fds', "own") = On(fds, "own")
  BY <1>3, SameSockets
<1>5. Started /\ Started'
  BY <1>1 DEF Started
<1>6. \A x \in Addrs \ Dynamic : On(fds', x) = On(fds, x)
  BY <1>4 DEF SocketsSame
<1>7. Tidy'
  BY <1>1, <1>3, <1>4, <1>5, <1>6, SocketsTidy DEF Tidy
<1>8. FdsOK'
  <2>1. at = Len(conf.files) + 1 /\ [Next]_vars
    BY <1>1 DEF FdsOK, Next
  <2> QED BY <1>1, <1>3, <1>5, <2>1, FdsStay
<1> QED BY <1>7, <1>8

LEMMA ReExecKeeps ==
  ASSUME FdsOK, Tidy, ReExec
  PROVE  FdsOK' /\ Tidy'
<1>1. /\ pc' = "exec" /\ conf' \in Configs /\ fds \in Tables
      /\ fds' = [f \in Fds |-> IF fds[f] \in {"log", "own"} THEN "closed" ELSE fds[f]]
  BY DEF ReExec, FdsOK
<1>2. Addrs \cap Others = {} /\ "closed" \in Others
  BY AddrsAssumption DEF Others
<1>3. fds' \in Tables
  BY <1>1, <1>2 DEF Tables
<1>4. /\ On(fds', "log") = {} /\ On(fds', "own") = {}
      /\ \A a \in Addrs : On(fds', a) \subseteq On(fds, a)
  BY <1>1, <1>2 DEF On, Others
<1>5. FdsOK'
  BY <1>1, <1>3 DEF FdsOK, Started
<1>6. Tidy'
  BY <1>1, <1>4 DEF Tidy, Started
<1> QED BY <1>5, <1>6

\* What open_sockets knows of an address is right for the file.
LEMMA KnownIs ==
  ASSUME FdsOK, pc = "open", at \in DOMAIN conf.files
  PROVE  /\ Known(at) \in Fds \cup {0 - 1}
         /\ Known(at) \in Fds => Right(at, Known(at))
<1> DEFINE a == conf.files[at].addr
           j == IF SameAddr(at) = {} THEN at ELSE FirstSame(at)
<1>1. /\ conf \in Configs /\ fdOf \in [DOMAIN conf.files -> Fds \cup {0 - 1}]
      /\ \A k \in DOMAIN conf.files : fdOf[k] \in Fds => Right(k, fdOf[k])
  BY DEF FdsOK, Started
<1>2. DOMAIN conf.files = 1..Len(conf.files) /\ Len(conf.files) \in Nat /\ at \in Nat
  BY <1>1, ConfIs
<1>3. j \in DOMAIN conf.files /\ conf.files[j].addr = a
  <2>1. CASE SameAddr(at) # {}
    <3>1. SameAddr(at) \subseteq Nat
      BY <1>2 DEF SameAddr
    <3>2. PICK i \in SameAddr(at) : \A h \in SameAddr(at) : i <= h
      BY <2>1, <3>1, LeastElement
    <3>3. FirstSame(at) \in SameAddr(at)
      BY <3>2 DEF FirstSame
    <3> QED BY <1>2, <2>1, <3>3 DEF SameAddr
  <2>2. CASE SameAddr(at) = {}
    BY <2>2
  <2> QED BY <2>1, <2>2
<1>4. Known(at) = fdOf[j]
  BY DEF Known
<1> HIDE DEF j
<1> QED BY <1>1, <1>3, <1>4 DEF Right

LEMMA UnservedIs ==
  ASSUME FdsOK, pc = "open"
  PROVE  IsFiniteSet(Unserved) /\ Cardinality(Unserved) \in Nat
<1>1. Unserved \subseteq 1..Len(conf.files) /\ 1 \in Int /\ Len(conf.files) \in Int
  BY ConfIs DEF Unserved, FdsOK, Started
<1>2. IsFiniteSet(1..Len(conf.files))
  BY <1>1, FS_Interval
<1>3. IsFiniteSet(Unserved)
  BY <1>1, <1>2, FS_Subset
<1> QED BY <1>3, FS_CardinalityType

\* What a turn of the second loop of open_sockets may come to: x is the _fd of
\* the file.
Turn(x) ==
  LET a == conf.files[at].addr IN
  /\ fdOf' = [fdOf EXCEPT ![at] = x]
  /\ \/ x = 0 - 1 /\ fds' = fds
     \/ x = 0 - 1 /\ a \in Addrs /\ fds' = Opened(fds, Failed(a))
     \/ /\ x \in Fds /\ a \in Addrs /\ Right(at, x) /\ fds' = fds
     \/ /\ x = LowestFree(fds) /\ a \in Addrs /\ fds' = Opened(fds, a)
        /\ a \notin Dynamic => On(fds, a) = {}

LEMMA TurnIs ==
  ASSUME FdsOK, OpenSocket
  PROVE  \E x \in Fds \cup {0 - 1} : Turn(x)
<1> DEFINE a == conf.files[at].addr
<1>1. /\ at \in DOMAIN conf.files /\ Room(fds, 1) /\ fds \in Tables /\ conf \in Configs
      /\ fdOf \in [DOMAIN conf.files -> Fds \cup {0 - 1}]
      /\ a = "file" => fdOf[at] = 0 - 1
  BY DEF OpenSocket, FdsOK, Started
<1>2. a \in Addrs \cup {"file"} /\ "file" \notin Addrs
  BY <1>1, ConfIs, AddrsAssumption DEF Others
<1>3. /\ Known(at) \in Fds \cup {0 - 1}
      /\ Known(at) \in Fds => Right(at, Known(at))
  BY KnownIs DEF OpenSocket
<1>4. LowestFree(fds) \in Fds
  BY <1>1, OpenedIs
<1>5. CASE a = "file" /\ UNCHANGED <<fds, fdOf>>
  <2>1. fdOf' = [fdOf EXCEPT ![at] = 0 - 1]
    BY <1>1, <1>5
  <2> QED BY <1>5, <2>1 DEF Turn
<1>6. CASE a # "file" /\ Known(at) > 0 /\ fds' = fds /\ fdOf' = [fdOf EXCEPT ![at] = Known(at)]
  <2>1. Known(at) \in Fds
    BY <1>3, <1>6
  <2> QED BY <1>2, <1>3, <1>6, <2>1 DEF Turn
<1>7. CASE /\ a # "file" /\ ~ Bound(a)
           /\ fds' = Opened(fds, a) /\ fdOf' = [fdOf EXCEPT ![at] = LowestFree(fds)]
  <2>1. a \notin Dynamic => On(fds, a) = {}
    BY <1>7 DEF Bound, Holds, On
  <2> QED BY <1>2, <1>4, <1>7, <2>1 DEF Turn
<1>8. CASE /\ a # "file" /\ fds' = Opened(fds, Failed(a))
           /\ fdOf' = [fdOf EXCEPT ![at] = 0 - 1]
  BY <1>2, <1>8 DEF Turn
<1>9. CASE a # "file" /\ fds' = fds /\ fdOf' = [fdOf EXCEPT ![at] = 0 - 1]
  BY <1>9 DEF Turn
<1> QED BY <1>5, <1>6, <1>7, <1>8, <1>9 DEF OpenSocket

\* What a turn leaves of the descriptors.
LEMMA TurnOpens ==
  ASSUME FdsOK, Tidy, OpenSocket, NEW x \in Fds \cup {0 - 1}, Turn(x)
  PROVE  /\ fds' \in Tables
         /\ \A y \in {"log", "own"} : On(fds', y) = On(fds, y)
         /\ \A y \in Addrs : On(fds', y) # {} => On(fds, y) # {} \/ y = conf.files[at].addr
         /\ \A y \in Addrs \ Dynamic : \A f, g \in On(fds', y) : f = g
         /\ \A f \in Fds : fds'[f] \in Dynamic => fds[f] = fds'[f] \/ f = x
         /\ \A k : k = at /\ x \in Fds => Right(k, x)'
         /\ \/ FailedFds' = FailedFds
            \/ /\ x = 0 - 1 /\ conf.files[at].addr \in Addrs
               /\ \E f \in Fds : FailedFds' = FailedFds \cup {f}
<1> DEFINE a == conf.files[at].addr
<1>0. 0 - 1 \notin Fds
  BY FdsAre
<1>1. /\ Room(fds, 1) /\ fds \in Tables /\ UNCHANGED <<conf, kept>>
      /\ at \in DOMAIN conf.files /\ conf' = conf
  BY DEF OpenSocket, FdsOK
<1>2. /\ Addrs \cap Others = {} /\ Dynamic \subseteq Addrs
      /\ \A y \in Addrs : y \notin {"closed", "log", "own", "failed unix", "failed tcp"}
  BY AddrsAssumption DEF Others, Addrs
<1>3. CASE fds' = fds /\ (x \in Fds => Right(at, x))
  <2>1. ASSUME NEW k, k = at, x \in Fds PROVE Right(k, x)'
    BY <1>1, <1>3, <2>1 DEF Right
  <2>2. FailedFds' = FailedFds
    BY <1>3 DEF FailedFds
  <2> QED BY <1>1, <1>3, <2>1, <2>2 DEF Tidy
<1>4. CASE x = 0 - 1 /\ a \in Addrs /\ fds' = Opened(fds, Failed(a))
  <2> DEFINE y == Failed(a)
             f == LowestFree(fds)
  <2>1. y \in {"failed unix", "failed tcp"} /\ y \in (Addrs \cup Others) \ {"closed"}
    BY FailedAre DEF Others
  <2>2. /\ f \in Fds /\ fds[f] = "closed" /\ fds' = [fds EXCEPT ![f] = y]
        /\ fds' \in Tables
    BY <1>1, <1>4, <2>1, OpenedIs, OpenedCounts
  <2> HIDE DEF y, f
  <2>3. fds'[f] = y /\ \A g \in Fds : g # f => fds'[g] = fds[g]
    BY <1>1, <2>2 DEF Tables
  <2>4. \A z \in Addrs \cup {"log", "own"} : On(fds', z) = On(fds, z)
    BY <1>2, <2>1, <2>2, <2>3 DEF On
  <2>5. FailedFds' = FailedFds \cup {f}
    BY <2>1, <2>2, <2>3 DEF FailedFds
  <2>6. \A g \in Fds : fds'[g] \in Dynamic => fds[g] = fds'[g]
    BY <1>2, <2>1, <2>3
  <2>7. \A z \in Addrs \ Dynamic : \A g, h \in On(fds', z) : g = h
    BY <2>4 DEF Tidy
  <2> QED BY <1>0, <1>4, <2>2, <2>4, <2>5, <2>6, <2>7
<1>5. CASE /\ x = LowestFree(fds) /\ a \in Addrs /\ fds' = Opened(fds, a)
           /\ a \notin Dynamic => On(fds, a) = {}
  <2> DEFINE b == a
  <2>1. b \in (Addrs \cup Others) \ {"closed"}
    BY <1>2, <1>5
  <2>2. /\ x \in Fds /\ fds[x] = "closed" /\ fds' = [fds EXCEPT ![x] = b]
        /\ fds' \in Tables
    BY <1>1, <1>5, <2>1, OpenedIs, OpenedCounts
  <2>3. b \in Addrs /\ b = conf.files[at].addr /\ (b \notin Dynamic => On(fds, b) = {})
    BY <1>5
  <2> HIDE DEF b
  <2>4. fds'[x] = b /\ \A g \in Fds : g # x => fds'[g] = fds[g]
    BY <1>1, <2>2 DEF Tables
  <2>5. \A z : z # b /\ z # "closed" => On(fds', z) = On(fds, z)
    BY <2>2, <2>4 DEF On
  <2>6. \A z \in Addrs \ Dynamic : \A g, h \in On(fds', z) : g = h
    <3>1. ASSUME NEW z \in Addrs \ Dynamic, z # b PROVE \A g, h \in On(fds', z) : g = h
      <4>1. On(fds', z) = On(fds, z)
        BY <1>2, <2>5, <3>1
      <4> QED BY <3>1, <4>1 DEF Tidy
    <3>2. ASSUME b \notin Dynamic PROVE \A g, h \in On(fds', b) : g = h
      <4>1. \A g \in Fds : fds[g] # b
        BY <2>3, <3>2 DEF On
      <4> QED BY <2>4, <4>1 DEF On
    <3> QED BY <3>1, <3>2
  <2>7. FailedFds' = FailedFds
    BY <1>2, <2>2, <2>3, <2>4 DEF FailedFds
  <2>8. \A k : k = at => Right(k, x)'
    BY <1>1, <2>3, <2>4 DEF Right
  <2>9. \A y \in {"log", "own"} : On(fds', y) = On(fds, y)
    BY <1>2, <2>3, <2>5
  <2>10. \A y \in Addrs :
           On(fds', y) # {} => On(fds, y) # {} \/ y = conf.files[at].addr
    BY <1>2, <2>3, <2>5
  <2>11. \A f \in Fds : fds'[f] \in Dynamic => fds[f] = fds'[f] \/ f = x
    BY <2>4
  <2>12. fds' \in Tables
    BY <2>2
  <2> QED BY <2>6, <2>7, <2>8, <2>9, <2>10, <2>11, <2>12
<1> QED BY <1>0, <1>3, <1>4, <1>5 DEF Turn

LEMMA SocketKeeps ==
  ASSUME FdsOK, Tidy, OpenSocket
  PROVE  FdsOK' /\ Tidy'
<1> DEFINE a == conf.files[at].addr
<1>0. 0 - 1 \notin Fds
  BY FdsAre
<1>1. /\ pc = "open" /\ pc' = "open" /\ at' = at + 1 /\ UNCHANGED <<conf, kept>>
      /\ at \in DOMAIN conf.files /\ fds \in Tables /\ conf \in Configs
      /\ Started /\ Started'
  BY DEF OpenSocket, FdsOK, Started
<1>2. /\ fdOf \in [DOMAIN conf.files -> Fds \cup {0 - 1}]
      /\ DOMAIN conf.files = 1..Len(conf.files) /\ Len(conf.files) \in Nat
      /\ at \in Nat /\ at' \in 1..(Len(conf.files) + 1)
      /\ \A k \in DOMAIN conf.files :
           /\ fdOf[k] \in Fds => Right(k, fdOf[k])
           /\ conf.files[k].addr = "file" => fdOf[k] = 0 - 1
  BY <1>1, ConfIs DEF FdsOK
<1>3. a \in Addrs \cup {"file"} /\ "file" \notin Addrs
  BY <1>1, ConfIs, AddrsAssumption DEF Others
<1>4. PICK x \in Fds \cup {0 - 1} : Turn(x)
  BY TurnIs
<1>5. fdOf' = [fdOf EXCEPT ![at] = x]
  BY <1>4 DEF Turn
<1>6. /\ fds' \in Tables
      /\ \A y \in {"log", "own"} : On(fds', y) = On(fds, y)
      /\ \A y \in Addrs : On(fds', y) # {} => On(fds, y) # {} \/ y = a
      /\ \A y \in Addrs \ Dynamic : \A f, g \in On(fds', y) : f = g
      /\ \A f \in Fds : fds'[f] \in Dynamic => fds[f] = fds'[f] \/ f = x
      /\ \A k : k = at /\ x \in Fds => Right(k, x)'
      /\ \/ FailedFds' = FailedFds
         \/ /\ x = 0 - 1 /\ a \in Addrs
            /\ \E f \in Fds : FailedFds' = FailedFds \cup {f}
  BY <1>4, TurnOpens
<1>7. /\ \A k \in DOMAIN conf.files : k # at => fdOf'[k] = fdOf[k]
      /\ DOMAIN fdOf' = DOMAIN conf.files /\ fdOf'[at] = x
      /\ fdOf' \in [DOMAIN conf.files -> Fds \cup {0 - 1}]
  BY <1>1, <1>2, <1>5
<1>8. FdsOK'
  <2>1. ASSUME NEW k \in DOMAIN conf.files, fdOf'[k] \in Fds PROVE Right(k, fdOf[k])'
    <3>1. CASE k = at
      <4>1. fdOf'[k] = x
        BY <1>7, <3>1
      <4>2. Right(k, x)'
        BY <1>6, <2>1, <3>1, <4>1
      <4> QED BY <4>1, <4>2 DEF Right
    <3>2. CASE k # at
      <4>1. /\ fdOf'[k] = fdOf[k] /\ Right(k, fdOf[k]) /\ conf.files[k].addr # "file"
            /\ [Next]_vars /\ ~ ScanSockets /\ ~ ReExec
        BY <1>0, <1>1, <1>2, <1>7, <2>1, <3>2 DEF Next, ScanSockets, ReExec
      <4>2. PICK f \in Fds : f = fdOf[k] /\ f = fdOf'[k]
        BY <2>1, <4>1
      <4>3. Right(k, f)'
        BY <1>1, <4>1, <4>2, RightStays
      <4> QED BY <4>2, <4>3 DEF Right
    <3> QED BY <3>1, <3>2
  <2>2. ASSUME NEW k \in DOMAIN conf.files, conf.files[k].addr = "file"
        PROVE  fdOf'[k] = 0 - 1
    <3>1. ASSUME k = at PROVE x = 0 - 1
      BY <1>3, <1>4, <2>2, <3>1 DEF Turn
    <3> QED BY <1>2, <1>7, <2>2, <3>1
  <2> QED BY <1>1, <1>2, <1>6, <1>7, <2>1, <2>2 DEF FdsOK
<1>9. Cardinality((FailedFds \ kept)') <= Cardinality(Unserved')
  <2>1. Unserved' = Unserved \cup (IF x < 0 /\ a # "file" THEN {at} ELSE {})
    <3>1. \A k \in DOMAIN conf.files : k < at' <=> k < at \/ k = at
      BY <1>1, <1>2
    <3> QED BY <1>1, <1>2, <1>7, <3>1 DEF Unserved
  <2>2. at \notin Unserved /\ IsFiniteSet(Unserved) /\ Cardinality(Unserved) \in Nat
    BY <1>1, <1>2, UnservedIs DEF Unserved
  <2>3. Cardinality(FailedFds \ kept) <= Cardinality(Unserved)
    BY <1>1 DEF Tidy
  <2>4. IsFiniteSet(FailedFds \ kept) /\ Cardinality(FailedFds \ kept) \in Nat
    BY FdsFinite DEF FailedFds
  <2>5. Cardinality(Unserved \cup {at}) = Cardinality(Unserved) + 1
    BY <2>2, FS_AddElement
  <2>6. CASE FailedFds' = FailedFds
    BY <1>1, <2>1, <2>2, <2>3, <2>4, <2>5, <2>6
  <2>7. CASE x = 0 - 1 /\ a \in Addrs /\ \E f \in Fds : FailedFds' = FailedFds \cup {f}
    <3>1. PICK f \in Fds : FailedFds' = FailedFds \cup {f}
      BY <2>7
    <3>2. (FailedFds \ kept)' \subseteq (FailedFds \ kept) \cup {f}
      BY <1>1, <3>1
    <3> DEFINE old == FailedFds \ kept
               new == FailedFds' \ kept'
    <3>3. IsFiniteSet(old \cup {f}) /\ Cardinality(old \cup {f}) <= Cardinality(old) + 1
      <4>1. CASE f \in old
        BY <2>4, <4>1, old \cup {f} = old
      <4>2. CASE f \notin old
        BY <2>4, <4>2, FS_AddElement
      <4> QED BY <4>1, <4>2
    <3>4. new \subseteq old \cup {f}
      BY <3>2
    <3>5. /\ Cardinality(old) \in Nat /\ Cardinality(old) <= Cardinality(Unserved)
          /\ Cardinality(Unserved) \in Nat
      BY <2>2, <2>3, <2>4
    <3>6. Unserved' = Unserved \cup {at}
      BY <1>3, <2>1, <2>7
    <3> HIDE DEF old, new
    <3>7. Cardinality(new) <= Cardinality(old \cup {f}) /\ Cardinality(new) \in Nat
          /\ Cardinality(old \cup {f}) \in Nat
      BY <3>3, <3>4, FS_Subset, FS_CardinalityType
    <3>8. Cardinality(new) <= Cardinality(Unserved')
      BY <2>5, <3>3, <3>5, <3>6, <3>7
    <3> QED BY <3>8 DEF new
  <2> QED BY <1>6, <2>6, <2>7
<1>10. \A b \in Addrs : On(fds', b) # {} => b \in Configured'
  <2>1. Configured' = Configured /\ (a \in Addrs => a \in Configured)
    BY <1>1 DEF Configured
  <2>2. \A b \in Addrs : On(fds, b) # {} => b \in Configured
    BY <1>1 DEF Tidy
  <2> HIDE DEF a
  <2> QED BY <1>6, <2>1, <2>2
<1>11. ASSUME NEW f \in Fds, fds'[f] \in Dynamic
       PROVE  \E k \in DOMAIN fdOf' : k < at' /\ fdOf'[k] = f
  <2>1. CASE f = x
    BY <1>1, <1>2, <1>7, <2>1
  <2>2. CASE f # x
    <3>1. fds[f] \in Dynamic
      BY <1>6, <1>11, <2>2
    <3>2. PICK k \in DOMAIN fdOf : k < at /\ fdOf[k] = f
      BY <1>1, <3>1 DEF Tidy
    <3> QED BY <1>1, <1>2, <1>7, <3>2
  <2> QED BY <2>1, <2>2
<1>12. \A y \in (Addrs \ Dynamic) \cup {"log"} : \A f, g \in On(fds', y) : f = g
  BY <1>6 DEF Tidy
<1>13. Tidy'
  BY <1>1, <1>6, <1>9, <1>10, <1>11, <1>12 DEF Tidy
<1> QED BY <1>8, <1>13

LEMMA DescriptorsInvariant == Spec => [](FdsOK /\ Tidy)
<1>1. Init => FdsOK /\ Tidy
  <2>1. ASSUME Init PROVE FdsOK /\ Tidy
    <3>1. pc = "exec" /\ conf \in Configs /\ fds = [f \in Fds |-> "closed"]
      BY <2>1 DEF Init
    <3>2. Addrs \cap Others = {} /\ "closed" \in Others
      BY AddrsAssumption DEF Others
    <3>3. \A x \in Addrs \cup {"log", "own"} : On(fds, x) = {}
      BY <3>1, <3>2 DEF On, Others
    <3>4. fds \in Tables
      BY <3>1, <3>2 DEF Tables
    <3> QED BY <3>1, <3>3, <3>4 DEF FdsOK, Tidy, Started
  <2> QED BY <2>1
<1>2. FdsOK /\ Tidy /\ [Next]_vars => FdsOK' /\ Tidy'
  BY BossdSteps, CalmKeeps, LogOpened, ScanKeeps, SocketKeeps, OwnKeeps, ReopenKeeps,
     ReExecKeeps
<1> QED BY <1>1, <1>2, PTL DEF Spec

\* No descriptor leaks but failed sockets that a scan has taken for a file's, whatever
\* opens failed, however often the log was rotated and bossd was re-exec'd.
THEOREM DescriptorsCorrect == Spec => []NoDescriptorLeaks
<1>1. ASSUME FdsOK, Tidy, pc = "loop" PROVE NoDescriptorLeaks
  <2>1. Started /\ at = Len(conf.files) + 1 /\ conf \in Configs
    BY <1>1 DEF Started, FdsOK
  <2>2. ASSUME NEW x \in (Addrs \ Dynamic) \cup {"log"}
        PROVE  /\ On(fds, x) = {} => Cardinality(On(fds, x)) = 0
               /\ On(fds, x) # {} => Cardinality(On(fds, x)) = 1
    <3>1. ASSUME NEW f \in On(fds, x) PROVE Cardinality(On(fds, x)) = 1
      <4>1. On(fds, x) = {f}
        BY <1>1, <3>1 DEF Tidy
      <4> QED BY <4>1, FS_Singleton
    <3> QED BY <3>1, FS_EmptySet
  <2>3. DOMAIN fdOf = 1..Len(conf.files) /\ Len(conf.files) \in Nat
        /\ DOMAIN fdOf = DOMAIN conf.files
    BY <1>1, <2>1, ConfIs DEF FdsOK
  <2>4. Unserved = {k \in DOMAIN fdOf : fdOf[k] < 0 /\ conf.files[k].addr # "file"}
    <3>1. \A k \in DOMAIN fdOf : k < at
      BY <2>1, <2>3
    <3> QED BY <3>1 DEF Unserved
  <2>5. \A a \in Addrs : On(fds, a) # {} => a \in Configured
    BY <1>1, <2>1 DEF Tidy
  <2>6. On(fds, "log") # {} /\ Cardinality(On(fds, "own")) = 4
    BY <1>1, <2>1 DEF Tidy
  <2>7. \A f \in Fds : fds[f] \in Dynamic => \E k \in DOMAIN fdOf : fdOf[k] = f
    BY <1>1, <2>1 DEF Tidy
  <2>8. \A k \in DOMAIN fdOf :
          fdOf[k] > 0 => fds[fdOf[k]] = conf.files[k].addr \/ fdOf[k] \in kept
    BY <1>1, <2>1, <2>3 DEF FdsOK, Right
  <2>9. Cardinality(FailedFds \ kept) <= Cardinality(Unserved)
    BY <1>1, <2>1 DEF Tidy
  <2>10. /\ Cardinality(On(fds, "log")) = 1
         /\ \A a \in Addrs \ Dynamic : Cardinality(On(fds, a)) <= 1
    BY <2>2, <2>6
  <2> QED BY <2>4, <2>5, <2>6, <2>7, <2>8, <2>9, <2>10 DEF NoDescriptorLeaks
<1>2. FdsOK /\ Tidy => NoDescriptorLeaks
  BY <1>1 DEF NoDescriptorLeaks
<1> QED BY <1>2, DescriptorsInvariant, PTL

-----------------------------------------------------------------------------
(***************************************************************************)
(* A child has the files of its configuration.                             *)
(***************************************************************************)
KidRecords ==
  [st : {"none", "opening", "run"}, proc : Procs \cup {"none"}, files : Seq(File),
   fd : Seq(Fds \cup {0 - 1}), todo : SUBSET Nat, tab : Tables]

\* What open_files has done is on its number, and what it has not done is still
\* where bossd had it.
Placed(kid) == OwnFiles(kid) \ kid.todo
PlacedRight(kid) ==
  /\ \A j \in Placed(kid) : \E i \in Placed(kid) :
       /\ kid.files[i].key = kid.files[j].key
       /\ Serves(kid.tab[kid.files[j].key], kid.files[i].addr)
  /\ \A k \in kid.todo :
       kid.fd[k] \in Fds => Serves(kid.tab[kid.fd[k]], kid.files[k].addr)

KidOK(kid) ==
  /\ kid.todo \subseteq OwnFiles(kid) /\ Len(kid.fd) = Len(kid.files)
  /\ \A j \in Placed(kid) : \A k \in kid.todo : j < k
  /\ Clobbers(kid) \/ PlacedRight(kid)
  /\ kid.st = "run" =>
       /\ kid.todo = {}
       /\ \A f \in Fds : f \notin KeysOf(kid) => kid.tab[f] = "closed"

KidsOK == kids \in [Children -> KidRecords] /\ \A c \in Children : KidOK(kids[c])

LEMMA FileIs ==
  ASSUME NEW kid \in KidRecords, Len(kid.fd) = Len(kid.files), NEW k \in OwnFiles(kid)
  PROVE  /\ k \in Nat /\ kid.files[k].key \in Fds
         /\ kid.files[k].addr \in Addrs \cup {"file"} /\ kid.fd[k] \in Fds \cup {0 - 1}
<1>1. kid.files \in Seq(File) /\ kid.fd \in Seq(Fds \cup {0 - 1})
  BY DEF KidRecords
<1>2. k \in 1..Len(kid.files) /\ Len(kid.files) \in Nat
  BY <1>1, LenProperties DEF OwnFiles
<1>3. kid.files[k] \in File /\ kid.fd[k] \in Fds \cup {0 - 1}
  BY <1>1, <1>2, ElementOfSeq
<1> QED BY <1>2, <1>3 DEF File

\* What serves a file is open.
LEMMA ServesOpen ==
  ASSUME NEW x, NEW a \in Addrs \cup {"file"}, Serves(x, a)
  PROVE  x # "closed"
  BY AddrsAssumption, FailedAre DEF Serves, Others

LEMMA NoKidIsOK == NoKid \in KidRecords /\ KidOK(NoKid)
<1>1. NoKid \in KidRecords
  BY DEF NoKid, KidRecords, Tables, Others
<1>2. OwnFiles(NoKid) = {} /\ NoKid.todo = {} /\ NoKid.st = "none"
  BY DEF NoKid, OwnFiles
<1>3. Len(NoKid.fd) = Len(NoKid.files)
  BY DEF NoKid
<1> QED BY <1>1, <1>2, <1>3 DEF KidOK, Placed, PlacedRight

\* fork: the child has what bossd has.
LEMMA ForkedIsOK ==
  ASSUME FdsOK, KidsOK, NEW c \in Children, NEW p \in Procs, Run(c, p)
  PROVE  KidsOK'
<1> DEFINE all == [st |-> "opening", proc |-> p, files |-> conf.files,
                   fd |-> fdOf, todo |-> {}, tab |-> fds]
           kid == [all EXCEPT !.todo = OwnFiles(all)]
<1>1. kids' = [kids EXCEPT ![c] = kid] /\ pc = "loop"
  BY DEF Run
<1>2. /\ conf.files \in Seq(File) /\ Len(conf.files) \in Nat
      /\ DOMAIN conf.files = 1..Len(conf.files) /\ fds \in Tables
      /\ fdOf \in [DOMAIN conf.files -> Fds \cup {0 - 1}]
      /\ \A k \in DOMAIN conf.files :
           fdOf[k] \in Fds => Serves(fds[fdOf[k]], conf.files[k].addr)
  BY <1>1, ConfIs DEF FdsOK, Started, Right, Serves
<1>3. fdOf \in Seq(Fds \cup {0 - 1}) /\ Len(fdOf) = Len(conf.files)
  BY <1>2
<1>4. OwnFiles(all) \subseteq DOMAIN conf.files /\ OwnFiles(kid) = OwnFiles(all)
  BY DEF OwnFiles
<1>5. kid = [st |-> "opening", proc |-> p, files |-> conf.files,
             fd |-> fdOf, todo |-> OwnFiles(all), tab |-> fds]
  OBVIOUS
<1>6. kid \in KidRecords
  BY <1>2, <1>3, <1>4, <1>5 DEF KidRecords
<1>7. KidOK(kid)
  <2>1. Placed(kid) = {} /\ kid.todo = OwnFiles(kid)
    BY <1>4, <1>5 DEF Placed
  <2>2. PlacedRight(kid)
    BY <1>2, <1>4, <1>5, <2>1 DEF PlacedRight
  <2> QED BY <1>3, <1>5, <2>1, <2>2 DEF KidOK
<1> HIDE DEF kid
<1> QED BY <1>1, <1>6, <1>7 DEF KidsOK

\* dup2 and close of a file that is open, or has just been opened, on tfd.
LEMMA MovedIsOK ==
  ASSUME NEW kid \in KidRecords, KidOK(kid), NEW k \in kid.todo,
         \A j \in kid.todo : k <= j, kid.st = "opening",
         NEW t \in Tables, NEW tfd \in Fds, kid.files[k].addr \in Addrs \cup {"file"},
         \/ /\ t = kid.tab /\ tfd = kid.fd[k]
            /\ tfd = kid.files[k].key \/ t[tfd] # "closed"
         \/ /\ kid.tab[tfd] = "closed" /\ t = [kid.tab EXCEPT ![tfd] = kid.files[k].addr]
            /\ kid.fd[k] < 0
  PROVE  LET new == [kid EXCEPT !.todo = @ \ {k}, !.tab = Moved(t, tfd, kid.files[k].key)]
         IN  new \in KidRecords /\ KidOK(new)
<1> DEFINE key == kid.files[k].key
           addr == kid.files[k].addr
           tab == Moved(t, tfd, key)
           new == [kid EXCEPT !.todo = @ \ {k}, !.tab = tab]
<1>1. /\ kid.todo \subseteq OwnFiles(kid) /\ Len(kid.fd) = Len(kid.files)
      /\ k \in OwnFiles(kid) /\ \A j \in Placed(kid) : \A i \in kid.todo : j < i
      /\ Clobbers(kid) \/ PlacedRight(kid)
  BY DEF KidOK
<1>2. /\ \A j \in OwnFiles(kid) :
           /\ j \in Nat /\ kid.files[j].key \in Fds
           /\ kid.files[j].addr \in Addrs \cup {"file"} /\ kid.fd[j] \in Fds \cup {0 - 1}
  BY <1>1, FileIs
<1>3. key \in Fds /\ k \in Nat
  BY <1>1, <1>2
<1>4. /\ tab \in Tables /\ tab[key] = t[tfd]
      /\ \A f \in Fds : f # key /\ f # tfd => tab[f] = t[f]
  <2>1. "closed" \in Addrs \cup Others
    BY DEF Others
  <2> QED BY <1>3, <2>1 DEF Moved, Tables
<1>5. new \in KidRecords
  <2>1. kid.todo \ {k} \in SUBSET Nat
    BY DEF KidRecords
  <2> HIDE DEF tab
  <2> QED BY <1>4, <2>1 DEF KidRecords
<1>6. /\ new.todo = kid.todo \ {k} /\ new.tab = tab /\ new.st = "opening"
      /\ new.files = kid.files /\ new.fd = kid.fd /\ new.proc = kid.proc
  BY DEF KidRecords
<1> HIDE DEF new, tab
<1>7. OwnFiles(new) = OwnFiles(kid) /\ Clobbers(new) = Clobbers(kid)
  BY <1>6 DEF OwnFiles, Clobbers
<1>8. Placed(new) = Placed(kid) \cup {k} /\ k \notin Placed(kid)
  BY <1>1, <1>6, <1>7 DEF Placed
<1>9. ASSUME NEW j \in Placed(new), NEW i \in new.todo PROVE j < i
  <2>1. i \in kid.todo /\ i # k /\ k <= i /\ i \in Nat
    BY <1>1, <1>2, <1>6
  <2> QED BY <1>1, <1>3, <1>8, <1>9, <2>1
<1>10. ASSUME ~ Clobbers(kid) PROVE PlacedRight(new)
  <2>0. PlacedRight(kid)
    BY <1>1, <1>10
  <2>1. \A j \in Placed(new) : j \in OwnFiles(kid) /\ j \in Nat
    BY <1>2, <1>7 DEF Placed
  <2>2. ASSUME NEW j \in OwnFiles(kid), NEW i \in OwnFiles(kid), j < i, kid.fd[i] \in Fds
        PROVE  kid.fd[i] # kid.files[j].key /\ kid.fd[i] # kid.fd[j]
    <3>1. kid.fd[i] > 0
      BY <2>2, FdsAre
    <3> QED BY <1>10, <2>2, <3>1 DEF Clobbers
  <2>3. Serves(t[tfd], addr)
    <3>1. CASE t = kid.tab /\ tfd = kid.fd[k]
      BY <2>0, <3>1 DEF PlacedRight
    <3>2. CASE t = [kid.tab EXCEPT ![tfd] = addr]
      BY <3>2 DEF KidRecords, Tables, Serves
    <3> QED BY <3>1, <3>2
  <2>4. ASSUME NEW f \in Fds, kid.tab[f] # "closed", f # key, f # tfd
        PROVE  tab[f] = kid.tab[f]
    <3>1. t[f] = kid.tab[f]
      BY <2>4 DEF KidRecords, Tables
    <3> QED BY <1>4, <2>4, <3>1
  <2>5. \A j \in OwnFiles(kid) : \A x : Serves(x, kid.files[j].addr) => x # "closed"
    BY <1>2, ServesOpen
  <2>6. ASSUME NEW j \in Placed(new)
        PROVE  \E i \in Placed(new) : /\ kid.files[i].key = kid.files[j].key
                                      /\ Serves(tab[kid.files[j].key], kid.files[i].addr)
    <3>1. CASE kid.files[j].key = key
      BY <1>4, <1>8, <2>3, <3>1
    <3>2. CASE kid.files[j].key # key
      <4>1. j \in Placed(kid) /\ j \in OwnFiles(kid)
        BY <1>8, <2>1, <3>2
      <4>2. PICK i \in Placed(kid) :
              /\ kid.files[i].key = kid.files[j].key
              /\ Serves(kid.tab[kid.files[j].key], kid.files[i].addr)
        BY <2>0, <4>1 DEF PlacedRight
      <4>3. kid.tab[kid.files[j].key] # "closed" /\ kid.files[j].key \in Fds
        BY <1>2, <2>5, <4>1, <4>2 DEF Placed
      <4>4. kid.files[j].key # tfd
        <5>1. CASE tfd = kid.fd[k]
          BY <1>1, <2>2, <4>1, <5>1
        <5>2. CASE kid.tab[tfd] = "closed"
          BY <4>3, <5>2
        <5> QED BY <5>1, <5>2
      <4>5. Serves(tab[kid.files[j].key], kid.files[i].addr)
        BY <2>4, <3>2, <4>2, <4>3, <4>4
      <4> QED BY <1>8, <4>2, <4>5
    <3> QED BY <3>1, <3>2
  <2>7. ASSUME NEW i \in new.todo, kid.fd[i] \in Fds
        PROVE  Serves(tab[kid.fd[i]], kid.files[i].addr)
    <3>1. i \in kid.todo /\ i # k /\ k <= i /\ i \in OwnFiles(kid) /\ i \in Nat
      BY <1>1, <1>2, <1>6
    <3>2. Serves(kid.tab[kid.fd[i]], kid.files[i].addr) /\ kid.tab[kid.fd[i]] # "closed"
      BY <2>0, <2>5, <2>7, <3>1 DEF PlacedRight
    <3>3. kid.fd[i] # key /\ kid.fd[i] # kid.fd[k]
      BY <1>1, <1>3, <2>2, <2>7, <3>1
    <3>4. kid.fd[i] # tfd
      BY <3>2, <3>3
    <3> QED BY <2>4, <2>7, <3>2, <3>3, <3>4
  <2> QED BY <1>6, <2>6, <2>7 DEF PlacedRight
<1>11. KidOK(new)
  BY <1>1, <1>6, <1>7, <1>9, <1>10 DEF KidOK
<1> QED BY <1>5, <1>11 DEF new, tab

\* Replacing one child by a good one, or by none, keeps the others.
LEMMA KidReplaced ==
  ASSUME KidsOK, NEW c \in Children, NEW kid \in KidRecords, KidOK(kid),
         kids' = [kids EXCEPT ![c] = kid]
  PROVE  KidsOK'
  BY DEF KidsOK

LEMMA PlacedIsOK ==
  ASSUME KidsOK, NEW c \in Children, PlaceFile(c)
  PROVE  KidsOK'
<1> DEFINE kid == kids[c]
<1>1. kid \in KidRecords /\ KidOK(kid) /\ kids \in [Children -> KidRecords]
  BY DEF KidsOK
<1>2. CASE Exits(c)
  BY <1>2, NoKidIsOK, KidReplaced DEF Exits
<1>3. CASE ~ Exits(c)
  <2>1. PICK k \in kid.todo :
          /\ \A j \in kid.todo : k <= j
          /\ \/ /\ kid.fd[k] > 0
                /\ kid.fd[k] = kid.files[k].key \/ kid.tab[kid.fd[k]] # "closed"
                /\ Places(c, k, Moved(kid.tab, kid.fd[k], kid.files[k].key))
             \/ /\ kid.fd[k] < 0 /\ Room(kid.tab, 1)
                /\ Places(c, k, Moved(Opened(kid.tab, kid.files[k].addr),
                                      LowestFree(kid.tab), kid.files[k].key))
    BY <1>3 DEF PlaceFile
  <2>2. k \in OwnFiles(kid) /\ Len(kid.fd) = Len(kid.files) /\ kid.st = "opening"
    BY <1>1 DEF KidOK, PlaceFile
  <2>3. /\ kid.files[k].addr \in Addrs \cup {"file"} /\ kid.fd[k] \in Fds \cup {0 - 1}
        /\ kid.tab \in Tables
    BY <1>1, <2>2, FileIs DEF KidRecords
  <2>4. ASSUME NEW tab, Places(c, k, tab)
        PROVE  kids' = [kids EXCEPT ![c] = [kid EXCEPT !.todo = @ \ {k}, !.tab = tab]]
    BY <1>1, <2>4 DEF Places
  <2> HIDE DEF kid
  <2>5. CASE kid.fd[k] > 0
    <3>1. /\ kid.fd[k] \in Fds
          /\ kid.fd[k] = kid.files[k].key \/ kid.tab[kid.fd[k]] # "closed"
          /\ Places(c, k, Moved(kid.tab, kid.fd[k], kid.files[k].key))
      BY <2>1, <2>3, <2>5, FdsAre
    <3> DEFINE new == [kid EXCEPT !.todo = @ \ {k},
                                  !.tab = Moved(kid.tab, kid.fd[k], kid.files[k].key)]
    <3>2. new \in KidRecords /\ KidOK(new)
      BY <1>1, <2>1, <2>2, <2>3, <3>1, MovedIsOK
    <3>3. kids' = [kids EXCEPT ![c] = new]
      BY <2>4, <3>1
    <3> HIDE DEF new
    <3> QED BY <3>2, <3>3, KidReplaced
  <2>6. CASE ~ (kid.fd[k] > 0)
    <3> DEFINE t == Opened(kid.tab, kid.files[k].addr)
               tfd == LowestFree(kid.tab)
               new == [kid EXCEPT !.todo = @ \ {k},
                                  !.tab = Moved(t, tfd, kid.files[k].key)]
    <3>1. /\ kid.fd[k] < 0 /\ Room(kid.tab, 1)
          /\ Places(c, k, Moved(t, tfd, kid.files[k].key))
      BY <2>1, <2>6
    <3>2. /\ tfd \in Fds /\ kid.tab[tfd] = "closed"
          /\ t = [kid.tab EXCEPT ![tfd] = kid.files[k].addr]
      BY <2>3, <3>1, OpenedIs
    <3>3. kids' = [kids EXCEPT ![c] = new]
      BY <2>4, <3>1
    <3> HIDE DEF t, tfd
    <3>4. t \in Tables
      BY <2>3, <3>2 DEF Tables, Others
    <3>5. new \in KidRecords /\ KidOK(new)
      BY <1>1, <2>1, <2>2, <2>3, <3>1, <3>2, <3>4, MovedIsOK
    <3> HIDE DEF new
    <3> QED BY <3>3, <3>5, KidReplaced
  <2> QED BY <2>5, <2>6
<1> QED BY <1>2, <1>3

LEMMA ClosedIsOK ==
  ASSUME KidsOK, NEW c \in Children, CloseAll(c)
  PROVE  KidsOK'
<1> DEFINE kid == kids[c]
           tab == ClosedBut(kid.tab, KeysOf(kid))
           new == [kid EXCEPT !.st = "run", !.tab = tab]
<1>1. /\ kid \in KidRecords /\ KidOK(kid) /\ kids \in [Children -> KidRecords]
      /\ kid.todo = {} /\ kid.st = "opening"
  BY DEF KidsOK, CloseAll
<1>2. kids' = [kids EXCEPT ![c] = new]
  BY <1>1 DEF CloseAll
<1>3. tab \in Tables /\ \A f \in Fds : tab[f] = IF f \in KeysOf(kid) THEN kid.tab[f] ELSE "closed"
  BY <1>1 DEF ClosedBut, Tables, KidRecords, Others
<1> HIDE DEF kid, tab
<1>4. /\ new \in KidRecords /\ new.st = "run" /\ new.tab = tab /\ new.todo = {}
      /\ new.files = kid.files /\ new.fd = kid.fd /\ new.proc = kid.proc
  BY <1>1, <1>3 DEF KidRecords
<1> HIDE DEF new
<1>5. /\ OwnFiles(new) = OwnFiles(kid) /\ KeysOf(new) = KeysOf(kid)
      /\ Clobbers(new) = Clobbers(kid) /\ Placed(new) = Placed(kid)
  BY <1>1, <1>4 DEF OwnFiles, KeysOf, Clobbers, Placed
<1>6. \A j \in Placed(kid) : kid.files[j].key \in KeysOf(kid) /\ kid.files[j].key \in Fds
  BY <1>1, FileIs DEF KidOK, Placed, KeysOf
<1>7. PlacedRight(kid) => PlacedRight(new)
  BY <1>3, <1>4, <1>5, <1>6 DEF PlacedRight
<1>8. KidOK(new)
  BY <1>1, <1>3, <1>4, <1>5, <1>7 DEF KidOK
<1> QED BY <1>2, <1>4, <1>8, KidReplaced

LEMMA KidsStep ==
  ASSUME FdsOK, KidsOK, [Next]_vars
  PROVE  KidsOK'
<1>1. CASE \E c \in Children : KidStep(c)
  <2>1. PICK c \in Children : KidStep(c)
    BY <1>1
  <2>2. CASE Dies(c)
    BY <2>2, NoKidIsOK, KidReplaced DEF Dies
  <2> QED BY <2>1, <2>2, ForkedIsOK, PlacedIsOK, ClosedIsOK DEF KidStep
<1>2. CASE UNCHANGED kids
  BY <1>2 DEF KidsOK
<1>3. CASE \/ OpenLogs \/ OpenLogsFails \/ ScanSockets \/ OpenSocket \/ OpenOwn
           \/ Rotate \/ Rename \/ Reopen \/ ReopenFails \/ ReExec \/ UNCHANGED vars
  <2>1. UNCHANGED kids
    BY <1>3 DEF OpenLogs, OpenLogsFails, ScanSockets, OpenSocket, OpenOwn, Rotate,
                Rename, Reopen, ReopenFails, ReExec, vars
  <2> QED BY <1>2, <2>1
<1> QED BY <1>1, <1>3 DEF Next, KidStep

\* A child that runs has its files on their numbers, or the failed sockets that were
\* taken for them, and nothing else, unless its configuration Clobbers: whatever
\* bossd and the other children do while it is in open_files.
THEOREM ChildFilesCorrect == Spec => []ChildHasItsFiles
<1>1. Init => KidsOK
  BY NoKidIsOK DEF Init, KidsOK
<1>2. FdsOK /\ KidsOK /\ [Next]_vars => KidsOK'
  BY KidsStep
<1>3. KidsOK => ChildHasItsFiles
  <2>1. ASSUME KidsOK, NEW c \in Children, ~ Clobbers(kids[c]), kids[c].st = "run",
               NEW f \in Fds
        PROVE  IF f \in KeysOf(kids[c])
               THEN \E k \in OwnFiles(kids[c]) :
                      /\ kids[c].files[k].key = f
                      /\ Serves(kids[c].tab[f], kids[c].files[k].addr)
               ELSE kids[c].tab[f] = "closed"
    <3>1. /\ PlacedRight(kids[c]) /\ Placed(kids[c]) = OwnFiles(kids[c])
          /\ f \notin KeysOf(kids[c]) => kids[c].tab[f] = "closed"
      BY <2>1 DEF KidsOK, KidOK, Placed
    <3> QED BY <3>1 DEF PlacedRight, KeysOf
  <2> QED BY <2>1 DEF ChildHasItsFiles, HasItsFiles
<1> QED BY <1>1, <1>2, <1>3, DescriptorsInvariant, PTL DEF Spec
=============================================================================
