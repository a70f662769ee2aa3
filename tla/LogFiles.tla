------------------------------ MODULE LogFiles ------------------------------
(***************************************************************************)
(* The log of bossd and its numbered backups (log.c): the files under the  *)
(* names log, log.1, log.2, ... and the rotation that renames them one by  *)
(* one, each of which may be the last before bossd is re-exec'd.           *)
(***************************************************************************)
EXTENDS Integers, FiniteSets

CONSTANTS
  Top,      \* the greatest rotation_backups of any configuration
  MaxLogs   \* how many log files are ever created (a bound)

ASSUME LogsAssumption == Top \in Nat \ {0} /\ MaxLogs \in Nat

VARIABLES
  disk,     \* what has the name log.i (log.0 is the log itself), 0 is nothing
  writing,  \* the file logfile is open on, 0 before openlogs
  moving    \* the i of rotatelogs, 0 outside of it

logVars == <<disk, writing, moving>>

\* Files are numbered in the order of their creation.
Exists(i) == disk[i] # 0
Created == {disk[i] : i \in 0..Top} \cup {writing}
Fresh == 1 + CHOOSE n \in Created : \A m \in Created : m <= n

LogInit == disk = [i \in 0..Top |-> 0] /\ writing = 0 /\ moving = 0

\* open(O_CREAT) of openlogs and reopenlogs
OpensLog ==
  /\ Exists(0) \/ Fresh <= MaxLogs
  /\ disk' = [disk EXCEPT ![0] = IF Exists(0) THEN @ ELSE Fresh]
  /\ writing' = disk'[0]

\* mutant: the backups are not moved on
AlwaysFirst(n) == 1
\* The number the first rename is to: the first that nothing has.  When they all
\* are taken it is the last one (the code begins with rename(log.n, log.n)).
FirstTarget(n) ==
  CHOOSE i \in 1..n : (~ Exists(i) \/ i = n) /\ \A j \in 1..(i - 1) : Exists(j)

RotateStart(n) ==
  /\ moving = 0
  /\ moving' = FirstTarget(n)
  /\ UNCHANGED <<disk, writing>>

\* mutant: the log itself takes the number
LogItself(i) == 0
Source(i) == i - 1

\* rename(log.(i-1), log.i): it fails when there is nothing to rename.
CanRename == moving > 0 /\ Exists(Source(moving))
Renamed ==
  [disk EXCEPT ![moving] = disk[Source(moving)], ![Source(moving)] = 0]

\* Backups are in the order of their age, also between two renames and after
\* any number of rotations that were cut off; and what bossd writes to is the
\* newest of the files, although it goes on with the old one when the new one
\* cannot be opened.
LogsInOrder ==
  /\ \A i, j \in 0..Top : i < j /\ Exists(i) /\ Exists(j) => disk[i] > disk[j]
  /\ writing # 0 => \A i \in 0..Top : disk[i] <= writing

\* A log is lost only as the last of the backups to be kept, when there are as
\* many as that: a rotation that was cut off costs no log.
OnlyOldestLost(n) ==
  \A i \in 0..Top :
    Exists(i) /\ (\A j \in 0..Top : disk'[j] # disk[i]) =>
      i = n /\ \A j \in 1..n : Exists(j)
=============================================================================
