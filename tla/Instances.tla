----------------------------- MODULE Instances -----------------------------
(***************************************************************************)
(* What a supervisor promises about the instances of a process, whatever   *)
(* its lists and counters: an instance is given an index once, when it is  *)
(* started, the least one not in use; it is known under that index until   *)
(* its death is collected; a supervisor that lost its memory takes an      *)
(* instance back under the index the instance was given or not at all.     *)
(*                                                                         *)
(* This is the "@(seq0)" of the configuration file.  Procman states that   *)
(* the process table implements it.                                        *)
(***************************************************************************)
EXTENDS Integers

CONSTANTS Procs, Pids

VARIABLES
  slots,  \* the <<index, pid>> pairs the supervisor knows, of each process
  given   \* the <<process, index>> each pid was started with, or Nothing

vars == <<slots, given>>

Nothing == <<>>

Used(S) == {s[1] : s \in S}
\* The least free index is 0 or the one after a used one.
Candidates(S) == {0} \cup {s[1] + 1 : s \in S}
LeastFree(S, i) == i \notin Used(S) /\ 0..(i - 1) \subseteq Used(S)

Init ==
  /\ slots = [p \in Procs |-> {}]
  /\ given = [q \in Pids |-> Nothing]

\* The slots in gone are given up, their pids are free again.
PidsOf(gone) == {s[2] : s \in gone}
Without(p, gone) == [slots EXCEPT ![p] = @ \ gone]
Freed(Q) == [q \in Pids |-> IF q \in Q THEN Nothing ELSE given[q]]

\* A pid nobody has becomes an instance, in the step that gives up gone.
StartAfter(p, gone) ==
  \E q \in Pids, i \in Candidates(slots[p] \ gone) :
    /\ Freed(PidsOf(gone))[q] = Nothing
    /\ LeastFree(slots[p] \ gone, i)
    /\ slots' = [slots EXCEPT ![p] = (@ \ gone) \cup {<<i, q>>}]
    /\ given' = [Freed(PidsOf(gone)) EXCEPT ![q] = <<p, i>>]

Start(p) == StartAfter(p, {})

\* The death of a known instance is collected, and it may be replaced at once.
End(p, s) == slots' = Without(p, {s}) /\ given' = Freed({s[2]})
Replace(p, s) == StartAfter(p, {s})

\* The death of an instance that is not known is collected.
EndUnknown(q) ==
  /\ given[q] # Nothing
  /\ \A p \in Procs : \A s \in slots[p] : s[2] # q
  /\ given' = Freed({q}) /\ UNCHANGED slots

\* The supervisor loses its memory, and takes an instance back.
Lose == slots' = [p \in Procs |-> {}] /\ UNCHANGED given
TakeBack(q) ==
  /\ given[q] # Nothing
  /\ slots' = [slots EXCEPT ![given[q][1]] = @ \cup {<<given[q][2], q>>}]
  /\ UNCHANGED given

Next ==
  \/ \E p \in Procs : Start(p)
  \/ \E p \in Procs : \E s \in slots[p] : End(p, s) \/ Replace(p, s)
  \/ \E q \in Pids : EndUnknown(q)
  \/ Lose
  \/ \E q \in Pids : TakeBack(q)

Spec == Init /\ [][Next]_vars
=============================================================================
