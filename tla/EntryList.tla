----------------------------- MODULE EntryList -----------------------------
(***************************************************************************)
(* The list of the instances of one process (process_entries_t, entry.h):  *)
(* a sequence of entries that the code keeps in the order of their         *)
(* instance_index.  The circular queue of <sys/queue.h> is a sequence here *)
(* and a pointer into it is a position; position Len(s)+1 is the NULL      *)
(* insertion point, which stands for the tail.                             *)
(***************************************************************************)
EXTENDS Integers, SequencesExt

Dead == {"CRASH", "STOP", "RESTART"}

\* An entry as do_fork and parse_entry fill it in; start_time is kept with the
\* child in Procman and the config and all pointers are the group it is in.
Entry(pid, idx) == [pid |-> pid, dead |-> "CRASH", idx |-> idx]

\* A definition that is said to be a mutant is what a bug would put in place of
\* the one below it: the runs must tell the two apart.  No other uses it.

\* mutants: idx starts below zero; the new index is the number of instances
SlotIndexFromMinusOne(s, k) == IF k = 1 THEN 0 - 1 ELSE s[k - 1].idx + 1
SlotIndexByCount(s, k) == Len(s)
\* The value of the variable idx of do_fork when its loop looks at position k.
SlotIndex(s, k) == IF k = 1 THEN 0 ELSE s[k - 1].idx + 1

\* mutant: the gaps in the list are not looked for
ForkStopsAtTail(s, k) == k = Len(s) + 1
\* do_fork breaks out of its loop at the first entry whose index is above idx
\* and inserts before it, or runs to the end and inserts at the tail.
ForkStopsAt(s, k) ==
  /\ \A j \in 1..(k - 1) : s[j].idx <= SlotIndex(s, j)
  /\ k <= Len(s) => s[k].idx > SlotIndex(s, k)

\* mutant: recovered entries are appended
RecoverAtTail(s, i, k) == k = Len(s) + 1
\* parse_entry inserts before the first entry with a greater index.
RecoverStopsAt(s, i, k) ==
  /\ \A j \in 1..(k - 1) : s[j].idx <= i
  /\ k <= Len(s) => s[k].idx > i

Sorted(s) == \A i, j \in DOMAIN s : i < j => s[i].idx <= s[j].idx

\* the loops of procman.c that set entry->dead, at the positions in K
MarkedAt(s, K, dead) ==
  [k \in DOMAIN s |-> IF k \in K THEN [s[k] EXCEPT !.dead = dead] ELSE s[k]]
=============================================================================
