----------------------------- MODULE MCBossrun -----------------------------
(* Instances of Bossrun for TLC *)
EXTENDS Bossrun

CONSTANTS a, b   \* process names

\* two processes of one instance, or one process of two
ConfOf(names, n) ==
  [names |-> names, min |-> [p \in Procs |-> n], max |-> [p \in Procs |-> n]]
TwoInstances == {ConfOf({a, b}, 1), ConfOf({a}, 2)}
StopOnTerm == [failfast : BOOLEAN, restart : BOOLEAN, stop : {{"TERM"}}]
=============================================================================
