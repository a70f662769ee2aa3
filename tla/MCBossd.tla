------------------------------ MODULE MCBossd ------------------------------
(* Instances of Bossd for TLC *)
EXTENDS Bossd

CONSTANTS a, b   \* process names

\* one process, one or two instances, that may also leave the configuration
OneConf == [names |-> {a}, min |-> [p \in Procs |-> 1], max |-> [p \in Procs |-> 2]]
ConfOne == {OneConf}
ConfOneOrNone == {OneConf, [OneConf EXCEPT !.names = {}]}
\* two processes of a single instance
TwoConf == [names |-> {a, b}, min |-> [p \in Procs |-> 1],
            max |-> [p \in Procs |-> 1]]
ConfTwo == {TwoConf}
\* a process of two instances
ConfMinTwo == {[names |-> {a}, min |-> [p \in Procs |-> 2],
                max |-> [p \in Procs |-> 1]]}
RunCommands == {"restart", "stop", "decr", "min", "norestart",
                "signal"} \cup GrowCommands
Symmetry == Permutations(Pids)
=============================================================================
