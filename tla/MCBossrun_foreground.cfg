CONSTANTS
  a = a
  b = b
  Procs = {a, b}
  Pids = {p1, p2}
  Configs <- TwoInstances
  Commands = {"restart", "norestart", "start", "incr", "shutdown"}
  ForkMayFail = TRUE
  Signals = {"TERM"}
  Options <- StopOnTerm
SPECIFICATION LiveSpec
CHECK_DEADLOCK FALSE
INVARIANTS TypeOK ExitLeavesNoChild MinimumKept
PROPERTIES KeepsIndices OnlyMarkedRestart StopCompletes FailfastEnds
