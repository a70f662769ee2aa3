CONSTANTS
  a = a
  b = b
  Procs = {a}
  Pids = {p1, p2}
  Configs <- ConfOne
  Commands = {"incr", "shutdown"}
  ForkMayFail = FALSE
  Signals = {}
  SuccessfulRun = 1
  SmallRestart = 1
  BigRestart = 2
  Retries = 1
SPECIFICATION LiveSpec
CHECK_DEADLOCK FALSE
PROPERTIES ShutdownCompletes
