CONSTANTS
  a = a
  b = b
  Procs = {a}
  Pids = {p1, p2}
  Configs <- ConfOne
  Commands = {"stop", "start"}
  ForkMayFail = FALSE
  Signals = {}
  SuccessfulRun = 1
  SmallRestart = 1
  BigRestart = 2
  Retries = 1
SPECIFICATION Spec
CHECK_DEADLOCK FALSE
PROPERTIES StartMarksForRestart
