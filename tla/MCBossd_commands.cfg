CONSTANTS
  a = a
  b = b
  Procs = {a}
  Pids = {p1, p2, p3}
  Configs <- ConfOne
  Commands <- RunCommands
  ForkMayFail = TRUE
  Signals = {"TERM"}
  SuccessfulRun = 1
  SmallRestart = 1
  BigRestart = 2
  Retries = 1
SPECIFICATION Spec
SYMMETRY Symmetry
CHECK_DEADLOCK FALSE
INVARIANTS TypeOK CountersAgree NoGroupForgotten
PROPERTIES StoppingForksNothing ForkTakesLeastIndex GrowsWithinMax StoppedStaysDown RestartIsImmediate
