CONSTANTS
  a = a
  b = b
  Procs = {a}
  Pids = {p1, p2, p3}
  Configs <- ConfMinTwo
  Commands = {}
  ForkMayFail = FALSE
  Signals = {}
  SuccessfulRun = 1
  SmallRestart = 1
  BigRestart = 2
  Retries = 1
SPECIFICATION Spec
SYMMETRY Symmetry
INVARIANTS MinimumKept
