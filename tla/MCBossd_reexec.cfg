CONSTANTS
  a = a
  b = b
  Procs = {a}
  Pids = {p1, p2, p3}
  Configs <- ConfOneOrNone
  Commands = {"incr", "explode"}
  ForkMayFail = FALSE
  Signals = {"INT", "QUIT"}
  SuccessfulRun = 1
  SmallRestart = 0
  BigRestart = 0
  Retries = 0
SPECIFICATION Spec
SYMMETRY Symmetry
CHECK_DEADLOCK FALSE
INVARIANTS ListsSorted TrackedAreChildren NoLostChild DuplicateOnlyByOrphan NoLostDeath ExitLeavesNoChild
PROPERTIES KeepsIndices
