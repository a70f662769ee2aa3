CONSTANTS
  a = a
  b = b
  Procs = {a, b}
  Pids = {p1, p2}
  Configs <- ConfTwo
  Commands = {"restart", "shutdown"}
  ForkMayFail = TRUE
  Signals = {"TERM"}
  SuccessfulRun = 1
  SmallRestart = 1
  BigRestart = 2
  Retries = 0
SPECIFICATION LiveSpec
CHECK_DEADLOCK FALSE
PROPERTIES ShutdownCompletes CrashIsRepaired ZombieIsReaped
