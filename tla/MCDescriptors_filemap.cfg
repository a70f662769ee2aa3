SPECIFICATION Spec
CONSTANTS
  Top = 2
  MaxLogs = 4
  Procs = {"p", "q"}
  Unix = {"A"}
  Tcp = {"B", "D"}
  Dynamic = {"D"}
  Odd = {"B"}
  MayFail = {"A"}
  MaxFd = 10
  Children = {c1}
  Configs <- MCConfigs
CHECK_DEADLOCK FALSE
INVARIANTS MappingIsHonoured
