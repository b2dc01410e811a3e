SPECIFICATION Spec
CONSTANTS
  MaxProcesses = 4
  PidLimit = 6
  StackBlocks = 3
  ExitlogSize = 1
  MaxPerUser = 3
  ReservedForRoot = 0
  Users = {}
  MaxSleep = 1
  Ring0Ops = {}
  Retire = {"rlimit"}
INVARIANT NobodyFatherless
