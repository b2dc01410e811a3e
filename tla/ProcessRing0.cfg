SPECIFICATION Spec
CONSTANTS
  MaxProcesses = 4
  PidLimit = 5
  StackBlocks = 3
  ExitlogSize = 1
  MaxPerUser = 2
  ReservedForRoot = 0
  Users = {1}
  MaxSleep = 1
  Ring0Ops = {"exit", "kill", "su"}
  Retire = {"rlimit", "overflow"}
INVARIANTS SchedulerSound StackSafe
PROPERTY QuotaKept
