SPECIFICATION Spec
CONSTANTS
  MaxProcesses = 5
  PidLimit = 6
  StackBlocks = 4
  ExitlogSize = 2
  MaxPerUser = 3
  ReservedForRoot = 0
  Users = {}
  MaxSleep = 1
  Ring0Ops = {}
  Retire = {}
INVARIANTS TypeOK SchedulerSound StackSafe PidsUnique ReportedOnce NobodyFatherless
PROPERTY LifeCycle
