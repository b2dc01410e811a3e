SPECIFICATION Spec
CONSTANTS
  MaxProcesses = 5
  PidLimit = 6
  StackBlocks = 5
  ExitlogSize = 1
  MaxPerUser = 3
  ReservedForRoot = 0
  Users = {}
  MaxSleep = 1
  Ring0Ops = {"create"}
  Retire = {}
INVARIANT PidNamesOne
