SPECIFICATION Spec
CONSTANTS
  MaxProcesses = 4
  PriorityMax = 3
  AgingTicks = 1
  RRSliceTicks = 2
  RtPercent = 50
  RlimitNice = 0
  RlimitRtprio = 0
  Ring0 = {1}
  MaxSleep = 1
  Worlds <- BothWorlds
  Uid <- Owners
INVARIANTS TypeOK ChoiceIsBest AgingBound RtBudget
PROPERTIES BetterTakesOver FifoKeepsCpu
