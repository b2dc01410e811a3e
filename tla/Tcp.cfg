SPECIFICATION Spec
CONSTANTS
  Addrs <- MCAddrs
  Home <- MCHome
  Quota = 4
  Modulus = 32
  Mss = 2
  BufSize = 2
  SynRetries = 1
  DataRetries = 1
  MaxProbes = 1
  ChallengeAcks = 1
  Isns <- MCIsns
  NetCap = 2
  Worlds <- MCWorlds
INVARIANTS TypeOK StreamInOrder EndAfterAll AckedArrived FlightFits ClockRuns PendingExact
CHECK_DEADLOCK FALSE
