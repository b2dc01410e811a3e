SPECIFICATION FairSpec
CONSTANTS
  Addrs <- MCAddrs
  Home <- MCHomeLo
  Quota = 4
  Modulus = 32
  Mss = 2
  BufSize = 2
  SynRetries = 1
  DataRetries = 1
  MaxProbes = 1
  ChallengeAcks = 1
  Isns <- MCIsns
  NetCap = 2
  Worlds <- MCLive
PROPERTY OrphanFreed
CHECK_DEADLOCK FALSE
