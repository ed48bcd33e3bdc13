SPECIFICATION FairSpec
CONSTANTS
  Timeout = 5
  PingEvery = 2
  MaxDelay = 1
  Capacity = 2
  Wrap = 4
  MaxQueue = 1
  MaxBurst = 2
INVARIANTS
  TypeOK
  NeverTimedOutAlive
  DeadlockTakesBothWays
  PingNeverOverstates
PROPERTIES
  DeadNoticed
  DisconnectHeard
