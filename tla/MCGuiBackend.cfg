SPECIFICATION FairSpec
CONSTANTS
  Panel = {p1, p2}
  MaxRuns = 2
  MaxPlayers = 1
  MaxStats = 2
CHECK_DEADLOCK FALSE
INVARIANTS
  TypeOK
  ActiveIsOwn
PROPERTIES
  DisconnectHitsOwn
  DisconnectEnds
