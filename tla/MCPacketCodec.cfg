SPECIFICATION Spec
CONSTANTS
  Stream <- MCStream
  Foreign <- MCForeign
  ReadSizes = {1, 2, 37, 8192}
CHECK_DEADLOCK FALSE
INVARIANTS
  TypeOK
  PacketsWhole
  NeverRefused
  NothingStuck
PROPERTY EveryPacketEats
