SPECIFICATION Spec
CONSTANTS
  Stream <- MCStreamOfPlayer
  Foreign = {}
  ReadSizes = {8192}
CHECK_DEADLOCK FALSE
INVARIANT NothingStuck
