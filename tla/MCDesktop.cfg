SPECIFICATION Spec
CONSTANTS
  Text = {"25565", "host:1", "host"}
  Port = {"25565"}
  Address = {"host:1"}
  Default = "25565"
  None = None
  MaxStarts = 3
  MaxVersion = 3
CHECK_DEADLOCK FALSE
INVARIANTS
  TypeOK
  ShownIsUsed
PROPERTIES
  AddressKept
  NeverDowngrades
