SPECIFICATION Spec
CONSTANTS
  Addr = {a1, a2, a3, a4}
  Conn = {c1, c2}
  MAXIMUM_CLIENTS = 2
INVARIANTS
  TypeOK
  MapsMirror
PROPERTY ImplementsClientTable
