SPECIFICATION TunnelSpec
CONSTANTS
  Host = {h1}
  Session = {s1}
  Conn = {1, 3}
  Addr = {0, 1}
  Payload <- MCPayload
  MAXIMUM_CLIENTS = 1
  NoSession = NoSession
  HostOf <- MCHostOf
  WantedHost <- MCWantedHost
  AddrOf <- MCAddrOf
  ReadAs <- MCReadAs
  MaxUp = 1
  MaxDown = 0
  MaxInFlight = 1
  MaxLocals = 2
  MaxLocal = 1
  MaxPing = 1
  LocalsMayClose = FALSE
CHECK_DEADLOCK FALSE
INVARIANTS
  QuiescentAgreement
  TableConsistent
PROPERTIES
  NoWrongPacket
  NoUnknownId
