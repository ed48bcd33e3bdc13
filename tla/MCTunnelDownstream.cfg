SPECIFICATION TunnelSpec
CONSTANTS
  Host = {h1}
  Session = {s1}
  Conn = {1, 3}
  Addr = {0, 1}
  Payload <- MCPayload
  MAXIMUM_CLIENTS = 0
  NoSession = NoSession
  HostOf <- MCHostOf
  WantedHost <- MCWantedHost
  AddrOf <- MCAddrOf
  ReadAs <- MCReadAs
  MaxUp = 0
  MaxDown = 0
  MaxInFlight = 1
  MaxLocals = 2
  MaxLocal = 1
  MaxPing = 0
  LocalsMayClose = TRUE
CHECK_DEADLOCK FALSE
INVARIANT DownstreamIntact
