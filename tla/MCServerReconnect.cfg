SPECIFICATION FairSpec
CONSTANTS
  Host = {h1}
  Session = {s1, s2}
  Conn = {1}
  Addr = {1}
  Payload = {"data"}
  MAXIMUM_CLIENTS = 0
  NoSession = NoSession
  HostOf <- MCHostOf
  WantedHost <- MCWantedHost
  AddrOf <- MCAddrOf
  MaxUp = 0
  MaxDown = 0
  MaxInFlight = 1
CHECK_DEADLOCK FALSE
INVARIANT RegisterLive
PROPERTIES
  ReplacedSessionEnds
  PlayersReleased
