SPECIFICATION Spec
CONSTANTS
  Host = {h1}
  Session = {s1}
  Conn = {1, 2, 3}
  Addr = {0, 1}
  Payload = {"data"}
  MAXIMUM_CLIENTS = 0
  NoSession = NoSession
  HostOf <- MCHostOf
  WantedHost <- MCWantedHost
  AddrOf <- MCAddrOf
  MaxUp = 1
  MaxDown = 1
  MaxInFlight = 1
CHECK_DEADLOCK FALSE
INVARIANTS
  TypeOK
  EntriesOwned
  AddressInv
PROPERTY DataUnderOwnId
VIEW ServerView
