CONSTANTS
  c1 = c1
  c2 = c2
  p1 = p1
  d1 = d1
  d2 = d2
  px = px
  gx = gx
  Conns = {c1, c2}
  Ports = {p1}
  Dests = {d1, d2}
  Proxies = {px, gx}
  Port <- MCOnePort
  Dest <- MCDest
  NoProxy = NoProxy
  NoConn = NoConn
  Configs <- MCConfigs
  MaxQueue = 2
  MaxFailures = 1
  MaxStarts = 2
SPECIFICATION FairSpec
INVARIANT TypeOK
INVARIANT HandlerServesItsClient
INVARIANT TrackerAgreesWithClient
PROPERTY ConnectingClientIsAnswered
PROPERTY AbandonedClientIsReset
CHECK_DEADLOCK FALSE
