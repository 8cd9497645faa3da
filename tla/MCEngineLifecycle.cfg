CONSTANTS
  t1 = t1
  t2 = t2
  s1 = s1
  s2 = s2
  h1 = h1
  PortRange = 2
  Threads = {t1, t2}
  Servers = {s1, s2}
  Hosts = {h1}
  NoHost = NoHost
  NoPort = NoPort
  NoThread = NoThread
SPECIFICATION FairSpec
INVARIANT TypeOK
INVARIANT PacketsReachTheRelays
INVARIANT OffIsQuiet
INVARIANT OneThreadPerPart
PROPERTY CallsReturn
PROPERTY ImplementsService
