CONSTANTS
  host = host
  remote = remote
  remote2 = remote2
  p1 = p1
  p2 = p2
  p3 = p3
  Addrs = {host, remote, remote2}
  UdpPorts = {p1, p2, p3}
  Clients <- MCClients
  Strangers <- MCStrangers
  SendsTo <- MCSendsTo
  Dests = {remote, remote2}
  Nobody = Nobody
  MaxSessions = 2
  WaitLimit = 3
  Timeout = 0
  MaxQueue = 1
SPECIFICATION Spec
INVARIANT RedirectedDatagramHasSession
