CONSTANTS
  e1 = e1
  d1 = d1
  d2 = d2
  d3 = d3
  self = self
  p1 = p1
  browser = browser
  engine = engine
  Endpoints = {e1}
  Dests = {d1, d2, d3}
  Pids = {self, p1}
  Self = self
  NoPid = NoPid
  Programs = {browser, engine}
  Engine = engine
  Unknown = Unknown
  Rules <- MCRules
  ConnSize = 1
  ConnWindow = 1
  ConnTtl = 2
  ConnHome <- MCConnHome
  ProcSize = 1
  ProcWindow = 1
  ProcTtl = 1
  ProcHome <- MCProcHome
  DecSize = 2
  DecWindow = 2
  DecTtl = 3
  DecHome <- MCDecHome
  Free = Free
SPECIFICATION Spec
INVARIANT OwnTrafficForwarded
