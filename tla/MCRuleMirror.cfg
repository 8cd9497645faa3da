CONSTANTS
  app = app
  other = other
  hostA = hostA
  hostB = hostB
  port = port
  px = px
  long = long
  Procs = {app, other}
  Hosts = {hostA, hostB}
  TargetPorts = {port}
  Proxies = {px}
  NoProxy = NoProxy
  Star = Star
  Blank = Blank
  Cut <- MCCut
  Bodies <- MCBodies
  MaxId = 3
  MaxMirror = 4
SPECIFICATION Spec
INVARIANT TypeOK
INVARIANT MirrorAgrees
INVARIANT NewestRuleDecides
PROPERTY OnlyTouchedFlowsChange
