CONSTANTS
  p1 = p1
  p2 = p2
  Pids = {p1, p2}
  Exes = {"app"}
  NoExe = NoExe
  Launcher = Launcher
  MaxTries = 2
  Uses <- MCUses
  Parents <- MCParents
  MaxCalls <- MCCalls
SPECIFICATION FairSpec
INVARIANT TypeOK
INVARIANT HookFindsItsConfiguration
INVARIANT StoppedProcessesAreDirect
PROPERTY TargetsAreFound
CHECK_DEADLOCK FALSE
