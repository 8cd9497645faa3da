CONSTANTS
  Clients = {"socks5", "http", "socks6", "associate", "hook", "hook6", "test"}
  MaxData = 2
SPECIFICATION FairSpec
INVARIANT TypeOK
INVARIANT MethodWasOffered
INVARIANT EveryByteArrives
PROPERTY ConnectReturns
PROPERTY HandlerEnds
CHECK_DEADLOCK FALSE
