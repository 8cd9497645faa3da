CONSTANTS
  Addresses = {"one", "two"}
  NoAddress = "proxy"
  Programs = {"a", "b", "c", "d", "e", "f", "g", "h", "i", "app"}
  Default = "app"
  InitialStores <- Stores
  Typed = {"app"}
  Touched = {9}
  Cuts = {1, 9}
  MaxTests = 2
  MaxClicks = 4
SPECIFICATION Spec
INVARIANT StartedServerWasTested
CHECK_DEADLOCK FALSE
