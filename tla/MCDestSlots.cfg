SPECIFICATION FairSpec
CONSTANTS
  c1 = c1
  c2 = c2
  c3 = c3
  c4 = c4
  k1 = k1
  k2 = k2
  b1 = b1
  NoInput = NoInput
  Conns <- MCFour
  Keys = {k1}
  Buttons = {}
  Names <- MCNames
  KeycodeOf <- MCKeycodeOf
  Uses <- MCUses
  UidOf <- MCUidOf
  GidOf <- MCGidOf
  AllowUids = {1000}
  AllowGids = {100, 101}
  MaxConns = 2
  BackendFaults = FALSE
  MaxRequests = 2
  MaxCrashes = 1
INVARIANTS
  SlotsCountServed
  OrphansNeedFailure
PROPERTIES
  EveryConnectionEnds
  InputSettles
