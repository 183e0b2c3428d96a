SPECIFICATION Spec
CONSTANTS
  c1 = c1
  c2 = c2
  c3 = c3
  c4 = c4
  k1 = k1
  k2 = k2
  b1 = b1
  NoInput = NoInput
  Conns <- MCPair
  Keys = {k1, k2}
  Buttons = {b1}
  Names <- MCNames
  KeycodeOf <- MCKeycodeOf
  Uses <- MCUses
  UidOf <- MCUidOf
  GidOf <- MCGidOf
  AllowUids = {1000}
  AllowGids = {100, 101}
  MaxConns = 2
  BackendFaults = TRUE
  MaxRequests = 4
  MaxCrashes = 1
INVARIANTS
  EveryDownInputIsOwned
  ReleaseOutcomeIsExact
  PrivateHoldIsDown
PROPERTIES
  ImplementsLedger
  LiftsOnlyOwnHolds
