SPECIFICATION FairSpec
CONSTANTS
  c1 = c1
  c2 = c2
  c3 = c3
  k1 = k1
  b1 = b1
  b8 = b8
  Conns = {c1, c2, c3}
  NoConn = NoConn
  Keys = {k1}
  NoKey = NoKey
  LowButtons = {b1}
  HighButtons = {b8}
  NoButton = NoButton
  Commands <- MCCommands
  ScreenW = 3
  ScreenH = 2
  HalfInt = 8
  MaxConns = 2
  MaxLines = 2
INVARIANTS
  TypeOK
  SlotsMatchServed
  ModclickIsWhole
  IdleIsLifted
PROPERTIES
  AtomicCommands
  GoneClientIsCleanedUp
  CommandsComplete
