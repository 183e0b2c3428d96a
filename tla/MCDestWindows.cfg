SPECIFICATION Spec
CONSTANTS
  Conns = {c1, c2}
  Xids = {w1, w2, w3}
  Apps = {a1, a2}
  NoApp = NoApp
  NoConn = NoConn
  NoRef = NoRef
  NoList = NoList
  MaxList = 2
  MaxChanges = 3
  MaxRestarts = 1
INVARIANTS
  TypeOK
  SameGenSameList
  PassedRefSawThisList
  QuietTargetMatches
  ConflictMeansNoMutation
SYMMETRY Symmetry
