SPECIFICATION FairSpec
CONSTANTS
  p1 = p1
  p2 = p2
  p3 = p3
  u = u
  v = v
  root = root
  NoProc = NoProc
  NoUser = NoUser
  Users = {u, v, root}
  RunWriters = {root}
  LockName <- MCLockName
  ServerOf <- MCServerOf
  MaxTries = 2
  Procs <- MCProcs
  UserOf <- PathUserOf
  DisplayVar <- PathDisplayVar
  FlagsOf <- MCFlagsOf
  Path <- MCPath
  ParentOwner <- PathParentOwner
PROPERTY StartEnds
