SPECIFICATION Spec
CONSTANTS
  p1 = p1
  p2 = p2
  p3 = p3
  u = u
  v = v
  root = root
  NoProc = NoProc
  NoUser = NoUser
  Users = {u, v, root}
  RunWriters = {root}
  LockName <- MCLockName
  ServerOf <- MCServerOf
  MaxTries = 2
  Procs <- TwoProcs
  UserOf <- TwoUserOf
  DisplayVar <- TwoDisplayVar
  FlagsOf <- TwoFlagsOf
  Path <- TwoPath
  ParentOwner <- TwoParentOwner
INVARIANT OneAuthorityPerDisplay
