SPECIFICATION Spec
CONSTANTS
  p1 = p1
  p2 = p2
  p3 = p3
  u = u
  v = v
  root = root
  NoProc = NoProc
  NoUser = NoUser
  Users = {u, v, root}
  RunWriters = {root}
  LockName <- MCLockName
  ServerOf <- MCServerOf
  MaxTries = 2
  Procs <- MCProcs
  UserOf <- MCUserOf
  DisplayVar <- MCDisplayVar
  FlagsOf <- MCFlagsOf
  Path <- MCPath
  ParentOwner <- MCParentOwner
INVARIANTS
  OneAuthority
  SocketIsServed
