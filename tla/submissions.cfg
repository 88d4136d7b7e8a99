SPECIFICATION Spec
CONSTANTS
  t1 = t1
  t2 = t2
  x1 = x1
  a1 = a1
  a2 = a2
  Tabs = {t1, t2}
  Ip <- MCIp
  Admins = {a1, a2}
  None = None
  Window = 2
  MaxTime = 2
  MaxPages = 2
  MaxPosts = 3
INVARIANTS TypeOK CloseOnesOverlap DeletedAreLogged
CHECK_DEADLOCK FALSE
SYMMETRY Alike
