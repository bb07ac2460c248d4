SPECIFICATION Spec
CONSTANTS
  Threads = {t1, t2, t3}
  Paths = {p1, p2}
  Objs = {o1, o2, o3}
  Tokens = {k1, k2, k3, k4}
  NoThread = NoThread
  NoPath = NoPath
  NoObj = NoObj
  NoTok = NoTok
  Freed = Freed
  Ops = {"open", "release", "write", "copy", "create", "unmount"}
  Faults = {}
  Solo = {"release", "create"}
  MaxOpen = 3
  MaxHold = 0
SYMMETRY Symmetry
INVARIANTS LockedWhileOpen CountMatches NoStrayLock NoSpuriousError
