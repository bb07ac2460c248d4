SPECIFICATION Spec
CONSTANTS
  Threads = {t1, t2}
  Paths = {p1}
  Objs = {o1, o2, o3}
  Tokens = {k1, k2, k3}
  NoThread = NoThread
  NoPath = NoPath
  NoObj = NoObj
  NoTok = NoTok
  Freed = Freed
  Ops = {"open", "release"}
  Faults = {}
  Solo = {}
  MaxOpen = 1
  MaxHold = 0
INVARIANT LockedWhileOpen
