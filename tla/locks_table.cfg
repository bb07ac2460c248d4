SPECIFICATION Spec
CONSTANTS
  Threads = {t1, t2}
  Paths = {p1, p2, p3}
  Objs = {o1, o2, o3}
  Tokens = {k1, k2, k3}
  NoThread = NoThread
  NoPath = NoPath
  NoObj = NoObj
  NoTok = NoTok
  Freed = Freed
  Ops = {"open", "release", "write", "truncate", "rename"}
  Faults = {"unapplied"}
  Solo = {}
  MaxOpen = 1
  MaxHold = 0
SYMMETRY Symmetry
INVARIANTS HeaderCurrent RequestsHoldLock
CHECK_DEADLOCK FALSE
