SPECIFICATION Spec
CONSTANTS
  Threads = {t1}
  Paths = {p1}
  Objs = {o1, o2}
  Tokens = {k1, k2, k3}
  NoThread = NoThread
  NoPath = NoPath
  NoObj = NoObj
  NoTok = NoTok
  Freed = Freed
  Ops = {"open", "release", "write"}
  Faults = {"416"}
  Solo = {}
  MaxOpen = 1
  MaxHold = 1
PROPERTY OpsDrain
CHECK_DEADLOCK FALSE
