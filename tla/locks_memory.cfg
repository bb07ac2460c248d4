SPECIFICATION Spec
CONSTANTS
  Threads = {t1, t2}
  Paths = {p1, p2}
  Objs = {o1, o2}
  Tokens = {k1, k2, k3}
  NoThread = NoThread
  NoPath = NoPath
  NoObj = NoObj
  NoTok = NoTok
  Freed = Freed
  Ops = {"open", "opentrunc", "create", "release", "write", "truncate", "chmod", "unlink", "rename", "copy", "unmount"}
  Faults = {"unapplied", "applied", "416", "oom", "expire"}
  Solo = {"release"}
  MaxOpen = 2
  MaxHold = 0
SYMMETRY Symmetry
INVARIANTS TypeOK RecordsOwned
CHECK_DEADLOCK FALSE
