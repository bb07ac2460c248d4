SPECIFICATION Spec
CONSTANTS
  Threads = {t1, t2, t3}
  Handles = {h1, h2, h3, h4}
  Nodes = {n1, n2, n3, n4}
  Kinds = {"put", "delete"}
  NoThread = NoThread
  NoHandle = NoHandle
  Null = Null
  Faults = {"oom", "setopt", "stale"}
INVARIANTS TypeOK HandleExclusive CleanRequest PoolIntact
PROPERTIES ImplementsPool RequestsEnd
SYMMETRY Addresses
