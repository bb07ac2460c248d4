SPECIFICATION Spec
CONSTANTS
  Paths = {p1, p2}
  NoFile = NoFile
  MaxLen = 6
  Width = 2
  Faults = {"416", "403", "length", "pending", "unapplied", "applied"}
  MaxFaults = 1
SYMMETRY Symmetry
INVARIANTS TypeOK HealthyWriteSucceeds WriteExact FailedWriteContained TruncateEmpties
  NoClobber SymlinkAllOrNothing CopyWhole
