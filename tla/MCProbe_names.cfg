SPECIFICATION Spec
CONSTANTS
  p1 = p1
  Threads = {t1, t2}
  Procs = {p1}
  ProcOf <- MCProcOf
  FDs = {2, 3, 4}
  MaxEntries = 1
  Before = {0, 8}
  Untraced = TRUE
  Exits = TRUE
  MaxCalls = 4
SYMMETRY Symmetry
INVARIANTS
  TypeOK
  TransfersNameTheirDescriptor
CHECK_DEADLOCK FALSE
