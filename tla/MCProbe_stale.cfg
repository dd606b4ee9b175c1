SPECIFICATION Spec
CONSTANTS
  p1 = p1
  Threads = {t1, t2}
  Procs = {p1}
  ProcOf <- MCProcOf
  FDs = {2, 3, 4}
  MaxEntries = 12
  Before = {8}
  Untraced = FALSE
  Exits = FALSE
  MaxCalls = 4
INVARIANTS
  DropsOnlyFiles
