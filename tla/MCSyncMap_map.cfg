SPECIFICATION Spec
CONSTANTS
  Keys = {k1, k2}
  Threads = {t1, t2}
  Ops = {"Load", "Store", "LoadOrStore", "LoadAndDelete", "Range"}
  MaxCalls = 6
SYMMETRY Symmetry
INVARIANTS
  EntriesAsDocumented
  RangeVisitsAll
  LockIsReleased
PROPERTIES
  ImplementsMap
CHECK_DEADLOCK FALSE
