SPECIFICATION FairSpec
CONSTANTS
  o1 = o1
  o2 = o2
  c1 = c1
  p1 = p1
  k1 = k1
  Objects = {o1, o2}
  Pids = {p1}
  PidOf <- MCOnePid
  Conns = {c1}
  OwnerOf <- MCOwnerOf
  KeyOf <- MCKeyOf
  Nil = Nil
  Intervals = {0, 1, 2}
  MaxKeys = 1
INVARIANTS
  TypeOK
  OnlyOverlapsPanic
  SelectionIsShown
CHECK_DEADLOCK FALSE
PROPERTIES
  EndedProcessesLeave
  SavedIntervalIsUsed
