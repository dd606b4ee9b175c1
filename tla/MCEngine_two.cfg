SPECIFICATION TwoSpec
CONSTANTS
  p1 = p1
  f1 = f1
  f2 = f2
  i1 = i1
  i2 = i2
  here = here
  lo = lo
  eth = eth
  Workers = {w1, w2}
  Pids = {p1}
  FDs = {f1, f2}
  FDTypes = {"socket"}
  Sizes = {1}
  Inodes = {i1, i2}
  NoInode = NoInode
  Addresses = {here, lo}
  Loopback = {lo}
  Torn = Torn
  Ifaces = {eth}
  NoIface = NoIface
  IfaceOf <- MCIfaceOf
  MaxEvents = 2
  IdleTimeout = 0
CONSTRAINT FirstPass
SYMMETRY Symmetry
INVARIANTS
  TypeOK
  OnlyResolvedTrafficCounted
  ProcessTotalsAgree
  InterfaceTotalsAgree
  ScansOnlyUnknownInodes
  WaitsEnd
PROPERTIES
  EntriesNeverReplaced
