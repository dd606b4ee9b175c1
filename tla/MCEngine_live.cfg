SPECIFICATION LiveSpec
CONSTANTS
  p1 = p1
  f1 = f1
  f2 = f2
  i1 = i1
  i2 = i2
  here = here
  lo = lo
  eth = eth
  Workers = {w1, w2}
  Pids = {p1}
  FDs = {f1}
  FDTypes = {"unknown"}
  Sizes = {1}
  Inodes = {i1}
  NoInode = NoInode
  Addresses = {here, lo}
  Loopback = {lo}
  Torn = Torn
  Ifaces = {}
  NoIface = NoIface
  IfaceOf <- MCNoIfaceOf
  MaxEvents = 2
  IdleTimeout = 0
INVARIANTS
  PassCoversConnections
  IdleProcessHasIdleConnections
PROPERTIES
  HandlersFinish
  TablesDrain
