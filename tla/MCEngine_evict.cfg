SPECIFICATION Spec
CONSTANTS
  p1 = p1
  f1 = f1
  f2 = f2
  i1 = i1
  i2 = i2
  here = here
  lo = lo
  eth = eth
  Workers = {w1}
  Pids = {p1}
  FDs = {f1}
  FDTypes = {"socket"}
  Sizes = {1}
  Inodes = {i1}
  NoInode = NoInode
  Addresses = {here}
  Loopback = {}
  Torn = Torn
  Ifaces = {eth}
  NoIface = NoIface
  IfaceOf <- MCIfaceOf
  MaxEvents = 3
  IdleTimeout = 0
PROPERTIES
  EvictsOnlyIdle
