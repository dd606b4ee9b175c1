SPECIFICATION Spec
CONSTANTS
  c1 = c1
  c2 = c2
  i1 = i1
  i2 = i2
  remote = remote
  loopback = loopback
  other = other
  Connections = {c1, c2}
  Inodes = {i1, i2}
  Lines <- MCLines
  Loopback = {loopback}
  Found = {"tcp", "tcp6", "udp"}
  Nil = Nil
  MaxChanges = 2
SYMMETRY Symmetry
INVARIANTS
  TypeOK
  InfosAreWhole
  ScansAgreeWithFiles
CHECK_DEADLOCK FALSE
