SPECIFICATION Spec
CONSTANTS
  SnapShotCount = 2
  Modulus = 2
  Sizes = {1}
  Readers = {r1}
  MaxTime = 3
  MaxTakes = 4
INVARIANTS
  TypeOK
  LockedReadIsNewest
PROPERTIES
  ImplementsHistory
