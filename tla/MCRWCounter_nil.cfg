SPECIFICATION Spec
CONSTANTS
  SnapShotCount = 2
  Modulus = 3
  Sizes = {1}
  Readers = {r1}
  MaxTime = 2
  MaxTakes = 2
INVARIANTS
  CallbackGetsValue
