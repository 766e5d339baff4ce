SPECIFICATION Spec
CONSTANTS
  c1 = c1
  c2 = c2
  c3 = c3
  w1 = w1
  w2 = w2
  Nobody = Nobody
  Calls = {c1, c2}
  After <- AtOnce
  Windows = {w1}
  Sessions = 1
  Faults = {}
CHECK_DEADLOCK FALSE
INVARIANTS
  SuccessIsMine
