SPECIFICATION LiveSpec
CONSTANTS
  c1 = c1
  c2 = c2
  c3 = c3
  w1 = w1
  w2 = w2
  Nobody = Nobody
  Calls = {c1, c2, c3}
  After <- OneByOne
  Windows = {w1}
  Sessions = 2
  Faults = {"kill", "emit"}
CHECK_DEADLOCK FALSE
INVARIANTS
  AnswerIsTrue
  LeftoversHarmless
PROPERTIES
  ObeyedOnce
  CommandsNoticed
  EveryCallEnds
