SPECIFICATION Spec
CONSTANTS
  Nil = Nil
  Unused = Unused
  a = a
  b = b
  v1 = v1
  v2 = v2
SYMMETRY Alike
CHECK_DEADLOCK FALSE
INVARIANTS
  NoOrphanIsLeft
  SuccessIsMine
  SavedThingsAreUsable
  AgentGetsWhatItAskedFor
  AnswersAreWholeOrStopped
PROPERTIES
  CallsAreAtomic
  FailureRestoresSecrets
  ConnectionsLeadWhereSaved
