SPECIFICATION AllSpec
CONSTANTS
  a = a
  b = b
  v = v
  w = w
  x = x
  desktop = desktop
  mcp = mcp
  Ids = {a}
  NoAlias = NoAlias
  NoMark = NoMark
  NoSecret = NoSecret
  NoRef = NoRef
  NoId = NoId
  None = None
  Untouched = Untouched
  Procs = {desktop, mcp}
  Aliases = {}
  Marks = {NoMark, x}
  Values = {w}
  Calls <- SameCalls
  DraftKinds <- TwoKinds
  Bundles <- NoBundles
  Faults = {"tmp", "rename"}
  Crashes = TRUE
CHECK_DEADLOCK FALSE
INVARIANTS
  OneSaveAtATime
  FileParses
PROPERTIES
  EveryCallReturns
  
  
  
