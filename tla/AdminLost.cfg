SPECIFICATION Spec
CONSTANTS
  a = a
  b = b
  v = v
  w = w
  x = x
  desktop = desktop
  mcp = mcp
  Ids = {a, b}
  NoAlias = NoAlias
  NoMark = NoMark
  NoSecret = NoSecret
  NoRef = NoRef
  NoId = NoId
  Untouched = Untouched
  Procs = {desktop, mcp}
  Aliases = {}
  Marks = {NoMark}
  Values = {w}
  Calls <- TwoCalls
  DraftKinds <- TwoKinds
  Bundles <- NoBundles
  Faults = {}
  Crashes = FALSE
PROPERTIES
  EntriesSurvive
