SPECIFICATION Spec
CONSTANTS
  a = a
  b = b
  v = v
  w = w
  x = x
  desktop = desktop
  mcp = mcp
  Ids = {a, b}
  NoAlias = NoAlias
  NoMark = NoMark
  NoSecret = NoSecret
  NoRef = NoRef
  NoId = NoId
  Untouched = Untouched
  Procs = {desktop}
  Aliases = {}
  Marks = {NoMark}
  Values = {w}
  Calls <- DesktopCalls
  DraftKinds <- ServedKinds
  Bundles <- OwnBundles
  Faults = {"get", "put", "undo", "purge", "tmp", "rename"}
  Crashes = TRUE
INVARIANTS
  TypeOK
  NoDanglingRef
  RefsOwned
PROPERTIES
  OthersUntouched
