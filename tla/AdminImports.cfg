SPECIFICATION Spec
CONSTANTS
  a = a
  b = b
  v = v
  w = w
  x = x
  desktop = desktop
  mcp = mcp
  Ids = {a, b}
  NoAlias = NoAlias
  NoMark = NoMark
  NoSecret = NoSecret
  NoRef = NoRef
  NoId = NoId
  Untouched = Untouched
  Procs = {desktop}
  Aliases = {}
  Marks = {NoMark, x}
  Values = {v, w}
  Calls <- EditCalls
  DraftKinds <- ServedKinds
  Bundles <- EditedBundles
  Faults = {"put", "tmp"}
  Crashes = FALSE
SYMMETRY Alike
PROPERTIES
  OnlyImportsMixConnections
  ImportSparesOthers
