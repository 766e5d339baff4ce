SPECIFICATION LiveSpec
CONSTANTS
  c1 = c1
  c2 = c2
  p1 = p1
  p2 = p2
  e1 = e1
  e2 = e2
  crm = crm
  desktop = desktop
  mcp = mcp
  Own = Own
  Nobody = Nobody
  Desktop = desktop
  MayWrite = {FALSE, TRUE}
  Host <- OneEach
  Servers = {desktop, mcp}
  Conns = {c1}
  Callers = {p1, p2}
  Jobs = {"write"}
  Editors = {e1}
  Edits = {"update", "fails"}
  MaxEdits = 1
  MaxDrops = 1
  Idle = 2
  Databases = {}
INVARIANTS
  WedgeIsBounded
  WritesWereAllowed
PROPERTIES
  EveryCallReturns
