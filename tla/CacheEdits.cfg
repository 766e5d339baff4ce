SPECIFICATION Spec
CONSTANTS
  c1 = c1
  c2 = c2
  p1 = p1
  p2 = p2
  e1 = e1
  e2 = e2
  crm = crm
  desktop = desktop
  mcp = mcp
  Own = Own
  Nobody = Nobody
  Desktop = desktop
  MayWrite = {FALSE}
  Host <- AllDesktop
  Servers = {desktop}
  Conns = {c1}
  Callers = {p1, p2}
  Jobs = {"read", "reconnect"}
  Editors = {e1, e2}
  Edits = {"add", "update", "delete"}
  MaxEdits = 2
  MaxDrops = 0
  Idle = 1
  Databases = {crm}
SYMMETRY Alike
INVARIANTS
  HandedBackIsCurrent
  CacheIsCurrent
