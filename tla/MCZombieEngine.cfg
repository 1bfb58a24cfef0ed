CHECK_DEADLOCK FALSE
SPECIFICATION MCFairSpec
CONSTANTS
  a = a
  b = b
  keys = keys
  r1 = r1
  r2 = r2
  anthy = anthy
  None = None
  Fake = fake
  Clients = {a}
  FakeClients = {}
  Registry = {xkb}
  Registrable = {pinyin, anthy}
  Paths <- MCPaths
  Requests <- MCRequests
INVARIANT
  EngineOfLiveContext
