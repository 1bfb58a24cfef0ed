\* A connection that leaks is never reused here: all of them may be gone.
CHECK_DEADLOCK FALSE
SPECIFICATION MCSpec
CONSTANTS
  ca = ca
  cb = cb
  cc = cc
  peer1 = peer1
  peer2 = peer2
  k1 = k1
  k2 = k2
  panel = panel
  config = config
  None = None
  Conns = {a, b}
  Names = {panel}
  Startable = {panel}
  Calls = {k1, k2}
  Peers = {peer1, peer2}
  WellKnown = {config}
  Rules <- MCRules
  Messages <- MCMessages
  NoOwner = None
  MaxAdds = 1
  MaxWaiting = 1
  Null = None
  Keysyms = {"multi", "khmer", "acute", "a", "e", "0", "U", "space", "BackSpace", "Escape"}
  DeadKeys = {"acute"}
  HexKeys = {"0", "a"}
  Zero = "0"
  KeyU = "U"
  Space = "space"
  BackSpace = "BackSpace"
  Escape = "Escape"
  SystemTables <- MCSystemTables
  UserTables <- MCUserTables
  Compositions <- MCCompositions
  IsScalar <- MCIsScalar
  MAX_COMPOSE_LEN = 5
  MAX_COMPOSE_ALGORITHM_LEN = 2
  MaxNested = 3
  ConnectIds = {1}
  MaxICs = 1
  MaxXKeys = 1
  Lost = None
  MaxCandidates = 1
  MaxPageSize = 1
  MaxTexts = 1
  MaxEvents = 1
  MaxTurns = 1
INVARIANT
  OwnersConnected
