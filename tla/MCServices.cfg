\* A connection that leaks is never reused here: all of them may be gone.
CHECK_DEADLOCK FALSE
SPECIFICATION MCSpec
CONSTANTS
  ca = ca
  cb = cb
  cc = cc
  peer1 = peer1
  peer2 = peer2
  k1 = k1
  k2 = k2
  panel = panel
  config = config
  None = None
  Conns = {ca, cb, cc}
  Names = {panel, config}
  Startable = {panel}
  Calls = {k1, k2}
  Peers = {peer1, peer2}
  WellKnown = {config}
  Rules <- MCRules
  Messages <- MCMessages
  NoOwner = None
  MaxAdds = 2
  MaxWaiting = 1
  Null = None
  Keysyms = {"multi", "khmer", "acute", "a", "e", "0", "U", "space", "BackSpace", "Escape"}
  DeadKeys = {"acute"}
  HexKeys = {"0", "a"}
  Zero = "0"
  KeyU = "U"
  Space = "space"
  BackSpace = "BackSpace"
  Escape = "Escape"
  SystemTables <- MCSystemTables
  UserTables <- MCUserTables
  Compositions <- MCCompositions
  IsScalar <- MCIsScalar
  MAX_COMPOSE_LEN = 5
  MAX_COMPOSE_ALGORITHM_LEN = 2
  MaxNested = 3
  ConnectIds = {1, 2}
  MaxICs = 2
  MaxXKeys = 3
  Lost = None
  MaxCandidates = 10
  MaxPageSize = 4
  MaxTexts = 2
  MaxEvents = 5
  MaxTurns = 1
SYMMETRY Symmetry
INVARIANTS
  TypeOK
  QueuesAgree
  OwnershipTold
  StartWaits
  RulesAreWanted
  PreeditFollows
  TablesAgree
  KeysInOrder
  PanelSeesCursor
  PreeditSettles
PROPERTIES
  Succession
  RuleDelivery
  Composes
