SPECIFICATION MCFairSpec
CONSTANTS
  MaxKeys = 3
  MaxUpdates = 5
  MAX_SYNC_DATA = 1
  MaxStarts = 2
  MaxRequests = 4
  Null = Null
  gedit = gedit
  panel = panel
  emoji1 = emoji1
  emoji2 = emoji2
  Fake = fake
  Clients = {gedit}
  PanelProcesses = {panel}
  EmojiProcesses = {emoji1, emoji2}
  MaxProxies = 3
  NoPanel = Null
  ka = ka
  kb = kb
  MaxContexts = 2
  MaxDepth = 2
  MaxSources = 3
  WaylandKeys = {ka, kb}
  NoContext = Null
INVARIANTS
  StepsEnabled
  KeysSettle
  NothingLost
  QueuedNotOvertaken
  BusInOrder
  PanelsServeFocus
  RepeatsHeldKey
  ContextFollowsText
PROPERTIES
  KeysReturn
  GetsConnected
  RepeatEnds
CHECK_DEADLOCK FALSE
