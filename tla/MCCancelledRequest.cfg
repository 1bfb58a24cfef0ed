\* A request to connect that was cancelled ends after the next one.
SPECIFICATION MCSpec
CONSTANTS
  MaxKeys = 1
  MaxUpdates = 1
  MAX_SYNC_DATA = 1
  MaxStarts = 2
  MaxRequests = 3
  Null = Null
  gedit = gedit
  panel = panel
  emoji1 = emoji1
  emoji2 = emoji2
  Fake = fake
  Clients = {gedit}
  PanelProcesses = {panel}
  EmojiProcesses = {emoji1}
  MaxProxies = 1
  NoPanel = Null
  ka = ka
  kb = kb
  MaxContexts = 1
  MaxDepth = 1
  MaxSources = 1
  WaylandKeys = {ka, kb}
  NoContext = Null
PROPERTY CancelledHasNoEffect
CHECK_DEADLOCK FALSE
