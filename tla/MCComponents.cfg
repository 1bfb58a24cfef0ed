SPECIFICATION MCFairSpec
\* The daemon may crash (EngineRequest!Crash), and then nothing happens any more.
CHECK_DEADLOCK FALSE
CONSTANTS
  pinyin = pinyin
  p1 = p1
  p2 = p2
  p3 = p3
  r1 = r1
  r2 = r2
  f1 = f1
  f2 = f2
  None = None
  Files = {f1, f2}
  MaxClock = 3
  Components = {pinyin}
  Restarting = {pinyin}
  Engines = {pinyin}
  Procs = {p1, p2, p3}
  Requests = {r1, r2}
INVARIANTS
  StepsEnabled
  RequestsKept
  FactoryIsOwner
  CacheIsFresh
PROPERTIES
  OneChild
  AnsweredOnce
  ChangeAnnounced
