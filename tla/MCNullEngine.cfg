SPECIFICATION MCSpec
CONSTANTS
  pinyin = pinyin
  p1 = p1
  p2 = p2
  p3 = p3
  r1 = r1
  r2 = r2
  f1 = f1
  f2 = f2
  None = None
  Files = {f1, f2}
  MaxClock = 1
  Components = {pinyin}
  Restarting = {pinyin}
  Engines = {pinyin}
  Procs = {p1, p2, p3}
  Requests = {r1, r2}
INVARIANT
  EngineIsProxy
