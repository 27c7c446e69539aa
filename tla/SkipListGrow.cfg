SPECIFICATION ListSpec
CONSTANTS
  t1 = t1  t2 = t2  t3 = t3
  v1 = v1  v2 = v2
  Threads = {t1, t2, t3}
  NoThread = NoThread
  FlushLimit = 3
  MaxCached = 3
  SpuriousWakeups = FALSE
  Keys = {1, 2, 3}
  Values = {v1, v2}
  NoValue = NoValue
  MaxLevel = 1
  Blocks = {b1, b2}
  Header = Header
  TailItem = TailItem
  Wild = Wild
  Clients <- NotFlushing
INVARIANTS
  NextLarger
PROPERTIES
  ImplementsMap
