SPECIFICATION ListSpec
CONSTANTS
  t1 = t1  t2 = t2  t3 = t3
  v1 = v1  v2 = v2
  Threads = {t1, t2}
  NoThread = NoThread
  FlushLimit = 0
  MaxCached = 3
  SpuriousWakeups = FALSE
  Keys = {1, 2}
  Values = {v1, v2}
  NoValue = NoValue
  MaxLevel = 1
  Blocks = {b1, b2}
  Header = Header
  TailItem = TailItem
  Wild = Wild
  Clients <- Flushing
INVARIANTS
  ListWellFormed
  MemorySound
  FlushAlone
PROPERTIES
  ImplementsMap
