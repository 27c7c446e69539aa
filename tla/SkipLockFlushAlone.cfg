SPECIFICATION LockSpec
CONSTANTS
  Threads = {t1, t2, t3}
  NoThread = NoThread
  FlushLimit = 0
  MaxCached = 2
  SpuriousWakeups = FALSE
INVARIANTS
  FlushAlone
