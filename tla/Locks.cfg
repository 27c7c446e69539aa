SPECIFICATION MCSpec
CONSTANTS
  t1 = t1  t2 = t2  t3 = t3
  Threads = {t1, t2, t3}
  NoThread = NoThread
  FlushLimit = 1
  MaxCached = 3
  SpuriousWakeups = TRUE
INVARIANTS
  ReadersExact
  OneFlusher
  BlockOwned
PROPERTIES
  SearchResumes
  FlushCompletes
  CallsReturn
