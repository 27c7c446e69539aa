SPECIFICATION MapSpec
CONSTANTS
  t1 = t1  t2 = t2  t3 = t3
  a = a  b = b  c = c  v1 = v1  v2 = v2
  Threads = {t1, t2, t3}
  Ids = {a}
  HashOf <- Hashes
  Values = {v1, v2}
  NoValue = NoValue
  Swept = {v1}
  Cells = {1, 2, 3}
  FlushLimit = 0
  MaxLocks = 0
  NoThread = NoThread
  NoId = NoId
  Clients <- Racing
INVARIANTS SetStores
