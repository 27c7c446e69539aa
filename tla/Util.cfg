SPECIFICATION MCSpec
CONSTANTS
  Processes = {1, 2}
  Lines = {"a", "b", "m", "1", "2", "3", "end"}
  Numerals <- VersionLines
  Datas <- Saves
  Metas <- OneMeta
  MaxCalls = 3
  MaxCrashes = 1
  MaxFaults = 1
  Threads = {"t", "u"}
  Names <- ErrorNames
  MaxChain = 3
  MaxNoMem = 2
CHECK_DEADLOCK FALSE
INVARIANTS
  StoreSound
  NetSound
  ErrorsExact
  TableExact
  TextExact
PROPERTIES
  ContainersExact
