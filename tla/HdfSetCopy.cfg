SPECIFICATION Spec
CONSTANTS
  na = na  nb = nb  nc = nc
  Cells = {1, 2, 3, 4}
  Names = {na, nb, nc}
  Empty = Empty  NoName = NoName  NoValue = NoValue  Dangling = Dangling  NoHash = NoHash
  HashAt = 5
  MaxSteps = 16
  Clients <- SharingClients
VIEW Seen
INVARIANTS CopiesKeepTheirValue
CHECK_DEADLOCK FALSE
