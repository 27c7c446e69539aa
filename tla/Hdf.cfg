SPECIFICATION Spec
CONSTANTS
  na = na  nb = nb  nc = nc
  Cells = {1, 2, 3, 4}
  Names = {na, nb, nc}
  Empty = Empty  NoName = NoName  NoValue = NoValue  Dangling = Dangling  NoHash = NoHash
  HashAt = 0
  MaxSteps = 16
  Clients <- AllClients
VIEW Seen
INVARIANTS HeapSound ReadsAgree
PROPERTIES ReadYourWrites AttributesSurvive ImplementsTree
CHECK_DEADLOCK FALSE
