CONSTANTS
  Requests <- MCRequests
  MaxRequests = 2
  BUFLEN = 15
  Addresses = {1, 2}
SPECIFICATION MCSpec
CHECK_DEADLOCK FALSE
INVARIANTS
  RequestsServed
  FormsAreRead
  OutputExact
PROPERTIES
  ConnectionsServed
