SPECIFICATION PoolFairSpec
CONSTANTS
  Requests = {r1, r2, r3}
  Local = {r1, r2}
  Capacity = 1
  MaxId = 2
  title = title
  text = text
  x = x
  y = y
  Fields <- MCFields
  Values <- MCValues
  Null = Null
  Required <- MCRequired
  Calls <- PoolCalls
  Seeded <- MCSeeded
  Faults = {"statement", "connection", "crash"}
  NoRow = NoRow
  Nobody = Nobody
CHECK_DEADLOCK FALSE
INVARIANTS
  PoolInv
PROPERTIES
  NearerToTheEnd
  RequestsEndAndConnectionsReturn
  ImplementsAtomicTodos
