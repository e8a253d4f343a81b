SPECIFICATION Spec
CONSTANTS
  Requests = {r1, r2}
  MaxId = 2
  title = title
  text = text
  x = x
  y = y
  Fields <- MCFields
  Values <- MCValues
  Null = Null
  Required <- MCRequired
  Calls <- SafetyCalls
  Seeded <- MCSeeded
  Faults = {}
  NoRow = NoRow
  Nobody = Nobody
CHECK_DEADLOCK FALSE
INVARIANT
  FailedWriteLeavesNothing
