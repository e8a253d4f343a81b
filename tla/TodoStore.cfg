SPECIFICATION Spec
CONSTANTS
  Requests = {r1, r2, r3}
  MaxId = 2
  title = title
  text = text
  x = x
  y = y
  Fields <- MCFields
  Values <- MCValues
  Null = Null
  Required <- MCRequired
  Calls <- SafetyCalls
  Seeded <- MCSeeded
  Faults = {"statement", "connection", "crash", "telemetry"}
  NoRow = NoRow
  Nobody = Nobody
SYMMETRY Symmetry
CHECK_DEADLOCK FALSE
INVARIANTS
  TypeOK
  IInv
  LoadedRowIsCurrent
  AnswersAreTrue
  DeletedStaysGone
  CreatedUntilDeleted
PROPERTIES
  NoLostUpdate
  ImplementsAtomicTodos
