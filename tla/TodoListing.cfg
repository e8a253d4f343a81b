SPECIFICATION Spec
CONSTANTS
  t1 = t1
  t2 = t2
  t3 = t3
  t4 = t4
  t5 = t5
  Todos <- MCTodos
  Seeded <- MCSeeded
  SeedTimes <- Apart
  Limit = 1
  MaxTime = 5
  MayDelete = TRUE
CHECK_DEADLOCK FALSE
INVARIANTS
  WalkInv
  TotalReachesPage
  DeletesHideOneEach
  InsertsRepeatOneEach
