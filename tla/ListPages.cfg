SPECIFICATION Spec
CONSTANTS
  t1 = t1
  t2 = t2
  t3 = t3
  t4 = t4
  t5 = t5
  Todos <- MCTodos
  Seeded <- MCSeeded
  SeedTimes <- Together
  Limit = 2
  MaxTime = 1
  MayDelete = FALSE
CHECK_DEADLOCK FALSE
INVARIANT
  PagesAreDisjoint
