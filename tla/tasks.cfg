SPECIFICATION Spec
CONSTANTS
  Thread = {t1, t2}
  Request = {r1, r2}
  t1 = t1
  t2 = t2
  r1 = r1
  r2 = r2
  Buffer = {1, 2, 3}
  Group <- MCGroup
  Sizes <- MCSizes
  TaskGroup = "task"
  CallGroup = "call"
  Nil = Nil
  MaxPlanes = 2
  MaxBuffer = 1
CHECK_DEADLOCK FALSE
INVARIANTS
  TypeOK
  BuffersAccounted
  MemorySafe
  Outstanding
PROPERTIES
  Returned
