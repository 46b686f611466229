SPECIFICATION Spec
CONSTANTS
  File = {f1, f2}
  Nil = Nil
  Scopes <- MCScopes
  Reporter = {r1, r2}
  ReportId = {1, 2, 5}
  IdWord = 4
  MaxCreate = 2
  Item = {x1, x2}
  DmaBuf = {b1, b2}
  b1 = b1
  b2 = b2
  MaxImport = 4
SYMMETRY Symmetry
CHECK_DEADLOCK FALSE
INVARIANTS
  TypeOK
  PowerAccounted
  InterruptNoticed
  ReporterSound
  CallbackOwn
  DmaBufsAccounted
