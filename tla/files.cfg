SPECIFICATION Spec
CONSTANTS
  Thread = {t1, t2}
  File = {f1, f2}
  Device = {d1, d2}
  Block = {b1, b2}
  f1 = f1
  f2 = f2
  d1 = d1
  d2 = d2
  b1 = b1
  b2 = b2
  Nil = Nil
  DeviceOf <- MCDeviceOf
  PoolOf <- MCPoolOf
  Pages <- MCPages
  Map <- MCMap
  Area <- MCArea
  KernelArray <- MCKernelArray
  Shape <- MCShape
  InlineBuffers = 0
  MaxVma = 2
  Word = 16
  Fragile = {d2}
SYMMETRY Symmetry
CHECK_DEADLOCK FALSE
INVARIANTS
  TypeOK
  RefsAccounted
  BusyExclusive
  OwnMappings
  DspReaches
