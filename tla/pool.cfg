\* Six pages of two bytes, the first not aligned to two pages; sizes of one, two
\* and three pages, and the arguments that are turned away.
SPECIFICATION Spec
CONSTANTS
  Thread = {t1, t2}
  PageSize = 2
  Modulus = 16
  PoolStart = 2
  PoolSize = 12
  Size = {0, 1, 3, 6}
  Align = {0, 3, 4}
  MaxRef = 2
SYMMETRY ThreadSymmetry
INVARIANTS
  TypeOK
  ListInOrder
  Accounted
PROPERTIES
  ImplementsPages
