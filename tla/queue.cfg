\* Two callers that share a queue, two commands, waits for one and for both.
SPECIFICATION Spec
CONSTANTS
  Nil = Nil
  Thread = {t1, t2}
  Cmd = {c1, c2}
  Silent = {}
  Outcome = {"SUCCESS", "FAILURE"}
  MaxArray = 2
SYMMETRY Symmetry
INVARIANTS
  TypeOK
  NothingFreedInUse
  ChainSound
  AnyIsComplete
PROPERTIES
  ImplementsChannel
