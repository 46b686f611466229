\* A command without an event behind one with an event.
SPECIFICATION FairSpec
CONSTANTS
  Nil = Nil
  Thread = {t1}
  Cmd = {c1, c2}
  Silent = {c2}
  Outcome = {"SUCCESS"}
  MaxArray = 1
PROPERTIES
  AllExecuted
