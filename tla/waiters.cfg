\* Three threads in the chain of one event, and a command without an event.
SPECIFICATION FairSpec
CONSTANTS
  Nil = Nil
  Thread = {t1, t2, t3}
  Cmd = {c1, c2}
  Silent = {c2}
  Outcome = {"SUCCESS"}
  MaxArray = 1
PROPERTIES
  CallsReturn
  QueueReclaimed
