\* A rebooted firmware refuses the queue priorities.
SPECIFICATION FairSpec
CONSTANTS
  Client = {c1, c2}
  NQueue = 2
  MaxCmd = 1
  FirmwareReboot = {TRUE}
  Signals = FALSE
  Downgrade = TRUE
  Nobody = Nobody
CHECK_DEADLOCK FALSE
PROPERTIES
  Returns
