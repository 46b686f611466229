\* Two threads time out on two queues.
SPECIFICATION Spec
CONSTANTS
  Client = {c1, c2}
  NQueue = 2
  MaxCmd = 1
  FirmwareReboot = {TRUE}
  Signals = FALSE
  Downgrade = FALSE
  Nobody = Nobody
INVARIANTS
  DspOwnsBuffers
