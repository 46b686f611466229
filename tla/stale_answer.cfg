\* A wait cut short by a signal leaves the command with the DSP.
SPECIFICATION Spec
CONSTANTS
  Client = {c1, c2}
  NQueue = 1
  MaxCmd = 1
  FirmwareReboot = {TRUE}
  Signals = TRUE
  Downgrade = FALSE
  Nobody = Nobody
INVARIANTS
  SuccessMeansOwnResponse
