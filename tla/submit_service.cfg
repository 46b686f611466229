\* Two threads, one command each, every reboot outcome: refinement and liveness.
SPECIFICATION FairSpec
CONSTANTS
  Client = {c1, c2}
  NQueue = 2
  MaxCmd = 1
  FirmwareReboot = {TRUE}
  Signals = FALSE
  Downgrade = FALSE
  Nobody = Nobody
PROPERTIES
  ImplementsCommand
  Returns
