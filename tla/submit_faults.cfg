\* Three threads, one command each, with every fault the model has.  A firmware
\* that refuses the priorities at a reboot can stop the driver (see downgrade_hang).
SPECIFICATION Spec
CONSTANTS
  Client = {c1, c2, c3}
  NQueue = 2
  MaxCmd = 1
  FirmwareReboot = {TRUE, FALSE}
  Signals = TRUE
  Downgrade = TRUE
  Nobody = Nobody
SYMMETRY ClientSymmetry
CHECK_DEADLOCK FALSE
INVARIANTS
  TypeOK
  SlotExclusive
  BootExcludesIo
  OneRebooter
  RebootHasOwner
  AnswerIsOwn
  NoTornCommand
  SilentWhenOff
  ExposureEnds
  LeakOnlyWhenOff
  NoMutexLeft
