SPECIFICATION Spec
CONSTANTS
  a1 = a1
  a2 = a2
  None = None
  r1 = r1
  r2 = r2
  r3 = r3
  old = old
  fresh = fresh
  broken = broken
  rejected = rejected
  App = {a1}
  Request = {r1, r2}
  Digest = {old, broken}
  Targets <- AnyContainer
  Waits <- AtOnce
  Impatient = {}
  FirstImage <- MCFirstImage
  Report <- MCReport
  Fatal = {}
  Boot <- MCBoot
  Workload <- MCWorkload
  Global <- MCGlobal
  Override <- MCOverride
  Excepted <- MCExcepted
  ExceptedForAll = {}
  IdsAreDigests = TRUE
  SettingsReadMayFail = FALSE
  MaxFaults = 0
PROPERTY BackupOutlivesTrial
CHECK_DEADLOCK FALSE
