SPECIFICATION Spec
CONSTANTS
  a1 = a1
  a2 = a2
  None = None
  r1 = r1
  r2 = r2
  r3 = r3
  old = old
  fresh = fresh
  broken = broken
  rejected = rejected
  App = {a1, a2}
  Request = {r1, r2, r3}
  Digest = {old, fresh, broken}
  Targets <- OneEach
  Waits <- InTurn
  Impatient = {}
  FirstImage <- MCFirstImage
  Report <- MCReport
  Fatal = {}
  Boot <- MCBoot
  Workload <- MCWorkload
  Global <- MCGlobal
  Override <- MCOverride
  Excepted <- MCExcepted
  ExceptedForAll = {}
  IdsAreDigests = TRUE
  SettingsReadMayFail = FALSE
  MaxFaults = 0
INVARIANTS TypeOK ServiceSurvivesUpdate OneInstance
PROPERTIES AuditTellsTheTruth ImplementsContract
CHECK_DEADLOCK FALSE
