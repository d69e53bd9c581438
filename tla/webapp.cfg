SPECIFICATION Spec
CONSTANTS
  MaxWorld = 1
  MaxAnswers = 2
  MaxPosts = 2
  MaxTrouble = 2
INVARIANTS
  TypeOK
  SettingsKept
  QuietSettingsTrue
  QuietSwitchTrue
PROPERTIES
  ExpiredSessionReturns
  PollingConverges
  RolloutReleased
CHECK_DEADLOCK FALSE
