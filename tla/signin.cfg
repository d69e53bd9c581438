\* Two people and two browsers (of both, or of the operator), two troubles of any kind.
SPECIFICATION Spec
CONSTANTS
  op = op
  ann = ann
  b1 = b1
  b2 = b2
  User = {op, ann}
  Operator = op
  Browser = {b1, b2}
  MaxMade <- MCMaxMade
  Troubles <- TroubleKinds
  MaxTrouble = 2
SYMMETRY BrowserSymmetry
INVARIANTS
  TypeOK
  BackupCodeOnce
  OwnerCanGetIn
  ShownCodesWork
  SetupClosed
PROPERTIES
  LinkOnlyFinalisation
CHECK_DEADLOCK FALSE
