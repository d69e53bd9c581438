\* One invitation and two removals.
SPECIFICATION Spec
CONSTANTS
  op = op
  ann = ann
  b1 = b1
  b2 = b2
  User = {op, ann}
  Operator = op
  Browser = {b1, b2}
  MaxMade <- MCMaxMade
  Troubles = {"invite", "remove"}
  MaxTrouble = 3
SYMMETRY BrowserSymmetry
INVARIANTS
  SomebodyAdministers
CHECK_DEADLOCK FALSE
