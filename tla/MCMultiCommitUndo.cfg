SPECIFICATION Spec
CONSTANTS
  PopupLimit = 4
  Branch = {b1, b2}
  Task = {t1}
  Refresher = {r1}
  MaxSha = 3
  Scenario <- TwoSquashes
PROPERTY UndoRestores
CHECK_DEADLOCK FALSE
