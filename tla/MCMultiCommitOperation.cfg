SPECIFICATION Spec
CONSTANTS
  PopupLimit = 4
  Branch = {b1, b2}
  Task = {t1}
  Refresher = {r1}
  MaxSha = 2
  Scenario <- Scenarios
INVARIANTS TypeOK UndoIsOfOperation
PROPERTIES NoPhantomConflicts ConflictIsShown
CHECK_DEADLOCK FALSE
