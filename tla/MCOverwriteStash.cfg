SPECIFICATION EitherSpec
CONSTANTS
  Branch = {b1, b2}
  File = {f1, f2}
  Task = {t1}
  Refresher = {r1}
  Setting <- AllSettings
  MaxStash = 2
  Scenario <- TwoStashes
  t1 = t1
  t2 = t2
  Tip = {t1, t2}
  History <- MCHistories
  Batch = 1
  MaxMoves = 1
  None = None
SYMMETRY Symmetry
INVARIANT OverwriteIsConfirmed
CHECK_DEADLOCK FALSE
