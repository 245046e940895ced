SPECIFICATION EitherSpec
CONSTANTS
    MaxID = 2
    Cloning = Cloning
    MaxChanges = 1
    InitialRow <- MCInitialRow
    Call = {c1, c2}
    Fetcher = {f1, f2}
    Branch = {b1, b2}
    Reserved = {}
    Pruner = {p1, p2}
    MaxWork = 2
    Default = Default
    None = None
INVARIANTS
    BothTypeOK
    TasksOfSelection
    SelectionUpToDate
PROPERTIES
    FetchesSelectedOnly
    PrunedIsExpendable
SYMMETRY Symmetry
CHECK_DEADLOCK FALSE
