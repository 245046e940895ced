SPECIFICATION AnySpec
CONSTANTS
    s1 = s1
    s2 = s2
    s3 = s3
    f1 = f1
    f2 = f2
    Selection = {s1, s2, s3}
    Diffable = {s1, s2}
    File = {f1, f2}
    Files <- MCFiles
    MaxLoads = 3
    Count = 2
    MaxTime = 2
    PageSize = 1
    Interval = 2
    Frequency = 1
    MaxTimers = 2
    Script <- MCScripts
    ContextLines = 1
    DiffLoad = {l1}
    Rejected = Rejected
    Unknown = Unknown
    None = None
INVARIANTS
    AllTypeOK
    DiffIsOfSelection
    Synced
    RefreshIsDue
    SelectionIsChosen
    StagedIsSelected
    DiscardedIsSelected
CHECK_DEADLOCK FALSE
