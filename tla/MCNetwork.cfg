SPECIFICATION AnySpec
CONSTANTS
    Path = {p1}
    Variant = {v1, v2}
    Op = {o1, o2}
    Key = {k1}
    Listener = {l1, l2}
    Branch = {b1}
    MaxConcurrentFetches = 2
    MaxVersion = 1
    Repository = {r1, r2}
    Pass = {s1, s2}
    CommitRange = {a1, a2}
    Caller = {c1, c2, c3}
    MaxConcurrent = 1
    Command = {g1, g2, g3}
    MaxErrors = 2
    None = None
INVARIANTS
    AllTypeOK
    FlagMatchesOperations
    ProgressEndsWithOperation
    WaitsForStart
PROPERTIES
    ExclusivePerState
    FlagIsReleased
    ChecksAreConsistent
    EventuallyShown
    IndicatorsAreRefreshed
    InterestedAreTold
CHECK_DEADLOCK FALSE
