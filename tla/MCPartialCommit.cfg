SPECIFICATION Spec
CONSTANTS
    ContextLines = 1
    Script <- AmbiguousScript
    DiffLoad = {l1}
    Rejected = Rejected
    Unknown = Unknown
    None = None
INVARIANT IndexReflectsSelection
CHECK_DEADLOCK FALSE
