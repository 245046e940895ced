SPECIFICATION Spec
CONSTANTS
    Repository = {r1, r2}
    Pass = {s1, s2}
    None = None
INVARIANT RefreshIsScheduled
CHECK_DEADLOCK FALSE
