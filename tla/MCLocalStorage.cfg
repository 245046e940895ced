SPECIFICATION AnySpec
CONSTANTS
    Endpoint = {e1}
    User = {u1, u2}
    Op = {o1, o2}
    MaxTokens = 3
    Tag = {t1, t2}
    TagRefresh = {r1}
    MaxRestarts = 1
    MaxListed = 2
    Login = {v1, v2}
    Repo = {g1, g2}
    RepositoriesLoad = {l1, l2}
    MaxObjects = 2
    MaxChanges = 1
    None = None
INVARIANTS
    AllTypeOK
    OneAccountPerEndpoint
    SurvivesRestart
    UnpushedIsListed
    LoadedIsServers
SYMMETRY Symmetry
CHECK_DEADLOCK FALSE
