SPECIFICATION EitherSpec
CONSTANTS
    MaxID = 1
    MaxTransactions = 3
    Endpoint = {DotCom, ghe}
    DotCom = DotCom
    Call = {c1, c2}
    Callback = {b1, b2}
    MaxAsks = 2
    None = None
INVARIANTS
    BothTypeOK
    NoUpdateLost
PROPERTIES
    UpdatesEmitted
    NoAccountWithoutDialog
    LoadingEnds
CHECK_DEADLOCK FALSE
