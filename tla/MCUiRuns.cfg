SPECIFICATION PartSpec
CONSTANTS
    Runs = {r1, r2}
    Tasks = {t1, t2}
    Digests = {d1}
    LogEnd = 2
    LastPage = 2
    Limit = 2
    CancelLimit = 3
    MaxNonce = 4
    MaxEpoch = 1
    r1 = r1
    r2 = r2
    t1 = t1
    t2 = t2
    d1 = d1
    Keys = {"tab", "away", "review", "scroll", "form", "cancel", "terminal", "error"}
    Nothing = Nothing
INVARIANTS
    PiecesFit
PROPERTIES
    StartFollowsConfirmation
CHECK_DEADLOCK FALSE
