CONSTANTS
    k1 = k1
    k2 = k2
    f1 = f1
    Null = Null
    Keys <- TwoKeys
    Foreign <- NoForeign
    SysIds <- TwoKeys
    LegacyKeys = {k1}
    RefBases = {0}
    MaxSession = 5
    MaxRef = 1
    MaxFlow = 2
    MaxCancels = 1
    MaxSnapshots = 0
    MaxCrashes = 1
    Env = {"cancel", "early_cancel", "disconnect", "two_cancel_errors"}
SPECIFICATION Spec
INVARIANTS
    OwnReports
    CancelNamesItsOrder
PROPERTIES
    CancelAfterActiveReport
    StatusGoesForward
CHECK_DEADLOCK FALSE
