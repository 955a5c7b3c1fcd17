CONSTANTS
    k1 = k1
    k2 = k2
    f1 = f1
    Null = Null
    Keys <- OneKey
    Foreign <- OneForeign
    SysIds <- KeyAndForeign
    LegacyKeys = {}
    RefBases = {0}
    MaxSession = 4
    MaxRef = 2
    MaxFlow = 2
    MaxCancels = 0
    MaxSnapshots = 1
    MaxCrashes = 0
    Env = {"disconnect"}
SPECIFICATION Spec
INVARIANTS
    OwnReports
    TerminalRowIsDone
CHECK_DEADLOCK FALSE
