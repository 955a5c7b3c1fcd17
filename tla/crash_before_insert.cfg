CONSTANTS
    k1 = k1
    k2 = k2
    f1 = f1
    Null = Null
    Keys <- OneKey
    Foreign <- NoForeign
    SysIds <- OneKey
    LegacyKeys = {}
    RefBases = {0}
    MaxSession = 4
    MaxRef = 2
    MaxFlow = 2
    MaxCancels = 0
    MaxSnapshots = 0
    MaxCrashes = 1
    Env = {}
SPECIFICATION FairSpec
PROPERTIES
    PendingSubmitResolves
CHECK_DEADLOCK FALSE
