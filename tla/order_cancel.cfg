CONSTANTS
    k1 = k1
    k2 = k2
    f1 = f1
    Null = Null
    Keys <- OneKey
    Foreign <- NoForeign
    SysIds <- OneKey
    LegacyKeys = {}
    RefBases = {0}
    MaxSession = 3
    MaxRef = 1
    MaxFlow = 2
    MaxCancels = 2
    MaxSnapshots = 0
    MaxCrashes = 0
    Env = {"cancel", "cancel_by_ids"}
SPECIFICATION FairSpec
INVARIANTS
    PendingCancelIsOutstanding
    NoSecondCancel
    PendingSubmitIsAwaited
PROPERTIES
    PendingSubmitResolves
    PendingCancelResolves
CHECK_DEADLOCK FALSE
