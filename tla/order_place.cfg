CONSTANTS
    k1 = k1
    k2 = k2
    f1 = f1
    Null = Null
    Keys <- TwoKeys
    Foreign <- OneForeign
    SysIds <- KeysAndForeign
    LegacyKeys = {}
    RefBases = {0}
    MaxSession = 4
    MaxRef = 1
    MaxFlow = 2
    MaxCancels = 0
    MaxSnapshots = 0
    MaxCrashes = 1
    Env = {"disconnect", "foreign_rejects", "relogin_during_place"}
SPECIFICATION Spec
INVARIANTS
    TypeOK
    InsertOnce
PROPERTIES
    DeskSpec
SYMMETRY KeySymmetry
CHECK_DEADLOCK FALSE
