CONSTANTS
    k0 = k0
    k1 = k1
    f = f
    g = g
    n1 = n1
    n2 = n2
    n3 = n3
    t1 = t1
    t2 = t2
    t3 = t3
    x1 = x1
    x2 = x2
    o1 = o1
    o2 = o2
    Null = Null
    Keys = {k0, k1}
    SysIds = {n1, n2, n3}
    Foreign = {f, g}
    Old = {k0}
    Refused = {g}
    Trades = {t1, t2, t3}
    Owners = {o1, o2}
    NumberOf <- Numbers
    RefOf <- Refs
    OrderOf <- Fills
    TradeIdOf <- FillIds
    OwnerOf <- KeyOwner
    MaxSession = 4
    MaxRef = 1
    LimitOf <- PageLimits
    DefaultLimit = 3
    MaxPage = 2
    MaxSends = 2
    MaxFlow = 1
    MaxFaults = 1
SPECIFICATION FairSpec
INVARIANTS
    TypeOK
    TradeIsOwn
    PublishedOnce
    ReceivedIsStored
    EndOfPagesIsEnd
PROPERTIES
    LogSpec
    StoredIsRead
CHECK_DEADLOCK FALSE
