CONSTANTS
    s1 = s1
    s2 = s2
    startup = startup
    o1 = o1
    o2 = o2
    Symbols <- TwoSymbols
    Owners <- ThreeOwners
    Startup = startup
    Initial = {s1}
    MaxDrops = 3
    Refusals = TRUE
SPECIFICATION FairSpec
INVARIANTS
    TypeOK
    NoLostSubscription
PROPERTIES
    OnlyUnwantedReturned
    ActiveIsServed
