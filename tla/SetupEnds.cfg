SPECIFICATION FairSpec
CONSTANTS
    i1 = i1  i2 = i2  s1 = s1  s2 = s2  view = view
    Initializers = {i1}
    Seeders = {s1, s2}
    Last = 2
    Other = view
    Intrusion = FALSE
PROPERTIES
    SetupReturns
    ImplementsSeedLedger
CHECK_DEADLOCK FALSE
