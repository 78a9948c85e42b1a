SPECIFICATION Spec
CONSTANTS
    i1 = i1  i2 = i2  s1 = s1  s2 = s2  view = view
    Initializers = {}
    Seeders = {s1}
    Last = 2
    Other = view
    Intrusion = FALSE
INVARIANT
    SeedErrorMeansRolledBack
CHECK_DEADLOCK FALSE
