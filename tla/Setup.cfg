SPECIFICATION Spec
CONSTANTS
    i1 = i1  i2 = i2  s1 = s1  s2 = s2  view = view
    Initializers = {i1, i2}
    Seeders = {s1, s2}
    Last = 2
    Other = view
    Intrusion = TRUE
SYMMETRY AnyRun
INVARIANTS
    SeedAllOrNothing
    SeededOnce
    SeedAnswerAgrees
    OneInitializer
CHECK_DEADLOCK FALSE
