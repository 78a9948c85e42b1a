SPECIFICATION RefusalSpec
CONSTANTS
    t1 = t1  t2 = t2  t3 = t3  e1 = e1  e2 = e2  e3 = e3  ghost = ghost
    A = A  B = B  C = C  why = why  blank = blank  nobody = nobody
    Attempts = {t1, t2, t3}
    ConfigCalls = {}
    OpenCallers = {t1, t2}
    Equipment = {e1, e2, e3}
    EquipmentIds = {e1, e2, e3, ghost}
    LabIds = {A, B, C}
    TransferIds = {0, 1, 2, 3}
    Reasons = {why}
    Blank = blank
    Requests <- RefusalOrSameId
    InitLocation <- ThreeAtA
    InitLabs = {A, B, C}
    InitHistory <- SeedHistory
    ClockSkew = 0
    None = nobody
SYMMETRY AnyTwo
INVARIANTS
    OnlyReusedIdsDeadlock
    TargetStaysPresent
    NothingLeftBehind
PROPERTY
    CallerTransactionPreserved
CHECK_DEADLOCK FALSE
