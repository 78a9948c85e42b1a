SPECIFICATION Spec
CONSTANTS
    t1 = t1  t2 = t2  t3 = t3  e1 = e1  e2 = e2  e3 = e3  ghost = ghost
    A = A  B = B  C = C  why = why  blank = blank  nobody = nobody
    Attempts = {t1, t2}
    ConfigCalls = {t2}
    OpenCallers = {t1}
    Equipment = {e1}
    EquipmentIds = {e1, ghost}
    LabIds = {A, B, C}
    TransferIds = {0, 1, 2, 3}
    Reasons = {why}
    Blank = blank
    Requests <- LedgerRequests
    InitLocation <- OneAtA
    InitLabs = {A, B, C}
    InitHistory <- SeedHistory
    ClockSkew = 1
    None = nobody
INVARIANT
    IInv
PROPERTY
    ImplementsLedger
CHECK_DEADLOCK FALSE
