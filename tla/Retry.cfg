SPECIFICATION Spec
CONSTANTS
    t1 = t1  t2 = t2  t3 = t3  e1 = e1  e2 = e2  e3 = e3  ghost = ghost
    A = A  B = B  C = C  why = why  blank = blank  nobody = nobody
    Attempts = {t1, t2}
    ConfigCalls = {t2}
    OpenCallers = {}
    Equipment = {e1, e2}
    EquipmentIds = {e1, e2}
    LabIds = {A, B}
    TransferIds = {0, 1}
    Reasons = {why}
    Blank = blank
    Requests <- RetryRequests
    InitLocation <- TwoAtA
    InitLabs = {A, B}
    InitHistory <- SeedHistory
    ClockSkew = 1
    None = nobody
INVARIANTS
    AppliedOnce
    AnswerAgrees
    VerdictSound
CHECK_DEADLOCK FALSE
