SPECIFICATION VerifiedSpec
CONSTANTS
    t1 = t1  t2 = t2
    e1 = e1  A = A  B = B  why = why  blank = blank  nobody = nobody
    None = nobody
    Nothing = nobody
    Attempts = {t1, t2}
    ConfigCalls = {t1}
    OpenCallers = {}
    Equipment = {e1}
    EquipmentIds = {e1}
    LabIds = {A, B}
    TransferIds = {0, 1, 2}
    Reasons = {why}
    Blank = blank
    Requests <- ThereAndBack
    InitLocation <- AtA
    InitLabs = {A, B}
    InitHistory <- SeedHistory
    ClockSkew = 0
INVARIANTS
    NoFalseAlarm
    ExitAgrees
CHECK_DEADLOCK FALSE
