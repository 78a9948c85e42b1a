SPECIFICATION Spec
CONSTANTS
    t1 = t1  t2 = t2  t3 = t3  e1 = e1  e2 = e2  e3 = e3  ghost = ghost
    A = A  B = B  C = C  why = why  blank = blank  nobody = nobody
    Attempts = {t1, t2, t3}
    ConfigCalls = {t1, t2, t3}
    OpenCallers = {}
    Equipment = {e1}
    EquipmentIds = {e1}
    LabIds = {A, B}
    TransferIds = {0, 1, 2, 3}
    Reasons = {why}
    Blank = blank
    Requests <- RaceRequests
    InitLocation <- OneAtA
    InitLabs = {A, B}
    InitHistory <- SeedHistory
    ClockSkew = 0
    None = nobody
SYMMETRY AnyThree
INVARIANTS
    SourceStaysCurrent
    EveryMoveRecorded
    LatestTransferMatchesLocation
CHECK_DEADLOCK FALSE
