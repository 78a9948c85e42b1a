SPECIFICATION PartsSpec
CONSTANTS
    ada = ada  bob = bob  cy = cy  null = null
    head = head  deputy = deputy  fitter = fitter  helper = helper  why = why
    device = device  deviceAlias = deviceAlias
    A = A  AAlias = AAlias  B = B  BAlias = BAlias
    id1 = id1  id1Alias = id1Alias  id2 = id2  ghost = ghost
    Null = null
    People = {ada, bob, cy, head}
    Students = {ada, bob}
    Teachers = {bob, cy}
    Rows <- EitherRows
    InitDbs <- EitherDb
    NoValue = null
    Users = {ada, head, deputy}
    Managers = {head, deputy}
    Workers = {fitter, helper}
    Text = why
    ReportRows <- OneReport
    ExecutionRows <- TwoAttempts
    Names <- Spellings
    Key <- CollationKey
    Labs = {A, B}
    Equipment = {device}
    Requests <- Asked
    InitPlace <- AtA
INVARIANTS
    EvidenceIsOwn
    LatenessProven
    NoShowStandsAlone
    ChargedToItsTerm
    DeductedOnce
    DoneMeansAccepted
    ReconcileIsExact
    NoSpellingAlarm
PROPERTY
    PointsChangeLocally
