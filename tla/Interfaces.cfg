SPECIFICATION PartsSpec
CONSTANTS
    unset = unset  ours = ours  other = other  nan = nan
    port0 = port0  port1 = port1  portLast = portLast  portOver = portOver
    Texts = {ours, other, port0, port1, portLast, portOver}
    Missing = unset
    PortValue <- Numbers
    NoNumber = nan
    OwnNames = {ours}
    Environs <- AnyEnviron
    OtherModes = {"ANSI_QUOTES"}
    Tables <- FourTables
    Other = 5
    Columns <- FourColumns
    Uniques <- ThreeUniques
    ForeignKeys <- TheForeignKey
    Checks <- TwoChecks
    Term <- Semester
    Points = "points"
    OtherUniques <- AddedUniques
    OtherForeignKeys <- AddedForeignKeys
    MaxChanges = 3
    Alphabet <- AllKinds
    Scripts <- ShortScripts
INVARIANTS
    OpenedIsSafe
    RefusalLeavesNothing
    SilenceMeansContract
    CutsWhereMeant
PROPERTY
    OpeningEnds
CHECK_DEADLOCK FALSE
