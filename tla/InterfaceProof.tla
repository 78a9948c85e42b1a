--------------------------- MODULE InterfaceProof ---------------------------
(***************************************************************************)
(* What stands between the commands and the server, for all environments,  *)
(* settings and structures: the session that a command is handed is the    *)
(* one it needs (SessionInv), and a validation that finds no problem has   *)
(* seen the contract (StructureInv).                                       *)
(***************************************************************************)
EXTENDS DatabaseSession, StructureContract, FiniteSetTheorems, SequenceTheorems,
        TLAPS

Statements == {"set fk", "set modes", "set zone", "asking"}

RefusalCloses ==
    answer \notin {"none", "OPENED"} => conn \in {"none", "closed"}

(* What each step of opening has established: a configuration that is      *)
(* valid, settings that were read after the last SET, and a connection     *)
(* that nobody else closes.                                                *)
SessionInv ==
    /\ SessionTypeOK
    /\ pc # "done" => answer = "none" /\ used = Missing
    /\ pc \notin {"configuring", "done"} => ValidConfig
    /\ pc \in {"configuring", "connecting"} => conn = "none"
    /\ pc \in Statements \cup {"confirming", "using"} => conn \in {"open", "lost"}
    /\ pc \in {"confirming", "using"} => seen = session
    /\ pc = "using" => Confirmed
    /\ pc = "done" => answer # "none"
    /\ conn # "none" => ValidConfig
    /\ OpenedIsSafe
    /\ RefusalCloses

(* A valid configuration names a port there is and a database of ours. *)
LEMMA ValidNames ==
    ASSUME SessionTypeOK, ValidConfig
    PROVE  /\ \A v \in Variables : environ[v] # Missing
           /\ IsPort(PortValue[environ["port"]])
           /\ environ["database"] \in OwnNames
<1>1. environ["port"] \in Texts
    BY SessionAssumption DEF SessionTypeOK, ValidConfig, Variables
<1>2. \A v \in Variables : environ[v] # Missing
    BY DEF ValidConfig
<1>3. environ["database"] \in OwnNames
    BY DEF ValidConfig, ValidName
<1>4. ValidPort(environ["port"])
    BY DEF ValidConfig
<1> DEFINE port == PortValue[environ["port"]]
<1>5. port # NoNumber /\ 1 <= port /\ port <= 65535
    BY <1>4 DEF ValidPort
<1>6. port \in Int
    BY <1>1, <1>5, SessionAssumption
<1>7. IsPort(port)
    BY <1>5, <1>6 DEF IsPort
<1> QED
    BY <1>2, <1>3, <1>7

LEMMA SessionStarts == SessionInit => SessionInv
BY SessionAssumption
   DEF SessionInit, SessionInv, SessionTypeOK, PCs, Answers, OpenedIsSafe,
       RefusalCloses, Statements

(* A refusal that closes the connection keeps the invariant. *)
LEMMA RefusalKeeps ==
    ASSUME SessionInv, NEW how \in {"CONFIGURATION", "CONNECTION", "USE_FAILED"},
           NEW c \in {"none", "closed"}, End(how, c),
           c = "closed" => pc \notin {"configuring", "done"},
           UNCHANGED <<environ, session, seen, used>>
    PROVE  SessionInv'
<1>1. pc' = "done" /\ answer' = how /\ conn' = c
    BY DEF End
<1>2. SessionTypeOK'
    BY <1>1 DEF SessionInv, SessionTypeOK, PCs, Answers
<1>3. OpenedIsSafe' /\ RefusalCloses'
    BY <1>1 DEF OpenedIsSafe, RefusalCloses
<1>4. conn' # "none" => ValidConfig'
    BY <1>1 DEF SessionInv, ValidConfig
<1> QED
    BY <1>1, <1>2, <1>3, <1>4 DEF SessionInv, Statements

(* A SET, applied or not, leaves settings of the same kind. *)
LEMMA SetKeeps ==
    ASSUME SessionInv, NEW here \in Statements,
           NEW next \in Statements, NEW to \in Sessions, Set(here, next, to)
    PROVE  SessionInv'
BY DEF SessionInv, SessionTypeOK, PCs, Answers, OpenedIsSafe,
       RefusalCloses, Statements, Set, ValidConfig

LEMMA SessionStep == SessionInv /\ [SessionNext]_sessionVars => SessionInv'
<1> SUFFICES ASSUME SessionInv, [SessionNext]_sessionVars PROVE SessionInv'
    OBVIOUS
<1>t. SessionTypeOK
    BY DEF SessionInv
<1>1. CASE LoadConfig
    <2>1. CASE ValidConfig /\ pc' = "connecting" /\ UNCHANGED <<answer, conn>>
        BY <1>1, <2>1
           DEF LoadConfig, SessionInv, SessionTypeOK, PCs, OpenedIsSafe,
               RefusalCloses, Statements, ValidConfig
    <2>2. CASE ~ValidConfig /\ End("CONFIGURATION", conn)
        <3>1. conn = "none"
            BY <1>1 DEF LoadConfig, SessionInv
        <3> QED
            BY <1>1, <2>2, <3>1, RefusalKeeps DEF LoadConfig
    <2> QED
        BY <1>1, <2>1, <2>2 DEF LoadConfig
<1>2. CASE Connect
    <2>1. CASE conn' = "open" /\ pc' = "set fk" /\ UNCHANGED answer
        BY <1>2, <2>1
           DEF Connect, SessionInv, SessionTypeOK, PCs, OpenedIsSafe,
               RefusalCloses, Statements, ValidConfig
    <2> QED
        BY <1>2, <2>1, RefusalKeeps DEF Connect
<1>3. CASE SetForeignKeyChecks
    <2>1. [session EXCEPT !.fk = TRUE] \in Sessions
        BY <1>t DEF SessionTypeOK, Sessions
    <2> QED
        BY <1>3, <2>1, SetKeeps DEF SetForeignKeyChecks, Statements
<1>4. CASE SetMode
    <2>1. [session EXCEPT !.modes = StrictModes] \in Sessions
        BY <1>t DEF SessionTypeOK, Sessions
    <2> QED
        BY <1>4, <2>1, SetKeeps DEF SetMode, Statements
<1>5. CASE SetTimeZone
    <2>1. [session EXCEPT !.utc = TRUE] \in Sessions
        BY <1>t DEF SessionTypeOK, Sessions
    <2> QED
        BY <1>5, <2>1, SetKeeps DEF SetTimeZone, Statements
<1>6. CASE Ask
    BY <1>6 DEF Ask, SessionInv, SessionTypeOK, PCs, OpenedIsSafe,
                RefusalCloses, Statements, ValidConfig
<1>7. CASE Confirm
    <2>1. CASE Confirmed /\ pc' = "using" /\ UNCHANGED <<answer, conn>>
        BY <1>7, <2>1
           DEF Confirm, SessionInv, SessionTypeOK, PCs, OpenedIsSafe,
               RefusalCloses, Statements, ValidConfig, Confirmed
    <2> QED
        BY <1>7, <2>1, RefusalKeeps DEF Confirm
<1>8. CASE StatementRaises
    BY <1>8, RefusalKeeps DEF StatementRaises
<1>9. CASE UseDatabase
    <2>1. ValidConfig /\ Confirmed /\ seen = session
        BY <1>9 DEF UseDatabase, SessionInv
    <2>2. /\ session.fk /\ session.utc /\ StrictModes \subseteq session.modes
          /\ environ["database"] \in OwnNames
          /\ IsPort(PortValue[environ["port"]])
        BY <1>t, <2>1, ValidNames DEF Confirmed
    <2>3. OpenedIsSafe'
        BY <1>9, <2>2 DEF UseDatabase, End, OpenedIsSafe
    <2>4. SessionTypeOK'
        BY <1>9, <1>t, <2>2, SessionAssumption
           DEF UseDatabase, End, SessionTypeOK, PCs, Answers
    <2>5. ValidConfig'
        BY <1>9, <2>1 DEF UseDatabase, ValidConfig
    <2> QED
        BY <1>9, <2>3, <2>4, <2>5
           DEF UseDatabase, End, SessionInv, RefusalCloses, Statements
<1>10. CASE UseRaises
    BY <1>10, RefusalKeeps DEF UseRaises
<1>11. CASE Lose
    BY <1>11 DEF Lose, SessionInv, SessionTypeOK, PCs, OpenedIsSafe,
                 RefusalCloses, Statements, ValidConfig, Confirmed
<1>12. CASE UNCHANGED sessionVars
    BY <1>12 DEF sessionVars, SessionInv, SessionTypeOK, OpenedIsSafe,
                 RefusalCloses, ValidConfig, Confirmed
<1> QED
    BY <1>1, <1>2, <1>3, <1>4, <1>5, <1>6, <1>7, <1>8, <1>9, <1>10, <1>11, <1>12
       DEF SessionNext, Proceed

THEOREM SessionInvHolds == SessionSpec => []SessionInv
BY SessionStarts, SessionStep, PTL DEF SessionSpec

(* Whoever is handed a session works under the settings that the schema    *)
(* rules need, in the configured database, whatever the server's defaults  *)
(* are and whichever SET it did not apply.                                 *)
THEOREM SessionsAreSafe == SessionSpec => []OpenedIsSafe
<1>1. SessionInv => OpenedIsSafe
    BY DEF SessionInv
<1> QED
    BY <1>1, SessionInvHolds, PTL

(* A refusal leaves no connection behind, wherever it was lost, and none   *)
(* is made under a configuration that is refused.                          *)
THEOREM RefusalsLeaveNothing == SessionSpec => []RefusalLeavesNothing
<1>1. SessionInv => RefusalLeavesNothing
    BY ValidNames DEF SessionInv, RefusalCloses, RefusalLeavesNothing
<1> QED
    BY <1>1, SessionInvHolds, PTL

-----------------------------------------------------------------------------
(* Each table and view is described by the same attributes. *)
TablesDescribed ==
    /\ DOMAIN tables \subseteq Tables \cup {Other}
    /\ tables = [t \in DOMAIN tables |-> tables[t]]
    /\ \A t \in DOMAIN tables :
         tables[t] = [f \in DOMAIN Created |-> tables[t][f]]

(* Whatever is altered, a table keeps as many columns as it has in the     *)
(* contract.                                                               *)
ColumnsCounted ==
    \A t \in DOMAIN columns :
        /\ t \in Tables
        /\ columns[t] = [i \in DOMAIN Columns[t] |-> columns[t][i]]

(* The name of a UNIQUE constraint is one in its table. *)
UniquesNamed ==
    /\ \A u \in uniques : u.table \in Tables \cup {Other}
    /\ \A u, w \in uniques : u.table = w.table /\ u.name = w.name => u = w

StructureInv ==
    /\ TablesDescribed
    /\ ColumnsCounted
    /\ UniquesNamed
    /\ checks \in [DOMAIN checks -> BOOLEAN]

LEMMA ColumnsAreSequences ==
    ASSUME NEW t \in Tables
    PROVE  DOMAIN Columns[t] = 1 .. Len(Columns[t]) /\ Len(Columns[t]) \in Nat
BY StructureAssumption, LenProperties

(* A table that has a column for each of the contract has as many. *)
LEMMA SameLength ==
    ASSUME NEW t \in Tables, NEW cols, cols = [i \in DOMAIN Columns[t] |-> cols[i]]
    PROVE  Len(cols) = Len(Columns[t]) /\ DOMAIN cols = 1 .. Len(cols)
<1>1. PICK n \in Nat : n = Len(Columns[t]) /\ DOMAIN Columns[t] = 1 .. n
    BY ColumnsAreSequences
<1>2. cols \in [1 .. n -> {cols[i] : i \in 1 .. n}]
    BY <1>1
<1>3. cols \in Seq({cols[i] : i \in 1 .. n})
    BY <1>2, SeqDef
<1> QED
    BY <1>1, <1>2, <1>3, LenProperties

LEMMA StructureStarts == StructureInit => StructureInv
<1> SUFFICES ASSUME StructureInit PROVE StructureInv
    OBVIOUS
<1>1. TablesDescribed
    BY DEF StructureInit, TablesDescribed, Created
<1>2. ColumnsCounted
    <2>1. \A t \in Tables : Columns[t] \in [DOMAIN Columns[t] -> Range(Columns[t])]
        BY StructureAssumption, LenProperties
    <2> QED
        BY <2>1, StructureAssumption DEF StructureInit, ColumnsCounted
<1>3. UniquesNamed
    BY StructureAssumption DEF StructureInit, UniqueRow, UniquesNamed
<1> QED
    BY <1>1, <1>2, <1>3 DEF StructureInit, StructureInv

LEMMA StructureStep == StructureInv /\ [Alter]_structureVars => StructureInv'
<1> SUFFICES ASSUME StructureInv, [Alter]_structureVars PROVE StructureInv'
    OBVIOUS
<1> USE DEF StructureInv
<1>1. CASE CreateOther
    <2>1. PICK kind : /\ kind \in {Created, [type |-> "VIEW", engine |-> "NULL",
                                             collation |-> "NULL"]}
                      /\ tables' = [t \in DOMAIN tables \cup {Other} |->
                                      IF t = Other THEN kind ELSE tables[t]]
        BY <1>1 DEF CreateOther
    <2>2. kind = [f \in DOMAIN Created |-> kind[f]]
        BY <2>1 DEF Created
    <2>3. TablesDescribed'
        BY <2>1, <2>2 DEF TablesDescribed
    <2> QED
        BY <1>1, <2>3 DEF CreateOther, ColumnsCounted, UniquesNamed
<1>2. ASSUME NEW t \in Tables \cup {Other}, DropTable(t) PROVE StructureInv'
    BY <1>2 DEF DropTable, Without, TablesDescribed, ColumnsCounted, UniquesNamed
<1>3. ASSUME NEW t \in Tables \cup {Other}, Convert(t) PROVE StructureInv'
    <2>1. PICK f \in {"engine", "collation"} :
              tables' = [tables EXCEPT ![t][f] = "other"]
        BY <1>3 DEF Convert
    <2> DEFINE new == [tables[t] EXCEPT ![f] = "other"]
    <2>2. new = [g \in DOMAIN Created |-> new[g]] /\ t \in DOMAIN tables
        BY <1>3 DEF TablesDescribed, Convert
    <2>3. tables' = [tables EXCEPT ![t] = new]
        BY <2>1
    <2> HIDE DEF new
    <2>4. TablesDescribed'
        BY <2>2, <2>3 DEF TablesDescribed
    <2> QED
        BY <1>3, <2>4 DEF Convert, ColumnsCounted, UniquesNamed
<1>4. ASSUME NEW t \in Tables \cup {Other}, ModifyColumn(t) PROVE StructureInv'
    <2>1. PICK i \in DOMAIN columns[t],
               f \in {"type", "nullable", "collation", "default"} :
              columns' = [columns EXCEPT ![t][i][f] = "other"]
        BY <1>4 DEF ModifyColumn
    <2> DEFINE new == [columns[t] EXCEPT ![i] = [@ EXCEPT ![f] = "other"]]
    <2>2. new = [j \in DOMAIN Columns[t] |-> new[j]] /\ t \in DOMAIN columns
        BY <1>4 DEF ColumnsCounted, ModifyColumn
    <2>3. columns' = [columns EXCEPT ![t] = new]
        BY <2>1
    <2> HIDE DEF new
    <2>4. ColumnsCounted'
        BY <2>2, <2>3 DEF ColumnsCounted
    <2> QED
        BY <1>4, <2>4 DEF ModifyColumn, TablesDescribed, UniquesNamed
<1>5. ASSUME NEW t \in Tables \cup {Other}, MoveColumns(t) PROVE StructureInv'
    <2>1. /\ t \in Tables /\ t \in DOMAIN columns
          /\ DOMAIN columns[t] = DOMAIN Columns[t]
        BY <1>5 DEF MoveColumns, ColumnsCounted
    <2>2. Len(columns[t]) = Len(Columns[t]) /\ DOMAIN columns[t] = 1 .. Len(columns[t])
        BY <2>1, SameLength DEF ColumnsCounted
    <2>3. Reverse(columns[t]) = [i \in DOMAIN Columns[t] |-> Reverse(columns[t])[i]]
        BY <2>1, <2>2 DEF Reverse
    <2>4. ColumnsCounted'
        BY <1>5, <2>3 DEF ColumnsCounted, MoveColumns
    <2> QED
        BY <1>5, <2>4 DEF MoveColumns, TablesDescribed, UniquesNamed
<1>6. ASSUME NEW t \in Tables \cup {Other}, DropPrimary(t) PROVE StructureInv'
    BY <1>6 DEF DropPrimary, TablesDescribed, ColumnsCounted, UniquesNamed
<1>7. ASSUME NEW u \in OtherUniques, AddUnique(u) PROVE StructureInv'
    BY <1>7 DEF AddUnique, TablesDescribed, ColumnsCounted, UniquesNamed
<1>8. ASSUME NEW u \in uniques, DropUnique(u) PROVE StructureInv'
    BY <1>8 DEF DropUnique, TablesDescribed, ColumnsCounted, UniquesNamed
<1>9. ASSUME NEW f \in OtherForeignKeys, AddForeignKey(f) PROVE StructureInv'
    BY <1>9 DEF AddForeignKey, TablesDescribed, ColumnsCounted, UniquesNamed
<1>10. ASSUME NEW f \in foreign, DropForeignKey(f) PROVE StructureInv'
    BY <1>10 DEF DropForeignKey, TablesDescribed, ColumnsCounted, UniquesNamed
<1>11. ASSUME NEW n \in DOMAIN Checks, AlterCheck(n) PROVE StructureInv'
    BY <1>11 DEF AlterCheck, Without, TablesDescribed, ColumnsCounted, UniquesNamed
<1>12. CASE UNCHANGED structureVars
    BY <1>12 DEF structureVars, TablesDescribed, ColumnsCounted, UniquesNamed
<1> QED
    BY <1>1, <1>2, <1>3, <1>4, <1>5, <1>6, <1>7, <1>8, <1>9, <1>10, <1>11, <1>12
       DEF Alter

THEOREM StructureInvHolds == StructureSpec => []StructureInv
BY StructureStarts, StructureStep, PTL DEF StructureSpec

-----------------------------------------------------------------------------
(* A set of natural numbers that is finite and not empty has a largest: of *)
(* the sets of those not below one of them, the smallest is that of the    *)
(* largest.                                                                *)
LEMMA LargestExists ==
    ASSUME NEW S \in SUBSET Nat, IsFiniteSet(S), S # {}
    PROVE  \E x \in S : \A y \in S : y <= x
<1> DEFINE From(x) == {y \in S : x <= y}
<1> DEFINE Cuts == {From(x) : x \in S}
<1>1. Cuts \subseteq FiniteSubsetsOf(S)
    BY FS_FiniteSubsetsOfFinite
<1>2. Cuts # {}
    OBVIOUS
<1>3. IsWellFoundedOn(StrictSubsetOrdering(S), FiniteSubsetsOf(S))
    BY FS_StrictSubsetOrderingWellFounded
<1> HIDE DEF Cuts
<1>4. PICK C \in Cuts : \A D \in Cuts : <<D, C>> \notin StrictSubsetOrdering(S)
    BY <1>1, <1>2, <1>3, WFMin
<1> USE DEF Cuts
<1>5. PICK x \in S : C = From(x)
    OBVIOUS
<1>6. ASSUME NEW y \in S PROVE y <= x
    <2> SUFFICES ASSUME x < y PROVE FALSE
        OBVIOUS
    <2>1. From(y) \subseteq From(x)
        <3> SUFFICES ASSUME NEW z \in S, y <= z PROVE x <= z
            OBVIOUS
        <3>1. x \in Nat /\ y \in Nat /\ z \in Nat
            OBVIOUS
        <3> QED
            BY <3>1
    <2>2. x \in From(x) /\ x \notin From(y)
        <3>1. x \in Nat /\ y \in Nat
            OBVIOUS
        <3> QED
            BY <3>1
    <2>3. <<From(y), From(x)>> \in StrictSubsetOrdering(S)
        BY <2>1, <2>2 DEF StrictSubsetOrdering
    <2> QED
        BY <1>4, <1>5, <2>3
<1> QED
    BY <1>6

(* Of the UNIQUE constraints that share a name, the one of the last table  *)
(* is the one that the validation compares.                                *)
LEMMA LastOfName ==
    ASSUME StructureInv, NEW u \in uniques
    PROVE  \E w \in uniques :
             /\ w.name = u.name /\ u.table <= w.table
             /\ \A x \in uniques : x.name = w.name => x.table <= w.table
<1> DEFINE Named == {x \in uniques : x.name = u.name}
           Places == {x.table : x \in Named}
<1>1. Places \subseteq Tables \cup {Other} /\ u.table \in Places
    BY DEF StructureInv, UniquesNamed
<1>2. IsFiniteSet(Tables \cup {Other}) /\ Tables \cup {Other} \subseteq Nat
    BY StructureAssumption, FS_AddElement
<1>3. IsFiniteSet(Places) /\ Places \subseteq Nat /\ Places # {}
    BY <1>1, <1>2, FS_Subset
<1> HIDE DEF Places
<1>4. PICK last \in Places : \A p \in Places : p <= last
    BY <1>3, LargestExists
<1> USE DEF Places
<1>5. PICK w \in Named : w.table = last
    OBVIOUS
<1> QED
    BY <1>1, <1>4, <1>5

(* A validation that finds no problem has seen the contract, and nothing   *)
(* beside it but UNIQUE constraints that bear the name of an expected one  *)
(* of a later table.                                                       *)
THEOREM SilenceIsContract == StructureSpec => []SilenceMeansContract
<1>1. StructureInv => SilenceMeansContract
    <2> SUFFICES ASSUME StructureInv, Problems = {}
                 PROVE  /\ tables = [t \in Tables |-> Created]
                        /\ \A t \in Tables :
                             /\ Len(columns[t]) = Len(Columns[t])
                             /\ \A i \in DOMAIN Columns[t] :
                                  \A f \in {"name", "type", "nullable", "collation"} :
                                      columns[t][i][f] = Columns[t][i][f]
                             /\ primary[t] = <<Columns[t][1].name>>
                        /\ \E i \in DOMAIN columns[Term] :
                             columns[Term][i].name = Points
                                 /\ columns[Term][i].default = "12"
                        /\ \A n \in DOMAIN Uniques : UniqueRow(n, Uniques[n]) \in uniques
                        /\ \A u \in uniques :
                             /\ u.name \in DOMAIN Uniques
                             /\ u = UniqueRow(u.name, Uniques[u.name])
                                  \/ u.table < Uniques[u.name].table
                        /\ foreign = ForeignKeys
                        /\ checks = [n \in DOMAIN Checks |-> TRUE]
        BY DEF SilenceMeansContract
    <2>1. /\ TableProblems = {} /\ ColumnProblems = {} /\ PrimaryProblems = {}
          /\ UniqueProblems = {} /\ ForeignKeyProblems = {} /\ CheckProblems = {}
        BY DEF Problems
    <2>2. tables = [t \in Tables |-> Created]
        <3>1. DOMAIN tables = Tables
            BY <2>1 DEF TableProblems
        <3>2. ASSUME NEW t \in Tables PROVE tables[t] = Created
            <4>1. ASSUME NEW f \in DOMAIN Created, tables[t][f] # Created[f]
                  PROVE  FALSE
                <5>1. <<t, f>> \in {<<t, g>> : g \in {g \in DOMAIN Created :
                                                 tables[t][g] # Created[g]}}
                    BY <4>1
                <5>2. <<t, f>> \in TableProblems
                    BY <3>1, <5>1 DEF TableProblems
                <5> QED
                    BY <2>1, <5>2
            <4>2. tables[t] = [f \in DOMAIN Created |-> Created[f]]
                BY <3>1, <4>1 DEF StructureInv, TablesDescribed
            <4> QED
                BY <4>2 DEF Created
        <3> QED
            BY <3>1, <3>2 DEF StructureInv, TablesDescribed
    <2>3. ASSUME NEW t \in Tables PROVE InOrder(t)
        BY <2>1 DEF ColumnProblems
    <2>4. ASSUME NEW t \in Tables
          PROVE  /\ Len(columns[t]) = Len(Columns[t])
                 /\ DOMAIN columns[t] = DOMAIN Columns[t]
                 /\ \A i \in DOMAIN Columns[t] :
                      columns[t][i].name = Columns[t][i].name
        <3>1. columns[t] = [i \in DOMAIN Columns[t] |-> columns[t][i]]
            BY <2>3 DEF InOrder, StructureInv, ColumnsCounted
        <3>2. Len(columns[t]) = Len(Columns[t])
            BY <3>1, SameLength
        <3>3. Names(columns[t]) = Names(Columns[t])
            BY <2>3 DEF InOrder
        <3>4. DOMAIN columns[t] = DOMAIN Columns[t]
            BY <3>1
        <3>5. ASSUME NEW i \in DOMAIN Columns[t]
              PROVE  columns[t][i].name = Columns[t][i].name
            <4>1. Names(columns[t])[i] = columns[t][i].name
                BY <3>4 DEF Names
            <4>2. Names(Columns[t])[i] = Columns[t][i].name
                BY DEF Names
            <4> QED
                BY <3>3, <4>1, <4>2
        <3> QED
            BY <3>2, <3>4, <3>5
    <2>5. ASSUME NEW t \in Tables, NEW i \in DOMAIN Columns[t],
                 NEW f \in {"name", "type", "nullable", "collation"}
          PROVE  columns[t][i][f] = Columns[t][i][f]
        <3>1. ASSUME ColumnDiffers(t, i) PROVE FALSE
            <4>1. <<t, columns[t][i].name>>
                      \in {<<t, columns[t][j].name>> :
                             j \in {j \in DOMAIN columns[t] : ColumnDiffers(t, j)}}
                BY <2>4, <3>1
            <4>2. <<t, columns[t][i].name>> \in ColumnProblems
                BY <2>3, <4>1 DEF ColumnProblems
            <4> QED
                BY <2>1, <4>2
        <3> QED
            BY <2>4, <3>1 DEF ColumnDiffers
    <2>6. \A t \in Tables : primary[t] = <<Columns[t][1].name>>
        BY <2>1 DEF PrimaryProblems, EXPECTED_PRIMARY_KEYS
    <2>7. \E i \in DOMAIN columns[Term] :
              columns[Term][i].name = Points /\ columns[Term][i].default = "12"
        <3>1. PICK i \in DOMAIN Columns[Term] : Columns[Term][i].name = Points
            BY StructureAssumption
        <3>2. i \in DOMAIN columns[Term] /\ columns[Term][i].name = Points
            BY <2>4, <3>1, StructureAssumption
        <3>3. Term \in DOMAIN columns
            BY <2>3, StructureAssumption DEF InOrder
        <3>4. ASSUME TermPointsDiffer PROVE FALSE
            <4>1. Term \in {t \in {Term} : TermPointsDiffer}
                BY <3>4
            <4>2. <<Term, "default">> \in ColumnProblems
                BY <4>1 DEF ColumnProblems
            <4> QED
                BY <2>1, <4>2
        <3> QED
            BY <3>2, <3>3, <3>4 DEF TermPointsDiffer
    <2>8. {u \in uniques : \A w \in uniques : w.name = u.name => w.table <= u.table}
              = {UniqueRow(n, Uniques[n]) : n \in DOMAIN Uniques}
        BY <2>1 DEF UniqueProblems
    <2>9. ASSUME NEW u \in uniques
          PROVE  /\ u.name \in DOMAIN Uniques
                 /\ u = UniqueRow(u.name, Uniques[u.name])
                      \/ u.table < Uniques[u.name].table
        <3>1. PICK w \in uniques :
                  /\ w.name = u.name /\ u.table <= w.table
                  /\ \A x \in uniques : x.name = w.name => x.table <= w.table
            BY LastOfName
        <3>2. PICK n \in DOMAIN Uniques : w = UniqueRow(n, Uniques[n])
            BY <2>8, <3>1
        <3>3. w.name = n /\ w.table = Uniques[n].table
            BY <3>2 DEF UniqueRow
        <3>4. CASE u.table = w.table
            BY <3>1, <3>2, <3>3, <3>4 DEF StructureInv, UniquesNamed
        <3>5. CASE u.table # w.table
            <4>1. u.table \in Nat /\ w.table \in Nat
                BY StructureAssumption DEF StructureInv, UniquesNamed
            <4> QED
                BY <3>1, <3>3, <3>5, <4>1
        <3> QED
            BY <3>4, <3>5
    <2>10. foreign = ForeignKeys
        BY <2>1 DEF ForeignKeyProblems
    <2>11. checks = [n \in DOMAIN Checks |-> TRUE]
        <3>1. DOMAIN checks = DOMAIN Checks /\ \A n \in DOMAIN checks : checks[n]
            BY <2>1 DEF CheckProblems
        <3> QED
            BY <3>1 DEF StructureInv
    <2> QED
        BY <2>2, <2>4, <2>5, <2>6, <2>7, <2>8, <2>9, <2>10, <2>11
<1> QED
    BY <1>1, StructureInvHolds, PTL
=============================================================================
