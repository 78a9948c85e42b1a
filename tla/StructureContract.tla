------------------------- MODULE StructureContract -------------------------
(***************************************************************************)
(* validate_structure (src/labdb/initialize.py): the metadata of the live  *)
(* database compared with the contract of src/labdb/metadata.py, query by  *)
(* query, after others have altered the tables that schema.sql created.    *)
(* Verification says what the queries mean when the tables are altered     *)
(* between them; here they are answered in one state.                      *)
(***************************************************************************)
EXTENDS Naturals, Sequences, SequencesExt

CONSTANTS
    Tables,      \* EXPECTED_TABLES, in the order of TABLE_NAME
    Other,       \* another table or view
    Columns,     \* EXPECTED_COLUMNS: the column rows of each table, in order
    Uniques,     \* EXPECTED_UNIQUES: table and columns of each name
    ForeignKeys, \* EXPECTED_FOREIGN_KEYS
    Checks,      \* EXPECTED_CHECKS: the table of each name
    Term,        \* the table 学期
    Points,      \* its column 初始积分
    OtherUniques,      \* UNIQUE constraints that others may add
    OtherForeignKeys,  \* FOREIGN KEY constraints that others may add
    MaxChanges   \* bound: how many statements alter the structure

EXPECTED_ENGINE == "InnoDB"
EXPECTED_COLLATION == "as_cs"  \* utf8mb4_0900_as_cs

(* The primary key of a table is its first column. *)
EXPECTED_PRIMARY_KEYS == [t \in Tables |-> <<Columns[t][1].name>>]

UniqueRow(n, u) == [table |-> u.table, name |-> n, columns |-> u.columns]

ASSUME StructureAssumption ==
    /\ Tables \subseteq Nat /\ IsFiniteSet(Tables) /\ Other \in Nat \ Tables
    /\ DOMAIN Columns = Tables
    /\ \A t \in Tables :
         Columns[t] # <<>> /\ Columns[t] \in Seq(Range(Columns[t]))
    /\ \A n \in DOMAIN Uniques : Uniques[n].table \in Tables
    /\ Term \in Tables
    /\ \E i \in DOMAIN Columns[Term] : Columns[Term][i].name = Points
    /\ MaxChanges \in Nat

VARIABLES
    tables,   \* name -> type, engine and collation of each table and view
    columns,  \* name -> its columns, in order
    primary,  \* name -> columns of its primary key, if it has one
    uniques,  \* UNIQUE constraints, named within their table
    foreign,  \* FOREIGN KEY constraints
    checks,   \* name -> whether the CHECK constraint is enforced
    changes   \* statements so far

structureVars == <<tables, columns, primary, uniques, foreign, checks, changes>>

Created == [type |-> "BASE TABLE", engine |-> EXPECTED_ENGINE,
            collation |-> EXPECTED_COLLATION]

(* What schema.sql creates. *)
StructureInit ==
    /\ tables = [t \in Tables |-> Created]
    /\ columns = Columns
    /\ primary = EXPECTED_PRIMARY_KEYS
    /\ uniques = {UniqueRow(n, Uniques[n]) : n \in DOMAIN Uniques}
    /\ foreign = ForeignKeys
    /\ checks = [n \in DOMAIN Checks |-> TRUE]
    /\ changes = 0

-----------------------------------------------------------------------------
(* validate_structure: the problems it finds in the answer to each query,  *)
(* as <<table, what>> (table 0: of the database).                          *)

TableProblems ==
    {<<0, "table set">> : x \in {x \in {tables} : DOMAIN x # Tables}}
        \cup UNION {{<<t, f>> : f \in {f \in DOMAIN Created :
                                         tables[t][f] # Created[f]}} :
                    t \in DOMAIN tables}

Names(rows) == [i \in DOMAIN rows |-> rows[i].name]

InOrder(t) == t \in DOMAIN columns /\ Names(columns[t]) = Names(Columns[t])

ColumnDiffers(t, i) ==
    \E f \in {"type", "nullable", "collation"} :
        columns[t][i][f] # Columns[t][i][f]

TermPointsDiffer ==
    Term \in DOMAIN columns /\ \E i \in DOMAIN columns[Term] :
        /\ columns[Term][i].name = Points
        /\ columns[Term][i].default # "12"

(* The columns of a table are compared only if their names and their order *)
(* agree; the one default, in any case.                                    *)
ColumnProblems ==
    {<<t, "order">> : t \in {t \in Tables : ~InOrder(t)}}
        \cup (UNION {{<<t, columns[t][i].name>> :
                        i \in {i \in DOMAIN columns[t] : ColumnDiffers(t, i)}} :
                     t \in {t \in Tables : InOrder(t)}})
        \cup {<<t, "default">> : t \in {t \in {Term} : TermPointsDiffer}}

PrimaryProblems ==
    {<<0, "primary">> : x \in {x \in {primary} : x # EXPECTED_PRIMARY_KEYS}}

(* actual_uniques has one entry for each name: of the constraints with the *)
(* same name in several tables, the one of the last table.                 *)
UniqueProblems ==
    LET actual == {u \in uniques : \A w \in uniques :
                     w.name = u.name => w.table <= u.table}
    IN {<<0, "unique">> : x \in {x \in {actual} :
           x # {UniqueRow(n, Uniques[n]) : n \in DOMAIN Uniques}}}

ForeignKeyProblems ==
    {<<0, "foreign">> : x \in {x \in {foreign} : x # ForeignKeys}}

(* Mutant: whether a CHECK is enforced is not asked. *)
CheckProblemsByName ==
    {<<0, "checks">> : x \in {x \in {checks} : DOMAIN x # DOMAIN Checks}}

CheckProblems ==
    {<<0, "checks">> : x \in {x \in {checks} : DOMAIN x # DOMAIN Checks}}
        \cup {<<0, "enforced">> : n \in {n \in DOMAIN checks : ~checks[n]}}

Problems ==
    UNION {TableProblems, ColumnProblems, PrimaryProblems, UniqueProblems,
           ForeignKeyProblems, CheckProblems}

-----------------------------------------------------------------------------
(* Statements of others that alter the structure, as MySQL lets them. *)

Without(f, x) == [y \in DOMAIN f \ {x} |-> f[y]]

(* A table of another make, or a view (which has neither engine nor        *)
(* collation).                                                             *)
CreateOther ==
    /\ Other \notin DOMAIN tables
    /\ \E kind \in {Created, [type |-> "VIEW", engine |-> "NULL",
                              collation |-> "NULL"]} :
         tables' = [t \in DOMAIN tables \cup {Other} |->
                      IF t = Other THEN kind ELSE tables[t]]
    /\ UNCHANGED <<columns, primary, uniques, foreign, checks>>

(* Not a table that others refer to. *)
DropTable(t) ==
    /\ t \in DOMAIN tables
    /\ \A f \in foreign : f.parent # t
    /\ tables' = Without(tables, t)
    /\ columns' = Without(columns, t)
    /\ primary' = Without(primary, t)
    /\ uniques' = {u \in uniques : u.table # t}
    /\ foreign' = {f \in foreign : f.table # t}
    /\ checks' = [n \in {n \in DOMAIN checks : Checks[n] # t} |-> checks[n]]

Convert(t) ==
    /\ t \in DOMAIN tables
    /\ \E f \in {"engine", "collation"} :
         tables' = [tables EXCEPT ![t][f] = "other"]
    /\ UNCHANGED <<columns, primary, uniques, foreign, checks>>

ModifyColumn(t) ==
    /\ t \in DOMAIN columns
    /\ \E i \in DOMAIN columns[t] :
         \E f \in {"type", "nullable", "collation", "default"} :
           columns' = [columns EXCEPT ![t][i][f] = "other"]
    /\ UNCHANGED <<tables, primary, uniques, foreign, checks>>

MoveColumns(t) ==
    /\ t \in DOMAIN columns
    /\ columns' = [columns EXCEPT ![t] = Reverse(@)]
    /\ UNCHANGED <<tables, primary, uniques, foreign, checks>>

DropPrimary(t) ==
    /\ t \in DOMAIN primary
    /\ \A f \in foreign : f.parent = t => f.columns # primary[t]
    /\ primary' = Without(primary, t)
    /\ UNCHANGED <<tables, columns, uniques, foreign, checks>>

(* Names of UNIQUE constraints are names within a table. *)
AddUnique(u) ==
    /\ u.table \in DOMAIN tables
    /\ \A w \in uniques : w.table = u.table => w.name # u.name
    /\ uniques' = uniques \cup {u}
    /\ UNCHANGED <<tables, columns, primary, foreign, checks>>

DropUnique(u) ==
    /\ u \in uniques
    /\ \A f \in foreign : f.parent = u.table => f.columns # u.columns
    /\ uniques' = uniques \ {u}
    /\ UNCHANGED <<tables, columns, primary, foreign, checks>>

(* Names of FOREIGN KEY and CHECK constraints are names within a database. *)
AddForeignKey(f) ==
    /\ {f.table, f.parent} \subseteq DOMAIN tables
    /\ \A g \in foreign : g.name # f.name
    /\ foreign' = foreign \cup {f}
    /\ UNCHANGED <<tables, columns, primary, uniques, checks>>

DropForeignKey(f) ==
    /\ f \in foreign
    /\ foreign' = foreign \ {f}
    /\ UNCHANGED <<tables, columns, primary, uniques, checks>>

AlterCheck(n) ==
    /\ n \in DOMAIN checks
    /\ \/ checks' = [checks EXCEPT ![n] = ~@]
       \/ checks' = Without(checks, n)
    /\ UNCHANGED <<tables, columns, primary, uniques, foreign>>

Alter ==
    /\ changes < MaxChanges
    /\ changes' = changes + 1
    /\ \/ CreateOther
       \/ \E t \in Tables \cup {Other} :
            \/ DropTable(t) \/ Convert(t) \/ ModifyColumn(t)
            \/ MoveColumns(t) \/ DropPrimary(t)
       \/ \E u \in OtherUniques : AddUnique(u)
       \/ \E u \in uniques : DropUnique(u)
       \/ \E f \in OtherForeignKeys : AddForeignKey(f)
       \/ \E f \in foreign : DropForeignKey(f)
       \/ \E n \in DOMAIN Checks : AlterCheck(n)

StructureSpec == StructureInit /\ [][Alter]_structureVars

-----------------------------------------------------------------------------
(* What a validation without problems says. *)

(* What the contract lists is there as it lists it, and nothing else: no   *)
(* difference of one table, column or constraint makes up for another or   *)
(* is hidden by it, but a UNIQUE constraint that bears the expected name   *)
(* of one of a later table (initialize.py:201-202, 268-272).               *)
SilenceMeansContract ==
    Problems = {} =>
        /\ tables = [t \in Tables |-> Created]
        /\ \A t \in Tables :
             /\ Len(columns[t]) = Len(Columns[t])
             /\ \A i \in DOMAIN Columns[t] :
                  \A f \in {"name", "type", "nullable", "collation"} :
                      columns[t][i][f] = Columns[t][i][f]
             /\ primary[t] = <<Columns[t][1].name>>
        /\ \E i \in DOMAIN columns[Term] :
             columns[Term][i].name = Points /\ columns[Term][i].default = "12"
        /\ \A n \in DOMAIN Uniques : UniqueRow(n, Uniques[n]) \in uniques
        /\ \A u \in uniques :
             /\ u.name \in DOMAIN Uniques
             /\ u = UniqueRow(u.name, Uniques[u.name])
                  \/ u.table < Uniques[u.name].table
        /\ foreign = ForeignKeys
        /\ checks = [n \in DOMAIN Checks |-> TRUE]
=============================================================================
