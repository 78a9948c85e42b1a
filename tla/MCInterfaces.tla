---------------------------- MODULE MCInterfaces ----------------------------
(* Instances for TLC of what stands between the commands and the server:   *)
(* the session that each opens, the script that is cut into statements and *)
(* the structure that is validated.  They do not touch one another, so a   *)
(* behaviour runs one part and leaves the others where they start.         *)
EXTENDS DatabaseSession, StructureContract, SqlSplitter, TLC

CONSTANTS unset, ours, other, nan, port0, port1, portLast, portOver

VARIABLE part  \* which one runs

(* Texts for names, and for ports at both ends of the range. *)
Numbers ==
    [t \in {ours, other, port0, port1, portLast, portOver} |->
        CASE t = port0    -> 0     [] t = port1    -> 1
          [] t = portLast -> 65535 [] t = portOver -> 65536
          [] OTHER        -> nan]

(* Every port and name, each variable set or not. *)
AnyEnviron ==
    {f \in [Variables -> DOMAIN Numbers \cup {unset}] :
        \A v \in {"host", "user", "password"} : f[v] \in {other, unset}}

-----------------------------------------------------------------------------
(* Four tables of the contract with some of their columns (metadata.py:57, *)
(* 116), and what constrains them (metadata.py:132, 166, 189): 借用, 学期,   *)
(* 签到记录 and 违规记录, as their names sort.                                 *)
Loan == 1
Semester == 2
Checkin == 3
Violation == 4
FourTables == {Loan, Semester, Checkin, Violation}

Col(name, type, nullable, default) ==
    [name |-> name, type |-> type, nullable |-> nullable,
     collation |-> IF type = "varchar" THEN EXPECTED_COLLATION ELSE "NULL",
     default |-> default]

Key(name) == Col(name, "varchar", "NO", "NULL")

FourColumns ==
    <<<<Key("loan"), Key("device")>>,
      <<Key("semester"), Col("points", "int", "NO", "12")>>,
      <<Key("checkin"), Key("reservation")>>,
      <<Key("violation"), Key("reservation"),
        Col("checkin", "varchar", "YES", "NULL")>>>>

ThreeUniques ==
    "uq_checkin_reservation" :>
        [table |-> Checkin, columns |-> <<"reservation">>]
    @@ "uq_checkin_reservation_id" :>
        [table |-> Checkin, columns |-> <<"reservation", "checkin">>]
    @@ "uq_violation_reservation_type" :>
        [table |-> Violation, columns |-> <<"reservation", "violation">>]

Fk(name, parent) ==
    [name |-> name, table |-> Violation, parent |-> parent,
     columns |-> <<"reservation", "checkin">>, rule |-> "RESTRICT"]

TheForeignKey == {Fk("fk_violation_checkin", Checkin)}

TwoChecks ==
    "ck_term_period" :> Semester @@ "ck_violation_type_score" :> Violation

(* A name of its own, and the name of an expected constraint in a table    *)
(* that sorts before or after it.                                          *)
AddedUniques ==
    {[table |-> Loan, name |-> n, columns |-> <<"device">>] :
       n \in {"uq_device", "uq_checkin_reservation"}}
    \cup {[table |-> Violation, name |-> "uq_checkin_reservation",
           columns |-> <<"reservation">>]}

(* The expected one, once dropped, with another action or a name of its own. *)
AddedForeignKeys ==
    {[Fk("fk_violation_checkin", Checkin) EXCEPT !.rule = "CASCADE"],
     Fk("fk_other", Checkin)} \cup TheForeignKey

-----------------------------------------------------------------------------
(* One of each kind of character. *)
AllKinds ==
    {"single", "double", "backtick", Backslash, "#", "-", "/", "*",
     Newline, " ", ";", "x"}

UpTo(n, chars) == UNION {[1 .. k -> chars] : k \in 0 .. n}

(* All short texts, and longer ones of what means most when it is repeated. *)
ShortScripts ==
    UpTo(4, AllKinds)
    \cup UNION {UpTo(6, chars \cup {";"}) :
                  chars \in {{"single", Backslash}, {"/", "*"}, {"-", Newline}}}

-----------------------------------------------------------------------------
(* A session that no command opens. *)
NoSession ==
    /\ environ = CHOOSE f \in Environs : TRUE
    /\ session = CHOOSE s \in Sessions : TRUE
    /\ seen = session /\ used = Missing /\ conn = "none"
    /\ pc = "done" /\ answer = "none"

PartsInit ==
    /\ part \in {"session", "structure", "text"}
    /\ IF part = "session" THEN SessionInit ELSE NoSession
    /\ StructureInit
    /\ part = "text" \/ sql = <<>>
    /\ ScanInit

SessionPart ==
    /\ part = "session" /\ SessionNext
    /\ UNCHANGED <<part, structureVars, scanVars>>

StructurePart ==
    /\ part = "structure" /\ Alter
    /\ UNCHANGED <<part, sessionVars, scanVars>>

TextPart ==
    /\ part = "text" /\ ScanNext
    /\ UNCHANGED <<part, sessionVars, structureVars>>

PartsNext == SessionPart \/ StructurePart \/ TextPart

PartsSpec ==
    /\ PartsInit
    /\ [][PartsNext]_<<part, sessionVars, structureVars, scanVars>>
    /\ SessionFairness
=============================================================================
