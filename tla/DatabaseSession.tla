-------------------------- MODULE DatabaseSession --------------------------
(***************************************************************************)
(* How every command gets its session: load_config (src/labdb/config.py),  *)
(* connect_server (src/labdb/db.py) and the USE of _open_database          *)
(* (src/labdb/transactions.py), statement by statement, on a server, or a  *)
(* proxy before it, that may answer a SET without applying it.             *)
(***************************************************************************)
EXTENDS Integers

CONSTANTS
    Texts,      \* values of an environment variable
    Missing,    \* it is not set, or empty
    PortValue,  \* the number a text denotes, or NoNumber
    NoNumber,   \* not ASCII decimal digits
    OwnNames,   \* texts that match labdb_[a-z0-9_]+
    Environs,   \* the environments that commands are started in
    OtherModes  \* SQL modes that are not the strict ones

Variables == {"host", "port", "user", "password", "database"}

ASSUME SessionAssumption ==
    /\ Missing \notin Texts
    /\ PortValue \in [Texts -> Int \cup {NoNumber}]
    /\ NoNumber \notin Int
    /\ OwnNames \subseteq Texts
    /\ Environs \subseteq [Variables -> Texts \cup {Missing}]

(* STRICT_SQL_MODE. *)
StrictModes == {"STRICT_TRANS_TABLES", "ERROR_FOR_DIVISION_BY_ZERO",
                "NO_ENGINE_SUBSTITUTION"}

Sessions == [fk : BOOLEAN, modes : SUBSET (StrictModes \cup OtherModes),
             utc : BOOLEAN]

VARIABLES
    environ,  \* the environment variables
    session,  \* server: the settings of the session
    seen,     \* the settings that the SELECT fetched
    used,     \* the database the session uses, or Missing
    conn,     \* the connection
    pc,       \* the statement that is next
    answer    \* how opening ended

sessionVars == <<environ, session, seen, used, conn, pc, answer>>

PCs == {"configuring", "connecting", "set fk", "set modes", "set zone",
        "asking", "confirming", "using", "done"}

Answers == {"none", "OPENED", "CONFIGURATION", "CONNECTION", "USE_FAILED"}

SessionTypeOK ==
    /\ environ \in Environs
    /\ session \in Sessions /\ seen \in Sessions
    /\ used \in Texts \cup {Missing}
    /\ conn \in {"none", "open", "lost", "closed"}
    /\ pc \in PCs
    /\ answer \in Answers

(* Any environment; the defaults of any server. *)
SessionInit ==
    /\ environ \in Environs
    /\ session \in Sessions
    /\ seen = session
    /\ used = Missing
    /\ conn = "none"
    /\ pc = "configuring"
    /\ answer = "none"

-----------------------------------------------------------------------------
(* load_config. *)

(* _parse_port. *)
ValidPort(text) ==
    LET port == PortValue[text]
    IN port # NoNumber /\ 1 <= port /\ port <= 65535

(* validate_database_name. *)
ValidName(text) == text \in OwnNames

ValidConfig ==
    /\ \A v \in Variables : environ[v] # Missing
    /\ ValidPort(environ["port"])
    /\ ValidName(environ["database"])

End(how, c) ==
    /\ pc' = "done"
    /\ answer' = how
    /\ conn' = c

LoadConfig ==
    /\ pc = "configuring"
    /\ \/ ValidConfig /\ pc' = "connecting" /\ UNCHANGED <<answer, conn>>
       \/ ~ValidConfig /\ End("CONFIGURATION", conn)
    /\ UNCHANGED <<environ, session, seen, used>>

-----------------------------------------------------------------------------
(* connect_server. *)

Connect ==
    /\ pc = "connecting"
    /\ \/ conn' = "open" /\ pc' = "set fk" /\ UNCHANGED answer
       \/ End("CONNECTION", "none")
    /\ UNCHANGED <<environ, session, seen, used>>

(* A SET is answered: it was applied, or it was not. *)
Set(here, next, to) ==
    /\ pc = here /\ conn = "open"
    /\ session' \in {session, to}
    /\ pc' = next
    /\ UNCHANGED <<environ, seen, used, conn, answer>>

SetForeignKeyChecks == Set("set fk", "set modes", [session EXCEPT !.fk = TRUE])

SetMode == Set("set modes", "set zone", [session EXCEPT !.modes = StrictModes])

SetTimeZone == Set("set zone", "asking", [session EXCEPT !.utc = TRUE])

Ask ==
    /\ pc = "asking" /\ conn = "open"
    /\ seen' = session
    /\ pc' = "confirming"
    /\ UNCHANGED <<environ, session, used, conn, answer>>

(* Mutant: one strict mode is enough. *)
ConfirmedByAny == seen.fk /\ seen.utc /\ StrictModes \cap seen.modes # {}

Confirmed == seen.fk /\ seen.utc /\ StrictModes \subseteq seen.modes

Confirm ==
    /\ pc = "confirming"
    /\ \/ Confirmed /\ pc' = "using" /\ UNCHANGED <<answer, conn>>
       \/ ~Confirmed /\ End("CONNECTION", "closed")
    /\ UNCHANGED <<environ, session, seen, used>>

(* Mutant: the connection is closed only when the settings differ. *)
StatementRaisesUnclosed ==
    /\ pc \in {"set fk", "set modes", "set zone", "asking"}
    /\ End("CONNECTION", conn)
    /\ UNCHANGED <<environ, session, seen, used>>

(* Mutant: no read timeout. *)
StatementRaisesAnswered ==
    /\ pc \in {"set fk", "set modes", "set zone", "asking"} /\ conn = "open"
    /\ End("CONNECTION", "closed")
    /\ UNCHANGED <<environ, session, seen, used>>

(* A SET or the SELECT raises, on a connection that is lost or not. *)
StatementRaises ==
    /\ pc \in {"set fk", "set modes", "set zone", "asking"}
    /\ End("CONNECTION", "closed")
    /\ UNCHANGED <<environ, session, seen, used>>

-----------------------------------------------------------------------------
(* _open_database. *)

UseDatabase ==
    /\ pc = "using" /\ conn = "open"
    /\ used' = environ["database"]
    /\ End("OPENED", conn)
    /\ UNCHANGED <<environ, session, seen>>

UseRaises ==
    /\ pc = "using"
    /\ End("USE_FAILED", "closed")
    /\ UNCHANGED <<environ, session, seen, used>>

(* The server or the network drops the connection while it is used. *)
Lose ==
    /\ conn = "open" /\ pc # "done"
    /\ conn' = "lost"
    /\ UNCHANGED <<environ, session, seen, used, pc, answer>>

Proceed ==
    \/ LoadConfig \/ Connect
    \/ SetForeignKeyChecks \/ SetMode \/ SetTimeZone \/ Ask \/ Confirm
    \/ StatementRaises \/ UseDatabase \/ UseRaises

SessionNext == Proceed \/ Lose

SessionSpec == SessionInit /\ [][SessionNext]_sessionVars

(* Each statement is answered or times out (connect_server, 10 and 30 s).  *)
SessionFairness == WF_sessionVars(Proceed)

FairSessionSpec == SessionSpec /\ SessionFairness

-----------------------------------------------------------------------------
(* A port of TCP. *)
IsPort(n) == n \in Nat \ {0} /\ n < 65536

(* Whoever is handed a session has foreign keys, strict modes and UTC in   *)
(* force at the server, whatever its defaults and whether or not each SET  *)
(* was applied, and works in the configured database, one of ours          *)
(* (db.py:37-54, config.py:34-66): the schema rules and DATETIME columns   *)
(* of every other module rest on this.                                     *)
OpenedIsSafe ==
    answer = "OPENED" =>
        /\ session.fk /\ session.utc /\ StrictModes \subseteq session.modes
        /\ used = environ["database"] /\ used \in OwnNames
        /\ IsPort(PortValue[environ["port"]]) /\ conn = "open"

(* A refusal leaves no connection behind, whichever statement failed and   *)
(* wherever its connection was lost (db.py:56-66, transactions.py:303);    *)
(* and none is made but to a port that there is, for a database of ours    *)
(* and with everything set (config.py:43-66).                              *)
RefusalLeavesNothing ==
    /\ answer \notin {"none", "OPENED"} => conn \in {"none", "closed"}
    /\ conn # "none" =>
         /\ \A v \in Variables : environ[v] # Missing
         /\ IsPort(PortValue[environ["port"]])
         /\ environ["database"] \in OwnNames

(* Opening ends, though any statement may go unanswered (db.py:31-33). *)
OpeningEnds == <>(pc = "done")
=============================================================================
