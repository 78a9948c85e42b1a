--------------------------- MODULE DatabaseSetup ---------------------------
(***************************************************************************)
(* initialize_database (src/labdb/initialize.py) and seed_database         *)
(* (src/labdb/seed.py) on one target database: runs of both at the same    *)
(* time, each statement failing or not, processes dying, and somebody      *)
(* else writing to the database.  CREATE TABLE commits by itself; the seed *)
(* is one transaction whose COMMIT may be lost on the way or on the way    *)
(* back.                                                                   *)
(*                                                                         *)
(* schema.sql creates the tables, and seed.sql fills them, in one order:   *)
(* statement k of either file is the one for table k.                      *)
(***************************************************************************)
EXTENDS Naturals

CONSTANTS
    Initializers,  \* runs of initialize_database
    Seeders,       \* runs of seed_database
    Last,          \* number of tables, and of statements in either file
    Other,         \* a table or view that schema.sql does not create
    Intrusion      \* whether somebody else creates objects and rows

Tables == 1 .. Last
Runs == Initializers \cup Seeders

ASSUME SetupAssumption ==
    /\ Last \in Nat \ {0}
    /\ Other \notin Tables
    /\ Initializers \cap Seeders = {}
    /\ Intrusion \in BOOLEAN

VARIABLES
    present,  \* the target database exists
    objects,  \* tables and views in it
    rows,     \* committed rows of each table: those of seed.sql, or others
    tx,       \* server: transaction on each seeder's connection
    wrote,    \* server: tables that transaction has inserted into
    pc,       \* run: where it is
    step,     \* run: the table whose statement is next
    occupied, \* seeder: a row count of its preflight was not 0
    answer,   \* run: how it ended
    conn      \* run: its connection

target == <<present, objects, rows>>
server == <<tx, wrote>>
vars == <<target, server, pc, step, occupied, answer, conn>>

(* Initialization: preflight, one CREATE TABLE after the other, validation.*)
(* Seeding: USE, validation, counting, BEGIN, one INSERT after the other,  *)
(* recounting (with the business checks), COMMIT.                          *)
PCs == {"idle", "preflight", "creating", "inspecting", "selecting",
        "validating", "counting", "beginning", "inserting", "recounting",
        "committing", "rollback", "done", "crashed"}

Answers ==
    {"none", "SUCCESS",
     "REFUSED",            \* InitializationRefused, SeedRefused
     "NOT_STARTED",        \* files unreadable, no connection
     "SCHEMA_EXECUTION", "STRUCTURE_INVALID",
     "SEED_EXECUTION",     \* SeedExecutionError
     "UNHANDLED"}          \* any other exception

TypeOK ==
    /\ present \in BOOLEAN
    /\ objects \in SUBSET (Tables \cup {Other})
    /\ rows \in [Tables -> SUBSET {"seed", "other"}]
    /\ tx \in [Seeders -> {"none", "open", "committing", "committed",
                           "aborted"}]
    /\ wrote \in [Seeders -> SUBSET Tables]
    /\ pc \in [Runs -> PCs]
    /\ step \in [Runs -> 1 .. Last + 1]
    /\ occupied \in [Seeders -> BOOLEAN]
    /\ answer \in [Runs -> Answers]
    /\ conn \in [Runs -> {"none", "open", "lost", "closed"}]

(* A missing, an empty, a foreign and an initialized target. *)
Init ==
    /\ present \in BOOLEAN
    /\ objects \in IF present THEN {{}, {Other}, Tables} ELSE {{}}
    /\ rows = [k \in Tables |-> {}]
    /\ tx = [s \in Seeders |-> "none"]
    /\ wrote = [s \in Seeders |-> {}]
    /\ pc = [r \in Runs |-> "idle"]
    /\ step = [r \in Runs |-> 1]
    /\ occupied = [s \in Seeders |-> FALSE]
    /\ answer = [r \in Runs |-> "none"]
    /\ conn = [r \in Runs |-> "none"]

-----------------------------------------------------------------------------
(* Helpers. *)

GoTo(r, where) == pc' = [pc EXCEPT ![r] = where]

(* The run ends; finally closes its connection. *)
Finish(r, how) ==
    /\ GoTo(r, "done")
    /\ answer' = [answer EXCEPT ![r] = how]
    /\ conn' = [conn EXCEPT ![r] = "closed"]

(* InnoDB ends a transaction, and with it the locks on what it wrote. *)
EndTx(s, state) ==
    /\ tx' = [tx EXCEPT ![s] = state]
    /\ wrote' = [wrote EXCEPT ![s] = {}]

(* validate_structure finds exactly the tables of the contract. *)
StructureMatches == objects = Tables

-----------------------------------------------------------------------------
(* Either run: the file and the name are checked, a connection is made. *)

NotStarted(r) ==
    /\ pc[r] = "idle"
    /\ GoTo(r, "done")
    /\ answer' = [answer EXCEPT ![r] = "NOT_STARTED"]
    /\ UNCHANGED <<target, server, step, occupied, conn>>

Connect(r) ==
    /\ pc[r] = "idle"
    /\ GoTo(r, IF r \in Initializers THEN "preflight" ELSE "selecting")
    /\ conn' = [conn EXCEPT ![r] = "open"]
    /\ UNCHANGED <<target, server, step, occupied, answer>>

(* The process dies. *)
Crash(r) ==
    /\ pc[r] \notin {"idle", "done", "crashed"}
    /\ GoTo(r, "crashed")
    /\ conn' = [conn EXCEPT ![r] = "lost"]
    /\ UNCHANGED <<target, server, step, occupied, answer>>

-----------------------------------------------------------------------------
(* initialize_database. *)

(* _select_target_database accepts a database with no table or view. *)
SelectTarget(i) ==
    /\ pc[i] = "preflight"
    /\ present /\ objects = {}
    /\ GoTo(i, "creating")
    /\ UNCHANGED <<target, server, step, occupied, answer, conn>>

(* The database is missing or not empty, or the preflight itself fails. *)
RefuseTarget(i) ==
    /\ pc[i] = "preflight"
    /\ Finish(i, "REFUSED")
    /\ UNCHANGED <<target, server, step, occupied>>

(* Mutant: CREATE TABLE IF NOT EXISTS. *)
CreateIfMissing(i) ==
    /\ pc[i] = "creating" /\ step[i] \in Tables
    /\ objects' = objects \cup {step[i]}
    /\ step' = [step EXCEPT ![i] = @ + 1]
    /\ UNCHANGED <<present, rows, server, pc, occupied, answer, conn>>

(* CREATE TABLE needs its name free and the tables it references there. *)
CreateTable(i) ==
    /\ pc[i] = "creating" /\ step[i] \in Tables
    /\ step[i] \notin objects /\ 1 .. step[i] - 1 \subseteq objects
    /\ objects' = objects \cup {step[i]}
    /\ step' = [step EXCEPT ![i] = @ + 1]
    /\ UNCHANGED <<present, rows, server, pc, occupied, answer, conn>>

(* A statement raises: not executed, or executed and its answer lost.      *)
(* What was created so far stays.                                          *)
CreateFails(i) ==
    /\ pc[i] = "creating" /\ step[i] \in Tables
    /\ \/ UNCHANGED objects
       \/ /\ step[i] \notin objects /\ 1 .. step[i] - 1 \subseteq objects
          /\ objects' = objects \cup {step[i]}
    /\ Finish(i, "SCHEMA_EXECUTION")
    /\ UNCHANGED <<present, rows, server, step, occupied>>

AllCreated(i) ==
    /\ pc[i] = "creating" /\ step[i] = Last + 1
    /\ GoTo(i, "inspecting")
    /\ UNCHANGED <<target, server, step, occupied, answer, conn>>

Inspect(i) ==
    /\ pc[i] = "inspecting"
    /\ \/ StructureMatches /\ Finish(i, "SUCCESS")
       \/ Finish(i, "STRUCTURE_INVALID")  \* it differs, or a query fails
    /\ UNCHANGED <<target, server, step, occupied>>

-----------------------------------------------------------------------------
(* seed_database: before the transaction. *)

SelectDatabase(s) ==
    /\ pc[s] = "selecting" /\ present
    /\ GoTo(s, "validating")
    /\ UNCHANGED <<target, server, step, occupied, answer, conn>>

ValidateStructure(s) ==
    /\ pc[s] = "validating" /\ StructureMatches
    /\ GoTo(s, "counting")
    /\ UNCHANGED <<target, server, step, occupied, answer, conn>>

RefuseStructure(s) ==
    /\ pc[s] = "validating" /\ ~StructureMatches
    /\ Finish(s, "REFUSED")
    /\ UNCHANGED <<target, server, step, occupied>>

(* One SELECT COUNT per table, each seeing what is committed by then. *)
CountTable(s) ==
    /\ pc[s] = "counting" /\ step[s] \in Tables
    /\ occupied' = [occupied EXCEPT ![s] = @ \/ rows[step[s]] # {}]
    /\ step' = [step EXCEPT ![s] = @ + 1]
    /\ UNCHANGED <<target, server, pc, answer, conn>>

RefuseOccupied(s) ==
    /\ pc[s] = "counting" /\ step[s] = Last + 1 /\ occupied[s]
    /\ Finish(s, "REFUSED")
    /\ UNCHANGED <<target, server, step, occupied>>

AllEmpty(s) ==
    /\ pc[s] = "counting" /\ step[s] = Last + 1 /\ ~occupied[s]
    /\ GoTo(s, "beginning")
    /\ step' = [step EXCEPT ![s] = 1]
    /\ UNCHANGED <<target, server, occupied, answer, conn>>

(* USE, a metadata query, a count or BEGIN raises: transaction_started is  *)
(* still false, and the error is reported as a failed seed statement.      *)
PreflightFails(s) ==
    /\ pc[s] \in {"selecting", "validating", "counting", "beginning"}
    /\ Finish(s, "SEED_EXECUTION")
    /\ UNCHANGED <<target, server, step, occupied>>

Begin(s) ==
    /\ pc[s] = "beginning"
    /\ tx' = [tx EXCEPT ![s] = "open"]
    /\ GoTo(s, "inserting")
    /\ UNCHANGED <<target, wrote, step, occupied, answer, conn>>

-----------------------------------------------------------------------------
(* seed_database: the transaction. *)

(* Another transaction holds the keys that the next statement inserts. *)
KeysPending(s) ==
    \E t \in Seeders \ {s} : step[s] \in wrote[t]

(* Mutant: autocommit stays on for the statements of the seed. *)
InsertAutocommitted(s) ==
    /\ pc[s] = "inserting" /\ conn[s] = "open" /\ step[s] \in Tables
    /\ "seed" \notin rows[step[s]]
    /\ rows' = [rows EXCEPT ![step[s]] = @ \cup {"seed"}]
    /\ step' = [step EXCEPT ![s] = @ + 1]
    /\ UNCHANGED <<present, objects, server, pc, occupied, answer, conn>>

(* Mutant: the tables have no primary keys. *)
InsertUnkeyed(s) ==
    /\ pc[s] = "inserting" /\ conn[s] = "open" /\ step[s] \in Tables
    /\ wrote' = [wrote EXCEPT ![s] = @ \cup {step[s]}]
    /\ step' = [step EXCEPT ![s] = @ + 1]
    /\ UNCHANGED <<target, tx, pc, occupied, answer, conn>>

(* INSERT waits for the keys another transaction has inserted, and fails   *)
(* (InsertFails) if they are committed.                                    *)
InsertRows(s) ==
    /\ pc[s] = "inserting" /\ conn[s] = "open" /\ step[s] \in Tables
    /\ step[s] \in objects
    /\ ~KeysPending(s) /\ "seed" \notin rows[step[s]]
    /\ wrote' = [wrote EXCEPT ![s] = @ \cup {step[s]}]
    /\ step' = [step EXCEPT ![s] = @ + 1]
    /\ UNCHANGED <<target, tx, pc, occupied, answer, conn>>

(* A duplicate key, a lock wait timeout, a lost connection, or a deadlock  *)
(* for which the server rolled the transaction back.                       *)
StatementFails(s, state, c) ==
    /\ GoTo(s, "rollback")
    /\ answer' = [answer EXCEPT ![s] = "SEED_EXECUTION"]
    /\ conn' = [conn EXCEPT ![s] = c]
    /\ IF state = "aborted" THEN EndTx(s, state) ELSE UNCHANGED server

InsertFails(s) ==
    /\ pc[s] = "inserting" /\ step[s] \in Tables
    /\ \/ conn[s] = "open" /\ StatementFails(s, tx[s], "open")
       \/ conn[s] = "open" /\ StatementFails(s, "aborted", "open")
       \/ StatementFails(s, tx[s], "lost")
    /\ UNCHANGED <<target, step, occupied>>

AllInserted(s) ==
    /\ pc[s] = "inserting" /\ step[s] = Last + 1
    /\ GoTo(s, "recounting")
    /\ UNCHANGED <<target, server, step, occupied, answer, conn>>

(* The first SELECT fixes the snapshot that all counts and business checks *)
(* read: the rows of this transaction and those committed by then.  If     *)
(* they are those of seed.sql, COMMIT is sent.                             *)
Recount(s) ==
    /\ pc[s] = "recounting" /\ conn[s] = "open"
    /\ wrote[s] = Tables /\ \A k \in Tables : rows[k] = {}
    /\ GoTo(s, "committing")
    /\ tx' = [tx EXCEPT ![s] = "committing"]
    /\ UNCHANGED <<target, wrote, step, occupied, answer, conn>>

(* The counts or the business rules differ from what they must be, or a    *)
(* query raises.                                                           *)
RecountFails(s) ==
    /\ pc[s] = "recounting"
    /\ \E c \in {conn[s], "lost"} : StatementFails(s, tx[s], c)
    /\ UNCHANGED <<target, step, occupied>>

CommitReturns(s) ==
    /\ pc[s] = "committing" /\ conn[s] = "open" /\ tx[s] = "committed"
    /\ Finish(s, "SUCCESS")
    /\ UNCHANGED <<target, server, step, occupied>>

(* Mutant: a commit() that raises is taken for a rollback. *)
CommitTakenBack(s) ==
    /\ pc[s] = "committing"
    /\ Finish(s, "SEED_EXECUTION")
    /\ UNCHANGED <<target, server, step, occupied>>

(* commit() raises: the server refused it, or the connection is gone and   *)
(* the server may have committed, or may yet.  transaction_started stays   *)
(* true and the handler rolls back.                                        *)
CommitRaises(s) ==
    /\ pc[s] = "committing"
    /\ \/ /\ conn[s] = "open" /\ tx[s] = "committing"
          /\ StatementFails(s, "aborted", "open")
       \/ StatementFails(s, tx[s], "lost")
    /\ UNCHANGED <<target, step, occupied>>

(* Any other exception during the transaction: only finally rolls back. *)
Unexpected(s) ==
    /\ pc[s] \in {"inserting", "recounting"}
    /\ GoTo(s, "rollback")
    /\ answer' = [answer EXCEPT ![s] = "UNHANDLED"]
    /\ UNCHANGED <<target, server, step, occupied, conn>>

RollbackReturns(s) ==
    /\ pc[s] = "rollback" /\ conn[s] = "open"
    /\ EndTx(s, "aborted")
    /\ Finish(s, answer[s])
    /\ UNCHANGED <<target, step, occupied>>

(* Mutant: a rollback that fails is ignored, like one that was not needed. *)
IgnoreRollbackError(s) ==
    /\ pc[s] = "rollback"
    /\ Finish(s, answer[s])
    /\ UNCHANGED <<target, server, step, occupied>>

(* Mutant: rollback() fails with the connection left usable, and unclosed. *)
LeakOnRollbackError(s) ==
    /\ pc[s] = "rollback"
    /\ GoTo(s, "done")
    /\ answer' = [answer EXCEPT ![s] = "UNHANDLED"]
    /\ UNCHANGED <<target, server, step, occupied, conn>>

(* rollback() raises on a dead connection, in the handler and again in     *)
(* finally: the driver's error escapes in place of SeedExecutionError and  *)
(* connection.close() is not reached.                                      *)
RollbackRaises(s) ==
    /\ pc[s] = "rollback"
    /\ GoTo(s, "done")
    /\ answer' = [answer EXCEPT ![s] = "UNHANDLED"]
    /\ conn' = [conn EXCEPT ![s] = "lost"]
    /\ UNCHANGED <<target, server, step, occupied>>

-----------------------------------------------------------------------------
(* The server, and somebody else. *)

(* The server carries out a COMMIT that reached it, client gone or not. *)
ServerCommit(s) ==
    /\ tx[s] = "committing"
    /\ rows' = [k \in Tables |-> IF k \in wrote[s] THEN rows[k] \cup {"seed"}
                                                   ELSE rows[k]]
    /\ EndTx(s, "committed")
    /\ UNCHANGED <<present, objects, pc, step, occupied, answer, conn>>

(* The connection is gone, the server restarts, or COMMIT does not arrive. *)
ServerAbort(s) ==
    /\ tx[s] \in {"open", "committing"}
    /\ EndTx(s, "aborted")
    /\ conn' = [conn EXCEPT ![s] = IF @ = "open" THEN "lost" ELSE @]
    /\ UNCHANGED <<target, pc, step, occupied, answer>>

(* Somebody else creates a table or view, or inserts a row of their own. *)
Intrude ==
    /\ Intrusion /\ present
    /\ \/ objects' = objects \cup {Other} /\ UNCHANGED rows
       \/ /\ \E k \in Tables \cap objects :
               rows' = [rows EXCEPT ![k] = @ \cup {"other"}]
          /\ UNCHANGED objects
    /\ UNCHANGED <<present, server, pc, step, occupied, answer, conn>>

-----------------------------------------------------------------------------
InitializerNext(i) ==
    \/ SelectTarget(i) \/ RefuseTarget(i)
    \/ CreateTable(i) \/ CreateFails(i) \/ AllCreated(i) \/ Inspect(i)

(* Steps of a seeder that only the keys of another seeder can hold up; a   *)
(* statement on a dead connection does raise, a duplicate key too.         *)
Proceed(s) ==
    \/ SelectDatabase(s) \/ ValidateStructure(s) \/ RefuseStructure(s)
    \/ CountTable(s) \/ RefuseOccupied(s) \/ AllEmpty(s) \/ Begin(s)
    \/ InsertRows(s) \/ AllInserted(s) \/ Recount(s) \/ CommitReturns(s)
    \/ pc[s] = "selecting" /\ ~present /\ PreflightFails(s)
    \/ /\ step[s] \in Tables
       /\ conn[s] = "lost" \/ "seed" \in rows[step[s]]
       /\ InsertFails(s)
    \/ /\ conn[s] = "lost" \/ \E k \in Tables : rows[k] # {}
       /\ RecountFails(s)
    \/ conn[s] = "lost" /\ CommitRaises(s)
    \/ RollbackReturns(s) \/ RollbackRaises(s)

SeederNext(s) ==
    \/ Proceed(s)
    \/ PreflightFails(s) \/ InsertFails(s) \/ RecountFails(s)
    \/ CommitRaises(s) \/ Unexpected(s)

ServerNext(s) == ServerCommit(s) \/ ServerAbort(s)

Next ==
    \/ \E r \in Runs : NotStarted(r) \/ Connect(r) \/ Crash(r)
    \/ \E i \in Initializers : InitializerNext(i)
    \/ \E s \in Seeders : SeederNext(s) \/ ServerNext(s)
    \/ Intrude

Spec == Init /\ [][Next]_vars

(* A run in progress is scheduled and its statements are answered (the     *)
(* timeouts of connect_server); the server ends a transaction whose COMMIT *)
(* it got or whose client is gone.                                         *)
Fairness ==
    /\ \A i \in Initializers : WF_vars(InitializerNext(i))
    /\ \A s \in Seeders :
         /\ WF_vars(Proceed(s))
         /\ WF_vars((conn[s] # "open" \/ tx[s] = "committing")
                      /\ ServerNext(s))

FairSpec == Spec /\ Fairness
=============================================================================
