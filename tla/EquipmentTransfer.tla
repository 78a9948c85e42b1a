------------------------- MODULE EquipmentTransfer -------------------------
(***************************************************************************)
(* Concurrent calls of transfer_equipment (src/labdb/transactions.py)      *)
(* against one MySQL server, statement by statement: BEGIN, SELECT ... FOR *)
(* UPDATE on the equipment row, SELECT ... FOR SHARE on the target         *)
(* laboratory, UPDATE, INSERT, COMMIT, with every refusal, failed          *)
(* statement, failed rollback, lost COMMIT acknowledgement and process     *)
(* crash, and with reconcile_transfer_for_config reading the history back. *)
(*                                                                         *)
(* A call and the server transaction it opened are separate: the call may  *)
(* be over (answered, or its process dead) while the server still holds    *)
(* the transaction and its locks, or still has its COMMIT to process.      *)
(***************************************************************************)
EXTENDS Integers

CONSTANTS
    Attempts,      \* calls of transfer_equipment, each on a connection
    ConfigCalls,   \* those made through transfer_equipment_for_config
    OpenCallers,   \* those whose caller may have a transaction of its own
    Equipment,     \* equipment numbers that have a row
    EquipmentIds,  \* equipment numbers a caller may name
    LabIds,        \* laboratory numbers
    TransferIds,   \* transfer identifiers, in collation order
    Reasons,       \* nonblank reasons
    Blank,         \* any argument that _validate_nonblank refuses
    Requests,      \* the argument tuples callers use
    InitLocation,  \* equipment locations when the calls start
    InitLabs,      \* laboratory rows when the calls start
    InitHistory,   \* transfer records when the calls start (the seed has one)
    ClockSkew,     \* how far behind the latest reading a clock() may be
    None           \* no lock holder, no value fetched

RequestType ==
    [id : TransferIds \cup {Blank}, equipment : EquipmentIds \cup {Blank},
     source : LabIds \cup {Blank}, target : LabIds \cup {Blank},
     reason : Reasons \cup {Blank}]

Records ==
    [id : TransferIds, equipment : Equipment, source : LabIds,
     target : LabIds, reason : Reasons, time : Nat]

(* V16 in src/labdb/verify.py: the record of an equipment that no other    *)
(* record of it follows, by time and then by identifier, names its place.  *)
Follows(n, m) == n.time > m.time \/ (n.time = m.time /\ n.id > m.id)

LatestNamesPlace(hist, loc) ==
    \A m \in hist :
        (\A n \in hist : n.equipment = m.equipment => ~Follows(n, m))
            => loc[m.equipment] = m.target

ASSUME ConstantsAssumption ==
    /\ ConfigCalls \subseteq Attempts
    /\ OpenCallers \subseteq Attempts \ ConfigCalls
    /\ Equipment \subseteq EquipmentIds
    /\ TransferIds \subseteq Nat
    /\ Blank \notin TransferIds \cup EquipmentIds \cup LabIds \cup Reasons
    /\ Requests \subseteq RequestType
    /\ ClockSkew \in Nat
    /\ None \notin Attempts \cup LabIds

(* The database the calls start from satisfies its keys and V16. *)
ASSUME InitialDataAssumption ==
    /\ InitLabs \subseteq LabIds
    /\ InitLocation \in [Equipment -> InitLabs]
    /\ InitHistory \subseteq Records
    /\ \A h \in InitHistory :
         h.source \in InitLabs /\ h.target \in InitLabs /\ h.time = 0
    /\ \A g, h \in InitHistory : g.id = h.id => g = h
    /\ LatestNamesPlace(InitHistory, InitLocation)

VARIABLES
    location,  \* committed 实验设备.实验室编号
    labs,      \* committed rows of 实验室
    history,   \* committed rows of 设备移库记录
    tx,        \* server: state of the transaction on each connection
    rowLock,   \* server: holder of the exclusive lock on each equipment row
    labShare,  \* server: holders of shared locks on each laboratory row
    keyShare,  \* server: who asked for a shared lock on its identifier
    req,       \* call: its arguments
    pc,        \* call: where it is
    current,   \* call: the laboratory number its FOR UPDATE read fetched
    stamp,     \* call: transferred_at
    outcome,   \* call: result, or the exception it is about to raise
    conn,      \* call: its connection
    verdict,   \* what reconcile_transfer_for_config last said of the call
    clock      \* number of clock() readings so far

database == <<location, labs, history>>
locks    == <<rowLock, labShare, keyShare>>
vars == <<database, tx, locks, req, pc, current, stamp, outcome, conn,
          verdict, clock>>

PCs == {"idle", "locking", "checking", "updating", "stamping", "inserting",
        "inserted", "committing", "rollback", "done", "crashed"}

TxStates == {"none", "caller", "open", "updated", "inserted", "committing",
             "committed", "aborted"}

Failures ==
    {"INVALID_INPUT", "EQUIPMENT_NOT_FOUND", "TARGET_NOT_FOUND",
     "STALE_SOURCE", "SAME_SOURCE_TARGET", "TRANSFER_ID_CONFLICT",
     "TRANSACTION_ALREADY_ACTIVE", "DATABASE_ERROR"}

Unknown == "COMMIT_OUTCOME_UNKNOWN"

Outcomes == Failures \cup {"none", "SUCCESS", Unknown}

Verdicts == {"none", "MATCHING_COMMITTED", "NOT_FOUND", "TRANSFER_ID_CONFLICT"}

TypeOK ==
    /\ location \in [Equipment -> LabIds]
    /\ labs \in SUBSET LabIds
    /\ history \in SUBSET Records
    /\ tx \in [Attempts -> TxStates]
    /\ rowLock \in [Equipment -> Attempts \cup {None}]
    /\ labShare \in [LabIds -> SUBSET Attempts]
    /\ keyShare \in SUBSET Attempts
    /\ req \in [Attempts -> Requests]
    /\ pc \in [Attempts -> PCs]
    /\ current \in [Attempts -> LabIds \cup {None}]
    /\ stamp \in [Attempts -> Nat]
    /\ outcome \in [Attempts -> Outcomes]
    /\ conn \in [Attempts -> {"open", "lost", "closed"}]
    /\ verdict \in [Attempts -> Verdicts]
    /\ clock \in Nat

Init ==
    /\ location = InitLocation
    /\ labs = InitLabs
    /\ history = InitHistory
    /\ tx = [a \in Attempts |-> "none"]
    /\ rowLock = [e \in Equipment |-> None]
    /\ labShare = [l \in LabIds |-> {}]
    /\ keyShare = {}
    /\ req \in [Attempts -> Requests]
    /\ pc = [a \in Attempts |-> "idle"]
    /\ current = [a \in Attempts |-> None]
    /\ stamp = [a \in Attempts |-> 0]
    /\ outcome = [a \in Attempts |-> "none"]
    /\ conn = [a \in Attempts |-> "open"]
    /\ verdict = [a \in Attempts |-> "none"]
    /\ clock = 0

-----------------------------------------------------------------------------
(* Helpers. *)

(* _validate_transfer_input: no argument is blank or too long. *)
ValidInput(r) ==
    Blank \notin {r.id, r.equipment, r.source, r.target, r.reason}

(* The history row a call inserts. *)
Row(a) ==
    [id |-> req[a].id, equipment |-> req[a].equipment,
     source |-> req[a].source, target |-> req[a].target,
     reason |-> req[a].reason, time |-> stamp[a]]

(* The columns of a history row that reconciliation compares. *)
Payload(h) ==
    [id |-> h.id, equipment |-> h.equipment, source |-> h.source,
     target |-> h.target, reason |-> h.reason]

(* An exception inside the try block: the handler rolls back next. *)
Raise(a, code) ==
    /\ pc' = [pc EXCEPT ![a] = "rollback"]
    /\ outcome' = [outcome EXCEPT ![a] = code]

(* The call is over, its connection left in state c; the _for_config       *)
(* wrapper discards the connection in its finally clause.                  *)
Return(a, code, c) ==
    /\ pc' = [pc EXCEPT ![a] = "done"]
    /\ outcome' = [outcome EXCEPT ![a] = code]
    /\ conn' = [conn EXCEPT ![a] = IF a \in ConfigCalls THEN "closed" ELSE c]

(* InnoDB ends a transaction and releases its locks. *)
EndTx(a, state) ==
    /\ tx' = [tx EXCEPT ![a] = state]
    /\ rowLock' = [e \in Equipment |->
                     IF rowLock[e] = a THEN None ELSE rowLock[e]]
    /\ labShare' = [l \in LabIds |-> labShare[l] \ {a}]
    /\ keyShare' = keyShare \ {a}

-----------------------------------------------------------------------------
(* The caller of transfer_equipment, before and around the call. *)

(* A caller has its own transaction open on the connection it is about to  *)
(* pass, and holds an equipment row lock in it.                            *)
CallerBegins(a, e) ==
    /\ pc[a] = "idle" /\ a \in OpenCallers /\ tx[a] = "none"
    /\ rowLock[e] = None
    /\ tx' = [tx EXCEPT ![a] = "caller"]
    /\ rowLock' = [rowLock EXCEPT ![e] = a]
    /\ UNCHANGED <<database, labShare, keyShare, req, pc, current, stamp,
                   outcome, conn, verdict, clock>>

(* It commits or rolls back its own work. *)
CallerEnds(a) ==
    /\ tx[a] = "caller"
    /\ EndTx(a, "none")
    /\ UNCHANGED <<database, req, pc, current, stamp, outcome, conn, verdict,
                   clock>>

(* Lines before BEGIN: invalid arguments, then an active transaction. *)
RefuseInput(a) ==
    /\ pc[a] = "idle" /\ ~ValidInput(req[a])
    /\ Return(a, "INVALID_INPUT", conn[a])
    /\ UNCHANGED <<database, tx, locks, req, current, stamp, verdict, clock>>

(* Mutant: the active transaction of the caller is rolled back. *)
RefuseActiveRollsBack(a) ==
    /\ pc[a] = "idle" /\ ValidInput(req[a]) /\ tx[a] = "caller"
    /\ EndTx(a, "none")
    /\ Return(a, "TRANSACTION_ALREADY_ACTIVE", conn[a])
    /\ UNCHANGED <<database, req, current, stamp, verdict, clock>>

(* Mutant: the call goes on in the active transaction of the caller. *)
JoinActive(a) ==
    /\ pc[a] = "idle" /\ ValidInput(req[a]) /\ tx[a] = "caller"
    /\ tx' = [tx EXCEPT ![a] = "open"]
    /\ pc' = [pc EXCEPT ![a] = "locking"]
    /\ UNCHANGED <<database, locks, req, current, stamp, outcome, conn,
                   verdict, clock>>

(* The caller's transaction is seen, or the connection's state cannot be   *)
(* read; either way nothing is sent to the server.                         *)
RefuseActive(a) ==
    /\ pc[a] = "idle" /\ ValidInput(req[a]) /\ tx[a] = "caller"
    /\ \E code \in {"TRANSACTION_ALREADY_ACTIVE", "DATABASE_ERROR"} :
         Return(a, code, conn[a])
    /\ UNCHANGED <<database, tx, locks, req, current, stamp, verdict, clock>>

Begin(a) ==
    /\ pc[a] = "idle" /\ ValidInput(req[a]) /\ tx[a] = "none"
    /\ tx' = [tx EXCEPT ![a] = "open"]
    /\ pc' = [pc EXCEPT ![a] = "locking"]
    /\ UNCHANGED <<database, locks, req, current, stamp, outcome, conn,
                   verdict, clock>>

(* transfer_equipment_for_config connects and selects the database before  *)
(* anything is validated; either may fail.                                 *)
OpenFails(a) ==
    /\ pc[a] = "idle" /\ a \in ConfigCalls
    /\ Return(a, "DATABASE_ERROR", "closed")
    /\ UNCHANGED <<database, tx, locks, req, current, stamp, verdict, clock>>

(* The connection's state cannot be read, or BEGIN fails: refused by the   *)
(* server, or its answer never came back, and then the server may have     *)
(* begun the transaction.                                                  *)
BeginFails(a) ==
    /\ pc[a] = "idle" /\ ValidInput(req[a]) /\ tx[a] = "none"
    /\ \/ Return(a, "DATABASE_ERROR", "open") /\ UNCHANGED tx
       \/ /\ Return(a, "DATABASE_ERROR", "lost")
          /\ \E s \in {"none", "open"} : tx' = [tx EXCEPT ![a] = s]
    /\ UNCHANGED <<database, locks, req, current, stamp, verdict, clock>>

-----------------------------------------------------------------------------
(* Inside the try block: one action per statement and per refusal. *)

(* Mutant: SELECT without FOR UPDATE. *)
SelectUnlocked(a) ==
    /\ pc[a] = "locking" /\ conn[a] = "open"
    /\ req[a].equipment \in Equipment
    /\ current' = [current EXCEPT ![a] = location[req[a].equipment]]
    /\ pc' = [pc EXCEPT ![a] = "checking"]
    /\ UNCHANGED <<database, tx, locks, req, stamp, outcome, conn, verdict,
                   clock>>

(* SELECT ... FOR UPDATE returns the row, once nobody else has it locked. *)
SelectEquipment(a) ==
    LET e == req[a].equipment IN
    /\ pc[a] = "locking" /\ conn[a] = "open"
    /\ e \in Equipment
    /\ rowLock[e] = None
    /\ rowLock' = [rowLock EXCEPT ![e] = a]
    /\ current' = [current EXCEPT ![a] = location[e]]
    /\ pc' = [pc EXCEPT ![a] = "checking"]
    /\ UNCHANGED <<database, tx, labShare, keyShare, req, stamp, outcome, conn,
                   verdict, clock>>

EquipmentMissing(a) ==
    /\ pc[a] = "locking" /\ conn[a] = "open"
    /\ req[a].equipment \notin Equipment
    /\ Raise(a, "EQUIPMENT_NOT_FOUND")
    /\ UNCHANGED <<database, tx, locks, req, current, stamp, conn, verdict,
                   clock>>

RefuseStale(a) ==
    /\ pc[a] = "checking"
    /\ current[a] # req[a].source
    /\ Raise(a, "STALE_SOURCE")
    /\ UNCHANGED <<database, tx, locks, req, current, stamp, conn, verdict,
                   clock>>

RefuseSame(a) ==
    /\ pc[a] = "checking"
    /\ current[a] = req[a].source /\ req[a].source = req[a].target
    /\ Raise(a, "SAME_SOURCE_TARGET")
    /\ UNCHANGED <<database, tx, locks, req, current, stamp, conn, verdict,
                   clock>>

(* Both refusals passed: SELECT ... FOR SHARE is the outstanding statement. *)
SourceAccepted(a) ==
    /\ pc[a] = "checking"
    /\ current[a] = req[a].source /\ req[a].source # req[a].target

TargetMissing(a) ==
    /\ SourceAccepted(a) /\ conn[a] = "open"
    /\ req[a].target \notin labs
    /\ Raise(a, "TARGET_NOT_FOUND")
    /\ UNCHANGED <<database, tx, locks, req, current, stamp, conn, verdict,
                   clock>>

(* Mutant: SELECT without FOR SHARE. *)
TargetUnlocked(a) ==
    /\ SourceAccepted(a) /\ conn[a] = "open"
    /\ req[a].target \in labs
    /\ pc' = [pc EXCEPT ![a] = "updating"]
    /\ UNCHANGED <<database, tx, locks, req, current, stamp, outcome, conn,
                   verdict, clock>>

ShareTarget(a) ==
    LET l == req[a].target IN
    /\ SourceAccepted(a) /\ conn[a] = "open"
    /\ l \in labs
    /\ labShare' = [labShare EXCEPT ![l] = @ \cup {a}]
    /\ pc' = [pc EXCEPT ![a] = "updating"]
    /\ UNCHANGED <<database, tx, rowLock, keyShare, req, current, stamp,
                   outcome, conn, verdict, clock>>

(* UPDATE takes the row lock if it is not held and, as the foreign key      *)
(* wants, a shared lock on the target row; it is not visible to others yet. *)
UpdateLocation(a) ==
    LET e == req[a].equipment
        l == req[a].target
    IN
    /\ pc[a] = "updating" /\ conn[a] = "open"
    /\ rowLock[e] \in {None, a} /\ l \in labs
    /\ rowLock' = [rowLock EXCEPT ![e] = a]
    /\ labShare' = [labShare EXCEPT ![l] = @ \cup {a}]
    /\ tx' = [tx EXCEPT ![a] = "updated"]
    /\ pc' = [pc EXCEPT ![a] = "stamping"]
    /\ UNCHANGED <<database, keyShare, req, current, stamp, outcome, conn,
                   verdict, clock>>

(* Mutant: a column without fractional seconds, where readings can tie. *)
ReadCoarseClock(a) ==
    /\ pc[a] = "stamping"
    /\ stamp' = [stamp EXCEPT ![a] = (clock + 2) \div 2]
    /\ clock' = clock + 1
    /\ pc' = [pc EXCEPT ![a] = "inserting"]
    /\ UNCHANGED <<database, tx, locks, req, current, outcome, conn, verdict>>

(* clock() under the row lock; machines' clocks differ by up to ClockSkew. *)
ReadClock(a) ==
    /\ pc[a] = "stamping"
    /\ \E t \in (clock + 1 - ClockSkew .. clock + 1) \cap Nat :
         stamp' = [stamp EXCEPT ![a] = t]
    /\ clock' = clock + 1
    /\ pc' = [pc EXCEPT ![a] = "inserting"]
    /\ UNCHANGED <<database, tx, locks, req, current, outcome, conn, verdict>>

(* clock() raises, or returns something that is not an aware datetime. *)
ClockRefused(a) ==
    /\ pc[a] = "stamping"
    /\ \E code \in {"INVALID_INPUT", "DATABASE_ERROR"} : Raise(a, code)
    /\ UNCHANGED <<database, tx, locks, req, current, stamp, conn, verdict,
                   clock>>

(* INSERT and the primary key, in InnoDB: an INSERT that finds its          *)
(* identifier asks for a shared lock on it, and has it once the record is  *)
(* committed (error 1062) or gone.  Then it, and any other INSERT, needs a *)
(* place that no other transaction's shared lock covers: up to the records *)
(* next to the identifier of the lock.                                     *)
Inserted(b) == tx[b] \in {"inserted", "committing"}

KeyPending(a) ==
    \E b \in Attempts \ {a} : Inserted(b) /\ req[b].id = req[a].id

KeyUsed(a) == \E h \in history : h.id = req[a].id

(* No record but b's own stands between its identifier and that of a. *)
Covers(b, a) ==
    LET i == req[a].id
        k == req[b].id
        Stands(r) == (i < r /\ r < k) \/ (k <= r /\ r < i)
    IN /\ \A h \in history : ~Stands(h.id)
       /\ \A c \in Attempts \ {b} : Inserted(c) => ~Stands(req[c].id)

InsertWaitsFor(a, b) ==
    /\ b # a /\ ~KeyUsed(a)
    /\ \/ Inserted(b) /\ req[b].id = req[a].id
       \/ ~KeyPending(a) /\ b \in keyShare /\ Covers(b, a)

AskForKey(a) ==
    /\ pc[a] = "inserting" /\ conn[a] = "open"
    /\ KeyPending(a) /\ a \notin keyShare
    /\ keyShare' = keyShare \cup {a}
    /\ UNCHANGED <<database, tx, rowLock, labShare, req, pc, current, stamp,
                   outcome, conn, verdict, clock>>

(* Mutant: no primary key on the transfer identifier. *)
InsertWithoutKey(a) ==
    /\ pc[a] = "inserting" /\ conn[a] = "open"
    /\ tx' = [tx EXCEPT ![a] = "inserted"]
    /\ pc' = [pc EXCEPT ![a] = "inserted"]
    /\ UNCHANGED <<database, locks, req, current, stamp, outcome, conn,
                   verdict, clock>>

InsertHistory(a) ==
    /\ pc[a] = "inserting" /\ conn[a] = "open"
    /\ ~KeyUsed(a)
    /\ \A b \in Attempts : ~InsertWaitsFor(a, b)
    /\ tx' = [tx EXCEPT ![a] = "inserted"]
    /\ pc' = [pc EXCEPT ![a] = "inserted"]
    /\ UNCHANGED <<database, locks, req, current, stamp, outcome, conn,
                   verdict, clock>>

DuplicateId(a) ==
    /\ pc[a] = "inserting" /\ conn[a] = "open"
    /\ KeyUsed(a)
    /\ Raise(a, "TRANSFER_ID_CONFLICT")
    /\ keyShare' = keyShare \cup {a}
    /\ UNCHANGED <<database, tx, rowLock, labShare, req, current, stamp, conn,
                   verdict, clock>>

(* A statement is outstanding on the connection. *)
Outstanding(a) ==
    \/ pc[a] \in {"locking", "updating", "inserting"}
    \/ SourceAccepted(a)

(* It raises anything but error 1062 (or the UPDATE reports another row     *)
(* count than 1): the transaction is intact (lock wait timeout), rolled     *)
(* back whole by the server (deadlock victim), or the connection is gone.   *)
StatementFails(a) ==
    /\ Outstanding(a)
    /\ Raise(a, "DATABASE_ERROR")
    /\ \/ conn[a] = "open" /\ UNCHANGED <<tx, locks, conn>>
       \/ conn[a] = "open" /\ EndTx(a, "aborted") /\ UNCHANGED conn
       \/ conn' = [conn EXCEPT ![a] = "lost"] /\ UNCHANGED <<tx, locks>>
    /\ UNCHANGED <<database, req, current, stamp, verdict, clock>>

-----------------------------------------------------------------------------
(* The exception handlers: roll back, and raise the mapped error. *)

RollbackReturns(a) ==
    /\ pc[a] = "rollback" /\ conn[a] = "open"
    /\ EndTx(a, "aborted")
    /\ Return(a, outcome[a], "open")
    /\ UNCHANGED <<database, req, current, stamp, verdict, clock>>

(* Mutant: an unconfirmed rollback leaves the connection as it was. *)
RollbackKeepsConnection(a) ==
    /\ pc[a] = "rollback"
    /\ Return(a, "DATABASE_ERROR", conn[a])
    /\ UNCHANGED <<database, tx, locks, req, current, stamp, verdict, clock>>

(* rollback() raises: the connection is discarded and the original error   *)
(* replaced; whether the server rolled back is not known.                  *)
RollbackRaises(a) ==
    /\ pc[a] = "rollback"
    /\ Return(a, "DATABASE_ERROR", "closed")
    /\ UNCHANGED <<database, tx, locks, req, current, stamp, verdict, clock>>

-----------------------------------------------------------------------------
(* COMMIT. *)

SendCommit(a) ==
    /\ pc[a] = "inserted"
    /\ pc' = [pc EXCEPT ![a] = "committing"]
    /\ tx' = [tx EXCEPT ![a] =
                IF @ = "inserted" /\ conn[a] = "open" THEN "committing" ELSE @]
    /\ UNCHANGED <<database, locks, req, current, stamp, outcome, conn,
                   verdict, clock>>

CommitReturns(a) ==
    /\ pc[a] = "committing" /\ tx[a] = "committed" /\ conn[a] = "open"
    /\ Return(a, "SUCCESS", "open")
    /\ UNCHANGED <<database, tx, locks, req, current, stamp, verdict, clock>>

(* Mutant: a COMMIT exception is reported as a definite failure. *)
CommitFailsForSure(a) ==
    /\ pc[a] = "committing"
    /\ Return(a, "DATABASE_ERROR", "closed")
    /\ UNCHANGED <<database, tx, locks, req, current, stamp, verdict, clock>>

(* commit() raises, whatever the server did or may still do. *)
CommitRaises(a) ==
    /\ pc[a] = "committing"
    /\ Return(a, Unknown, "closed")
    /\ UNCHANGED <<database, tx, locks, req, current, stamp, verdict, clock>>

-----------------------------------------------------------------------------
(* The server and the world around the calls. *)

(* Mutant: the history row is not part of the transaction. *)
CommitWithoutHistory(a) ==
    /\ tx[a] = "committing"
    /\ location' = [location EXCEPT ![req[a].equipment] = req[a].target]
    /\ EndTx(a, "committed")
    /\ UNCHANGED <<labs, history, req, pc, current, stamp, outcome, conn,
                   verdict, clock>>

(* The server carries out a COMMIT that reached it, client gone or not. *)
ServerCommit(a) ==
    /\ tx[a] = "committing"
    /\ location' = [location EXCEPT ![req[a].equipment] = req[a].target]
    /\ history' = history \cup {Row(a)}
    /\ EndTx(a, "committed")
    /\ UNCHANGED <<labs, req, pc, current, stamp, outcome, conn, verdict,
                   clock>>

(* The server rolls back a transaction: its connection is gone or killed,  *)
(* the server restarts, or a COMMIT fails or never arrives.                *)
ServerAbort(a) ==
    /\ tx[a] \in {"open", "updated", "inserted", "committing"}
    /\ EndTx(a, "aborted")
    /\ conn' = [conn EXCEPT ![a] = IF @ = "open" THEN "lost" ELSE @]
    /\ UNCHANGED <<database, req, pc, current, stamp, outcome, verdict, clock>>

(* The calling process dies. *)
ClientCrash(a) ==
    /\ pc[a] \notin {"idle", "done", "crashed"}
    /\ pc' = [pc EXCEPT ![a] = "crashed"]
    /\ conn' = [conn EXCEPT ![a] = "lost"]
    /\ UNCHANGED <<database, tx, locks, req, current, stamp, outcome, verdict,
                   clock>>

(* Mutant: only the identifier is looked up, the payload not compared. *)
ReconcileById(a) ==
    /\ ValidInput(req[a])
    /\ pc[a] = "crashed" \/ (pc[a] = "done" /\ outcome[a] = Unknown)
    /\ verdict' = [verdict EXCEPT ![a] =
                     IF \E h \in history : h.id = req[a].id
                     THEN "MATCHING_COMMITTED" ELSE "NOT_FOUND"]
    /\ UNCHANGED <<database, tx, locks, req, pc, current, stamp, outcome, conn,
                   clock>>

(* reconcile_transfer_for_config on a new connection, for a call whose     *)
(* outcome its caller does not know: one consistent read of the record.    *)
Reconcile(a) ==
    /\ ValidInput(req[a])
    /\ pc[a] = "crashed" \/ (pc[a] = "done" /\ outcome[a] = Unknown)
    /\ \/ /\ \A h \in history : h.id # req[a].id
          /\ verdict' = [verdict EXCEPT ![a] = "NOT_FOUND"]
       \/ \E h \in history :
            /\ h.id = req[a].id
            /\ verdict' = [verdict EXCEPT ![a] =
                   IF Payload(h) = req[a] THEN "MATCHING_COMMITTED"
                                          ELSE "TRANSFER_ID_CONFLICT"]
    /\ UNCHANGED <<database, tx, locks, req, pc, current, stamp, outcome, conn,
                   clock>>

(* Somebody deletes a laboratory that no row references (the foreign keys  *)
(* are ON DELETE RESTRICT) and nobody has share-locked, or adds one.       *)
DropLab(l) ==
    /\ l \in labs /\ labShare[l] = {}
    /\ \A e \in Equipment : location[e] # l
    /\ \A h \in history : l \notin {h.source, h.target}
    /\ labs' = labs \ {l}
    /\ UNCHANGED <<location, history, tx, locks, req, pc, current, stamp,
                   outcome, conn, verdict, clock>>

AddLab(l) ==
    /\ l \in LabIds \ labs
    /\ labs' = labs \cup {l}
    /\ UNCHANGED <<location, history, tx, locks, req, pc, current, stamp,
                   outcome, conn, verdict, clock>>

-----------------------------------------------------------------------------
(* Steps of a call that nothing but the locks and keys of other             *)
(* transactions can hold up; a statement on a dead connection does raise.   *)
Proceed(a) ==
    \/ SelectEquipment(a) \/ EquipmentMissing(a)
    \/ RefuseStale(a) \/ RefuseSame(a) \/ TargetMissing(a) \/ ShareTarget(a)
    \/ UpdateLocation(a) \/ ReadClock(a)
    \/ AskForKey(a) \/ InsertHistory(a) \/ DuplicateId(a)
    \/ conn[a] = "lost" /\ StatementFails(a)
    \/ SendCommit(a) \/ CommitReturns(a)
    \/ conn[a] = "lost" /\ CommitRaises(a)
    \/ RollbackReturns(a) \/ RollbackRaises(a)

ClientNext(a) ==
    \/ \E e \in Equipment : CallerBegins(a, e)
    \/ CallerEnds(a)
    \/ RefuseInput(a) \/ RefuseActive(a)
    \/ Begin(a) \/ OpenFails(a) \/ BeginFails(a)
    \/ Proceed(a)
    \/ StatementFails(a) \/ ClockRefused(a) \/ CommitRaises(a)
    \/ ClientCrash(a) \/ Reconcile(a)

ServerNext(a) == ServerCommit(a) \/ ServerAbort(a)

LabsNext == \E l \in LabIds : DropLab(l) \/ AddLab(l)

Next ==
    \/ \E a \in Attempts : ClientNext(a) \/ ServerNext(a)
    \/ LabsNext

Spec == Init /\ [][Next]_vars

(* INSERTs of two calls that wait for each other's shared locks. *)
Deadlocked(a) ==
    /\ pc[a] = "inserting" /\ conn[a] = "open"
    /\ \E b \in Attempts :
         /\ pc[b] = "inserting" /\ conn[b] = "open"
         /\ InsertWaitsFor(a, b) /\ InsertWaitsFor(b, a)

(* A call in progress keeps running: its process is scheduled, a statement *)
(* that can proceed is answered, and one on a dead connection raises (the  *)
(* read and write timeouts of connect_server).  The server ends a          *)
(* transaction whose COMMIT it got or whose client is gone, and fails a    *)
(* statement of a deadlock.  No fairness on other failures of a live       *)
(* connection, lock timeouts among them, on crashes, on the start of a     *)
(* call, on administrators or on reconciliations.                          *)
LostOrCommitting(a) == conn[a] # "open" \/ tx[a] = "committing"

Fairness ==
    /\ \A a \in Attempts :
         /\ WF_vars(Proceed(a))
         /\ WF_vars(LostOrCommitting(a) /\ ServerNext(a))
    /\ WF_vars(\E a \in Attempts : Deadlocked(a) /\ StatementFails(a))

FairSpec == Spec /\ Fairness
=============================================================================
