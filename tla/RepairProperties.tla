-------------------------- MODULE RepairProperties --------------------------
(***************************************************************************)
(* What the schema guarantees of fault reports and repairs, and what a     *)
(* verification without findings adds to it, stated over Repairs.          *)
(***************************************************************************)
EXTENDS Repairs

(* The inductive invariant: the writers keep the schema (the keys, foreign *)
(* keys and CHECKs of schema.sql:242-304).                                 *)
RepairSchemaKept ==
    /\ reports \subseteq ReportRows /\ executions \subseteq ExecutionRows
    /\ RepairSchema(reports, executions)

(* In a database that verifies, a repair that is done was reported,        *)
(* started, completed and accepted in this order, every attempt of it, and *)
(* accepted by somebody answerable for it, at least once as passed         *)
(* (V13-V15 with the CHECKs, verify.py:63-68, schema.sql:296-303).         *)
DoneMeansAccepted ==
    RepairsSilent =>
        \A r \in reports : r.state = Done =>
            /\ \E e \in Attempts(r, executions) : e.result = "passed"
            /\ \A e \in Attempts(r, executions) :
                 /\ e.acceptor \in {r.reporter, r.manager}
                 /\ r.reported <= e.started /\ e.started <= e.completed
                 /\ e.completed <= e.accepted

(* In a database that verifies, a report awaits acceptance only when all   *)
(* work on it is over, and some of it unaccepted (V15, verify.py:67-68).   *)
AwaitingMeansWorkOver ==
    RepairsSilent =>
        \A r \in reports : r.state = Awaiting =>
            LET tries == Attempts(r, executions) IN
            /\ \A e \in tries : e.completed # NoValue /\ e.cost # NoValue
            /\ \E e \in tries : e.result = NoValue

(* In a database that verifies, all work on a report was done by           *)
(* registered workers and after it was made, and the report is neither     *)
(* open nor refused: it has a worker and a plan (V13, V15, with            *)
(* schema.sql:263, 269-273, 292).  That it is this worker who did the work *)
(* no key, CHECK or rule says.                                             *)
WorkNeedsAssignment ==
    RepairsSilent =>
        \A r \in reports : \A e \in Attempts(r, executions) :
            /\ e.worker \in Workers /\ r.reported <= e.started
            /\ r.worker \in Workers /\ r.planned # NoValue
            /\ r.reason = NoValue
=============================================================================
