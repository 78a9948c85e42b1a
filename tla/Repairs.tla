------------------------------ MODULE Repairs ------------------------------
(***************************************************************************)
(* Fault reports and the attempts to repair them, under the keys, foreign  *)
(* keys and CHECKs of sql/schema.sql, and the rules V13-V15 that           *)
(* src/labdb/verify.py diagnoses.  Ordinary SQL writers insert, update and *)
(* delete one row at a time; the server refuses what the schema forbids.   *)
(*                                                                         *)
(* A comparison with NULL is neither true nor false.  A CHECK lets a row   *)
(* pass unless it is false, a WHERE takes a row only if it is true, and    *)
(* both commute with AND and OR: in a CHECK a comparison with NULL counts  *)
(* as satisfied (the May operators), in a WHERE as not satisfied.          *)
(***************************************************************************)
EXTENDS Integers

CONSTANTS
    NoValue,
    Users, Managers, Workers,  \* keys of 用户, 实验室负责人, 维修人员
    ReportRows,     \* rows of 故障报修单 that writers use
    ExecutionRows,  \* rows of 执行维修 that writers use
    Text            \* a nonblank rejection reason

ASSUME RepairsAssumption ==
    /\ Managers \subseteq Users
    /\ NoValue \notin Users \cup Workers \cup {Text, "passed", "rework"}
    /\ \A r \in ReportRows : r.reported \in Int \ {NoValue}
    /\ \A e \in ExecutionRows :
         /\ e.started \in Int \ {NoValue}
         /\ e.completed \in Int \cup {NoValue} /\ e.accepted \in Int \cup {NoValue}

Opened  == "opened"   \* 待指派
Working == "working"  \* 维修中
Awaiting == "awaiting" \* 待验收
Done    == "done"     \* 已完成
Refused == "refused"  \* 拒绝

Results == {"passed", "rework"}  \* 通过, 返修

VARIABLES
    reports,    \* committed rows of 故障报修单
    executions  \* committed rows of 执行维修

-----------------------------------------------------------------------------
(* The schema. *)

MayBeIn(x, S) == x = NoValue \/ x \in S

MayFollow(x, y) == NoValue \notin {x, y} => x >= y

CheckReport(r) ==
    /\ MayFollow(r.planned, r.reported)
    /\ \/ r.state = Opened /\ r.worker = NoValue /\ r.planned = NoValue
          /\ r.reason = NoValue
       \/ r.state \in {Working, Awaiting, Done} /\ r.worker # NoValue
          /\ r.planned # NoValue /\ r.reason = NoValue
       \/ r.state = Refused /\ r.worker = NoValue /\ r.planned = NoValue
          /\ r.reason # NoValue

(* ck_maintenance_execution_completion. *)
CheckCompletion(e) ==
    \/ e.completed = NoValue /\ e.cost = NoValue
    \/ /\ e.completed # NoValue /\ e.cost # NoValue
       /\ MayFollow(e.completed, e.started) /\ MayFollow(e.cost, 0)

(* ck_maintenance_execution_acceptance. *)
CheckAcceptance(e) ==
    \/ e.result = NoValue /\ e.acceptor = NoValue /\ e.accepted = NoValue
    \/ /\ MayBeIn(e.result, Results)
       /\ e.acceptor # NoValue /\ e.accepted # NoValue /\ e.completed # NoValue
       /\ MayFollow(e.accepted, e.completed)

ReportKeys(r) ==
    /\ r.reporter \in Users /\ r.manager \in Managers
    /\ r.worker # NoValue => r.worker \in Workers

ExecutionKeys(e, rs) ==
    /\ \E r \in rs : r.id = e.report
    /\ e.worker \in Workers
    /\ e.acceptor # NoValue => e.acceptor \in Users

Identified(rows) == \A x, y \in rows : x.id = y.id => x = y

RepairSchema(rs, es) ==
    /\ Identified(rs) /\ Identified(es)
    /\ \A r \in rs : CheckReport(r) /\ ReportKeys(r)
    /\ \A e \in es :
         CheckCompletion(e) /\ CheckAcceptance(e) /\ ExecutionKeys(e, rs)

-----------------------------------------------------------------------------
(* The rules of verify.py: the rows each reports. *)

Attempts(r, es) == {e \in es : e.report = r.id}

V13(rs, es) ==
    {e \in es : \E r \in rs : r.id = e.report /\ e.started < r.reported}

(* Mutant: any manager may accept. *)
V14AnyManager(rs, es) ==
    {e \in es : \E r \in rs :
        /\ r.id = e.report /\ e.result # NoValue
        /\ e.acceptor # NoValue /\ e.acceptor \notin Managers \cup {r.reporter}}

V14(rs, es) ==
    {e \in es : \E r \in rs :
        /\ r.id = e.report /\ e.result # NoValue
        /\ e.acceptor # NoValue /\ e.acceptor \notin {r.reporter, r.manager}}

Unfinished(e) == e.completed = NoValue
Unaccepted(e) == e.completed # NoValue /\ e.result = NoValue

V15(rs, es) ==
    {r \in rs : LET tries == Attempts(r, es) IN
        \/ r.state \in {Opened, Refused} /\ tries # {}
        \/ r.state = Awaiting /\
             \/ ~ \E e \in tries : Unaccepted(e)
             \/ \E e \in tries : Unfinished(e)
        \/ r.state = Done /\
             \/ ~ \E e \in tries : e.result = "passed"
             \/ \E e \in tries : Unfinished(e) \/ Unaccepted(e)}

(* verify reports nothing. *)
RepairsSilent ==
    /\ V13(reports, executions) = {}
    /\ V14(reports, executions) = {}
    /\ V15(reports, executions) = {}

-----------------------------------------------------------------------------
RepairInit == reports = {} /\ executions = {}

(* What one INSERT, DELETE or UPDATE of one row makes of a table. *)
Written(table, rows) ==
    {table \cup {new} : new \in rows}
        \cup {table \ {old} : old \in table}
        \cup {(table \ {old}) \cup {new} : old \in table, new \in rows}

WriteReport ==
    /\ reports' \in {rs \in Written(reports, ReportRows) :
                       RepairSchema(rs, executions)}
    /\ UNCHANGED executions

WriteExecution ==
    /\ executions' \in {es \in Written(executions, ExecutionRows) :
                          RepairSchema(reports, es)}
    /\ UNCHANGED reports

RepairNext == WriteReport \/ WriteExecution

repairVars == <<reports, executions>>

RepairSpec == RepairInit /\ [][RepairNext]_repairVars
=============================================================================
