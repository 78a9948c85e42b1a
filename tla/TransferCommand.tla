--------------------------- MODULE TransferCommand ---------------------------
(***************************************************************************)
(* `labdb transfer` (main in src/labdb/cli.py): every call that            *)
(* EquipmentTransfer makes through transfer_equipment_for_config is a      *)
(* process that writes one line and exits.  Writing the line may raise: a  *)
(* stream may be closed or full, and standard output may be unable to      *)
(* encode an identifier.  (A flush that fails as the process exits, after  *)
(* main, is left out.)                                                     *)
(***************************************************************************)
EXTENDS TransferProperties

ASSUME StatusAssumption == None \notin 0 .. 2

VARIABLES
    line,  \* the code in the line a command wrote
    exit   \* its exit status, None before it exits

command == <<line, exit>>

CommandInit ==
    /\ Init
    /\ line = [a \in ConfigCalls |-> "none"]
    /\ exit = [a \in ConfigCalls |-> None]

(* Mutant: whatever is not a success is a 1. *)
PlainStatus(code) == IF code = "SUCCESS" THEN 0 ELSE 1

(* The except clauses: CommitOutcomeUnknown, TransferRefused, then the     *)
(* errors of configuration, connection and database.                       *)
Status(code) ==
    CASE code = "SUCCESS"                   -> 0
      [] code \in {Unknown, "DATABASE_ERROR"} -> 2
      [] OTHER                              -> 1

Report(a) ==
    /\ pc[a] = "done" /\ exit[a] = None
    /\ line' = [line EXCEPT ![a] = outcome[a]]
    /\ exit' = [exit EXCEPT ![a] = Status(outcome[a])]
    /\ UNCHANGED vars

(* print raises, which nothing catches: a traceback, and Python's status.  *)
ReportRaises(a) ==
    /\ pc[a] = "done" /\ exit[a] = None
    /\ exit' = [exit EXCEPT ![a] = 1]
    /\ UNCHANGED <<vars, line>>

CommandNext ==
    \/ Next /\ UNCHANGED command
    \/ \E a \in ConfigCalls : Report(a) \/ ReportRaises(a)

CommandSpec == CommandInit /\ [][CommandNext]_<<vars, command>>

-----------------------------------------------------------------------------
(* What a script learns from the exit status, while the server may still   *)
(* be at the COMMIT: 0 is a durable move; 1 under a line that names a      *)
(* refusal is a call that changed nothing and never will; and a move that  *)
(* is or may yet be applied is reported by 0, by 2, or without its line    *)
(* (cli.py:79-107).                                                        *)
ExitAgrees ==
    \A a \in ConfigCalls :
        /\ exit[a] = 0 => tx[a] = "committed" /\ Row(a) \in history
        /\ exit[a] = 1 /\ line[a] # "none" =>
             /\ tx[a] \notin {"committing", "committed"}
             /\ line[a] \in Failures
=============================================================================
