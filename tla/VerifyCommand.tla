---------------------------- MODULE VerifyCommand ----------------------------
(***************************************************************************)
(* `labdb verify` (main in src/labdb/cli.py): a process that makes the run *)
(* of Verification, prints what it reports, one line for each violation    *)
(* and one for their number, and exits.  Any of these prints may raise.    *)
(***************************************************************************)
EXTENDS VerificationProperties

ASSUME StatusAssumption == Nothing \notin 0 .. 2

VARIABLES
    printed,     \* violations printed
    summarized,  \* whether their number is
    exit         \* the exit status, Nothing before it

command == <<printed, summarized, exit>>

CommandInit ==
    /\ Init
    /\ printed = {} /\ summarized = FALSE /\ exit = Nothing

Over(how) == pc = "done" /\ answer \in how /\ exit = Nothing

PrintViolation ==
    /\ Over({"RESULT"})
    /\ \E v \in found \ printed : printed' = printed \cup {v}
    /\ UNCHANGED <<vars, summarized, exit>>

(* Mutant: only what an S01 names is a failure. *)
StructureStatus == IF StructuralIn(found) = {} THEN 0 ELSE 1

ResultStatus == IF found = {} THEN 0 ELSE 1

Summarize ==
    /\ Over({"RESULT"}) /\ printed = found
    /\ summarized' = TRUE
    /\ exit' = ResultStatus
    /\ UNCHANGED <<vars, printed>>

(* ConfigurationError, DatabaseConnectionError, VerificationError. *)
ReportError ==
    /\ Over({"NOT_STARTED", "ERROR"})
    /\ exit' = 2
    /\ UNCHANGED <<vars, printed, summarized>>

(* An exception that main does not catch, of verify_database or of print:  *)
(* a traceback, and Python's status.                                       *)
Escape ==
    /\ Over(Answers)
    /\ exit' = 1
    /\ UNCHANGED <<vars, printed, summarized>>

CommandNext ==
    \/ Next /\ UNCHANGED command
    \/ PrintViolation \/ Summarize \/ ReportError \/ Escape

CommandSpec == CommandInit /\ [][CommandNext]_<<vars, command>>

(* A run in progress is scheduled and its queries, which take no row       *)
(* locks, are answered (or raise: StatementFails, by the read timeout).    *)
FairCommandSpec == CommandSpec /\ WF_vars(Proceed)

-----------------------------------------------------------------------------
(* What a script learns from the exit status, whoever commits or alters    *)
(* tables beside it: after 0 there was, during the run, a committed state  *)
(* of the data that breaks no rule, and every facet of the structure was   *)
(* right at some time; 1 under a summary means that something was printed  *)
(* and all of it was so: S01s only, each of a difference there was, or the *)
(* complete list of violations of one committed state (cli.py:70-82).      *)
VerifyExitAgrees ==
    /\ exit = 0 =>
         /\ \E c \in during : AllFindings(c) = {}
         /\ Facets \subseteq matches
    /\ exit = 1 /\ summarized =>
         /\ printed # {}
         /\ \/ /\ printed = {S01(k) : k \in StructuralIn(printed)}
               /\ StructuralIn(printed) \subseteq drifts
            \/ \E c \in during : printed = AllFindings(c)
=============================================================================
