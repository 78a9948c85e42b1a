----------------------------- MODULE SeedLedger -----------------------------
(***************************************************************************)
(* What seed_database promises, with no connection, statement or count in  *)
(* sight: of all the runs that are ever made one fills every table in one  *)
(* indivisible step, the others have no effect at all, and the answer of a *)
(* run never contradicts which of the two happened, or will.               *)
(* DatabaseSetup implements this module (docs/design-decisions.md,         *)
(* "Initialization and deterministic seeding").                            *)
(***************************************************************************)
EXTENDS Naturals

CONSTANTS
    Seeders,  \* the runs of seed_database made in a behaviour
    Tables    \* the tables that seed.sql fills

VARIABLES
    rows,     \* whose rows each table has: those of the seed, or others
    applied,  \* whether the seed of a run has become durable
    answer    \* how a run ended, or "none"

vars == <<rows, applied, answer>>

(* Answers that say the run had no effect. *)
NoEffect == {"REFUSED", "NOT_STARTED", "SEED_EXECUTION"}

Init ==
    /\ rows = [k \in Tables |-> {}]
    /\ applied = [s \in Seeders |-> FALSE]
    /\ answer = [s \in Seeders |-> "none"]

(* The seed becomes durable as a whole, once and for all.  Only a run that *)
(* has not ended, or has ended in an exception that says nothing of the    *)
(* transaction, may still see that happen.                                 *)
Apply(s) ==
    /\ \A t \in Seeders : ~applied[t]
    /\ answer[s] \in {"none", "UNHANDLED"}
    /\ rows' = [k \in Tables |-> rows[k] \cup {"seed"}]
    /\ applied' = [applied EXCEPT ![s] = TRUE]
    /\ UNCHANGED answer

(* A run ends with something that agrees with what happened so far. *)
Answer(s) ==
    /\ answer[s] = "none"
    /\ \/ applied[s] /\ answer' = [answer EXCEPT ![s] = "SUCCESS"]
       \/ ~applied[s] /\ \E r \in NoEffect : answer' = [answer EXCEPT ![s] = r]
       \/ answer' = [answer EXCEPT ![s] = "UNHANDLED"]
    /\ UNCHANGED <<rows, applied>>

(* Somebody else inserts a row of their own. *)
Insert(k) ==
    /\ rows' = [rows EXCEPT ![k] = @ \cup {"other"}]
    /\ UNCHANGED <<applied, answer>>

Next ==
    \/ \E s \in Seeders : Apply(s) \/ Answer(s)
    \/ \E k \in Tables : Insert(k)

Spec == Init /\ [][Next]_vars
=============================================================================
