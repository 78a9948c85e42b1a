-------------------------- MODULE SetupProperties --------------------------
(***************************************************************************)
(* What initialize_database and seed_database guarantee, stated over       *)
(* DatabaseSetup.                                                          *)
(***************************************************************************)
EXTENDS DatabaseSetup

Seeded(k) == "seed" \in rows[k]

(* The committed seed is all of seed.sql or none of it, whatever fails and *)
(* whoever else is seeding (seed.py:106-121).                              *)
SeedAllOrNothing ==
    (\A k \in Tables : Seeded(k)) \/ (\A k \in Tables : ~Seeded(k))

(* Of any number of concurrent seed runs at most one is ever committed:    *)
(* the row counts of the preflight (seed.py:100) do not exclude a second   *)
(* one, the keys it inserts do.                                            *)
SeededOnce ==
    \A s, t \in Seeders : tx[s] = "committed" /\ tx[t] = "committed" => s = t

(* A result means that the seed is durable; SeedRefused, and a             *)
(* SeedExecutionError that says the seed was rolled back, mean that        *)
(* nothing of this run is or will be, a COMMIT under way included          *)
(* (seed.py:120-134).                                                      *)
SeedAnswerAgrees ==
    \A s \in Seeders : pc[s] = "done" =>
        /\ answer[s] = "SUCCESS" =>
             tx[s] = "committed" /\ \A k \in Tables : Seeded(k)
        /\ answer[s] \in {"REFUSED", "NOT_STARTED", "SEED_EXECUTION"} =>
             tx[s] \notin {"committing", "committed"}

(* At most one initializer gets past the first CREATE TABLE, though any    *)
(* number may have found the target empty (initialize.py:150, 366); and    *)
(* one that reports success has created every table itself.                *)
OneInitializer ==
    /\ \A i, j \in Initializers : step[i] > 1 /\ step[j] > 1 => i = j
    /\ \A i \in Initializers :
         answer[i] = "SUCCESS" => step[i] = Last + 1 /\ Tables \subseteq objects

(* A run that started to talk to the server ends, unless its process dies: *)
(* no seeder waits for ever for the keys of another, be that one dead or   *)
(* unable to roll back (seed.py:131-134).                                  *)
SetupReturns ==
    \A r \in Runs :
        pc[r] \notin {"idle", "done", "crashed"} ~> pc[r] \in {"done", "crashed"}

(* The docstring of SeedExecutionError (seed.py:33): "Raised after a       *)
(* complete transaction rollback."                                         *)
SeedErrorMeansRolledBack ==
    \A s \in Seeders :
        pc[s] = "done" /\ answer[s] = "SEED_EXECUTION" => tx[s] = "aborted"

-----------------------------------------------------------------------------
(* Refinement: every behaviour is one of SeedLedger, in which the seed is  *)
(* a single step of one run and answers never contradict it                *)
(* (seed.py:100-134).                                                      *)
Promise == INSTANCE SeedLedger WITH
    applied <- [s \in Seeders |-> tx[s] = "committed"],
    answer  <- [s \in Seeders |-> IF pc[s] = "done" THEN answer[s] ELSE "none"]

ImplementsSeedLedger == Promise!Spec

-----------------------------------------------------------------------------
(* The inductive invariant behind the safety properties, in named parts. *)

Early == {"idle", "preflight", "creating", "inspecting", "selecting",
          "validating", "counting", "beginning"}

(* Where a seeder is determines what its transaction may be. *)
SeederPhase ==
    \A s \in Seeders :
        /\ pc[s] \in Early => tx[s] = "none"
        /\ pc[s] \in {"inserting", "recounting"} =>
             /\ tx[s] \in {"open", "aborted"}
             /\ conn[s] = "open" => tx[s] = "open"
        /\ pc[s] = "committing" =>
             tx[s] \in {"committing", "committed", "aborted"}
        /\ pc[s] = "rollback" =>
             /\ answer[s] \in {"SEED_EXECUTION", "UNHANDLED"}
             /\ conn[s] = "open" => tx[s] \in {"open", "aborted"}
        /\ pc[s] = "done" =>
             /\ answer[s] \in Promise!NoEffect \cup {"SUCCESS", "UNHANDLED"}
             /\ answer[s] = "SUCCESS" => tx[s] = "committed"
             /\ answer[s] \in {"REFUSED", "NOT_STARTED", "SEED_EXECUTION"} =>
                  tx[s] \in {"none", "aborted"}

(* Uncommitted seed rows belong to one live transaction, and are not among *)
(* the committed ones; a COMMIT on its way has all of them.                *)
KeysHeld ==
    \A s \in Seeders :
        /\ wrote[s] # {} => tx[s] \in {"open", "committing"}
        /\ tx[s] = "committing" => wrote[s] = Tables
        /\ \A k \in wrote[s] : ~Seeded(k)
        /\ \A t \in Seeders \ {s} : wrote[s] \cap wrote[t] = {}

(* The committed seed rows are those of the one committed seeder. *)
SeedsCommitted ==
    /\ \A s \in Seeders : tx[s] = "committed" => \A k \in Tables : Seeded(k)
    /\ \A k \in Tables : Seeded(k) => \E s \in Seeders : tx[s] = "committed"

(* What an initializer has created is there, and it ended after the last. *)
InitializerPhase ==
    \A i \in Initializers :
        /\ 1 .. step[i] - 1 \subseteq objects
        /\ pc[i] = "inspecting" => step[i] = Last + 1
        /\ pc[i] \in Early => answer[i] # "SUCCESS"

SetupInv ==
    /\ TypeOK
    /\ SeederPhase
    /\ KeysHeld
    /\ SeedsCommitted
    /\ SeededOnce
    /\ InitializerPhase
    /\ OneInitializer
=============================================================================
